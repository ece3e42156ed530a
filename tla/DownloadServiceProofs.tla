------------------------ MODULE DownloadServiceProofs ------------------------
(***************************************************************************)
(* The download manager implements DownloadService: what happens in the    *)
(* queues, slots, processes and sockets shows to the calls of download()   *)
(* as the steps of the service, and as nothing else.                       *)
(*                                                                         *)
(* The service promises what a reply means, so that the invariant follows  *)
(* a result all the way: from the file of the performer to its message     *)
(* (FilesArePlaced), to the reply (RepliesAreTrue), to the acknowledgement *)
(* of the call (AcksAreTrue) and to the final result; a failure, from the  *)
(* first reply for a URI to the answer of the entity (FailuresLast).  What *)
(* the worker said stays true after its death, when clients go on reading; *)
(* so only ServingInv, about its own variables, depends on its life.       *)
(***************************************************************************)
EXTENDS DownloadManagerProofs

-----------------------------------------------------------------------------
(* What a call knows about its entities *)

\* How many URIs of e were requested.
Tried(e) == Len(Uris[e]) - Len(remaining[e])

\* URIs are requested in the order of the entity, and nothing is known about an
\* entity before the last reply.
TriedInOrder ==
  /\ \A e \in Entity :
       /\ Len(remaining[e]) <= Len(Uris[e])
       /\ \A i \in 1 .. Len(remaining[e]) : remaining[e][i] = Uris[e][Tried(e) + i]
  /\ \A e \in unscheduled : outcome[e] = NoResult /\ remaining[e] = Uris[e]

\* What is waited for is the URI requested last, of an entity without outcome.
WaitedIsCurrent ==
  \A c \in Client, u \in Uri, e \in Entity : waited[c][u] = e =>
    outcome[e] = NoResult /\ Tried(e) >= 1 /\ Uris[e][Tried(e)] = u

\* A call does not forget an entity.
UnansweredWaits ==
  \A e \in Entity : outcome[e] = NoResult /\ e \notin unscheduled =>
    \E u \in Uri : waited[Owner[e]][u] = e

KnowledgeInv == TriedInOrder /\ WaitedIsCurrent /\ UnansweredWaits

-----------------------------------------------------------------------------
(* What replies and acknowledgements say *)

\* What is under way on the socket of a client.
ToClient(c, reply) == \E i \in DOMAIN outbox[c] : outbox[c][i] = reply
ToWorker(c, message) == \E i \in DOMAIN inbox[c] : inbox[c][i] = message

RepliesAreWaited ==
  \A c \in Client, u \in Uri :
    Number(outbox[c], Replies(u)) <= IF waited[c][u] = NoEntity THEN 0 ELSE 1

\* A duplicate is a final result; a fresh reply comes before the final result, and
\* the file of a fresh success is where the client expects it.
IsTrue(c, reply) ==
  IF reply.isDuplicatedDownload
  THEN done[reply.uri] = reply.result
  ELSE /\ done[reply.uri] = NoResult
       /\ reply.result = "ok" => waited[c][reply.uri] \in placed

RepliesAreTrue ==
  \A c \in Client, reply \in Reply : ToClient(c, reply) => IsTrue(c, reply)

\* Somebody has a file from u and was content with it.
Delivered(u) == \E f \in placed : u \in Range(Uris[f]) /\ outcome[f] = "ok"

Ack(u, result) == [command |-> "done-ack", uri |-> u, result |-> result]

AcksAreTrue ==
  \A c \in Client, u \in Uri : ToWorker(c, Ack(u, "ok")) => Delivered(u)

\* Client c was told that u failed, or has told it.
Failed(c, u) ==
  \/ done[u] = "error"
  \/ /\ done[u] = NoResult
     /\ worker = "running" => ToWorker(c, Ack(u, "error"))

\* The URIs requested before the last one failed, and this stays so.
FailuresLast ==
  \A e \in Entity : \A i \in 1 .. Tried(e) - 1 : Failed(Owner[e], Uris[e][i])

Downloading(u) == process[u] \in {"started", "sized"}

\* Somebody waits for what a performer is downloading, even after the worker's death.
DownloadsAreWaited ==
  \A u \in Uri : Downloading(u) =>
    /\ u \in Active
    /\ waited[activeDownloads[u].waiterSocket][u] = activeDownloads[u].targetPath
    /\ Number(outbox[activeDownloads[u].waiterSocket], Replies(u)) = 0

MessagesInv ==
  RepliesAreWaited /\ RepliesAreTrue /\ AcksAreTrue /\ FailuresLast /\ DownloadsAreWaited

-----------------------------------------------------------------------------
(* The worker's view of its performers *)

IsFailure(m, u) == m.command = "done" /\ m.uri = u

\* A failure is on its way to the client though the performer may send a success.
Overruled(u) ==
  reaping = u \/ \E i \in DOMAIN workerQueue : IsFailure(workerQueue[i], u)

ActiveIsNotDone == \A u \in Active : done[u] = NoResult

\* Who has sent a result, was overruled or replied about downloads no more.
ToldOnce ==
  \A u \in Uri : Downloading(u) =>
    /\ u \in Active /\ ~Replied(u)
    /\ ~Overruled(u)
    /\ \A i \in DOMAIN pipe[u] : pipe[u][i] \notin Result

KilledAreOverruled == \A u \in Uri : process[u] = "killed" => Overruled(u)

FailuresAreErrors ==
  \A i \in DOMAIN workerQueue : workerQueue[i].command = "done" => workerQueue[i].result = "error"

\* A success in the pipe of a performer is a file.
FilesArePlaced ==
  \A u \in Uri : Piped(u) /\ ~Overruled(u) =>
    \A i \in DOMAIN pipe[u] : pipe[u][i] = "ok" => activeDownloads[u].targetPath \in placed

ServingInv ==
  ActiveIsNotDone /\ ToldOnce /\ KilledAreOverruled /\ FailuresAreErrors /\ FilesArePlaced

ServiceInv == KnowledgeInv /\ MessagesInv /\ (worker = "running" => ServingInv)

-----------------------------------------------------------------------------
(* Sequences *)

LEMMA TailIsThere ==
  ASSUME NEW S, NEW s \in Seq(S), s # <<>>
  PROVE  /\ \A i \in DOMAIN Tail(s) : i + 1 \in DOMAIN s /\ Tail(s)[i] = s[i + 1]
         /\ \A i \in DOMAIN s : s[i] # Head(s) =>
              \E j \in DOMAIN Tail(s) : Tail(s)[j] = s[i]
<1>1. /\ Len(s) \in Nat /\ DOMAIN s = 1 .. Len(s) /\ Head(s) = s[1]
      /\ Tail(s) \in Seq(S) /\ Len(Tail(s)) = Len(s) - 1
      /\ DOMAIN Tail(s) = 1 .. Len(Tail(s))
      /\ \A i \in 1 .. Len(Tail(s)) : Tail(s)[i] = s[i + 1]
  BY LenProperties, HeadTailProperties
<1> DEFINE t == Tail(s)
<1>11. DOMAIN t = 1 .. Len(s) - 1 /\ \A i \in 1 .. Len(s) - 1 : t[i] = s[i + 1]
  BY <1>1
<1> HIDE DEF t
<1>2. \A i \in DOMAIN t : i + 1 \in DOMAIN s /\ t[i] = s[i + 1]
  BY <1>1, <1>11
<1>3. ASSUME NEW i \in DOMAIN s, s[i] # Head(s)
      PROVE  \E j \in DOMAIN t : t[j] = s[i]
  <2>1. i \in 1 .. Len(s) /\ i # 1
    BY <1>1, <1>3
  <2>2. i - 1 \in 1 .. Len(s) - 1 /\ (i - 1) + 1 = i
    BY <1>1, <2>1
  <2>3. i - 1 \in DOMAIN t /\ t[i - 1] = s[i]
    BY <1>11, <1>2, <2>2
  <2>4. QED
    BY <2>3
<1>4. QED
  BY <1>2, <1>3 DEF t

\* Members of a sequence which hold T are as many as are counted.
LEMMA OneHit ==
  ASSUME NEW S, NEW s \in Seq(S), NEW T, Number(s, T) <= 1,
         NEW i \in DOMAIN s, NEW j \in DOMAIN s, s[i] \in T, s[j] \in T
  PROVE  i = j
<1>1. IsFiniteSet(Hits(s, T)) /\ Number(s, T) \in Nat
  BY NumberType
<1>2. i \in Hits(s, T) /\ j \in Hits(s, T)
  BY DEF Hits
<1>3. SUFFICES ASSUME i # j PROVE FALSE
  OBVIOUS
<1>4. {i} \in SUBSET Hits(s, T) /\ {i} # Hits(s, T)
  BY <1>2, <1>3
<1>5. Cardinality({i}) = 1 /\ IsFiniteSet({i})
  BY FS_Singleton
<1>6. /\ Cardinality({i}) <= Cardinality(Hits(s, T))
      /\ Cardinality({i}) # Cardinality(Hits(s, T))
  BY <1>1, <1>4, FS_Subset
<1>7. QED
  BY <1>1, <1>5, <1>6 DEF Number

LEMMA HitsCount ==
  ASSUME NEW S, NEW s \in Seq(S), NEW T, NEW i \in DOMAIN s, s[i] \in T
  PROVE  Number(s, T) >= 1
<1>1. Number(s, T) \in Nat
  BY NumberType
<1>2. Number(s, T) # 0
  BY NumberZero
<1>3. QED
  BY <1>1, <1>2

\* What a client has sent before is still there.
LEMMA SentKeeps ==
  ASSUME TypeOK, NEW c \in Client, NEW messages \in Seq(ClientMessage),
         inbox' = [inbox EXCEPT ![c] = @ \o messages]
  PROVE  /\ \A d \in Client : \A i \in DOMAIN inbox[d] :
              i \in DOMAIN inbox'[d] /\ inbox'[d][i] = inbox[d][i]
         /\ \A j \in DOMAIN messages :
              \E i \in DOMAIN inbox'[c] : inbox'[c][i] = messages[j]
<1>1. inbox[c] \in Seq(ClientMessage) /\ inbox \in [Client -> Seq(ClientMessage)]
  BY DEF TypeOK, ClientTypeOK
<1> DEFINE s == inbox[c]
           both == s \o messages
<1>2. /\ Len(s) \in Nat /\ Len(messages) \in Nat
      /\ DOMAIN s = 1 .. Len(s) /\ DOMAIN messages = 1 .. Len(messages)
      /\ DOMAIN both = 1 .. Len(s) + Len(messages)
      /\ \A i \in 1 .. Len(s) + Len(messages) :
            both[i] = IF i <= Len(s) THEN s[i] ELSE messages[i - Len(s)]
  BY <1>1, ConcatProperties, LenProperties
<1>3. inbox'[c] = both /\ \A d \in Client : d # c => inbox'[d] = inbox[d]
  BY <1>1
<1> HIDE DEF both
<1>4. \A i \in DOMAIN s : i \in DOMAIN both /\ both[i] = s[i]
  BY <1>2
<1>5. ASSUME NEW j \in DOMAIN messages
      PROVE  \E i \in DOMAIN both : both[i] = messages[j]
  <2>1. /\ j + Len(s) \in 1 .. Len(s) + Len(messages) /\ ~(j + Len(s) <= Len(s))
        /\ (j + Len(s)) - Len(s) = j
    BY <1>2
  <2>2. both[j + Len(s)] = messages[j]
    BY <1>2, <2>1
  <2>3. QED
    BY <1>2, <2>1, <2>2
<1>6. QED
  BY <1>3, <1>4, <1>5 DEF s

-----------------------------------------------------------------------------
(* What a call knows *)

LEMMA KnowledgeInit == Init => KnowledgeInv
<1> SUFFICES ASSUME Init PROVE KnowledgeInv
  OBVIOUS
<1>1. \A e \in Entity : remaining[e] = Uris[e] /\ Len(Uris[e]) \in Nat /\ outcome[e] = NoResult
  BY ConstantsAssumption, LenProperties DEF Init, ConstantsAssumption, NoResult
<1>2. \A e \in Entity : Tried(e) = 0
  BY <1>1 DEF Tried
<1>3. \A c \in Client, u \in Uri : waited[c][u] = NoEntity
  BY DEF Init
<1>4. unscheduled = Entity
  BY DEF Init
<1>5. TriedInOrder
  BY <1>1, <1>2, <1>4 DEF TriedInOrder
<1>6. WaitedIsCurrent
  BY <1>3, ConstantsAssumption DEF WaitedIsCurrent, ConstantsAssumption
<1>7. UnansweredWaits
  BY <1>4 DEF UnansweredWaits
<1>8. QED
  BY <1>5, <1>6, <1>7 DEF KnowledgeInv

LEMMA KnowledgeKept ==
  ASSUME KnowledgeInv, UNCHANGED <<unscheduled, remaining, waited, outcome>>
  PROVE  KnowledgeInv'
<1>1. \A e \in Entity : Tried(e)' = Tried(e)
  BY DEF Tried
<1>2. TriedInOrder'
  BY <1>1 DEF KnowledgeInv, TriedInOrder
<1>3. WaitedIsCurrent'
  BY <1>1 DEF KnowledgeInv, WaitedIsCurrent
<1>4. UnansweredWaits'
  BY DEF KnowledgeInv, UnansweredWaits
<1>5. QED
  BY <1>2, <1>3, <1>4 DEF KnowledgeInv

LEMMA TriedType ==
  ASSUME TypeOK, TriedInOrder, NEW e \in Entity
  PROVE  /\ Uris[e] \in Seq(Uri) /\ Len(Uris[e]) \in Nat /\ Len(remaining[e]) \in Nat
         /\ DOMAIN Uris[e] = 1 .. Len(Uris[e]) /\ remaining[e] \in Seq(Uri)
         /\ Tried(e) \in Nat
         /\ Tried(e) = Len(Uris[e]) - Len(remaining[e])
<1>1. Uris[e] \in Seq(Uri) /\ remaining[e] \in Seq(Uri)
  BY ConstantsAssumption DEF ConstantsAssumption, TypeOK, ClientTypeOK
<1>2. /\ Len(Uris[e]) \in Nat /\ Len(remaining[e]) \in Nat
      /\ DOMAIN Uris[e] = 1 .. Len(Uris[e])
  BY <1>1, LenProperties
<1>3. Len(remaining[e]) <= Len(Uris[e])
  BY DEF TriedInOrder
<1>4. QED
  BY <1>1, <1>2, <1>3 DEF Tried

\* scheduleDownload takes the next URI.
LEMMA NextTried ==
  ASSUME TypeOK, TriedInOrder, NEW e \in Entity, remaining[e] # <<>>,
         remaining' = [remaining EXCEPT ![e] = Tail(@)]
  PROVE  /\ Tried(e)' = Tried(e) + 1
         /\ Uris[e][Tried(e) + 1] = Head(remaining[e])
         /\ \A f \in Entity : f # e => Tried(f)' = Tried(f) /\ remaining'[f] = remaining[f]
         /\ \A f \in Entity :
              /\ Len(remaining'[f]) <= Len(Uris[f])
              /\ \A i \in 1 .. Len(remaining'[f]) : remaining'[f][i] = Uris[f][Tried(f)' + i]
<1> DEFINE s == remaining[e]
           t == Tail(s)
           n == Len(Uris[e])
<1>1. /\ n \in Nat /\ Len(s) \in Nat /\ s \in Seq(Uri)
      /\ Tried(e) \in Nat /\ Tried(e) = n - Len(s)
      /\ Len(s) <= n /\ \A i \in 1 .. Len(s) : s[i] = Uris[e][Tried(e) + i]
  BY TriedType DEF TriedInOrder
<1>2. /\ Len(t) = Len(s) - 1 /\ Len(t) \in Nat /\ Head(s) = s[1]
      /\ \A i \in 1 .. Len(t) : t[i] = s[i + 1]
      /\ Len(s) >= 1
  <2>1. Len(s) # 0
    BY <1>1, EmptySeq
  <2>2. Len(t) = Len(s) - 1 /\ Head(s) = s[1] /\ \A i \in 1 .. Len(t) : t[i] = s[i + 1]
    BY <1>1, HeadTailProperties
  <2>3. QED
    BY <1>1, <2>1, <2>2
<1>3. /\ remaining'[e] = t /\ \A f \in Entity : f # e => remaining'[f] = remaining[f]
  BY DEF TypeOK, ClientTypeOK
<1>4. Tried(e)' = n - Len(t)
  BY <1>3 DEF Tried
<1> HIDE DEF s, t, n
<1>5. Tried(e)' = Tried(e) + 1
  BY <1>1, <1>2, <1>4
<1>6. Uris[e][Tried(e) + 1] = Head(s)
  BY <1>1, <1>2
<1>7. \A f \in Entity : f # e => Tried(f)' = Tried(f)
  BY <1>3 DEF Tried
<1>8. Len(t) <= n
  BY <1>1, <1>2
<1>9. ASSUME NEW i \in 1 .. Len(t)
      PROVE  t[i] = Uris[e][Tried(e)' + i]
  <2>1. i + 1 \in 1 .. Len(s) /\ Tried(e) + (i + 1) = Tried(e)' + i
    BY <1>1, <1>2, <1>5
  <2>2. t[i] = s[i + 1] /\ s[i + 1] = Uris[e][Tried(e) + (i + 1)]
    BY <1>1, <1>2, <2>1
  <2>3. QED
    BY <2>1, <2>2
<1>10. ASSUME NEW f \in Entity
       PROVE  /\ Len(remaining'[f]) <= Len(Uris[f])
              /\ \A i \in 1 .. Len(remaining'[f]) : remaining'[f][i] = Uris[f][Tried(f)' + i]
  <2>1. CASE f = e
    BY <1>3, <1>8, <1>9, <2>1 DEF n
  <2>2. CASE f # e
    BY <1>3, <1>7, <2>2 DEF TriedInOrder
  <2>3. QED
    BY <2>1, <2>2
<1>11. QED
  BY <1>3, <1>5, <1>6, <1>7, <1>10 DEF s

\* The call waits for e under v only, or not at all.
MovesTo(c, e, v) ==
  \A d \in Client, w \in Uri :
    waited'[d][w] = IF d = c /\ w = v THEN e
                    ELSE IF waited[d][w] = e THEN NoEntity ELSE waited[d][w]

Forgets(e) ==
  \A d \in Client, w \in Uri :
    waited'[d][w] = IF waited[d][w] = e THEN NoEntity ELSE waited[d][w]

\* scheduleDownload, for the first URI of an entity or the next one.
Asks(c, e) ==
  /\ Owner[e] = c /\ outcome[e] = NoResult /\ remaining[e] # <<>>
  /\ remaining' = [remaining EXCEPT ![e] = Tail(@)]
  /\ outcome' = outcome
  /\ unscheduled' = unscheduled \ {e}
  /\ MovesTo(c, e, Head(remaining[e]))

LEMMA NobodyElsesUri ==
  ASSUME DistinctUris, CallInv, NEW c \in Client, NEW e \in Entity, Owner[e] = c,
         remaining[e] # <<>>
  PROVE  /\ Head(remaining[e]) \in Uri
         /\ waited[c][Head(remaining[e])] \in {e, NoEntity}
<1> DEFINE v == Head(remaining[e])
<1>1. TypeOK /\ UrisOfEntities
  BY DEF CallInv, TypeInv
<1>2. v \in Uri /\ v \in Range(Uris[e])
  BY <1>1, NextUri
<1> HIDE DEF v
<1>3. ASSUME waited[c][v] # NoEntity
      PROVE  waited[c][v] = e
  <2> DEFINE f == waited[c][v]
  <2>0. waited \in [Client -> [Uri -> Entity \cup {NoEntity}]]
    BY <1>1 DEF TypeOK, ClientTypeOK
  <2>1. f \in Entity /\ Owner[f] = c /\ v \in Range(Uris[f])
    <3>1. f \in Entity \cup {NoEntity}
      BY <1>2, <2>0
    <3>2. Owner[f] = c /\ v \in Range(Uris[f])
      BY <1>1, <1>2, <1>3 DEF UrisOfEntities
    <3>3. QED
      BY <1>3, <3>1, <3>2
  <2> HIDE DEF f
  <2>2. Range(Uris[e]) \cap Range(Uris[f]) # {}
    BY <1>2, <2>1
  <2>3. f = e
    BY <2>1, <2>2 DEF DistinctUris
  <2>4. QED
    BY <2>3 DEF f
<1>4. QED
  BY <1>2, <1>3 DEF v

LEMMA AsksKnowledge ==
  ASSUME DistinctUris, CallInv, KnowledgeInv, NEW c \in Client, NEW e \in Entity, Asks(c, e)
  PROVE  KnowledgeInv'
<1> DEFINE v == Head(remaining[e])
<1>1. /\ TypeOK /\ TriedInOrder /\ WaitedIsCurrent /\ UnansweredWaits
      /\ Owner[e] = c /\ outcome[e] = NoResult /\ remaining[e] # <<>>
      /\ remaining' = [remaining EXCEPT ![e] = Tail(@)]
      /\ outcome' = outcome /\ unscheduled' = unscheduled \ {e}
      /\ MovesTo(c, e, v)
  BY DEF CallInv, TypeInv, KnowledgeInv, Asks
<1>2. v \in Uri /\ waited[c][v] \in {e, NoEntity}
  BY <1>1, NobodyElsesUri
<1>3. /\ Tried(e)' = Tried(e) + 1 /\ Uris[e][Tried(e) + 1] = v
      /\ Tried(e) \in Nat
      /\ \A f \in Entity : f # e => Tried(f)' = Tried(f) /\ remaining'[f] = remaining[f]
  BY <1>1, NextTried, TriedType
<1>5. TriedInOrder'
  <2>1. \A f \in Entity :
          /\ Len(remaining'[f]) <= Len(Uris[f])
          /\ \A i \in 1 .. Len(remaining'[f]) : remaining'[f][i] = Uris[f][Tried(f)' + i]
    BY <1>1, NextTried
  <2>2. \A f \in unscheduled' : outcome'[f] = NoResult /\ remaining'[f] = Uris[f]
    BY <1>1, <1>3 DEF TriedInOrder, TypeOK, ClientTypeOK
  <2>3. QED
    BY <2>1, <2>2 DEF TriedInOrder
<1> HIDE DEF v
<1>6. WaitedIsCurrent'
  <2> SUFFICES ASSUME NEW d \in Client, NEW w \in Uri, NEW f \in Entity, waited'[d][w] = f
               PROVE  outcome'[f] = NoResult /\ Tried(f)' >= 1 /\ Uris[f][Tried(f)'] = w
    BY DEF WaitedIsCurrent
  <2>1. f # NoEntity
    BY ConstantsAssumption DEF ConstantsAssumption
  <2>2. CASE d = c /\ w = v
    <3>1. f = e
      BY <1>1, <2>2 DEF MovesTo
    <3>2. QED
      BY <1>1, <1>3, <2>2, <3>1
  <2>3. CASE ~(d = c /\ w = v)
    <3>1. waited[d][w] = f /\ f # e
      BY <1>1, <2>1, <2>3 DEF MovesTo
    <3>2. QED
      BY <1>1, <1>3, <3>1 DEF WaitedIsCurrent
  <2>4. QED
    BY <2>2, <2>3
<1>7. UnansweredWaits'
  <2> SUFFICES ASSUME NEW f \in Entity, outcome[f] = NoResult, f \notin unscheduled \ {e}
               PROVE  \E u \in Uri : waited'[Owner[f]][u] = f
    BY <1>1 DEF UnansweredWaits
  <2>1. CASE f = e
    BY <1>1, <1>2, <2>1 DEF MovesTo
  <2>2. CASE f # e
    <3>1. PICK u \in Uri : waited[Owner[f]][u] = f
      BY <1>1, <2>2 DEF UnansweredWaits
    <3>2. f # NoEntity /\ Owner[f] \in Client
      BY ConstantsAssumption DEF ConstantsAssumption
    <3>3. ~(Owner[f] = c /\ u = v)
      BY <1>2, <2>2, <3>1, <3>2
    <3>4. waited'[Owner[f]][u] = f
      BY <1>1, <2>2, <3>1, <3>2, <3>3 DEF MovesTo
    <3>5. QED
      BY <3>4
  <2>3. QED
    BY <2>1, <2>2
<1>8. QED
  BY <1>5, <1>6, <1>7 DEF KnowledgeInv

\* The last reply about e, or a success.
Concludes(e, result) ==
  /\ outcome[e] = NoResult /\ e \notin unscheduled
  /\ outcome' = [outcome EXCEPT ![e] = result]
  /\ UNCHANGED <<remaining, unscheduled>>
  /\ Forgets(e)

LEMMA ConcludesKnowledge ==
  ASSUME CallInv, KnowledgeInv, NEW e \in Entity, NEW result \in Result, Concludes(e, result)
  PROVE  KnowledgeInv'
<1>1. /\ TypeOK /\ TriedInOrder /\ WaitedIsCurrent /\ UnansweredWaits
      /\ remaining' = remaining /\ unscheduled' = unscheduled
      /\ \A f \in Entity : f # e => outcome'[f] = outcome[f]
      /\ outcome'[e] = result /\ result # NoResult
      /\ Forgets(e)
  BY DEF CallInv, TypeInv, KnowledgeInv, Concludes, TypeOK, ClientTypeOK, Result, NoResult
<1>2. \A f \in Entity : Tried(f)' = Tried(f)
  BY <1>1 DEF Tried
<1>3. e \notin unscheduled
  BY DEF Concludes
<1>4. TriedInOrder'
  <2>1. \A f \in Entity :
          /\ Len(remaining'[f]) <= Len(Uris[f])
          /\ \A i \in 1 .. Len(remaining'[f]) : remaining'[f][i] = Uris[f][Tried(f)' + i]
    BY <1>1, <1>2 DEF TriedInOrder
  <2>2. unscheduled \subseteq Entity
    BY <1>1 DEF TypeOK, ClientTypeOK
  <2>3. \A f \in unscheduled' : outcome'[f] = NoResult /\ remaining'[f] = Uris[f]
    BY <1>1, <1>3, <2>2 DEF TriedInOrder
  <2>4. QED
    BY <2>1, <2>3 DEF TriedInOrder
<1>5. WaitedIsCurrent'
  <2> SUFFICES ASSUME NEW d \in Client, NEW w \in Uri, NEW f \in Entity, waited'[d][w] = f
               PROVE  outcome'[f] = NoResult /\ Tried(f)' >= 1 /\ Uris[f][Tried(f)'] = w
    BY DEF WaitedIsCurrent
  <2>1. f # NoEntity
    BY ConstantsAssumption DEF ConstantsAssumption
  <2>2. waited[d][w] = f /\ f # e
    BY <1>1, <2>1 DEF Forgets
  <2>3. QED
    BY <1>1, <1>2, <2>2 DEF WaitedIsCurrent
<1>6. UnansweredWaits'
  <2> SUFFICES ASSUME NEW f \in Entity, outcome'[f] = NoResult, f \notin unscheduled
               PROVE  \E u \in Uri : waited'[Owner[f]][u] = f
    BY <1>1 DEF UnansweredWaits
  <2>1. f # e /\ outcome[f] = NoResult
    BY <1>1
  <2>2. PICK u \in Uri : waited[Owner[f]][u] = f
    BY <1>1, <2>1 DEF UnansweredWaits
  <2>3. Owner[f] \in Client
    BY ConstantsAssumption DEF ConstantsAssumption
  <2>4. QED
    BY <1>1, <2>1, <2>2, <2>3 DEF Forgets
<1>7. QED
  BY <1>4, <1>5, <1>6 DEF KnowledgeInv

-----------------------------------------------------------------------------
(* While the worker runs, counting says what is waited for *)

LEMMA CountedMeansWaited ==
  worker = "running" /\ RequestInv /\ ServingInv => RepliesAreWaited /\ DownloadsAreWaited
<1> SUFFICES ASSUME worker = "running", RequestInv, ServingInv
             PROVE  RepliesAreWaited /\ DownloadsAreWaited
  OBVIOUS
<1>1. TypeOK /\ RequestsCounted /\ TargetsAreWaited /\ ToldOnce
  BY DEF RequestInv, CallInv, TypeInv, WorkerInv, ServingInv
<1>2. RepliesAreWaited
  <2> SUFFICES ASSUME NEW c \in Client, NEW u \in Uri
               PROVE  Number(outbox[c], Replies(u)) <= IF waited[c][u] = NoEntity THEN 0 ELSE 1
    BY DEF RepliesAreWaited
  <2>1. Number(outbox[c], Replies(u)) <= Count(c, u)
    BY <1>1, CountParts
  <2>2. Count(c, u) = IF waited[c][u] = NoEntity THEN 0 ELSE 1
    BY <1>1 DEF RequestsCounted
  <2>3. QED
    BY <2>1, <2>2
<1>3. DownloadsAreWaited
  <2> SUFFICES ASSUME NEW u \in Uri, Downloading(u)
               PROVE  /\ u \in Active
                      /\ waited[activeDownloads[u].waiterSocket][u] = activeDownloads[u].targetPath
                      /\ Number(outbox[activeDownloads[u].waiterSocket], Replies(u)) = 0
    BY DEF DownloadsAreWaited
  <2> DEFINE c == activeDownloads[u].waiterSocket
             d == activeDownloads[u].targetPath
  <2>1. u \in Active /\ ~Replied(u)
    BY <1>1 DEF ToldOnce
  <2>2. c \in Client /\ d \in Entity /\ waited[c][u] = d
    BY <1>1, <2>1 DEF TargetsAreWaited, TypeOK, WorkerTypeOK, ActiveDownloadInfo
  <2>3. Primary(c, u) = 1
    BY <2>1 DEF Primary
  <2>4. Count(c, u) = 1
    <3>1. d # NoEntity
      BY <2>2, ConstantsAssumption DEF ConstantsAssumption
    <3> HIDE DEF c, d
    <3>2. QED
      BY <1>1, <2>2, <3>1 DEF RequestsCounted
  <2> HIDE DEF c, d
  <2>5. Number(outbox[c], Replies(u)) = 0
    <3>1. /\ Number(inbox[c], Downloads(u)) \in Nat /\ Number(workerQueue, Proceeds(c, u)) \in Nat
          /\ Number(onHold, Held(c, u)) \in Nat /\ Secondary(c, u) \in Nat
          /\ Number(outbox[c], Replies(u)) \in Nat
          /\ Count(c, u) = Number(inbox[c], Downloads(u)) + Number(workerQueue, Proceeds(c, u))
                           + Number(onHold, Held(c, u)) + Primary(c, u) + Secondary(c, u)
                           + Number(outbox[c], Replies(u))
      BY <1>1, <2>2, CountParts
    <3> DEFINE inboxes == Number(inbox[c], Downloads(u))
               queue == Number(workerQueue, Proceeds(c, u))
               hold == Number(onHold, Held(c, u))
               secondary == Secondary(c, u)
               outboxes == Number(outbox[c], Replies(u))
    <3>2. /\ inboxes \in Nat /\ queue \in Nat /\ hold \in Nat /\ secondary \in Nat
          /\ outboxes \in Nat /\ 1 = inboxes + queue + hold + 1 + secondary + outboxes
      BY <2>3, <2>4, <3>1
    <3> HIDE DEF inboxes, queue, hold, secondary, outboxes
    <3>3. outboxes = 0
      BY <3>2
    <3>4. QED
      BY <3>3 DEF outboxes
  <2>6. QED
    BY <2>1, <2>2, <2>5 DEF c, d
<1>4. QED
  BY <1>2, <1>3

Working == worker = "running"

LEMMA NextMeansWaited ==
  (Working /\ RequestInv /\ ServingInv)' => (RepliesAreWaited /\ DownloadsAreWaited)'
<1>1. Working /\ RequestInv /\ ServingInv => RepliesAreWaited /\ DownloadsAreWaited
  BY CountedMeansWaited DEF Working
<1>2. QED
  BY <1>1, PTL

-----------------------------------------------------------------------------
(* Results and failures under way *)

NothingOverruled ==
  reaping = NoUri /\ \A i \in DOMAIN workerQueue : workerQueue[i].command # "done"

OverruledOnly(u) == FailuresAreErrors /\ \A v \in Uri : Overruled(v) <=> v = u

LEMMA NothingIsOverruled ==
  NothingOverruled => FailuresAreErrors /\ \A u \in Uri : ~Overruled(u)
BY ConstantsAssumption
DEF ConstantsAssumption, NothingOverruled, FailuresAreErrors, Overruled, IsFailure

LEMMA NothingIsOverruledNext ==
  NothingOverruled' => FailuresAreErrors' /\ \A u \in Uri : ~Overruled(u)'
BY ConstantsAssumption
DEF ConstantsAssumption, NothingOverruled, FailuresAreErrors, Overruled, IsFailure

LEMMA ReapingOverrules ==
  ASSUME NEW u \in Uri, reaping = u, workerQueue = <<>>
  PROVE  OverruledOnly(u)
<1>1. DOMAIN workerQueue = {}
  OBVIOUS
<1>2. QED
  BY <1>1 DEF OverruledOnly, FailuresAreErrors, Overruled

LEMMA ReapingOverrulesNext ==
  ASSUME NEW u \in Uri, reaping' = u, workerQueue' = <<>>
  PROVE  OverruledOnly(u)'
<1>1. DOMAIN workerQueue' = {}
  OBVIOUS
<1>2. QED
  BY <1>1 DEF OverruledOnly, FailuresAreErrors, Overruled

LEMMA QueuedOverrulesNext ==
  ASSUME NEW u \in Uri, reaping' = NoUri,
         workerQueue' = <<[command |-> "done", uri |-> u, result |-> "error"]>>
  PROVE  OverruledOnly(u)'
<1> DEFINE m == [command |-> "done", uri |-> u, result |-> "error"]
<1>1. DOMAIN workerQueue' = {1} /\ workerQueue'[1] = m
  OBVIOUS
<1>2. m.command = "done" /\ m.uri = u /\ m.result = "error"
  OBVIOUS
<1> HIDE DEF m
<1>3. QED
  BY <1>1, <1>2, ConstantsAssumption
  DEF ConstantsAssumption, OverruledOnly, FailuresAreErrors, Overruled, IsFailure

\* What is in a pipe was there before, or is a size.
PipesBringNoResult ==
  \A u \in Uri : \A i \in DOMAIN pipe'[u] :
    pipe'[u][i] = "wrong size" \/ \E j \in DOMAIN pipe[u] : pipe'[u][i] = pipe[u][j]

SameTargets ==
  /\ Active' = Active
  /\ \A u \in Active : /\ activeDownloads'[u].targetPath = activeDownloads[u].targetPath
                       /\ activeDownloads'[u].waiterSocket = activeDownloads[u].waiterSocket
                       /\ activeDownloads'[u].piped = activeDownloads[u].piped

NoNewPerformers ==
  \A u \in Uri : /\ Downloading(u)' => Downloading(u)
                 /\ process'[u] = "killed" => process[u] = "killed"

QueueAsBefore == FailuresAreErrors' /\ \A u \in Uri : Overruled(u)' <=> Overruled(u)

LEMMA ServingKept ==
  ASSUME ServingInv, done' = done, reaping' = reaping, placed \subseteq placed',
         SameTargets, QueueAsBefore, NoNewPerformers, PipesBringNoResult
  PROVE  ServingInv'
<1>1. ActiveIsNotDone'
  BY DEF ServingInv, ActiveIsNotDone, SameTargets
<1>2. \A u \in Active : (Replied(u)' <=> Replied(u)) /\ (Piped(u)' <=> Piped(u))
  BY DEF SameTargets, Replied, Piped
<1>3. ToldOnce'
  <2> SUFFICES ASSUME NEW u \in Uri, Downloading(u)'
               PROVE  /\ u \in Active' /\ ~Replied(u)' /\ ~Overruled(u)'
                      /\ \A i \in DOMAIN pipe'[u] : pipe'[u][i] \notin Result
    BY DEF ToldOnce
  <2>1. /\ u \in Active /\ ~Replied(u) /\ ~Overruled(u)
        /\ \A i \in DOMAIN pipe[u] : pipe[u][i] \notin Result
    BY DEF NoNewPerformers, ServingInv, ToldOnce
  <2>2. u \in Active' /\ ~Replied(u)' /\ ~Overruled(u)'
    BY <1>2, <2>1 DEF SameTargets, QueueAsBefore
  <2>3. \A i \in DOMAIN pipe'[u] : pipe'[u][i] \notin Result
    BY <2>1 DEF PipesBringNoResult, Result
  <2>4. QED
    BY <2>2, <2>3
<1>4. KilledAreOverruled'
  BY DEF ServingInv, KilledAreOverruled, NoNewPerformers, QueueAsBefore
<1>5. FilesArePlaced'
  <2> SUFFICES ASSUME NEW u \in Uri, Piped(u)', ~Overruled(u)', NEW i \in DOMAIN pipe'[u],
                      pipe'[u][i] = "ok"
               PROVE  activeDownloads'[u].targetPath \in placed'
    BY DEF FilesArePlaced
  <2>1. u \in Active /\ Piped(u) /\ ~Overruled(u)
    BY <1>2 DEF SameTargets, QueueAsBefore, Piped
  <2>2. \E j \in DOMAIN pipe[u] : pipe[u][j] = "ok"
    BY DEF PipesBringNoResult
  <2>3. activeDownloads[u].targetPath \in placed
    BY <2>1, <2>2 DEF ServingInv, FilesArePlaced
  <2>4. QED
    BY <2>1, <2>3 DEF SameTargets
<1>6. QED
  BY <1>1, <1>3, <1>4, <1>5 DEF ServingInv, QueueAsBefore

\* The reply for u is sent, and waitpid() begins.
LEMMA PreliminaryServing ==
  ASSUME ServingInv, NEW u \in Uri, reaping = NoUri, reaping' = u, OverruledOnly(u)',
         \A v \in Uri : Overruled(v) => v = u, ~Downloading(u),
         UNCHANGED <<activeDownloads, done, process, placed>>, PipesBringNoResult
  PROVE  ServingInv'
<1>1. ActiveIsNotDone'
  BY DEF ServingInv, ActiveIsNotDone, Active
<1>2. \A v \in Uri : (Piped(v)' <=> Piped(v)) /\ (v # u => (Replied(v)' => Replied(v)))
  BY ConstantsAssumption DEF ConstantsAssumption, Replied, Piped, Active
<1>3. ToldOnce'
  <2> SUFFICES ASSUME NEW v \in Uri, Downloading(v)'
               PROVE  /\ v \in Active' /\ ~Replied(v)' /\ ~Overruled(v)'
                      /\ \A i \in DOMAIN pipe'[v] : pipe'[v][i] \notin Result
    BY DEF ToldOnce
  <2>0. Downloading(v) /\ v # u
    BY DEF Downloading
  <2>1. /\ v \in Active /\ ~Replied(v) /\ ~Overruled(v)
        /\ \A i \in DOMAIN pipe[v] : pipe[v][i] \notin Result
    BY <2>0 DEF ServingInv, ToldOnce
  <2>2. v \in Active' /\ ~Replied(v)' /\ ~Overruled(v)'
    BY <1>2, <2>0, <2>1 DEF Active, OverruledOnly
  <2>3. \A i \in DOMAIN pipe'[v] : pipe'[v][i] \notin Result
    BY <2>1 DEF PipesBringNoResult, Result
  <2>4. QED
    BY <2>2, <2>3
<1>4. KilledAreOverruled'
  BY DEF ServingInv, KilledAreOverruled, OverruledOnly
<1>5. FilesArePlaced'
  <2> SUFFICES ASSUME NEW v \in Uri, Piped(v)', ~Overruled(v)', NEW i \in DOMAIN pipe'[v],
                      pipe'[v][i] = "ok"
               PROVE  activeDownloads'[v].targetPath \in placed'
    BY DEF FilesArePlaced
  <2>1. v # u /\ Piped(v)
    BY <1>2 DEF OverruledOnly
  <2>2. \E j \in DOMAIN pipe[v] : pipe[v][j] = "ok"
    BY DEF PipesBringNoResult
  <2>3. activeDownloads[v].targetPath \in placed
    BY <2>1, <2>2 DEF ServingInv, FilesArePlaced
  <2>4. QED
    BY <2>3
<1>6. QED
  BY <1>1, <1>3, <1>4, <1>5 DEF ServingInv, OverruledOnly

\* killPerformerBecauseOfWrongSize.
LEMMA KillServing ==
  ASSUME ServingInv, TypeOK, NEW u \in Uri, OnePipePerTarget, Piped(u), NothingOverruled,
         OverruledOnly(u)', reaping' = reaping, UNCHANGED <<activeDownloads, done>>,
         Sigterm({u}), placed' = placed \ {activeDownloads[u].targetPath}, PipesBringNoResult
  PROVE  ServingInv'
<1>1. ActiveIsNotDone'
  BY DEF ServingInv, ActiveIsNotDone, Active
<1>2. \A v \in Uri : (Piped(v)' <=> Piped(v)) /\ (Replied(v)' <=> Replied(v))
  BY DEF Replied, Piped, Active
<1>3. \A v \in Uri : ~Overruled(v)
  BY NothingIsOverruled
<1>4. \A v \in Uri :
        process'[v] = IF v = u /\ process[v] \in {"started", "sized"} THEN "killed" ELSE process[v]
  BY DEF Sigterm
<1>5. ToldOnce'
  <2> SUFFICES ASSUME NEW v \in Uri, Downloading(v)'
               PROVE  /\ v \in Active' /\ ~Replied(v)' /\ ~Overruled(v)'
                      /\ \A i \in DOMAIN pipe'[v] : pipe'[v][i] \notin Result
    BY DEF ToldOnce
  <2>1. Downloading(v) /\ v # u
    BY <1>4 DEF Downloading
  <2>2. /\ v \in Active /\ ~Replied(v)
        /\ \A i \in DOMAIN pipe[v] : pipe[v][i] \notin Result
    BY <2>1 DEF ServingInv, ToldOnce
  <2>3. v \in Active' /\ ~Replied(v)' /\ ~Overruled(v)'
    BY <1>2, <2>1, <2>2 DEF Active, OverruledOnly
  <2>4. \A i \in DOMAIN pipe'[v] : pipe'[v][i] \notin Result
    BY <2>2 DEF PipesBringNoResult, Result
  <2>5. QED
    BY <2>3, <2>4
<1>6. KilledAreOverruled'
  BY <1>3, <1>4 DEF ServingInv, KilledAreOverruled, OverruledOnly
<1>7. FilesArePlaced'
  <2> SUFFICES ASSUME NEW v \in Uri, Piped(v)', ~Overruled(v)', NEW i \in DOMAIN pipe'[v],
                      pipe'[v][i] = "ok"
               PROVE  activeDownloads'[v].targetPath \in placed'
    BY DEF FilesArePlaced
  <2>1. v # u /\ Piped(v) /\ ~Overruled(v)
    BY <1>2, <1>3 DEF OverruledOnly
  <2>2. \E j \in DOMAIN pipe[v] : pipe[v][j] = "ok"
    BY DEF PipesBringNoResult
  <2>3. activeDownloads[v].targetPath \in placed
    BY <2>1, <2>2 DEF ServingInv, FilesArePlaced
  <2>4. activeDownloads[v].targetPath # activeDownloads[u].targetPath
    BY <2>1 DEF OnePipePerTarget, Piped
  <2>5. QED
    BY <2>3, <2>4
<1>8. QED
  BY <1>1, <1>5, <1>6, <1>7 DEF ServingInv, OverruledOnly

LEMMA ReapServing ==
  ASSUME ServingInv, TypeOK, WorkerInv, Reap
  PROVE  ServingInv'
<1> DEFINE u == reaping
<1>1. /\ u \in Uri /\ u # NoUri /\ reaping' = NoUri /\ Piped(u)
      /\ process' = [process EXCEPT ![u] = "none"]
      /\ pipe' = [pipe EXCEPT ![u] = <<>>]
      /\ activeDownloads' = [activeDownloads EXCEPT ![u].piped = FALSE]
      /\ UNCHANGED <<workerQueue, done, placed>>
  BY DEF Reap, TypeOK, WorkerTypeOK, WorkerInv, PerformersArePiped
<1>2. workerQueue = <<>>
  <2>1. DOMAIN workerQueue = {}
    BY <1>1 DEF WorkerInv, QueueIsShort
  <2>2. workerQueue \in Seq(InternalMessage)
    BY DEF TypeOK, WorkerTypeOK
  <2>3. QED
    BY <2>1, <2>2
<1>3. OverruledOnly(u)
  BY <1>1, <1>2, ReapingOverrules
<1>4. NothingOverruled'
  BY <1>1, <1>2 DEF NothingOverruled
<1>5. FailuresAreErrors' /\ \A v \in Uri : ~Overruled(v)'
  BY <1>4, NothingIsOverruledNext
<1>6. /\ Active' = Active /\ u \in Active
      /\ \A v \in Active : activeDownloads'[v].targetPath = activeDownloads[v].targetPath
      /\ \A v \in Active : v # u => activeDownloads'[v].piped = activeDownloads[v].piped
      /\ activeDownloads'[u].piped = FALSE
  BY <1>1 DEF Active, Piped, TypeOK, WorkerTypeOK, ActiveDownloadInfo
<1>7. \A v \in Uri : v # u => process'[v] = process[v] /\ pipe'[v] = pipe[v]
  BY <1>1 DEF TypeOK, PerformerTypeOK
<1>8. process'[u] = "none"
  BY <1>1 DEF TypeOK, PerformerTypeOK
<1> HIDE DEF u
<1>9. ActiveIsNotDone'
  BY <1>1, <1>6 DEF ServingInv, ActiveIsNotDone
<1>10. ToldOnce'
  <2> SUFFICES ASSUME NEW v \in Uri, Downloading(v)'
               PROVE  /\ v \in Active' /\ ~Replied(v)' /\ ~Overruled(v)'
                      /\ \A i \in DOMAIN pipe'[v] : pipe'[v][i] \notin Result
    BY DEF ToldOnce
  <2>1. Downloading(v) /\ v # u
    BY <1>7, <1>8 DEF Downloading
  <2>2. /\ v \in Active /\ ~Replied(v)
        /\ \A i \in DOMAIN pipe[v] : pipe[v][i] \notin Result
    BY <2>1 DEF ServingInv, ToldOnce
  <2>3. v \in Active' /\ ~Replied(v)'
    BY <1>1, <1>6, <2>1, <2>2, ConstantsAssumption DEF Replied, ConstantsAssumption
  <2>4. QED
    BY <1>5, <1>7, <2>1, <2>2, <2>3
<1>11. KilledAreOverruled'
  BY <1>3, <1>7, <1>8 DEF ServingInv, KilledAreOverruled, OverruledOnly
<1>12. FilesArePlaced'
  <2> SUFFICES ASSUME NEW v \in Uri, Piped(v)', NEW i \in DOMAIN pipe'[v], pipe'[v][i] = "ok"
               PROVE  activeDownloads'[v].targetPath \in placed'
    BY DEF FilesArePlaced
  <2>1. v # u /\ v \in Active
    BY <1>6 DEF Piped
  <2>2. Piped(v) /\ ~Overruled(v) /\ pipe[v] = pipe'[v]
    BY <1>3, <1>6, <1>7, <2>1 DEF Piped, OverruledOnly
  <2>3. activeDownloads[v].targetPath \in placed
    BY <2>2 DEF ServingInv, FilesArePlaced
  <2>4. QED
    BY <1>1, <1>6, <2>1, <2>3
<1>13. QED
  BY <1>5, <1>9, <1>10, <1>11, <1>12 DEF ServingInv

\* A new download, with a pipe of its own.
LEMMA StartServing ==
  ASSUME ServingInv, TypeOK, NEW r \in Request, Startable(r), AddActive(r),
         NothingOverruled, NothingOverruled', UNCHANGED <<done, placed>>,
         process' = [process EXCEPT ![r.uri] = "started"],
         pipe' = [pipe EXCEPT ![r.uri] = <<>>]
  PROVE  ServingInv'
<1> DEFINE u == r.uri
<1>1. u \in Uri /\ u \notin Active /\ done[u] = NoResult /\ reaping = NoUri /\ reaping' = NoUri
  BY DEF Request, Startable, IsDone, NothingOverruled
<1>2. FailuresAreErrors' /\ \A v \in Uri : ~Overruled(v)' /\ ~Overruled(v)
  BY NothingIsOverruled, NothingIsOverruledNext
<1>3. /\ Active' = Active \cup {u}
      /\ activeDownloads'[u].piped = TRUE
      /\ \A v \in Active : activeDownloads'[v] = activeDownloads[v]
  BY <1>1 DEF AddActive, Active, Info
<1>4. \A v \in Uri : v # u => process'[v] = process[v] /\ pipe'[v] = pipe[v]
  BY <1>1 DEF TypeOK, PerformerTypeOK
<1>5. process'[u] = "started" /\ pipe'[u] = <<>>
  BY <1>1 DEF TypeOK, PerformerTypeOK
<1> HIDE DEF u
<1>6. ActiveIsNotDone'
  BY <1>1, <1>3 DEF ServingInv, ActiveIsNotDone
<1>7. ToldOnce'
  <2> SUFFICES ASSUME NEW v \in Uri, Downloading(v)'
               PROVE  /\ v \in Active' /\ ~Replied(v)'
                      /\ \A i \in DOMAIN pipe'[v] : pipe'[v][i] \notin Result
    BY <1>2 DEF ToldOnce
  <2>1. CASE v = u
    <3>1. DOMAIN pipe'[v] = {}
      BY <1>5, <2>1
    <3>2. QED
      BY <1>1, <1>3, <2>1, <3>1, ConstantsAssumption DEF Replied, ConstantsAssumption
  <2>2. CASE v # u
    <3>1. Downloading(v)
      BY <1>4, <2>2 DEF Downloading
    <3>2. v \in Active /\ ~Replied(v) /\ \A i \in DOMAIN pipe[v] : pipe[v][i] \notin Result
      BY <3>1 DEF ServingInv, ToldOnce
    <3>3. QED
      BY <1>1, <1>3, <1>4, <2>2, <3>2 DEF Replied
  <2>3. QED
    BY <2>1, <2>2
<1>8. KilledAreOverruled'
  BY <1>2, <1>4, <1>5 DEF ServingInv, KilledAreOverruled
<1>9. FilesArePlaced'
  <2> SUFFICES ASSUME NEW v \in Uri, Piped(v)', NEW i \in DOMAIN pipe'[v], pipe'[v][i] = "ok"
               PROVE  activeDownloads'[v].targetPath \in placed'
    BY DEF FilesArePlaced
  <2>1. v # u
    BY <1>5
  <2>2. v \in Active /\ Piped(v) /\ pipe[v] = pipe'[v]
    BY <1>3, <1>4, <2>1 DEF Piped
  <2>3. activeDownloads[v].targetPath \in placed
    BY <1>2, <2>2 DEF ServingInv, FilesArePlaced
  <2>4. QED
    BY <1>3, <2>2, <2>3
<1>10. QED
  BY <1>2, <1>6, <1>7, <1>8, <1>9 DEF ServingInv

\* "done-ack": the slot is free.
LEMMA FinalServing ==
  ASSUME ServingInv, TypeOK, NEW u \in Uri, NEW result, Replied(u), ~Piped(u), process[u] = "none",
         done' = [done EXCEPT ![u] = result],
         activeDownloads' = [v \in Active \ {u} |-> activeDownloads[v]],
         NothingOverruled, NothingOverruled', UNCHANGED <<process, pipe, placed>>
  PROVE  ServingInv'
<1>1. reaping = NoUri /\ reaping' = NoUri
  BY DEF NothingOverruled
<1>2. FailuresAreErrors' /\ \A v \in Uri : ~Overruled(v)' /\ ~Overruled(v)
  BY NothingIsOverruled, NothingIsOverruledNext
<1>3. Active' = Active \ {u} /\ \A v \in Active' : activeDownloads'[v] = activeDownloads[v]
  BY DEF Active
<1>4. \A v \in Uri : v # u => done'[v] = done[v]
  BY DEF TypeOK, WorkerTypeOK
<1>5. Active \subseteq Uri
  BY DEF TypeOK, WorkerTypeOK
<1>6. ActiveIsNotDone'
  BY <1>3, <1>4, <1>5 DEF ServingInv, ActiveIsNotDone
<1>7. ToldOnce'
  <2> SUFFICES ASSUME NEW v \in Uri, Downloading(v)'
               PROVE  /\ v \in Active' /\ ~Replied(v)'
                      /\ \A i \in DOMAIN pipe'[v] : pipe'[v][i] \notin Result
    BY <1>2 DEF ToldOnce
  <2>1. Downloading(v)
    BY DEF Downloading
  <2>2. v \in Active /\ ~Replied(v) /\ \A i \in DOMAIN pipe[v] : pipe[v][i] \notin Result
    BY <2>1 DEF ServingInv, ToldOnce
  <2>3. v # u
    BY <2>2
  <2>4. QED
    BY <1>1, <1>3, <2>2, <2>3 DEF Replied
<1>8. KilledAreOverruled'
  BY <1>2 DEF ServingInv, KilledAreOverruled
<1>9. FilesArePlaced'
  <2> SUFFICES ASSUME NEW v \in Uri, Piped(v)', NEW i \in DOMAIN pipe'[v], pipe'[v][i] = "ok"
               PROVE  activeDownloads'[v].targetPath \in placed'
    BY DEF FilesArePlaced
  <2>1. Piped(v) /\ v \in Active' /\ ~Overruled(v)
    BY <1>2, <1>3 DEF Piped
  <2>2. activeDownloads[v].targetPath \in placed
    BY <2>1 DEF ServingInv, FilesArePlaced
  <2>3. QED
    BY <1>3, <2>1, <2>2
<1>10. QED
  BY <1>2, <1>6, <1>7, <1>8, <1>9 DEF ServingInv

LEMMA AppendMembers ==
  ASSUME NEW S, NEW s \in Seq(S), NEW x \in S
  PROVE  \A i \in DOMAIN Append(s, x) :
           Append(s, x)[i] = x \/ \E j \in DOMAIN s : Append(s, x)[i] = s[j]
<1>1. /\ Len(s) \in Nat /\ DOMAIN s = 1 .. Len(s)
      /\ DOMAIN Append(s, x) = 1 .. Len(s) + 1
      /\ \A i \in 1 .. Len(s) : Append(s, x)[i] = s[i]
      /\ Append(s, x)[Len(s) + 1] = x
  BY AppendProperties, LenProperties
<1>2. \A i \in 1 .. Len(s) + 1 : i \in 1 .. Len(s) \/ i = Len(s) + 1
  BY <1>1
<1>3. QED
  BY <1>1, <1>2

LEMMA WorkerSame ==
  ASSUME FailuresAreErrors, UNCHANGED <<workerQueue, reaping, activeDownloads>>
  PROVE  QueueAsBefore /\ SameTargets
<1>1. QueueAsBefore
  BY DEF QueueAsBefore, FailuresAreErrors, Overruled
<1>2. SameTargets
  BY DEF SameTargets, Active
<1>3. QED
  BY <1>1, <1>2

LEMMA PipesSame == pipe' = pipe => PipesBringNoResult
BY DEF PipesBringNoResult

LEMMA ProcessesSame == process' = process => NoNewPerformers
BY DEF NoNewPerformers, Downloading

LEMMA FinishServing ==
  ASSUME ServingInv, TypeOK, NEW u \in Uri, NEW result \in Result, FinishPerform(u, result),
         worker = "running", Piped(u)
  PROVE  ServingInv'
<1>1. /\ process[u] \in {"started", "sized", "killed"}
      /\ pipe' = [pipe EXCEPT ![u] = Append(@, result)]
      /\ process' = [process EXCEPT ![u] = "finishing"]
      /\ UNCHANGED <<reaping, workerQueue, done, activeDownloads>>
      /\ placed' = IF result = "ok" /\ process[u] # "killed" /\ u \in Active
                   THEN placed \cup {activeDownloads[u].targetPath} ELSE placed
  BY DEF FinishPerform, PerformerSends, workerVars
<1>2. /\ process'[u] = "finishing" /\ pipe'[u] = Append(pipe[u], result)
      /\ \A v \in Uri : v # u => process'[v] = process[v] /\ pipe'[v] = pipe[v]
  BY <1>1 DEF TypeOK, PerformerTypeOK
<1>3. \A i \in DOMAIN pipe'[u] : pipe'[u][i] = result \/ \E j \in DOMAIN pipe[u] : pipe'[u][i] = pipe[u][j]
  <2>1. pipe[u] \in Seq(PerformerMessage) /\ result \in PerformerMessage
    BY DEF TypeOK, PerformerTypeOK, PerformerMessage
  <2>2. QED
    BY <1>2, <2>1, AppendMembers
<1>4. QueueAsBefore /\ SameTargets
  BY <1>1, WorkerSame DEF ServingInv
<1>5. placed \subseteq placed'
  BY <1>1
<1>6. \A v \in Active : (Replied(v)' <=> Replied(v)) /\ (Piped(v)' <=> Piped(v))
  BY <1>1 DEF Replied, Piped, Active
<1>7. ActiveIsNotDone'
  BY <1>1 DEF ServingInv, ActiveIsNotDone, Active
<1>8. ToldOnce'
  <2> SUFFICES ASSUME NEW v \in Uri, Downloading(v)'
               PROVE  /\ v \in Active' /\ ~Replied(v)' /\ ~Overruled(v)'
                      /\ \A i \in DOMAIN pipe'[v] : pipe'[v][i] \notin Result
    BY DEF ToldOnce
  <2>1. v # u /\ Downloading(v)
    BY <1>2 DEF Downloading
  <2>2. /\ v \in Active /\ ~Replied(v) /\ ~Overruled(v)
        /\ \A i \in DOMAIN pipe[v] : pipe[v][i] \notin Result
    BY <2>1 DEF ServingInv, ToldOnce
  <2>3. QED
    BY <1>2, <1>4, <1>6, <2>1, <2>2 DEF SameTargets, QueueAsBefore
<1>9. KilledAreOverruled'
  BY <1>2, <1>4 DEF ServingInv, KilledAreOverruled, QueueAsBefore
<1>10. FilesArePlaced'
  <2> SUFFICES ASSUME NEW v \in Uri, Piped(v)', ~Overruled(v)', NEW i \in DOMAIN pipe'[v],
                      pipe'[v][i] = "ok"
               PROVE  activeDownloads'[v].targetPath \in placed'
    BY DEF FilesArePlaced
  <2>1. v \in Active /\ Piped(v) /\ ~Overruled(v)
    BY <1>4, <1>6 DEF SameTargets, QueueAsBefore, Piped
  <2>2. CASE \E j \in DOMAIN pipe[v] : pipe[v][j] = "ok"
    <3>1. activeDownloads[v].targetPath \in placed
      BY <2>1, <2>2 DEF ServingInv, FilesArePlaced
    <3>2. QED
      BY <1>1, <1>5, <3>1
  <2>3. CASE ~\E j \in DOMAIN pipe[v] : pipe[v][j] = "ok"
    <3>1. v = u
      <4>1. SUFFICES ASSUME v # u PROVE FALSE
        OBVIOUS
      <4>2. pipe'[v] = pipe[v]
        BY <1>2, <4>1
      <4>3. i \in DOMAIN pipe[v] /\ pipe[v][i] = "ok"
        BY <4>2
      <4>4. QED
        BY <2>3, <4>3
    <3>2. result = "ok"
      BY <1>3, <2>3, <3>1
    <3>3. process[u] # "killed"
      BY <2>1, <3>1 DEF ServingInv, KilledAreOverruled
    <3>4. QED
      BY <1>1, <2>1, <3>1, <3>2, <3>3
  <2>4. QED
    BY <2>2, <2>3
<1>11. QED
  BY <1>4, <1>7, <1>8, <1>9, <1>10 DEF ServingInv, QueueAsBefore

LEMMA PerformerServing ==
  ASSUME ServingInv, TypeOK, WorkerInv, worker = "running", NEW u \in Uri, PerformerStep(u)
  PROVE  ServingInv'
<1>1. UNCHANGED <<reaping, workerQueue, done, activeDownloads>>
  BY DEF PerformerStep, ReportWrongSize, FinishPerform, PerformerExit, PerformerCrash, workerVars
<1>2. QueueAsBefore /\ SameTargets
  BY <1>1, WorkerSame DEF ServingInv
<1>3. process \in [Uri -> ProcessLife] /\ pipe \in [Uri -> Seq(PerformerMessage)]
  BY DEF TypeOK, PerformerTypeOK
<1>4. process[u] # "none" => Piped(u)
  BY DEF WorkerInv, PerformersArePiped
<1>5. CASE ReportWrongSize(u)
  <2>1. /\ process[u] = "started" /\ placed' = placed
        /\ pipe' = [pipe EXCEPT ![u] = Append(@, "wrong size")]
        /\ process' = [process EXCEPT ![u] = "sized"]
    BY <1>4, <1>5 DEF ReportWrongSize, PerformerSends
  <2>2. NoNewPerformers
    BY <1>3, <2>1 DEF NoNewPerformers, Downloading
  <2>3. PipesBringNoResult
    <3> SUFFICES ASSUME NEW v \in Uri, NEW i \in DOMAIN pipe'[v]
                 PROVE  pipe'[v][i] = "wrong size" \/ \E j \in DOMAIN pipe[v] : pipe'[v][i] = pipe[v][j]
      BY DEF PipesBringNoResult
    <3>1. CASE v = u
      <4>1. pipe[u] \in Seq(PerformerMessage) /\ "wrong size" \in PerformerMessage
        BY <1>3 DEF PerformerMessage
      <4>2. pipe'[u] = Append(pipe[u], "wrong size")
        BY <1>3, <2>1
      <4>3. \A k \in DOMAIN Append(pipe[u], "wrong size") :
              \/ Append(pipe[u], "wrong size")[k] = "wrong size"
              \/ \E j \in DOMAIN pipe[u] : Append(pipe[u], "wrong size")[k] = pipe[u][j]
        <5> DEFINE s == pipe[u]
                   x == "wrong size"
        <5>1. s \in Seq(PerformerMessage) /\ x \in PerformerMessage
          BY <4>1
        <5> HIDE DEF s, x
        <5>2. \A k \in DOMAIN Append(s, x) :
                Append(s, x)[k] = x \/ \E j \in DOMAIN s : Append(s, x)[k] = s[j]
          BY <5>1, AppendMembers
        <5>3. QED
          BY <5>2 DEF s, x
      <4>4. QED
        BY <3>1, <4>2, <4>3
    <3>2. CASE v # u
      <4>1. pipe'[v] = pipe[v]
        BY <1>3, <2>1, <3>2
      <4>2. QED
        BY <4>1
    <3>3. QED
      BY <3>1, <3>2
  <2>4. QED
    BY <1>1, <1>2, <2>1, <2>2, <2>3, ServingKept
<1>6. ASSUME NEW result \in Result, FinishPerform(u, result) PROVE ServingInv'
  <2>1. process[u] # "none"
    BY <1>6 DEF FinishPerform
  <2>2. QED
    BY <1>4, <1>6, <2>1, FinishServing
<1>7. CASE PerformerExit(u) \/ PerformerCrash(u)
  <2>1. process' = [process EXCEPT ![u] = "dead"] /\ pipe' = pipe /\ placed' = placed
    BY <1>7 DEF PerformerExit, PerformerCrash
  <2>2. NoNewPerformers
    BY <1>3, <2>1 DEF NoNewPerformers, Downloading
  <2>3. QED
    BY <1>1, <1>2, <2>1, <2>2, PipesSame, ServingKept
<1>8. QED
  BY <1>5, <1>6, <1>7 DEF PerformerStep

-----------------------------------------------------------------------------
(* The handlers keep the worker's view *)

LEMMA QueueStays == NothingOverruled /\ NothingOverruled' => QueueAsBefore
BY NothingIsOverruled, NothingIsOverruledNext DEF QueueAsBefore

LEMMA WakeUpOverrulesNothing ==
  reaping' = NoUri /\ workerQueue' = <<PopDownload>> => NothingOverruled'
BY WakeUp DEF NothingOverruled

LEMMA EmptyOverrulesNothing ==
  ASSUME reaping' = NoUri, workerQueue' = <<>>
  PROVE  NothingOverruled'
<1>1. DOMAIN workerQueue' = {}
  OBVIOUS
<1>2. QED
  BY <1>1 DEF NothingOverruled

LEMMA IdleOverrulesNothing ==
  ASSUME reaping = NoUri, workerQueue = <<>>
  PROVE  NothingOverruled
<1>1. DOMAIN workerQueue = {}
  OBVIOUS
<1>2. QED
  BY <1>1 DEF NothingOverruled

LEMMA ProceedServing ==
  ASSUME ServingInv, TypeOK, worker' = "running", NothingOverruled, NEW r \in Request,
         ProceedDownload(r, <<>>)
  PROVE  ServingInv'
<1>1. reaping = NoUri /\ reaping' = NoUri /\ done' = done
  BY DEF NothingOverruled, ProceedDownload
<1>2. PassOn(<<>>) = <<PopDownload>>
  BY WakeUp
<1>3. CASE /\ IsDone(r.uri)
           /\ workerQueue' = PassOn(<<>>)
           /\ \/ UNCHANGED <<worker, performerVars>>
              \/ DiesSending(<<r.waiterSocket>>)
           /\ UNCHANGED <<activeDownloads, pipe>>
  <2>1. process' = process /\ placed' = placed
    BY <1>3, ServedOrDead DEF performerVars
  <2>2. NothingOverruled'
    BY <1>1, <1>2, <1>3, WakeUpOverrulesNothing
  <2>3. QueueAsBefore
    BY <2>2, QueueStays
  <2>4. SameTargets
    BY <1>3 DEF SameTargets, Active
  <2>5. NoNewPerformers /\ PipesBringNoResult
    BY <1>3, <2>1, ProcessesSame, PipesSame
  <2>6. QED
    BY <1>1, <2>1, <2>3, <2>4, <2>5, ServingKept
<1>4. CASE /\ r.uri \in Active
           /\ activeDownloads' = [activeDownloads EXCEPT
                ![r.uri].secondaryWaiterSockets = Append(@, r.waiterSocket)]
           /\ workerQueue' = PassOn(<<>>)
           /\ UNCHANGED <<performerVars, pipe>>
  <2>1. process' = process /\ placed' = placed
    BY <1>4 DEF performerVars
  <2>2. NothingOverruled'
    BY <1>1, <1>2, <1>4, WakeUpOverrulesNothing
  <2>3. QueueAsBefore
    BY <2>2, QueueStays
  <2>4. SameTargets
    BY <1>4 DEF SameTargets, Active, TypeOK, WorkerTypeOK, ActiveDownloadInfo
  <2>5. NoNewPerformers /\ PipesBringNoResult
    BY <1>4, <2>1, ProcessesSame, PipesSame
  <2>6. QED
    BY <1>1, <2>1, <2>3, <2>4, <2>5, ServingKept
<1>5. CASE workerQueue' = <<>> /\ UNCHANGED <<activeDownloads, performerVars, pipe>>
  <2>1. process' = process /\ placed' = placed
    BY <1>5 DEF performerVars
  <2>2. NothingOverruled'
    BY <1>1, <1>5, EmptyOverrulesNothing
  <2>3. QueueAsBefore
    BY <2>2, QueueStays
  <2>4. SameTargets
    BY <1>5 DEF SameTargets, Active
  <2>5. NoNewPerformers /\ PipesBringNoResult
    BY <1>5, <2>1, ProcessesSame, PipesSame
  <2>6. QED
    BY <1>1, <2>1, <2>3, <2>4, <2>5, ServingKept
<1>6. CASE Startable(r) /\ StartNewDownload(r) /\ workerQueue' = <<>>
  <2>1. NothingOverruled'
    BY <1>1, <1>6, EmptyOverrulesNothing
  <2>2. QED
    BY <1>1, <1>6, <2>1, StartServing DEF StartNewDownload
<1>7. QED
  BY <1>3, <1>4, <1>5, <1>6 DEF ProceedDownload

LEMMA PopServing ==
  ASSUME ServingInv, NothingOverruled, PopOnHold(<<>>)
  PROVE  ServingInv'
<1>1. /\ reaping' = NoUri /\ done' = done /\ reaping' = reaping
      /\ UNCHANGED <<activeDownloads, process, placed, pipe>>
      /\ \/ workerQueue' = <<>>
         \/ workerQueue' = Append(<<>>, Proceed(Head(onHold)))
  BY DEF NothingOverruled, PopOnHold, performerVars
<1>2. NothingOverruled'
  <2>1. CASE workerQueue' = <<>>
    BY <1>1, <2>1, EmptyOverrulesNothing
  <2>2. CASE workerQueue' = Append(<<>>, Proceed(Head(onHold)))
    <3>1. DOMAIN workerQueue' = {1} /\ workerQueue'[1] = Proceed(Head(onHold))
      BY <2>2
    <3>2. QED
      BY <1>1, <3>1 DEF NothingOverruled, Proceed
  <2>3. QED
    BY <1>1, <2>1, <2>2
<1>3. QueueAsBefore
  BY <1>2, QueueStays
<1>4. SameTargets
  BY <1>1 DEF SameTargets, Active
<1>5. NoNewPerformers /\ PipesBringNoResult
  BY <1>1, ProcessesSame, PipesSame
<1>6. QED
  BY <1>1, <1>3, <1>4, <1>5, ServingKept

\* A result which is handled while the worker runs on.
LEMMA ResultServing ==
  ASSUME ServingInv, TypeOK, worker' = "running", reaping = NoUri, NEW u \in Uri, u \in Active,
         NEW result, ProcessPreliminaryResult(u, result, <<>>),
         \A v \in Uri : Overruled(v) => v = u, ~Downloading(u), PipesBringNoResult
  PROVE  ServingInv'
<1>1. ~DiesSending(<<activeDownloads[u].waiterSocket>>)
  BY ServedOrDead
<1>2. /\ workerQueue' = <<>> /\ reaping' = u
      /\ UNCHANGED <<activeDownloads, done, process, placed>>
  BY <1>1 DEF ProcessPreliminaryResult, performerVars
<1>3. OverruledOnly(u)'
  BY <1>2, ReapingOverrulesNext
<1>4. QED
  BY <1>2, <1>3, PreliminaryServing

LEMMA InternalServing ==
  ASSUME ServingInv, TypeOK, WorkerInv, worker' = "running", HandleInternal
  PROVE  ServingInv'
<1> DEFINE m == Head(workerQueue)
<1>1. workerQueue # <<>> /\ QueueIsShort
  BY DEF HandleInternal, WorkerInv
<1>2. /\ reaping = NoUri /\ Tail(workerQueue) = <<>>
      /\ m \in InternalMessage
      /\ m.command = "done" => Piped(m.uri)
      /\ \A i \in DOMAIN workerQueue : workerQueue[i] = m
  BY <1>1, TakenFromQueue
<1>3. \/ m.command = "proceed-download" /\ ProceedDownload(m.request, <<>>)
      \/ m.command = "pop-download" /\ PopOnHold(<<>>)
      \/ m.command = "done" /\ ProcessPreliminaryResult(m.uri, m.result, <<>>) /\ UNCHANGED pipe
  BY <1>2 DEF HandleInternal
<1>4. m.command # "done" => NothingOverruled
  BY <1>2 DEF NothingOverruled
<1>5. 1 \in DOMAIN workerQueue
  <2>1. workerQueue \in Seq(InternalMessage)
    BY DEF TypeOK, WorkerTypeOK
  <2>2. QED
    BY <1>1, <2>1
<1> HIDE DEF m
<1>6. CASE m.command = "proceed-download" /\ ProceedDownload(m.request, <<>>)
  <2>1. m.request \in Request
    BY <1>2, <1>6, ProceedNumber
  <2>2. QED
    BY <1>4, <1>6, <2>1, ProceedServing
<1>7. CASE m.command = "pop-download" /\ PopOnHold(<<>>)
  BY <1>4, <1>7, PopServing
<1>8. CASE m.command = "done" /\ ProcessPreliminaryResult(m.uri, m.result, <<>>) /\ UNCHANGED pipe
  <2>1. m.uri \in Uri /\ m.uri \in Active
    BY <1>2, <1>8 DEF InternalMessage, Piped
  <2>2. \A v \in Uri : Overruled(v) => v = m.uri
    BY <1>2, ConstantsAssumption DEF Overruled, IsFailure, ConstantsAssumption
  <2>3. Overruled(m.uri)
    BY <1>2, <1>5, <1>8 DEF Overruled, IsFailure
  <2>4. ~Downloading(m.uri)
    BY <2>1, <2>3 DEF ServingInv, ToldOnce
  <2>5. PipesBringNoResult
    BY <1>8, PipesSame
  <2>6. QED
    BY <1>2, <1>8, <2>1, <2>2, <2>4, <2>5, ResultServing
<1>9. QED
  BY <1>3, <1>6, <1>7, <1>8

LEMMA ClientMessageServing ==
  ASSUME ServingInv, CallInv, WorkerInv, worker' = "running", NEW c \in Client,
         HandleClientMessage(c)
  PROVE  ServingInv'
<1> DEFINE m == Head(inbox[c])
<1>1. /\ reaping = NoUri /\ workerQueue = <<>> /\ inbox[c] # <<>>
      /\ DispatchClientMessage(c, m) /\ pipe' = pipe
      /\ TypeOK
  BY DEF HandleClientMessage, Polling, CallInv, TypeInv
<1>2. NothingOverruled
  BY <1>1, IdleOverrulesNothing
<1>3. PipesBringNoResult
  BY <1>1, PipesSame
<1>4. CASE m.command = "set-download-size"
  <2>1. UNCHANGED <<reaping, workerQueue, done, activeDownloads, process, placed>>
    BY <1>1, <1>4 DEF DispatchClientMessage, performerVars
  <2>2. QueueAsBefore /\ SameTargets /\ NoNewPerformers
    BY <2>1, WorkerSame, ProcessesSame DEF ServingInv
  <2>3. QED
    BY <1>3, <2>1, <2>2, ServingKept
<1>5. CASE m.command = "download"
  <2> DEFINE p == Proceed([uri |-> m.uri, targetPath |-> m.targetPath, waiterSocket |-> c])
  <2>1. /\ UNCHANGED <<reaping, done, activeDownloads, process, placed>>
        /\ workerQueue' = Append(workerQueue, p)
    BY <1>1, <1>5 DEF DispatchClientMessage, performerVars
  <2>2. p.command = "proceed-download"
    BY DEF Proceed
  <2> HIDE DEF p
  <2>3. DOMAIN workerQueue' = {1} /\ workerQueue'[1] = p
    BY <1>1, <2>1
  <2>4. NothingOverruled'
    BY <1>1, <2>1, <2>2, <2>3 DEF NothingOverruled
  <2>5. QueueAsBefore /\ SameTargets /\ NoNewPerformers
    BY <1>2, <2>1, <2>4, QueueStays, ProcessesSame DEF SameTargets, Active
  <2>6. QED
    BY <1>3, <2>1, <2>5, ServingKept
<1>6. CASE m.command = "done-ack"
  <2> DEFINE u == m.uri
  <2>1. /\ u \in Uri /\ u \in Active /\ Replied(u) /\ ~Piped(u) /\ process[u] = "none"
    BY <1>1, <1>6, AcknowledgedIsActive
  <2>2. ProcessFinalResult(u, m.result)
    BY <1>1, <1>6 DEF DispatchClientMessage
  <2>3. ~DiesSending(PendingWaiters(u))
    BY ServedOrDead
  <2> HIDE DEF u, m
  <2>4. /\ reaping' = reaping /\ done' = [done EXCEPT ![u] = m.result]
        /\ activeDownloads' = [v \in Active \ {u} |-> activeDownloads[v]]
        /\ workerQueue' = <<PopDownload>> /\ UNCHANGED <<process, placed>>
    BY <1>1, <2>1, <2>2, <2>3, WakeUp DEF ProcessFinalResult, performerVars
  <2>5. NothingOverruled'
    BY <1>1, <2>4, WakeUpOverrulesNothing
  <2>6. QED
    BY <1>1, <1>2, <2>1, <2>4, <2>5, FinalServing
<1>7. m.command \in {"set-download-size", "download", "done-ack"}
  BY <1>1 DEF DispatchClientMessage
<1>8. QED
  BY <1>4, <1>5, <1>6, <1>7

LEMMA TailBringsNothing ==
  ASSUME TypeOK, NEW u \in Uri, pipe[u] # <<>>, pipe' = [pipe EXCEPT ![u] = Tail(@)]
  PROVE  PipesBringNoResult
<1> SUFFICES ASSUME NEW v \in Uri, NEW i \in DOMAIN pipe'[v]
             PROVE  \E j \in DOMAIN pipe[v] : pipe'[v][i] = pipe[v][j]
  BY DEF PipesBringNoResult
<1>1. pipe \in [Uri -> Seq(PerformerMessage)]
  BY DEF TypeOK, PerformerTypeOK
<1>2. CASE v = u
  <2> DEFINE s == pipe[u]
  <2>1. s \in Seq(PerformerMessage) /\ s # <<>> /\ pipe'[u] = Tail(s)
    BY <1>1
  <2> HIDE DEF s
  <2>2. \A k \in DOMAIN Tail(s) : k + 1 \in DOMAIN s /\ Tail(s)[k] = s[k + 1]
    BY <2>1, TailIsThere
  <2>3. QED
    BY <1>2, <2>1, <2>2 DEF s
<1>3. CASE v # u
  <2>1. pipe'[v] = pipe[v]
    BY <1>1, <1>3
  <2>2. QED
    BY <2>1
<1>4. QED
  BY <1>2, <1>3

LEMMA PerformerInputServing ==
  ASSUME ServingInv, TypeOK, WorkerInv, worker' = "running", NEW u \in Uri,
         HandlePerformerMessage(u) \/ HandlePerformerEof(u)
  PROVE  ServingInv'
<1>1. /\ reaping = NoUri /\ workerQueue = <<>> /\ Piped(u) /\ u \in Active
  BY DEF HandlePerformerMessage, HandlePerformerEof, PollingPerformers, Polling, Piped
<1>2. NothingOverruled
  BY <1>1, IdleOverrulesNothing
<1>3. \A v \in Uri : ~Overruled(v)
  BY <1>2, NothingIsOverruled
<1>4. CASE HandlePerformerEof(u)
  <2>1. /\ process[u] = "dead" /\ pipe' = pipe
        /\ ProcessPreliminaryResult(u, UnexpectedExit, <<>>)
    BY <1>1, <1>4 DEF HandlePerformerEof
  <2>2. ~Downloading(u) /\ PipesBringNoResult
    BY <2>1, PipesSame DEF Downloading
  <2>3. QED
    BY <1>1, <1>3, <2>1, <2>2, ResultServing
<1>5. CASE HandlePerformerMessage(u)
  <2>1. pipe[u] # <<>> /\ pipe' = [pipe EXCEPT ![u] = Tail(@)]
    BY <1>5 DEF HandlePerformerMessage
  <2>2. PipesBringNoResult
    BY <2>1, TailBringsNothing
  <2>3. CASE Head(pipe[u]) = "wrong size"
    <3>1. ProcessProgressMessage(u)
      BY <1>5, <2>3 DEF HandlePerformerMessage
    <3>2. UNCHANGED <<reaping, done, activeDownloads>>
      BY <3>1 DEF ProcessProgressMessage
    <3>3. CASE u \in sizes
      <4> DEFINE m == [command |-> "done", uri |-> u, result |-> "error"]
      <4>1. /\ Sigterm({u}) /\ workerQueue' = Append(workerQueue, m)
            /\ placed' = placed \ {activeDownloads[u].targetPath}
        BY <3>1, <3>3 DEF ProcessProgressMessage
      <4> HIDE DEF m
      <4>2. workerQueue' = <<m>>
        BY <1>1, <4>1
      <4>3. OverruledOnly(u)'
        BY <1>1, <3>2, <4>2, QueuedOverrulesNext DEF m
      <4>4. OnePipePerTarget
        BY DEF WorkerInv
      <4>5. QED
        BY <1>1, <1>2, <2>2, <3>2, <4>1, <4>3, <4>4, KillServing
    <3>4. CASE u \notin sizes
      <4>1. UNCHANGED <<workerQueue, process, placed>>
        BY <3>1, <3>4 DEF ProcessProgressMessage, performerVars
      <4>2. QueueAsBefore /\ SameTargets /\ NoNewPerformers
        BY <3>2, <4>1, WorkerSame, ProcessesSame DEF ServingInv
      <4>3. QED
        BY <2>2, <3>2, <4>1, <4>2, ServingKept
    <3>5. QED
      BY <3>3, <3>4
  <2>4. CASE Head(pipe[u]) # "wrong size"
    <3>1. ProcessPreliminaryResult(u, Head(pipe[u]), <<>>)
      BY <1>1, <1>5, <2>4 DEF HandlePerformerMessage
    <3>2. pipe[u] \in Seq(PerformerMessage)
      BY DEF TypeOK, PerformerTypeOK
    <3>3. 1 \in DOMAIN pipe[u] /\ pipe[u][1] = Head(pipe[u]) /\ Head(pipe[u]) \in PerformerMessage
      BY <2>1, <3>2, HeadTailProperties
    <3>4. pipe[u][1] \in Result
      BY <2>4, <3>3 DEF PerformerMessage
    <3>5. ~Downloading(u)
      BY <3>3, <3>4 DEF ServingInv, ToldOnce
    <3>6. QED
      BY <1>1, <1>3, <2>2, <3>1, <3>5, ResultServing
  <2>5. QED
    BY <2>3, <2>4
<1>6. QED
  BY <1>4, <1>5

\* The steps of clients and parent, and those of the worker which end it or only
\* look at sockets.
LEMMA ServingStep ==
  ASSUME DistinctUris, RequestInv, worker = "running", worker' = "running", ServingInv, [Next]_vars
  PROVE  ServingInv'
<1>1. CallInv /\ WorkerInv /\ TypeOK
  BY DEF RequestInv, CallInv, TypeInv
<1>2. ASSUME UNCHANGED <<reaping, workerQueue, done, activeDownloads, process, pipe, placed>>
      PROVE  ServingInv'
  <2>1. QueueAsBefore /\ SameTargets /\ NoNewPerformers /\ PipesBringNoResult
    BY <1>2, WorkerSame, ProcessesSame, PipesSame DEF ServingInv
  <2>2. QED
    BY <1>2, <2>1, ServingKept
<1>3. CASE UNCHANGED vars
  BY <1>2, <1>3 DEF vars, workerVars, performerVars
<1>4. CASE WorkerStep
  <2>1. CASE HandleInternal
    BY <1>1, <2>1, InternalServing
  <2>2. CASE ForkFails \/ AcceptFails \/ Exit
    BY <2>2 DEF ForkFails, AcceptFails, Exit, Abort
  <2>3. CASE Reap
    BY <1>1, <2>3, ReapServing
  <2>4. CASE HandleParent
    BY <1>2, <2>4 DEF HandleParent, Abort, performerVars
  <2>5. ASSUME NEW c \in Client, HandleClientMessage(c)
        PROVE  ServingInv'
    BY <1>1, <2>5, ClientMessageServing
  <2>6. ASSUME NEW c \in Client, HandleClientEof(c)
        PROVE  ServingInv'
    BY <1>2, <2>6 DEF HandleClientEof, performerVars
  <2>7. ASSUME NEW u \in Uri, HandlePerformerMessage(u) \/ HandlePerformerEof(u)
        PROVE  ServingInv'
    BY <1>1, <2>7, PerformerInputServing
  <2>8. QED
    BY <1>4, <2>1, <2>2, <2>3, <2>4, <2>5, <2>6, <2>7 DEF WorkerStep
<1>5. ASSUME NEW u \in Uri, PerformerStep(u)
      PROVE  ServingInv'
  BY <1>1, <1>5, PerformerServing
<1>6. ASSUME NEW c \in Client, Connect(c) \/ ClientStep(c)
      PROVE  ServingInv'
  BY <1>2, <1>6 DEF Connect, ClientStep, ScheduleDownload, ReceiveReply, ReceiveEof, Return,
                    workerVars, performerVars
<1>7. CASE Destroy \/ ParentDies \/ ParentEnds
  BY <1>2, <1>7 DEF Destroy, ParentDies, ParentEnds, ParentPipeCloses, ClientDies,
                    workerVars, performerVars
<1>8. QED
  BY <1>3, <1>4, <1>5, <1>6, <1>7 DEF Next

-----------------------------------------------------------------------------
(* Messages on the sockets *)

Said == RepliesAreTrue /\ AcksAreTrue /\ FailuresLast

Linked == RepliesAreWaited /\ DownloadsAreWaited

WorkerIsNotBack == worker' = "running" => worker = "running"

\* Nothing happens on the sockets.
Silent == UNCHANGED <<inbox, outbox, waited, outcome, remaining>>

LEMMA TriedUris ==
  ASSUME TypeOK, TriedInOrder, NEW e \in Entity, NEW i \in 1 .. Tried(e)
  PROVE  i \in DOMAIN Uris[e] /\ Uris[e][i] \in Uri
<1>1. /\ Uris[e] \in Seq(Uri) /\ Len(Uris[e]) \in Nat /\ Len(remaining[e]) \in Nat
      /\ DOMAIN Uris[e] = 1 .. Len(Uris[e]) /\ Tried(e) \in Nat
      /\ Tried(e) = Len(Uris[e]) - Len(remaining[e])
  BY TriedType
<1>2. i \in 1 .. Len(Uris[e])
  BY <1>1
<1>3. QED
  BY <1>1, <1>2

LEMMA FailuresKept ==
  ASSUME TypeOK, TriedInOrder, FailuresLast, remaining' = remaining,
         \A c \in Client, u \in Uri : Failed(c, u) => Failed(c, u)'
  PROVE  FailuresLast'
<1> SUFFICES ASSUME NEW e \in Entity, NEW i \in 1 .. Tried(e)' - 1
             PROVE  Failed(Owner[e], Uris[e][i])'
  BY DEF FailuresLast
<1>1. Tried(e)' = Tried(e) /\ Tried(e) \in Nat
  BY TriedType DEF Tried
<1>2. i \in 1 .. Tried(e) - 1 /\ i \in 1 .. Tried(e)
  BY <1>1
<1>3. Uris[e][i] \in Uri /\ Owner[e] \in Client
  BY <1>2, TriedUris, ConstantsAssumption DEF ConstantsAssumption
<1>4. Failed(Owner[e], Uris[e][i])
  BY <1>2 DEF FailuresLast
<1>5. QED
  BY <1>3, <1>4

LEMMA SaidKept ==
  ASSUME TypeOK, TriedInOrder, Said, Silent, WorkerIsNotBack, done' = done, placed \subseteq placed'
  PROVE  Said'
<1>1. /\ \A c \in Client : \A reply : ToClient(c, reply)' <=> ToClient(c, reply)
      /\ \A c \in Client : \A m : ToWorker(c, m)' <=> ToWorker(c, m)
  BY DEF Silent, ToClient, ToWorker
<1>2. waited' = waited /\ outcome' = outcome /\ remaining' = remaining
  BY DEF Silent
<1>3. RepliesAreTrue'
  <2> SUFFICES ASSUME NEW c \in Client, NEW reply \in Reply, ToClient(c, reply)'
               PROVE  IsTrue(c, reply)'
    BY DEF RepliesAreTrue
  <2>1. IsTrue(c, reply)
    BY <1>1 DEF Said, RepliesAreTrue
  <2>2. QED
    BY <1>2, <2>1 DEF IsTrue
<1>4. AcksAreTrue'
  <2> SUFFICES ASSUME NEW c \in Client, NEW u \in Uri, ToWorker(c, Ack(u, "ok"))'
               PROVE  Delivered(u)'
    BY DEF AcksAreTrue, Ack
  <2>1. ToWorker(c, Ack(u, "ok"))
    BY <1>1 DEF Ack
  <2>2. Delivered(u)
    BY <2>1 DEF Said, AcksAreTrue
  <2>3. QED
    BY <1>2, <2>2 DEF Delivered
<1>5. \A c \in Client, u \in Uri : Failed(c, u) => Failed(c, u)'
  BY <1>1 DEF Failed, Ack, WorkerIsNotBack
<1>6. FailuresLast'
  BY <1>2, <1>5, FailuresKept DEF Said
<1>7. QED
  BY <1>3, <1>4, <1>6 DEF Said

LEMMA LinkedKept ==
  ASSUME Linked, UNCHANGED <<outbox, waited>>,
         \A u \in Uri : Downloading(u)' => Downloading(u),
         \A u \in Uri \cap Active :
           /\ u \in Active'
           /\ activeDownloads'[u].waiterSocket = activeDownloads[u].waiterSocket
           /\ activeDownloads'[u].targetPath = activeDownloads[u].targetPath
  PROVE  Linked'
<1>1. RepliesAreWaited'
  BY DEF Linked, RepliesAreWaited
<1>2. DownloadsAreWaited'
  <2> SUFFICES ASSUME NEW u \in Uri, Downloading(u)'
               PROVE  /\ u \in Active'
                      /\ waited'[activeDownloads'[u].waiterSocket][u] = activeDownloads'[u].targetPath
                      /\ Number(outbox'[activeDownloads'[u].waiterSocket], Replies(u)) = 0
    BY DEF DownloadsAreWaited
  <2>1. /\ u \in Active
        /\ waited[activeDownloads[u].waiterSocket][u] = activeDownloads[u].targetPath
        /\ Number(outbox[activeDownloads[u].waiterSocket], Replies(u)) = 0
    BY DEF Linked, DownloadsAreWaited
  <2>2. QED
    BY <2>1
<1>3. QED
  BY <1>1, <1>2 DEF Linked

\* A file is removed only if its performer is killed: nobody has heard of it.
LEMMA KillSaid ==
  ASSUME CallInv, WorkerInv, KnowledgeInv, Said, Silent, WorkerIsNotBack, done' = done,
         NEW u \in Uri, Piped(u), reaping = NoUri,
         placed' = placed \ {activeDownloads[u].targetPath}
  PROVE  Said'
<1> DEFINE e == activeDownloads[u].targetPath
           d == activeDownloads[u].waiterSocket
<1>1. /\ TypeOK /\ TriedInOrder /\ WaitedIsCurrent /\ UrisOfEntities /\ OneUriAtATime
      /\ AcknowledgedOnce
  BY DEF CallInv, TypeInv, KnowledgeInv, WorkerInv
<1>2. u \in Active /\ ~Replied(u) /\ e \in Entity /\ d \in Client /\ waited[d][u] = e
  <2>1. u \in Active /\ ~Replied(u)
    BY ConstantsAssumption DEF Piped, Replied, ConstantsAssumption
  <2>2. e \in Entity /\ d \in Client
    BY <1>1, <2>1 DEF TypeOK, WorkerTypeOK, ActiveDownloadInfo
  <2>3. waited[d][u] = e
    BY <2>1 DEF WorkerInv, TargetsAreWaited
  <2>4. QED
    BY <2>1, <2>2, <2>3
<1>3. e # NoEntity /\ outcome[e] = NoResult /\ Owner[e] = d
  BY <1>1, <1>2, ConstantsAssumption DEF ConstantsAssumption, WaitedIsCurrent, UrisOfEntities
<1>4. placed' = placed \ {e}
  OBVIOUS
<1> HIDE DEF e
<1>5. /\ \A c \in Client : \A reply : ToClient(c, reply)' <=> ToClient(c, reply)
      /\ \A c \in Client : \A m : ToWorker(c, m)' <=> ToWorker(c, m)
      /\ waited' = waited /\ outcome' = outcome /\ remaining' = remaining
  BY DEF Silent, ToClient, ToWorker
<1>6. RepliesAreTrue'
  <2> SUFFICES ASSUME NEW c \in Client, NEW reply \in Reply, ToClient(c, reply)'
               PROVE  IsTrue(c, reply)'
    BY DEF RepliesAreTrue
  <2> DEFINE v == reply.uri
  <2>1. ToClient(c, reply) /\ IsTrue(c, reply) /\ v \in Uri
    BY <1>5 DEF Said, RepliesAreTrue, Reply
  <2>2. ASSUME ~reply.isDuplicatedDownload, waited[c][v] = e
        PROVE  FALSE
    <3>1. c = d /\ v = u
      <4>1. c = d
        BY <1>1, <1>3, <2>1, <2>2 DEF UrisOfEntities
      <4>2. QED
        BY <1>1, <1>2, <1>3, <2>1, <2>2, <4>1 DEF OneUriAtATime
    <3>2. reply \in FreshReplies(u)
      BY <2>2, <3>1 DEF FreshReplies
    <3>3. Acknowledged(c, u) = 0
      BY <1>2 DEF Acknowledged
    <3>4. /\ Number(inbox[c], Acknowledgements(u)) \in Nat
          /\ Number(outbox[c], FreshReplies(u)) \in Nat
      BY <1>1, CountTypes
    <3>5. Number(inbox[c], Acknowledgements(u)) + Number(outbox[c], FreshReplies(u)) <= 0
      BY <1>1, <3>3 DEF AcknowledgedOnce
    <3>6. Number(outbox[c], FreshReplies(u)) = 0
      BY <3>4, <3>5
    <3>7. outbox[c] \in Seq(Reply)
      BY <1>1 DEF TypeOK, ClientTypeOK
    <3>8. \A i \in DOMAIN outbox[c] : outbox[c][i] \notin FreshReplies(u)
      BY <3>6, <3>7, NumberZero
    <3>9. QED
      BY <2>1, <3>2, <3>8 DEF ToClient
  <2>3. QED
    BY <1>4, <1>5, <2>1, <2>2 DEF IsTrue
<1>7. AcksAreTrue'
  <2> SUFFICES ASSUME NEW c \in Client, NEW v \in Uri, ToWorker(c, Ack(v, "ok"))'
               PROVE  Delivered(v)'
    BY DEF AcksAreTrue, Ack
  <2>1. ToWorker(c, Ack(v, "ok"))
    BY <1>5 DEF Ack
  <2>2. PICK f \in placed : v \in Range(Uris[f]) /\ outcome[f] = "ok"
    BY <2>1 DEF Said, AcksAreTrue, Delivered
  <2>3. f # e
    BY <1>3, <2>2 DEF NoResult
  <2>4. QED
    BY <1>4, <1>5, <2>2, <2>3 DEF Delivered
<1>8. \A c \in Client, v \in Uri : Failed(c, v) => Failed(c, v)'
  BY <1>5 DEF Failed, Ack, WorkerIsNotBack
<1>9. FailuresLast'
  BY <1>1, <1>5, <1>8, FailuresKept DEF Said
<1>10. QED
  BY <1>6, <1>7, <1>9 DEF Said

\* What clients may read is old or true, and what they have said is not forgotten.
RepliesOldOrTrue ==
  \A c \in Client, reply \in Reply :
    ToClient(c, reply)' => ToClient(c, reply) \/ IsTrue(c, reply)'

AcksAsBefore ==
  \A c \in Client, u \in Uri, result \in Result :
    ToWorker(c, Ack(u, result))' <=> ToWorker(c, Ack(u, result))

LEMMA SaidByWorker ==
  ASSUME TypeOK, TriedInOrder, Said, WorkerIsNotBack, RepliesOldOrTrue, AcksAsBefore,
         UNCHANGED <<waited, outcome, remaining, done>>, placed \subseteq placed'
  PROVE  Said'
<1>1. RepliesAreTrue'
  <2> SUFFICES ASSUME NEW c \in Client, NEW reply \in Reply, ToClient(c, reply)'
               PROVE  IsTrue(c, reply)'
    BY DEF RepliesAreTrue
  <2>1. CASE ToClient(c, reply)
    <3>1. IsTrue(c, reply)
      BY <2>1 DEF Said, RepliesAreTrue
    <3>2. QED
      BY <3>1 DEF IsTrue
  <2>2. QED
    BY <2>1 DEF RepliesOldOrTrue
<1>2. AcksAreTrue'
  <2> SUFFICES ASSUME NEW c \in Client, NEW u \in Uri, ToWorker(c, Ack(u, "ok"))'
               PROVE  Delivered(u)'
    BY DEF AcksAreTrue, Ack
  <2>1. ToWorker(c, Ack(u, "ok"))
    BY DEF AcksAsBefore, Result
  <2>2. Delivered(u)
    BY <2>1 DEF Said, AcksAreTrue
  <2>3. QED
    BY <2>2 DEF Delivered
<1>3. ASSUME NEW c \in Client, NEW u \in Uri, Failed(c, u)
      PROVE  Failed(c, u)'
  <2>1. ToWorker(c, Ack(u, "error")) => ToWorker(c, Ack(u, "error"))'
    BY DEF AcksAsBefore, Result
  <2>2. QED
    BY <1>3, <2>1 DEF Failed, WorkerIsNotBack, Ack
<1>4. FailuresLast'
  BY <1>3, FailuresKept DEF Said
<1>5. QED
  BY <1>1, <1>2, <1>4 DEF Said

\* What an outbox holds was there before or is the reply which is sent.
LEMMA RepliesSent ==
  ASSUME TypeOK, NEW sockets \in Seq(Client), NEW reply \in Reply, SendToAll(sockets, reply),
         NEW c \in Client, NEW r, ToClient(c, r)'
  PROVE  \/ ToClient(c, r)
         \/ r = reply /\ \E j \in Served(sockets) : sockets[j] = c
<1> DEFINE mine == {j \in Served(sockets) : sockets[j] = c}
           n == Cardinality(mine)
           replies == [i \in 1 .. n |-> reply]
<1>1. outbox'[c] = outbox[c] \o replies
  BY DEF SendToAll
<1>2. IsFiniteSet(mine) /\ n \in Nat
  <2>1. IsFiniteSet(1 .. Len(sockets))
    BY FS_Interval, LenProperties
  <2>2. mine \subseteq 1 .. Len(sockets)
    BY LenProperties DEF Served
  <2>3. QED
    BY <2>1, <2>2, FS_Subset, FS_CardinalityType
<1>3. mine = {} => n = 0
  BY FS_EmptySet
<1> HIDE DEF n
<1>4. replies \in Seq(Reply) /\ outbox[c] \in Seq(Reply)
  BY <1>2, RepeatedReplies DEF TypeOK, ClientTypeOK
<1>5. /\ DOMAIN replies = 1 .. n
      /\ \A i \in 1 .. n : replies[i] = reply
  OBVIOUS
<1>6. PICK i \in DOMAIN outbox'[c] : outbox'[c][i] = r
  BY DEF ToClient
<1> HIDE DEF replies, mine
<1>7. /\ DOMAIN (outbox[c] \o replies) = 1 .. Len(outbox[c]) + Len(replies)
      /\ Len(outbox[c]) \in Nat /\ Len(replies) \in Nat
      /\ DOMAIN outbox[c] = 1 .. Len(outbox[c]) /\ DOMAIN replies = 1 .. Len(replies)
      /\ \A k \in 1 .. Len(outbox[c]) + Len(replies) :
            (outbox[c] \o replies)[k] =
               IF k <= Len(outbox[c]) THEN outbox[c][k] ELSE replies[k - Len(outbox[c])]
  BY <1>4, ConcatProperties, LenProperties
<1>8. CASE i <= Len(outbox[c])
  <2>1. i \in DOMAIN outbox[c] /\ outbox[c][i] = r
    BY <1>1, <1>6, <1>7, <1>8
  <2>2. QED
    BY <2>1 DEF ToClient
<1>9. CASE ~(i <= Len(outbox[c]))
  <2>1. i \in 1 .. Len(outbox[c]) + Len(replies)
    BY <1>1, <1>6, <1>7
  <2>2. i - Len(outbox[c]) \in 1 .. Len(replies)
    BY <1>7, <1>9, <2>1
  <2>3. r = replies[i - Len(outbox[c])]
    BY <1>1, <1>6, <1>7, <1>9, <2>1
  <2>4. r = reply
    BY <1>5, <1>7, <2>2, <2>3
  <2>5. n # 0
    BY <1>2, <1>5, <1>7, <2>2
  <2>6. mine # {}
    BY <1>3, <2>5
  <2>7. QED
    BY <2>4, <2>6 DEF mine
<1>10. QED
  BY <1>8, <1>9

\* The only socket is the one which is not served.
LEMMA NothingSent ==
  ASSUME TypeOK, NEW s, NEW reply, DiesSending(<<s>>), SendToAll(<<s>>, reply)
  PROVE  outbox' = outbox
<1> DEFINE sockets == <<s>>
<1>1. DOMAIN sockets = {1}
  OBVIOUS
<1>2. PICK i \in DOMAIN sockets : i \notin Served(sockets)
  BY DEF DiesSending
<1>3. Served(sockets) \subseteq DOMAIN sockets
  BY DEF Served
<1>4. SendToAll(sockets, reply)
  OBVIOUS
<1> HIDE DEF sockets
<1>5. Served(sockets) = {}
  BY <1>1, <1>2, <1>3
<1>6. \A c \in Client : Cardinality({j \in Served(sockets) : sockets[j] = c}) = 0
  BY <1>5, FS_EmptySet
<1>7. \A c \in Client : outbox'[c] = outbox[c] \o [k \in 1 .. 0 |-> reply]
  BY <1>4, <1>6 DEF SendToAll
<1>8. [k \in 1 .. 0 |-> reply] = <<>>
  OBVIOUS
<1>9. \A c \in Client : outbox[c] \o <<>> = outbox[c]
  BY ConcatEmptySeq DEF TypeOK, ClientTypeOK
<1>10. outbox' \in [Client -> {outbox'[c] : c \in Client}] /\ outbox \in [Client -> Seq(Reply)]
  BY <1>4 DEF SendToAll, TypeOK, ClientTypeOK
<1>11. \A c \in Client : outbox'[c] = outbox[c]
  BY <1>7, <1>8, <1>9
<1>12. QED
  BY <1>10, <1>11

\* A message which is no acknowledgement leaves the inbox.
LEMMA OtherMessageTaken ==
  ASSUME TypeOK, NEW c \in Client, TakesMessage(c), Head(inbox[c]).command # "done-ack"
  PROVE  AcksAsBefore
<1> SUFFICES ASSUME NEW d \in Client, NEW u \in Uri, NEW result \in Result
             PROVE  ToWorker(d, Ack(u, result))' <=> ToWorker(d, Ack(u, result))
  BY DEF AcksAsBefore
<1> DEFINE m == Ack(u, result)
           s == inbox[c]
<1>1. inbox \in [Client -> Seq(ClientMessage)] /\ s # <<>> /\ s \in Seq(ClientMessage)
  BY DEF TypeOK, ClientTypeOK, TakesMessage
<1>2. inbox'[c] = Tail(s) /\ \A f \in Client : f # c => inbox'[f] = inbox[f]
  BY <1>1 DEF TakesMessage
<1>3. m # Head(s)
  BY DEF Ack
<1>4. ToWorker(d, m)' <=> \E i \in DOMAIN inbox'[d] : inbox'[d][i] = m
  BY DEF ToWorker, Ack
<1> HIDE DEF m, s
<1>5. /\ \A i \in DOMAIN Tail(s) : i + 1 \in DOMAIN s /\ Tail(s)[i] = s[i + 1]
      /\ \A i \in DOMAIN s : s[i] # Head(s) => \E j \in DOMAIN Tail(s) : Tail(s)[j] = s[i]
  BY <1>1, TailIsThere
<1>6. CASE d = c
  <2>1. (\E i \in DOMAIN Tail(s) : Tail(s)[i] = m) <=> (\E i \in DOMAIN s : s[i] = m)
    BY <1>3, <1>5
  <2>2. QED
    BY <1>2, <1>4, <1>6, <2>1 DEF ToWorker, s, m
<1>7. CASE d # c
  BY <1>2, <1>4, <1>7 DEF ToWorker, m
<1>8. QED
  BY <1>6, <1>7

\* proceedDownload or finishPendingDownloads repeat a result; the performer's
\* result, if a success, is behind a file.
LEMMA ReplySaid ==
  ASSUME TypeOK, TriedInOrder, Said, WorkerIsNotBack,
         UNCHANGED <<inbox, waited, outcome, remaining, done, placed>>,
         NEW s \in Client, NEW reply \in Reply, SendToAll(<<s>>, reply), IsTrue(s, reply)
  PROVE  Said'
<1> DEFINE sockets == <<s>>
<1>1. sockets \in Seq(Client) /\ SendToAll(sockets, reply)
  OBVIOUS
<1>2. \A j \in DOMAIN sockets : sockets[j] = s
  OBVIOUS
<1>3. Served(sockets) \subseteq DOMAIN sockets
  BY DEF Served
<1> HIDE DEF sockets
<1>4. ASSUME NEW c \in Client, NEW r \in Reply, ToClient(c, r)'
      PROVE  ToClient(c, r) \/ IsTrue(c, r)'
  <2>1. ToClient(c, r) \/ (r = reply /\ \E j \in Served(sockets) : sockets[j] = c)
    BY <1>1, <1>4, RepliesSent
  <2>2. ASSUME r = reply, c = s
        PROVE  IsTrue(c, r)'
    BY <2>2 DEF IsTrue
  <2>3. QED
    BY <1>2, <1>3, <2>1, <2>2
<1>5. RepliesOldOrTrue
  BY <1>4 DEF RepliesOldOrTrue
<1>6. AcksAsBefore
  BY DEF AcksAsBefore, ToWorker, Ack
<1>7. QED
  BY <1>5, <1>6, SaidByWorker

LEMMA ProceedSaid ==
  ASSUME TypeOK, TriedInOrder, Said, WorkerIsNotBack, NEW r \in Request, NEW rest,
         ProceedDownload(r, rest), UNCHANGED <<inbox, callVars>>
  PROVE  Said'
<1>1. UNCHANGED <<inbox, waited, outcome, remaining, done, placed>>
  BY DEF ProceedDownload, callVars, performerVars, DiesSending, Abort, StartNewDownload
<1>2. CASE outbox' = outbox
  BY <1>1, <1>2, SaidKept DEF Silent
<1>3. CASE IsDone(r.uri)
  <2> DEFINE reply == [uri |-> r.uri, result |-> done[r.uri], isDuplicatedDownload |-> TRUE]
             s == r.waiterSocket
  <2>1. r.uri \in Uri /\ s \in Client /\ done[r.uri] \in Result
    BY <1>3 DEF Request, IsDone, TypeOK, WorkerTypeOK
  <2>2. reply \in Reply /\ IsTrue(s, reply)
    BY <2>1 DEF Reply, IsTrue
  <2>3. SendToAll(<<s>>, reply)
    BY <1>3 DEF ProceedDownload, Startable
  <2> HIDE DEF reply, s
  <2>4. QED
    BY <1>1, <2>1, <2>2, <2>3, ReplySaid
<1>4. QED
  BY <1>2, <1>3 DEF ProceedDownload

LEMMA ResultSaid ==
  ASSUME CallInv, WorkerInv, KnowledgeInv, Said, ServingInv, WorkerIsNotBack, worker = "running",
         NEW u \in Uri, Piped(u), reaping = NoUri, NEW result \in Result, NEW rest,
         result = "ok" => activeDownloads[u].targetPath \in placed,
         ProcessPreliminaryResult(u, result, rest), UNCHANGED <<inbox, callVars>>
  PROVE  Said'
<1> DEFINE s == activeDownloads[u].waiterSocket
           reply == [uri |-> u, result |-> result, isDuplicatedDownload |-> FALSE]
<1>1. /\ TypeOK /\ TriedInOrder
      /\ UNCHANGED <<inbox, waited, outcome, remaining, done, placed>>
  BY DEF CallInv, TypeInv, KnowledgeInv, ProcessPreliminaryResult, callVars, performerVars,
         DiesSending, Abort
<1>2. u \in Active /\ ~Replied(u) /\ s \in Client
  <2>1. u \in Active /\ ~Replied(u)
    BY ConstantsAssumption DEF Piped, Replied, ConstantsAssumption
  <2>2. QED
    BY <1>1, <2>1 DEF TypeOK, WorkerTypeOK, ActiveDownloadInfo
<1>3. SendToAll(<<s>>, reply)
  BY <1>2 DEF ProcessPreliminaryResult
<1>4. done[u] = NoResult
  BY <1>2 DEF ServingInv, ActiveIsNotDone
<1>5. waited[s][u] = activeDownloads[u].targetPath
  BY <1>2 DEF WorkerInv, TargetsAreWaited
<1>6. reply \in Reply /\ IsTrue(s, reply)
  BY <1>4, <1>5 DEF Reply, IsTrue
<1> HIDE DEF s, reply
<1>7. QED
  BY <1>1, <1>2, <1>3, <1>6, ReplySaid

\* A worker which dies here has sent nothing.
LEMMA ResultLinked ==
  ASSUME TypeOK, Linked, worker' # "running", NEW u, NEW result, NEW rest, u \in Active,
         worker = "running", ProcessPreliminaryResult(u, result, rest), UNCHANGED <<inbox, callVars>>
  PROVE  Linked'
<1> DEFINE s == activeDownloads[u].waiterSocket
           reply == [uri |-> u, result |-> result, isDuplicatedDownload |-> FALSE]
<1>1. DiesSending(<<s>>) /\ SendToAll(<<s>>, reply)
  BY DEF ProcessPreliminaryResult
<1>2. UNCHANGED <<waited, activeDownloads>>
  BY DEF ProcessPreliminaryResult, callVars
<1>3. \A v \in Uri : Downloading(v)' => Downloading(v)
  BY <1>1 DEF DiesSending, Abort, Sigterm, performerVars, Downloading
<1> HIDE DEF s, reply
<1>4. outbox' = outbox
  BY <1>1, NothingSent
<1>5. QED
  BY <1>2, <1>3, <1>4, LinkedKept DEF Active

LEMMA ProceedLinked ==
  ASSUME TypeOK, Linked, worker' # "running", worker = "running", NEW r, NEW rest,
         ProceedDownload(r, rest), UNCHANGED <<inbox, callVars>>
  PROVE  Linked'
<1> DEFINE s == r.waiterSocket
           reply == [uri |-> r.uri, result |-> done[r.uri], isDuplicatedDownload |-> TRUE]
<1>1. DiesSending(<<s>>) /\ SendToAll(<<s>>, reply) /\ activeDownloads' = activeDownloads
  BY DEF ProceedDownload, StartNewDownload
<1>2. waited' = waited
  BY DEF callVars
<1>3. \A v \in Uri : Downloading(v)' => Downloading(v)
  BY <1>1 DEF DiesSending, Abort, Sigterm, performerVars, Downloading
<1> HIDE DEF s, reply
<1>4. outbox' = outbox
  BY <1>1, NothingSent
<1>5. QED
  BY <1>1, <1>2, <1>3, <1>4, LinkedKept DEF Active

\* The final result, whether it reaches all who wait or not.
Finishes(c, u, result) ==
  /\ TakesMessage(c) /\ Head(inbox[c]) = Ack(u, result)
  /\ done' = [done EXCEPT ![u] = result]
  /\ SendToAll(PendingWaiters(u), [uri |-> u, result |-> result, isDuplicatedDownload |-> TRUE])
  /\ UNCHANGED <<placed, waited, outcome, remaining>>

\* While the acknowledgement of c is under way, nobody else has heard of u.
LEMMA AcknowledgedByOne ==
  ASSUME CallInv, WorkerInv, reaping = NoUri, NEW c \in Client, NEW u \in Uri, NEW result \in Result,
         inbox[c] # <<>>, Head(inbox[c]) = Ack(u, result)
  PROVE  /\ u \in Active /\ process[u] = "none"
         /\ \A d \in Client : \A i \in DOMAIN outbox[d] : outbox[d][i] \notin FreshReplies(u)
         /\ \A d \in Client : \A i \in DOMAIN inbox[d] :
              inbox[d][i] \in Acknowledgements(u) => d = c /\ inbox[d][i] = Ack(u, result)
<1>1. /\ Head(inbox[c]).command = "done-ack" /\ Head(inbox[c]).uri = u
      /\ inbox[c] \in Seq(ClientMessage) /\ TypeOK
  <2>1. TypeOK /\ inbox[c] \in Seq(ClientMessage)
    BY DEF CallInv, TypeInv, TypeOK, ClientTypeOK
  <2>2. Ack(u, result).command = "done-ack" /\ Ack(u, result).uri = u
    BY DEF Ack
  <2>3. QED
    BY <2>1, <2>2
<1>2. /\ u \in Active /\ activeDownloads[u].waiterSocket = c
      /\ Replied(u) /\ process[u] = "none"
      /\ Number(inbox[c], Acknowledgements(u)) = 1
      /\ Number(outbox[c], FreshReplies(u)) = 0
  BY <1>1, AcknowledgedIsActive
<1>3. ASSUME NEW d \in Client
      PROVE  /\ Number(outbox[d], FreshReplies(u)) = 0
             /\ d # c => Number(inbox[d], Acknowledgements(u)) = 0
  <2>1. Number(inbox[d], Acknowledgements(u)) + Number(outbox[d], FreshReplies(u))
          <= Acknowledged(d, u)
    BY DEF WorkerInv, AcknowledgedOnce
  <2>2. /\ Number(inbox[d], Acknowledgements(u)) \in Nat
        /\ Number(outbox[d], FreshReplies(u)) \in Nat
    BY <1>1, CountTypes
  <2>3. d # c => Acknowledged(d, u) = 0
    BY <1>2 DEF Acknowledged
  <2>4. QED
    BY <1>2, <2>1, <2>2, <2>3
<1>4. \A d \in Client : inbox[d] \in Seq(ClientMessage) /\ outbox[d] \in Seq(Reply)
  BY <1>1 DEF TypeOK, ClientTypeOK
<1>5. ASSUME NEW d \in Client, NEW i \in DOMAIN outbox[d]
      PROVE  outbox[d][i] \notin FreshReplies(u)
  BY <1>3, <1>4, NumberZero
<1>6. ASSUME NEW d \in Client, NEW i \in DOMAIN inbox[d], inbox[d][i] \in Acknowledgements(u)
      PROVE  d = c /\ inbox[d][i] = Ack(u, result)
  <2>1. Number(inbox[d], Acknowledgements(u)) # 0
    BY <1>4, <1>6, NumberZero
  <2>2. d = c
    BY <1>3, <2>1
  <2>3. 1 \in DOMAIN inbox[c] /\ inbox[c][1] = Ack(u, result)
    BY <1>1, HeadTailProperties
  <2>4. Ack(u, result) \in Acknowledgements(u)
    BY DEF Ack, Acknowledgements, ClientMessage
  <2>5. Number(inbox[c], Acknowledgements(u)) <= 1
    BY <1>2
  <2>6. i = 1
    BY <1>1, <1>6, <2>2, <2>3, <2>4, <2>5, OneHit
  <2>7. QED
    BY <2>2, <2>3, <2>6
<1>7. QED
  BY <1>2, <1>5, <1>6

LEMMA FinalSaid ==
  ASSUME CallInv, WorkerInv, KnowledgeInv, Said, ServingInv, WorkerIsNotBack, worker = "running",
         reaping = NoUri, NEW c \in Client, NEW u \in Uri, NEW result \in Result,
         Finishes(c, u, result)
  PROVE  Said'
<1> DEFINE reply == [uri |-> u, result |-> result, isDuplicatedDownload |-> TRUE]
           waiters == PendingWaiters(u)
<1>1. /\ TypeOK /\ TriedInOrder
      /\ UNCHANGED <<placed, waited, outcome, remaining>>
      /\ TakesMessage(c) /\ inbox[c] # <<>> /\ Head(inbox[c]) = Ack(u, result)
      /\ SendToAll(waiters, reply)
  BY DEF CallInv, TypeInv, KnowledgeInv, Finishes, TakesMessage
<1>2. /\ u \in Active
      /\ \A d \in Client : \A i \in DOMAIN outbox[d] : outbox[d][i] \notin FreshReplies(u)
      /\ \A d \in Client : \A i \in DOMAIN inbox[d] :
           inbox[d][i] \in Acknowledgements(u) => d = c /\ inbox[d][i] = Ack(u, result)
  BY <1>1, AcknowledgedByOne
<1>3. /\ done[u] = NoResult /\ done'[u] = result
      /\ \A v \in Uri : v # u => done'[v] = done[v]
  BY <1>1, <1>2 DEF ServingInv, ActiveIsNotDone, Finishes, TypeOK, WorkerTypeOK
<1>4. waiters \in Seq(Client) /\ reply \in Reply
  BY <1>1, <1>2 DEF TypeOK, WorkerTypeOK, ActiveDownloadInfo, PendingWaiters, Reply
<1>5. \A d \in Client : \A i \in DOMAIN inbox'[d] :
        \E j \in DOMAIN inbox[d] : inbox'[d][i] = inbox[d][j]
  BY <1>1, MessageTaken
<1>6. RepliesAreTrue'
  <2> SUFFICES ASSUME NEW d \in Client, NEW r \in Reply, ToClient(d, r)'
               PROVE  IsTrue(d, r)'
    BY DEF RepliesAreTrue
  <2>1. ToClient(d, r) \/ r = reply
    <3> HIDE DEF reply, waiters
    <3>1. QED
      BY <1>1, <1>4, RepliesSent
  <2>2. CASE r = reply
    BY <1>3, <2>2 DEF IsTrue
  <2>3. CASE ToClient(d, r)
    <3>1. IsTrue(d, r) /\ r.uri \in Uri /\ r.result \in Result
      BY <2>3 DEF Said, RepliesAreTrue, Reply
    <3>2. r.uri # u
      <4>1. SUFFICES ASSUME r.uri = u PROVE FALSE
        OBVIOUS
      <4>2. ~r.isDuplicatedDownload
        BY <1>3, <3>1, <4>1 DEF IsTrue, Result, NoResult
      <4>3. r \in FreshReplies(u)
        BY <4>1, <4>2 DEF FreshReplies
      <4>4. QED
        BY <1>2, <2>3, <4>3 DEF ToClient
    <3>3. QED
      BY <1>1, <1>3, <3>1, <3>2 DEF IsTrue
  <2>4. QED
    BY <2>1, <2>2, <2>3
<1>7. AcksAreTrue'
  <2> SUFFICES ASSUME NEW d \in Client, NEW v \in Uri, ToWorker(d, Ack(v, "ok"))'
               PROVE  Delivered(v)'
    BY DEF AcksAreTrue, Ack
  <2>1. ToWorker(d, Ack(v, "ok"))
    BY <1>5 DEF ToWorker, Ack
  <2>2. Delivered(v)
    BY <2>1 DEF Said, AcksAreTrue
  <2>3. QED
    BY <1>1, <2>2 DEF Delivered
<1>8. ASSUME NEW d \in Client, NEW v \in Uri, Failed(d, v)
      PROVE  Failed(d, v)'
  <2>1. CASE v = u
    <3>1. ToWorker(d, Ack(u, "error"))
      BY <1>3, <1>8, <2>1 DEF Failed, NoResult
    <3>2. PICK i \in DOMAIN inbox[d] : inbox[d][i] = Ack(u, "error")
      BY <3>1 DEF ToWorker
    <3>3. Ack(u, "error") \in Acknowledgements(u)
      BY DEF Ack, Acknowledgements, ClientMessage, Result
    <3>4. Ack(u, "error") = Ack(u, result)
      BY <1>2, <3>2, <3>3
    <3>5. result = "error"
      BY <3>4 DEF Ack
    <3>6. QED
      BY <1>3, <2>1, <3>5 DEF Failed
  <2>2. CASE v # u
    <3>1. ASSUME ToWorker(d, Ack(v, "error"))
          PROVE  ToWorker(d, Ack(v, "error"))'
      <4> DEFINE m == Ack(v, "error")
                 s == inbox[c]
      <4>1. m # Head(s)
        BY <1>1, <2>2 DEF Ack
      <4>2. s \in Seq(ClientMessage) /\ s # <<>>
        BY <1>1 DEF TypeOK, ClientTypeOK
      <4>3. inbox'[c] = Tail(s) /\ \A f \in Client : f # c => inbox'[f] = inbox[f]
        BY <1>1 DEF TypeOK, ClientTypeOK, TakesMessage
      <4>4. (ToWorker(d, m))' <=> \E i \in DOMAIN inbox'[d] : inbox'[d][i] = m
        BY DEF ToWorker, Ack
      <4>5. PICK i \in DOMAIN inbox[d] : inbox[d][i] = m
        BY <3>1 DEF ToWorker
      <4> HIDE DEF m, s
      <4>6. \A k \in DOMAIN s : s[k] # Head(s) => \E j \in DOMAIN Tail(s) : Tail(s)[j] = s[k]
        BY <4>2, TailIsThere
      <4>7. \E j \in DOMAIN inbox'[d] : inbox'[d][j] = m
        BY <4>1, <4>3, <4>5, <4>6 DEF s
      <4>8. QED
        BY <4>4, <4>7 DEF m
    <3>2. QED
      BY <1>3, <1>8, <2>2, <3>1 DEF Failed, WorkerIsNotBack, Ack
  <2>3. QED
    BY <2>1, <2>2
<1>9. FailuresLast'
  BY <1>1, <1>8, FailuresKept DEF Said
<1>10. QED
  BY <1>6, <1>7, <1>9 DEF Said

\* Some of those who wait may get the result before the worker dies.
LEMMA RepliesBounded ==
  ASSUME TypeOK, NEW sockets \in Seq(Client), NEW reply \in Reply, SendToAll(sockets, reply)
  PROVE  \A c \in Client : \A T :
           /\ Number(sockets, {c}) \in Nat
           /\ Number(outbox[c], T) \in Nat
           /\ Number(outbox'[c], T) <=
                Number(outbox[c], T) + (IF reply \in T THEN Number(sockets, {c}) ELSE 0)
<1> SUFFICES ASSUME NEW c \in Client, NEW T
             PROVE  /\ Number(sockets, {c}) \in Nat
                    /\ Number(outbox[c], T) \in Nat
                    /\ Number(outbox'[c], T) <= Number(outbox[c], T)
                         + (IF reply \in T THEN Number(sockets, {c}) ELSE 0)
  OBVIOUS
<1> DEFINE mine == {j \in Served(sockets) : sockets[j] = c}
           n == Cardinality(mine)
           replies == [i \in 1 .. n |-> reply]
<1>1. mine \in SUBSET Hits(sockets, {c})
  BY DEF Served, Hits
<1>2. IsFiniteSet(Hits(sockets, {c})) /\ Number(sockets, {c}) \in Nat
  BY NumberType
<1> HIDE DEF mine
<1>3. n <= Number(sockets, {c}) /\ n \in Nat
  <2>1. IsFiniteSet(mine) /\ Cardinality(mine) <= Cardinality(Hits(sockets, {c}))
    BY <1>1, <1>2, FS_Subset
  <2>2. QED
    BY <2>1, FS_CardinalityType DEF Number
<1>4. outbox'[c] = outbox[c] \o replies
  BY DEF SendToAll, mine
<1> HIDE DEF n
<1>5. replies \in Seq(Reply) /\ outbox[c] \in Seq(Reply)
  BY <1>3, RepeatedReplies DEF TypeOK, ClientTypeOK
<1>6. Number(replies, T) = IF reply \in T THEN n ELSE 0
  <2>1. n \in Nat
    BY <1>3
  <2>2. \A m \in Nat : Number([i \in 1 .. m |-> reply], T) = IF reply \in T THEN m ELSE 0
    BY NumberRepeated
  <2>3. QED
    BY <2>1, <2>2
<1> HIDE DEF replies
<1>7. Number(outbox[c] \o replies, T) = Number(outbox[c], T) + Number(replies, T)
  BY <1>5, NumberConcat
<1>8. Number(outbox[c], T) \in Nat
  BY <1>5, NumberType
<1>9. QED
  BY <1>2, <1>3, <1>4, <1>6, <1>7, <1>8

LEMMA FinalLinked ==
  ASSUME CallInv, WorkerInv, Linked, reaping = NoUri, NEW c \in Client, NEW u \in Uri,
         NEW result \in Result, Finishes(c, u, result), activeDownloads' = activeDownloads,
         \A v \in Uri : Downloading(v)' => Downloading(v)
  PROVE  Linked'
<1> DEFINE reply == [uri |-> u, result |-> result, isDuplicatedDownload |-> TRUE]
           waiters == PendingWaiters(u)
<1>1. /\ TypeOK /\ waited' = waited /\ inbox[c] # <<>> /\ Head(inbox[c]) = Ack(u, result)
      /\ SendToAll(waiters, reply) /\ RequestsCounted
  BY DEF CallInv, TypeInv, Finishes, TakesMessage, WorkerInv
<1>2. u \in Active /\ process[u] = "none"
  BY <1>1, AcknowledgedByOne
<1>3. /\ waiters \in Seq(Client) /\ reply \in Reply
      /\ \A v \in Uri : reply \in Replies(v) <=> v = u
  BY <1>1, <1>2 DEF TypeOK, WorkerTypeOK, ActiveDownloadInfo, PendingWaiters, Reply, Replies
<1>4. \A d \in Client : Secondary(d, u) = Number(waiters, {d})
  BY <1>2 DEF Secondary, PendingWaiters
<1>5. \A v \in Uri : Downloading(v) => v # u
  BY <1>2 DEF Downloading
<1>6. \A d \in Client : outbox'[d] \in Seq(Reply)
  <2> SUFFICES ASSUME NEW d \in Client
               PROVE  outbox'[d] \in Seq(Reply)
    OBVIOUS
  <2> DEFINE mine == {j \in Served(waiters) : waiters[j] = d}
  <2> HIDE DEF waiters, reply
  <2>1. outbox' \in [Client -> Seq(Reply)]
    BY <1>1, <1>3, SendToAllType
  <2>2. QED
    BY <2>1
<1> HIDE DEF reply, waiters
<1>7. \A d \in Client : \A T :
        /\ Number(waiters, {d}) \in Nat
        /\ Number(outbox[d], T) \in Nat
        /\ Number(outbox'[d], T) <=
             Number(outbox[d], T) + (IF reply \in T THEN Number(waiters, {d}) ELSE 0)
  BY <1>1, <1>3, RepliesBounded
<1>8. ASSUME NEW d \in Client, NEW v \in Uri, v # u
       PROVE  Number(outbox'[d], Replies(v)) <= Number(outbox[d], Replies(v))
  <2> DEFINE T == Replies(v)
  <2>1. reply \notin T
    BY <1>3, <1>8
  <2> HIDE DEF T
  <2>2. /\ Number(outbox[d], T) \in Nat
        /\ Number(outbox'[d], T) <=
             Number(outbox[d], T) + (IF reply \in T THEN Number(waiters, {d}) ELSE 0)
    BY <1>7
  <2>3. Number(outbox'[d], T) <= Number(outbox[d], T) + 0
    BY <2>1, <2>2
  <2>4. Number(outbox'[d], T) \in Nat
    BY <1>6, NumberType
  <2>5. QED
    BY <2>2, <2>3, <2>4 DEF T
<1>9. RepliesAreWaited'
  <2> SUFFICES ASSUME NEW d \in Client, NEW v \in Uri
               PROVE  Number(outbox'[d], Replies(v)) <= IF waited[d][v] = NoEntity THEN 0 ELSE 1
    BY <1>1 DEF RepliesAreWaited
  <2> DEFINE old == Number(outbox[d], Replies(v))
             new == Number(outbox'[d], Replies(v))
  <2>1. old \in Nat /\ new \in Nat
    BY <1>6, <1>7, NumberType
  <2>2. CASE v = u
    <3>1. new <= old + Secondary(d, v)
      BY <1>3, <1>4, <1>7, <2>2
    <3>2. /\ Number(inbox[d], Downloads(v)) \in Nat /\ Number(workerQueue, Proceeds(d, v)) \in Nat
          /\ Number(onHold, Held(d, v)) \in Nat /\ Primary(d, v) \in Nat /\ Secondary(d, v) \in Nat
          /\ Count(d, v) = Number(inbox[d], Downloads(v)) + Number(workerQueue, Proceeds(d, v))
                           + Number(onHold, Held(d, v)) + Primary(d, v) + Secondary(d, v) + old
      BY <1>1, CountParts
    <3>3. Count(d, v) = IF waited[d][v] = NoEntity THEN 0 ELSE 1
      BY <1>1 DEF RequestsCounted
    <3> HIDE DEF old, new
    <3>4. new <= Count(d, v)
      BY <2>1, <3>1, <3>2
    <3>5. QED
      BY <2>1, <3>3, <3>4 DEF new
  <2>3. CASE v # u
    <3>1. new <= old
      BY <1>8, <2>3
    <3>2. old <= IF waited[d][v] = NoEntity THEN 0 ELSE 1
      BY DEF Linked, RepliesAreWaited
    <3> HIDE DEF old, new
    <3>3. QED
      BY <2>1, <3>1, <3>2 DEF new
  <2>4. QED
    BY <2>2, <2>3
<1>10. DownloadsAreWaited'
  <2> SUFFICES ASSUME NEW v \in Uri, Downloading(v)'
               PROVE  /\ v \in Active
                      /\ waited[activeDownloads[v].waiterSocket][v] = activeDownloads[v].targetPath
                      /\ Number(outbox'[activeDownloads[v].waiterSocket], Replies(v)) = 0
    BY <1>1 DEF DownloadsAreWaited, Active
  <2> DEFINE d == activeDownloads[v].waiterSocket
  <2>1. Downloading(v) /\ v # u
    BY <1>5
  <2>2. /\ v \in Active /\ waited[d][v] = activeDownloads[v].targetPath
        /\ Number(outbox[d], Replies(v)) = 0
    BY <2>1 DEF Linked, DownloadsAreWaited
  <2>3. d \in Client
    BY <1>1, <2>2 DEF TypeOK, WorkerTypeOK, ActiveDownloadInfo
  <2> HIDE DEF d
  <2>4. Number(outbox'[d], Replies(v)) <= Number(outbox[d], Replies(v))
    BY <1>8, <2>1, <2>3
  <2>5. Number(outbox'[d], Replies(v)) \in Nat
    BY <1>6, <2>3, NumberType
  <2>6. Number(outbox'[d], Replies(v)) = 0
    BY <2>2, <2>4, <2>5
  <2>7. QED
    BY <2>2, <2>6 DEF d
<1>11. QED
  BY <1>9, <1>10 DEF Linked

\* While the worker runs, counting takes care of what is linked.
SaidAndLinked == Said' /\ (worker' # "running" => Linked')

\* What holds before a step of the worker.
Ready == CallInv /\ WorkerInv /\ KnowledgeInv /\ ServingInv /\ Said /\ Linked

LEMMA ResultMessages ==
  ASSUME Ready, worker = "running", NEW u \in Uri, Piped(u), reaping = NoUri,
         NEW result \in Result, NEW rest,
         result = "ok" => activeDownloads[u].targetPath \in placed,
         ProcessPreliminaryResult(u, result, rest), UNCHANGED <<inbox, callVars>>
  PROVE  SaidAndLinked
<1>1. WorkerIsNotBack /\ u \in Active /\ TypeOK
  BY DEF WorkerIsNotBack, Piped, Ready, CallInv, TypeInv
<1>2. Said'
  BY <1>1, ResultSaid DEF Ready
<1>3. ASSUME worker' # "running"
      PROVE  Linked'
  BY <1>1, <1>3, ResultLinked DEF Ready
<1>4. QED
  BY <1>2, <1>3 DEF SaidAndLinked

LEMMA InternalMessagesStep ==
  ASSUME Ready, HandleInternal
  PROVE  SaidAndLinked
<1> DEFINE m == Head(workerQueue)
<1>1. /\ workerQueue # <<>> /\ worker = "running" /\ QueueIsShort
      /\ TypeOK /\ TriedInOrder /\ Said /\ Linked /\ WorkerIsNotBack
      /\ UNCHANGED <<inbox, callVars>>
  BY DEF HandleInternal, Ready, CallInv, TypeInv, KnowledgeInv, WorkerInv, WorkerIsNotBack
<1>2. /\ reaping = NoUri /\ Tail(workerQueue) = <<>>
      /\ m \in InternalMessage
      /\ m.command = "done" => Piped(m.uri)
      /\ \A i \in DOMAIN workerQueue : workerQueue[i] = m
  BY <1>1, TakenFromQueue
<1>3. \/ m.command = "proceed-download" /\ ProceedDownload(m.request, <<>>)
      \/ m.command = "pop-download" /\ PopOnHold(<<>>)
      \/ m.command = "done" /\ ProcessPreliminaryResult(m.uri, m.result, <<>>)
  BY <1>2 DEF HandleInternal
<1>4. 1 \in DOMAIN workerQueue
  <2>1. workerQueue \in Seq(InternalMessage)
    BY <1>1 DEF TypeOK, WorkerTypeOK
  <2>2. QED
    BY <1>1, <2>1
<1> HIDE DEF m
<1>5. CASE m.command = "proceed-download" /\ ProceedDownload(m.request, <<>>)
  <2>1. m.request \in Request
    BY <1>2, <1>5, ProceedNumber
  <2>2. Said'
    BY <1>1, <1>5, <2>1, ProceedSaid
  <2>3. ASSUME worker' # "running"
        PROVE  Linked'
    BY <1>1, <1>5, <2>3, ProceedLinked
  <2>4. QED
    BY <2>2, <2>3 DEF SaidAndLinked
<1>6. CASE m.command = "pop-download" /\ PopOnHold(<<>>)
  <2>1. worker' = "running" /\ Silent /\ done' = done /\ placed' = placed
    BY <1>1, <1>6 DEF PopOnHold, Silent, callVars, performerVars
  <2>2. Said'
    BY <1>1, <2>1, SaidKept
  <2>3. QED
    BY <2>1, <2>2 DEF SaidAndLinked
<1>7. CASE m.command = "done" /\ ProcessPreliminaryResult(m.uri, m.result, <<>>)
  <2>1. m.uri \in Uri /\ m.result \in Result
    BY <1>2, <1>7 DEF InternalMessage, Piped
  <2>2. m.result = "error"
    BY <1>2, <1>4, <1>7 DEF Ready, ServingInv, FailuresAreErrors
  <2>3. QED
    BY <1>1, <1>2, <1>7, <2>1, <2>2, ResultMessages
<1>8. QED
  BY <1>3, <1>5, <1>6, <1>7

LEMMA ClientMessagesStep ==
  ASSUME Ready, NEW c \in Client, HandleClientMessage(c)
  PROVE  SaidAndLinked
<1> DEFINE m == Head(inbox[c])
<1>1. /\ worker = "running" /\ reaping = NoUri /\ TakesMessage(c) /\ inbox[c] # <<>>
      /\ DispatchClientMessage(c, m)
      /\ TypeOK /\ TriedInOrder /\ Said /\ Linked /\ WorkerIsNotBack
      /\ UNCHANGED <<waited, outcome, remaining>>
  BY DEF HandleClientMessage, Polling, TakesMessage, Ready, CallInv, TypeInv, KnowledgeInv,
         WorkerIsNotBack, callVars
<1>2. CASE m.command \in {"set-download-size", "download"}
  <2>1. UNCHANGED <<worker, done, placed, outbox>>
    BY <1>1, <1>2 DEF DispatchClientMessage, performerVars
  <2>2. m.command # "done-ack"
    BY <1>2
  <2>3. AcksAsBefore
    BY <1>1, <2>2, OtherMessageTaken
  <2>4. RepliesOldOrTrue
    BY <2>1 DEF RepliesOldOrTrue, ToClient
  <2>5. Said'
    BY <1>1, <2>1, <2>3, <2>4, SaidByWorker
  <2>6. QED
    BY <1>1, <2>1, <2>5 DEF SaidAndLinked
<1>3. CASE m.command = "done-ack"
  <2> DEFINE u == m.uri
             result == m.result
  <2>1. u \in Uri /\ u \in Active
    BY <1>1, <1>3, AcknowledgedIsActive DEF Ready
  <2>2. m \in ClientMessage
    BY <1>1, MessageTaken
  <2>3. result \in Result /\ m = Ack(u, result)
    BY <1>3, <2>2 DEF ClientMessage, Ack
  <2>4. ProcessFinalResult(u, result)
    BY <1>1, <1>3 DEF DispatchClientMessage
  <2>5. placed' = placed
    BY <2>1, <2>4 DEF ProcessFinalResult, performerVars, DiesSending, Abort
  <2>6. Finishes(c, u, result)
    BY <1>1, <2>1, <2>3, <2>4, <2>5 DEF ProcessFinalResult, Finishes
  <2> HIDE DEF u, result, m
  <2>7. Said'
    BY <1>1, <2>1, <2>3, <2>6, FinalSaid DEF Ready
  <2>8. ASSUME worker' # "running"
        PROVE  Linked'
    <3>1. DiesSending(PendingWaiters(u)) /\ activeDownloads' = activeDownloads
      BY <1>1, <2>1, <2>4, <2>8 DEF ProcessFinalResult
    <3>2. \A v \in Uri : Downloading(v)' => Downloading(v)
      BY <3>1 DEF DiesSending, Abort, Sigterm, performerVars, Downloading
    <3>3. QED
      BY <1>1, <2>1, <2>3, <2>6, <3>1, <3>2, FinalLinked DEF Ready
  <2>9. QED
    BY <2>7, <2>8 DEF SaidAndLinked
<1>4. m.command \in {"set-download-size", "download", "done-ack"}
  BY <1>1 DEF DispatchClientMessage
<1>5. QED
  BY <1>2, <1>3, <1>4

LEMMA PerformerMessagesStep ==
  ASSUME Ready, NEW u \in Uri, HandlePerformerMessage(u) \/ HandlePerformerEof(u)
  PROVE  SaidAndLinked
<1>1. /\ worker = "running" /\ reaping = NoUri /\ workerQueue = <<>> /\ Piped(u) /\ u \in Active
      /\ TypeOK /\ TriedInOrder /\ Said /\ Linked /\ WorkerIsNotBack
  BY DEF HandlePerformerMessage, HandlePerformerEof, PollingPerformers, Polling, Piped,
         Ready, CallInv, TypeInv, KnowledgeInv, WorkerIsNotBack
<1>2. NothingOverruled
  BY <1>1, IdleOverrulesNothing
<1>3. ~Overruled(u)
  BY <1>2, NothingIsOverruled
<1>4. CASE HandlePerformerEof(u)
  <2>1. /\ ProcessPreliminaryResult(u, UnexpectedExit, workerQueue)
        /\ UNCHANGED <<inbox, callVars>>
    BY <1>4 DEF HandlePerformerEof
  <2>2. UnexpectedExit \in Result /\ UnexpectedExit # "ok"
    BY DEF UnexpectedExit, Result
  <2>3. QED
    BY <1>1, <2>1, <2>2, ResultMessages
<1>5. CASE HandlePerformerMessage(u)
  <2>1. pipe[u] # <<>> /\ pipe[u] \in Seq(PerformerMessage)
    BY <1>1, <1>5 DEF HandlePerformerMessage, TypeOK, PerformerTypeOK
  <2>2. 1 \in DOMAIN pipe[u] /\ pipe[u][1] = Head(pipe[u]) /\ Head(pipe[u]) \in PerformerMessage
    BY <2>1, HeadTailProperties
  <2>3. CASE Head(pipe[u]) = "wrong size"
    <3>1. ProcessProgressMessage(u)
      BY <1>5, <2>3 DEF HandlePerformerMessage
    <3>2. Silent /\ done' = done /\ worker' = worker
      BY <3>1 DEF ProcessProgressMessage, clientVars, callVars, Silent
    <3>3. CASE u \in sizes
      <4>1. placed' = placed \ {activeDownloads[u].targetPath}
        BY <3>1, <3>3 DEF ProcessProgressMessage
      <4>2. Said'
        BY <1>1, <3>2, <4>1, KillSaid DEF Ready
      <4>3. QED
        BY <1>1, <3>2, <4>2 DEF SaidAndLinked
    <3>4. CASE u \notin sizes
      <4>1. placed' = placed
        BY <3>1, <3>4 DEF ProcessProgressMessage, performerVars
      <4>2. Said'
        BY <1>1, <3>2, <4>1, SaidKept
      <4>3. QED
        BY <1>1, <3>2, <4>2 DEF SaidAndLinked
    <3>5. QED
      BY <3>3, <3>4
  <2>4. CASE Head(pipe[u]) # "wrong size"
    <3>1. /\ ProcessPreliminaryResult(u, Head(pipe[u]), workerQueue)
          /\ UNCHANGED <<inbox, callVars>>
      BY <1>5, <2>4 DEF HandlePerformerMessage
    <3>2. Head(pipe[u]) \in Result
      BY <2>2, <2>4 DEF PerformerMessage
    <3>3. Head(pipe[u]) = "ok" => activeDownloads[u].targetPath \in placed
      BY <1>1, <1>3, <2>2 DEF Ready, ServingInv, FilesArePlaced
    <3>4. QED
      BY <1>1, <3>1, <3>2, <3>3, ResultMessages
  <2>5. QED
    BY <2>3, <2>4
<1>6. QED
  BY <1>4, <1>5

LEMMA WorkerMessagesStep ==
  ASSUME Ready, WorkerStep
  PROVE  SaidAndLinked
<1>1. /\ TypeOK /\ TriedInOrder /\ Said /\ Linked
  BY DEF Ready, CallInv, TypeInv, KnowledgeInv
<1>2. CASE Reap \/ HandleParent \/ AcceptFails \/ ForkFails \/ Exit \/ \E c \in Client : HandleClientEof(c)
  <2>1. Silent /\ done' = done /\ placed' = placed /\ worker = "running"
    BY <1>2 DEF Reap, HandleParent, AcceptFails, ForkFails, Exit, HandleClientEof, Polling,
                NoMoreInput, PollingPerformers, Abort, performerVars, clientVars, callVars, Silent
  <2>2. WorkerIsNotBack
    BY <2>1 DEF WorkerIsNotBack
  <2>3. Said'
    BY <1>1, <2>1, <2>2, SaidKept
  <2>4. ASSUME worker' # "running"
        PROVE  Linked'
    <3>1. UNCHANGED <<outbox, waited>>
      BY <2>1 DEF Silent
    <3>2. \A v \in Uri : Downloading(v)' => Downloading(v)
      BY <1>2, <2>1, <2>4 DEF Reap, HandleParent, AcceptFails, ForkFails, Exit, HandleClientEof,
           Abort, Sigterm, performerVars, Downloading
    <3>3. CASE activeDownloads' = activeDownloads
      BY <1>1, <3>1, <3>2, <3>3, LinkedKept DEF Active
    <3>4. CASE ForkFails
      <4> DEFINE r == Head(workerQueue).request
      <4>1. r.uri \notin Active /\ AddActive(r)
        BY <3>4 DEF ForkFails, Startable
      <4> HIDE DEF r
      <4>2. /\ Active' = Active \cup {r.uri}
            /\ \A v \in Active : activeDownloads'[v] = activeDownloads[v]
        BY <4>1 DEF AddActive, Active
      <4>3. QED
        BY <1>1, <3>1, <3>2, <4>2, LinkedKept
    <3>5. QED
      BY <1>2, <2>1, <2>4, <3>3, <3>4 DEF Reap, HandleParent, AcceptFails, Exit, HandleClientEof
  <2>5. QED
    BY <2>3, <2>4 DEF SaidAndLinked
<1>3. QED
  BY <1>2, InternalMessagesStep, ClientMessagesStep, PerformerMessagesStep DEF WorkerStep

-----------------------------------------------------------------------------
(* What the calls read and write *)

ProcessesRest == UNCHANGED <<worker, activeDownloads, process, done, placed>>

\* The entity is asked about for the first time, or was answered just now.
AnsweredNow(e) ==
  \A c \in Client, u \in Uri : waited[c][u] = e =>
    Number(outbox[c], Replies(u)) >= 1 /\ Number(outbox'[c], Replies(u)) = 0

OthersWait(e) ==
  \A c \in Client, u \in Uri : waited[c][u] \notin {e, NoEntity} => waited'[c][u] = waited[c][u]

RepliesRead ==
  \A c \in Client, u \in Uri :
    /\ Number(outbox'[c], Replies(u)) <= Number(outbox[c], Replies(u))
    /\ \A reply : ToClient(c, reply)' => ToClient(c, reply)

\* Nothing is lost on the way to the worker, ...
MessagesStay == \A c \in Client : \A m : ToWorker(c, m) => ToWorker(c, m)'

\* ... and what a client sends gets there as long as the worker runs.
MessagesSent(c, messages) ==
  /\ worker = "running" => \A i \in DOMAIN messages : ToWorker(c, messages[i])'
  /\ \A d \in Client : \A m : ToWorker(d, m)' =>
       ToWorker(d, m) \/ (d = c /\ \E i \in DOMAIN messages : messages[i] = m)

LEMMA SentMeans ==
  ASSUME TypeOK, NEW c \in Client, NEW messages \in Seq(ClientMessage), ClientSends(c, messages)
  PROVE  MessagesStay /\ MessagesSent(c, messages)
<1>1. CASE inbox' = inbox /\ worker # "running"
  BY <1>1 DEF MessagesStay, MessagesSent, ToWorker
<1>2. CASE inbox' = [inbox EXCEPT ![c] = @ \o messages]
  <2>1. /\ \A d \in Client : \A i \in DOMAIN inbox[d] :
             i \in DOMAIN inbox'[d] /\ inbox'[d][i] = inbox[d][i]
        /\ \A j \in DOMAIN messages :
             \E i \in DOMAIN inbox'[c] : inbox'[c][i] = messages[j]
    BY <1>2, SentKeeps
  <2>2. MessagesStay
    BY <2>1 DEF MessagesStay, ToWorker
  <2>3. ASSUME NEW d \in Client, NEW m, ToWorker(d, m)'
        PROVE  ToWorker(d, m) \/ (d = c /\ \E i \in DOMAIN messages : messages[i] = m)
    <3>1. PICK i \in DOMAIN inbox'[d] : inbox'[d][i] = m
      BY <2>3 DEF ToWorker
    <3>2. \/ i \in DOMAIN inbox[d] /\ inbox'[d][i] = inbox[d][i]
          \/ d = c /\ \E j \in DOMAIN messages : inbox'[d][i] = messages[j]
      BY <1>2, SentOrThere
    <3>3. QED
      BY <3>1, <3>2 DEF ToWorker
  <2>4. QED
    BY <2>1, <2>2, <2>3 DEF MessagesSent, ToWorker
<1>3. QED
  BY <1>1, <1>2 DEF ClientSends, ConnectionLost

LEMMA CallLinked ==
  ASSUME TypeOK, Linked, NEW e \in Entity, ProcessesRest, AnsweredNow(e), OthersWait(e), RepliesRead,
         outbox' \in [Client -> Seq(Reply)]
  PROVE  Linked'
<1>1. \A c \in Client, u \in Uri :
        Number(outbox[c], Replies(u)) \in Nat /\ Number(outbox'[c], Replies(u)) \in Nat
  BY NumberType DEF TypeOK, ClientTypeOK
<1>2. e # NoEntity
  BY ConstantsAssumption DEF ConstantsAssumption
<1>3. RepliesAreWaited'
  <2> SUFFICES ASSUME NEW c \in Client, NEW u \in Uri
               PROVE  Number(outbox'[c], Replies(u)) <= IF waited'[c][u] = NoEntity THEN 0 ELSE 1
    BY DEF RepliesAreWaited
  <2> DEFINE old == Number(outbox[c], Replies(u))
             new == Number(outbox'[c], Replies(u))
  <2>1. /\ old \in Nat /\ new \in Nat /\ new <= old
        /\ old <= IF waited[c][u] = NoEntity THEN 0 ELSE 1
    BY <1>1 DEF RepliesRead, Linked, RepliesAreWaited
  <2>2. CASE waited[c][u] = e
    <3>1. new = 0
      BY <2>2 DEF AnsweredNow
    <3> HIDE DEF new
    <3>2. QED
      BY <3>1 DEF new
  <2>3. CASE waited[c][u] \notin {e, NoEntity}
    <3>1. waited'[c][u] = waited[c][u]
      BY <2>3 DEF OthersWait
    <3> HIDE DEF old, new
    <3>2. new <= 1
      BY <2>1, <2>3
    <3>3. QED
      BY <2>3, <3>1, <3>2 DEF new
  <2>4. CASE waited[c][u] = NoEntity
    <3> HIDE DEF old, new
    <3>1. new = 0
      BY <2>1, <2>4
    <3>2. QED
      BY <3>1 DEF new
  <2>5. QED
    BY <2>2, <2>3, <2>4
<1>4. DownloadsAreWaited'
  <2> SUFFICES ASSUME NEW u \in Uri, Downloading(u)'
               PROVE  /\ u \in Active
                      /\ waited'[activeDownloads[u].waiterSocket][u] = activeDownloads[u].targetPath
                      /\ Number(outbox'[activeDownloads[u].waiterSocket], Replies(u)) = 0
    BY DEF DownloadsAreWaited, ProcessesRest, Active
  <2> DEFINE c == activeDownloads[u].waiterSocket
             f == activeDownloads[u].targetPath
  <2>1. u \in Active /\ waited[c][u] = f /\ Number(outbox[c], Replies(u)) = 0
    BY DEF Linked, DownloadsAreWaited, Downloading, ProcessesRest
  <2>2. c \in Client /\ f \in Entity
    BY <2>1 DEF TypeOK, WorkerTypeOK, ActiveDownloadInfo
  <2>3. f # NoEntity
    BY <2>2, ConstantsAssumption DEF ConstantsAssumption
  <2> HIDE DEF c, f
  <2>4. f # e
    BY <2>1, <2>2 DEF AnsweredNow
  <2>5. waited'[c][u] = f
    BY <2>1, <2>2, <2>3, <2>4 DEF OthersWait
  <2>6. Number(outbox'[c], Replies(u)) = 0
    BY <1>1, <2>1, <2>2 DEF RepliesRead
  <2>7. QED
    BY <2>1, <2>5, <2>6 DEF c, f
<1>5. QED
  BY <1>3, <1>4 DEF Linked

LEMMA CallReplies ==
  ASSUME TypeOK, Linked, RepliesAreTrue, NEW e \in Entity, ProcessesRest, AnsweredNow(e),
         OthersWait(e), RepliesRead, outbox' \in [Client -> Seq(Reply)]
  PROVE  RepliesAreTrue'
<1> SUFFICES ASSUME NEW c \in Client, NEW reply \in Reply, ToClient(c, reply)'
             PROVE  IsTrue(c, reply)'
  BY DEF RepliesAreTrue
<1> DEFINE u == reply.uri
<1>1. /\ u \in Uri /\ reply \in Replies(u)
      /\ outbox[c] \in Seq(Reply) /\ outbox'[c] \in Seq(Reply)
  BY DEF Reply, Replies, TypeOK, ClientTypeOK
<1>2. ToClient(c, reply) /\ IsTrue(c, reply)
  BY <1>1 DEF RepliesRead, RepliesAreTrue
<1>3. Number(outbox[c], Replies(u)) >= 1 /\ Number(outbox'[c], Replies(u)) >= 1
  <2>1. PICK i \in DOMAIN outbox[c] : outbox[c][i] = reply
    BY <1>2 DEF ToClient
  <2>2. PICK j \in DOMAIN outbox'[c] : outbox'[c][j] = reply
    BY DEF ToClient
  <2>3. outbox[c][i] \in Replies(u) /\ outbox'[c][j] \in Replies(u)
    BY <1>1, <2>1, <2>2
  <2> HIDE DEF u
  <2>4. Number(outbox[c], Replies(u)) >= 1
    BY <1>1, <2>3, HitsCount
  <2>5. Number(outbox'[c], Replies(u)) >= 1
    BY <1>1, <2>3, HitsCount
  <2>6. QED
    BY <2>4, <2>5
<1>4. waited[c][u] \notin {e, NoEntity}
  <2>1. waited[c][u] # e
    BY <1>1, <1>3 DEF AnsweredNow
  <2>2. Number(outbox[c], Replies(u)) \in Nat
    BY <1>1, NumberType
  <2>3. waited[c][u] # NoEntity
    BY <1>1, <1>3, <2>2 DEF Linked, RepliesAreWaited
  <2>4. QED
    BY <2>1, <2>3
<1>5. waited'[c][u] = waited[c][u]
  BY <1>1, <1>4 DEF OthersWait
<1>6. QED
  BY <1>2, <1>5 DEF IsTrue, ProcessesRest

LEMMA OthersGoOn ==
  ASSUME DistinctUris, CallInv, NEW c \in Client, NEW e \in Entity, NEW result,
         Asks(c, e) \/ Concludes(e, result)
  PROVE  OthersWait(e)
<1>1. CASE Asks(c, e)
  <2> DEFINE v == Head(remaining[e])
  <2>1. MovesTo(c, e, v) /\ v \in Uri /\ waited[c][v] \in {e, NoEntity}
    BY <1>1, NobodyElsesUri DEF Asks
  <2> HIDE DEF v
  <2>2. QED
    BY <2>1 DEF MovesTo, OthersWait
<1>2. CASE Concludes(e, result)
  BY <1>2 DEF Concludes, Forgets, OthersWait
<1>3. QED
  BY <1>1, <1>2

\* A success is acknowledged by those who have put it down as their own.
LEMMA CallAcks ==
  ASSUME AcksAreTrue, ProcessesRest, NEW c \in Client, NEW messages, MessagesSent(c, messages),
         \A f \in Entity : outcome[f] = "ok" => outcome'[f] = "ok", placed \subseteq Entity,
         \A u \in Uri : \A i \in DOMAIN messages : messages[i] = Ack(u, "ok") => Delivered(u)'
  PROVE  AcksAreTrue'
<1> SUFFICES ASSUME NEW d \in Client, NEW u \in Uri, ToWorker(d, Ack(u, "ok"))'
             PROVE  Delivered(u)'
  BY DEF AcksAreTrue, Ack
<1>1. CASE ToWorker(d, Ack(u, "ok"))
  <2>1. PICK f \in placed : u \in Range(Uris[f]) /\ outcome[f] = "ok"
    BY <1>1 DEF AcksAreTrue, Delivered
  <2>2. f \in placed' /\ outcome'[f] = "ok"
    BY <2>1 DEF ProcessesRest
  <2>3. QED
    BY <2>1, <2>2 DEF Delivered
<1>2. CASE \E i \in DOMAIN messages : messages[i] = Ack(u, "ok")
  BY <1>2
<1>3. ToWorker(d, Ack(u, "ok")) \/ \E i \in DOMAIN messages : messages[i] = Ack(u, "ok")
  <2> DEFINE m == Ack(u, "ok")
  <2>1. (ToWorker(d, m))'
    BY DEF Ack
  <2>2. (ToWorker(d, m))' => ToWorker(d, m) \/ (d = c /\ \E i \in DOMAIN messages : messages[i] = m)
    <3>1. \A k : (ToWorker(d, k))' =>
            ToWorker(d, k) \/ (d = c /\ \E i \in DOMAIN messages : messages[i] = k)
      BY DEF MessagesSent
    <3>2. m' = m
      BY DEF Ack
    <3> HIDE DEF m
    <3>3. QED
      BY <3>1, <3>2 DEF ToWorker
  <2>3. QED
    BY <2>1, <2>2
<1>4. QED
  BY <1>1, <1>2, <1>3

LEMMA FailuresStay ==
  ASSUME ProcessesRest, MessagesStay, NEW c \in Client, NEW u \in Uri, Failed(c, u)
  PROVE  Failed(c, u)'
<1>1. ToWorker(c, Ack(u, "error")) => ToWorker(c, Ack(u, "error"))'
  <2> DEFINE m == Ack(u, "error")
  <2>1. ToWorker(c, m) => \E i \in DOMAIN inbox'[c] : inbox'[c][i] = m
    BY DEF MessagesStay, ToWorker
  <2>2. QED
    BY <2>1 DEF ToWorker, Ack
<1>2. QED
  BY <1>1 DEF Failed, ProcessesRest, Ack

\* The next URI is requested when the one before has failed.
LEMMA CallFailures ==
  ASSUME CallInv, KnowledgeInv, FailuresLast, ProcessesRest, MessagesStay,
         NEW c \in Client, NEW e \in Entity, Asks(c, e),
         \A i \in Nat : i = Tried(e) /\ i >= 1 => Failed(c, Uris[e][i])'
  PROVE  FailuresLast'
<1>1. /\ TypeOK /\ TriedInOrder /\ Owner[e] = c /\ remaining[e] # <<>>
      /\ remaining' = [remaining EXCEPT ![e] = Tail(@)]
  BY DEF CallInv, TypeInv, KnowledgeInv, Asks
<1>2. /\ Tried(e)' = Tried(e) + 1
      /\ \A f \in Entity : f # e => Tried(f)' = Tried(f)
  BY <1>1, NextTried
<1>3. \A f \in Entity : Tried(f) \in Nat
  BY <1>1, TriedType
<1> SUFFICES ASSUME NEW f \in Entity, NEW i \in 1 .. Tried(f)' - 1
             PROVE  Failed(Owner[f], Uris[f][i])'
  BY DEF FailuresLast
<1>4. CASE i \in 1 .. Tried(f) - 1
  <2>1. i \in 1 .. Tried(f)
    BY <1>3, <1>4
  <2>2. Uris[f][i] \in Uri /\ Owner[f] \in Client
    BY <1>1, <2>1, TriedUris, ConstantsAssumption DEF ConstantsAssumption
  <2>3. Failed(Owner[f], Uris[f][i])
    BY <1>4 DEF FailuresLast
  <2>4. QED
    BY <2>2, <2>3, FailuresStay
<1>5. CASE i \notin 1 .. Tried(f) - 1
  <2>1. f = e
    BY <1>2, <1>5
  <2>2. i \in Nat /\ i = Tried(e) /\ i >= 1
    BY <1>2, <1>3, <1>5, <2>1
  <2>3. Failed(c, Uris[e][i])'
    BY <2>2
  <2>4. QED
    BY <1>1, <2>1, <2>3
<1>6. QED
  BY <1>4, <1>5

\* The first request for an entity.
LEMMA ScheduleMeans ==
  ASSUME CallInv, KnowledgeInv, NEW c \in Client, ScheduleDownload(c)
  PROVE  \E e \in Entity :
           /\ Asks(c, e) /\ ClientSends(c, Requests(e))
           /\ e \in unscheduled /\ Tried(e) = 0
           /\ \A d \in Client, u \in Uri : waited[d][u] # e
<1>1. PICK e \in Scheduling(c) :
        /\ ClientSends(c, Requests(e))
        /\ unscheduled' = unscheduled \ {e}
        /\ remaining' = [remaining EXCEPT ![e] = Tail(@)]
        /\ waited' = [waited EXCEPT ![c][Head(remaining[e])] = e]
  BY DEF ScheduleDownload
<1>2. e \in Entity /\ Owner[e] = c /\ e \in unscheduled
  BY DEF Scheduling, EntitiesOf
<1>3. /\ TypeOK /\ UrisOfEntities /\ TriedInOrder
      /\ remaining[e] # <<>> /\ \A d \in Client, u \in Uri : waited[d][u] # e
  BY <1>2 DEF CallInv, TypeInv, UnscheduledInv, KnowledgeInv
<1>4. outcome[e] = NoResult /\ remaining[e] = Uris[e] /\ outcome' = outcome
  BY <1>2, <1>3 DEF TriedInOrder, ScheduleDownload
<1>5. Tried(e) = 0
  BY <1>2, <1>3, <1>4, TriedType DEF Tried
<1> DEFINE v == Head(remaining[e])
<1>6. waited \in [Client -> [Uri -> Entity \cup {NoEntity}]] /\ waited' = [waited EXCEPT ![c][v] = e]
  BY <1>1, <1>3 DEF TypeOK, ClientTypeOK
<1>7. v \in Uri
  BY <1>2, <1>3, NextUri
<1> HIDE DEF v
<1>8. MovesTo(c, e, v)
  BY <1>3, <1>6, <1>7 DEF MovesTo
<1>9. Asks(c, e)
  BY <1>1, <1>2, <1>3, <1>4, <1>8 DEF Asks, v
<1>10. QED
  BY <1>1, <1>2, <1>3, <1>5, <1>9

LEMMA NoAckRequested ==
  ASSUME TypeOK, NEW e \in Entity, remaining[e] # <<>>
  PROVE  /\ Requests(e) \in Seq(ClientMessage)
         /\ \A u \in Uri, result \in Result : \A i \in DOMAIN Requests(e) :
              Requests(e)[i] # Ack(u, result)
<1>1. Requests(e) \in Seq(ClientMessage)
  BY RequestsType
<1>2. ASSUME NEW u \in Uri, NEW result \in Result, NEW i \in DOMAIN Requests(e)
      PROVE  Requests(e)[i] # Ack(u, result)
  <2>1. Number(Requests(e), Acknowledgements(u)) = 0
    BY RequestsNumber
  <2>2. Requests(e)[i] \notin Acknowledgements(u)
    BY <1>1, <2>1, NumberZero
  <2>3. Ack(u, result) \in Acknowledgements(u)
    BY DEF Ack, Acknowledgements, ClientMessage
  <2>4. QED
    BY <2>2, <2>3
<1>3. QED
  BY <1>1, <1>2

LEMMA ScheduleMessages ==
  ASSUME DistinctUris, CallInv, KnowledgeInv, Said, Linked, NEW c \in Client, ScheduleDownload(c)
  PROVE  Said' /\ Linked' /\ KnowledgeInv'
<1>1. PICK e \in Entity :
        /\ Asks(c, e) /\ ClientSends(c, Requests(e)) /\ Tried(e) = 0
        /\ \A d \in Client, u \in Uri : waited[d][u] # e
  BY ScheduleMeans
<1>2. /\ TypeOK /\ ProcessesRest /\ outbox' = outbox /\ outcome' = outcome
      /\ remaining[e] # <<>> /\ placed \subseteq Entity
  BY <1>1 DEF CallInv, TypeInv, ScheduleDownload, workerVars, performerVars, ProcessesRest, Asks,
              TypeOK, PerformerTypeOK
<1>3. /\ Requests(e) \in Seq(ClientMessage)
      /\ \A u \in Uri : \A i \in DOMAIN Requests(e) : Requests(e)[i] # Ack(u, "ok")
  BY <1>2, NoAckRequested DEF Result
<1>4. MessagesStay /\ MessagesSent(c, Requests(e))
  BY <1>1, <1>2, <1>3, SentMeans
<1>5. AnsweredNow(e) /\ OthersWait(e)
  BY <1>1, OthersGoOn DEF AnsweredNow
<1>6. outbox' \in [Client -> Seq(Reply)] /\ RepliesRead
  <2>1. outbox' \in [Client -> Seq(Reply)]
    BY <1>2 DEF TypeOK, ClientTypeOK
  <2>2. \A d \in Client, u \in Uri : Number(outbox[d], Replies(u)) \in Nat
    BY <1>2, CountTypes
  <2>3. \A d \in Client, u \in Uri : Number(outbox[d], Replies(u)) <= Number(outbox[d], Replies(u))
    BY <2>2
  <2>4. \A d \in Client : \A reply : ToClient(d, reply)' => ToClient(d, reply)
    BY <1>2 DEF ToClient
  <2>5. QED
    BY <1>2, <2>1, <2>3, <2>4 DEF RepliesRead
<1>7. RepliesAreTrue' /\ Linked'
  BY <1>2, <1>5, <1>6, CallReplies, CallLinked DEF Said
<1>8. AcksAreTrue'
  BY <1>2, <1>3, <1>4, CallAcks DEF Said
<1>9. FailuresLast'
  BY <1>1, <1>2, <1>4, CallFailures DEF Said
<1>10. KnowledgeInv'
  BY <1>1, AsksKnowledge
<1>11. QED
  BY <1>7, <1>8, <1>9, <1>10 DEF Said

\* A reply is for the URI requested last of an entity of this call: it is
\* followed by the next request or by the outcome.
Receives(c, e, result) ==
  LET reply == Head(outbox[c])
  IN  /\ outbox[c] # <<>> /\ outbox' = [outbox EXCEPT ![c] = Tail(@)]
      /\ waited[c][reply.uri] = e /\ Owner[e] = c
      /\ result \in PostAction(reply)
      /\ \/ /\ result = "error" /\ Asks(c, e)
            /\ ClientSends(c, Acknowledge(reply, result) \o Requests(e))
         \/ /\ result = "ok" \/ remaining[e] = <<>>
            /\ Concludes(e, result)
            /\ ClientSends(c, Acknowledge(reply, result))

LEMMA ReplyRead ==
  ASSUME TypeOK, NEW c \in Client, outbox[c] # <<>>
  PROVE  /\ Head(outbox[c]) \in Reply /\ Head(outbox[c]).uri \in Uri
         /\ ToClient(c, Head(outbox[c]))
         /\ Number(outbox[c], Replies(Head(outbox[c]).uri)) >= 1
<1>1. outbox[c] \in Seq(Reply)
  BY DEF TypeOK, ClientTypeOK
<1> DEFINE reply == Head(outbox[c])
<1>2. reply \in Reply /\ 1 \in DOMAIN outbox[c] /\ outbox[c][1] = reply
  BY <1>1, HeadTailProperties
<1> HIDE DEF reply
<1>3. reply.uri \in Uri /\ reply \in Replies(reply.uri)
  BY <1>2 DEF Reply, Replies
<1>4. Number(outbox[c], Replies(reply.uri)) >= 1
  BY <1>1, <1>2, <1>3, HitsCount
<1>5. QED
  BY <1>2, <1>3, <1>4 DEF ToClient, reply

LEMMA ReceiveMeans ==
  ASSUME CallInv, KnowledgeInv, RepliesAreWaited, NEW c \in Client, ReceiveReply(c)
  PROVE  /\ \E e \in Entity, result \in Result : Receives(c, e, result)
         /\ pc' = pc
<1> DEFINE reply == Head(outbox[c])
           u == reply.uri
           e == waited[c][u]
           forgotten == [waited EXCEPT ![c][u] = NoEntity]
<1>1. /\ TypeOK /\ UrisOfEntities /\ OneUriAtATime /\ UnscheduledInv /\ WaitedIsCurrent
      /\ outbox[c] # <<>> /\ outbox' = [outbox EXCEPT ![c] = Tail(@)]
      /\ unscheduled' = unscheduled
      /\ waited \in [Client -> [Uri -> Entity \cup {NoEntity}]]
  BY DEF CallInv, TypeInv, KnowledgeInv, ReceiveReply, TypeOK, ClientTypeOK
<1>2. reply \in Reply /\ u \in Uri /\ Number(outbox[c], Replies(u)) >= 1
  BY <1>1, ReplyRead
<1>3. e # NoEntity
  <2>1. Number(outbox[c], Replies(u)) <= IF waited[c][u] = NoEntity THEN 0 ELSE 1
    BY <1>2 DEF RepliesAreWaited
  <2>2. Number(outbox[c], Replies(u)) \in Nat
    BY <1>1, <1>2, CountTypes
  <2>3. QED
    BY <1>2, <2>1, <2>2
<1>4. e \in Entity /\ Owner[e] = c /\ outcome[e] = NoResult /\ e \notin unscheduled
  <2>1. e \in Entity \cup {NoEntity}
    BY <1>1, <1>2
  <2>2. e \in Entity
    BY <1>3, <2>1
  <2>3. Owner[e] = c /\ outcome[e] = NoResult
    BY <1>1, <1>2, <1>3, <2>2 DEF UrisOfEntities, WaitedIsCurrent
  <2>4. e \notin unscheduled
    BY <1>1, <1>2 DEF UnscheduledInv
  <2>5. QED
    BY <2>2, <2>3, <2>4
<1>5. \A d \in Client, w \in Uri : waited[d][w] = e => d = c /\ w = u
  BY <1>1, <1>2, <1>3, <1>4 DEF UrisOfEntities, OneUriAtATime
<1>6. /\ pc' = pc
      /\ \E result \in PostAction(reply) :
           \/ /\ result = "error"
              /\ remaining[e] # <<>>
              /\ ClientSends(c, Acknowledge(reply, result) \o Requests(e))
              /\ remaining' = [remaining EXCEPT ![e] = Tail(@)]
              /\ waited' = [forgotten EXCEPT ![c][Head(remaining[e])] = e]
              /\ UNCHANGED outcome
           \/ /\ result = "ok" \/ remaining[e] = <<>>
              /\ ClientSends(c, Acknowledge(reply, result))
              /\ outcome' = [outcome EXCEPT ![e] = result]
              /\ waited' = forgotten
              /\ UNCHANGED remaining
  BY <1>3 DEF ReceiveReply
<1>7. PostAction(reply) \subseteq Result
  BY <1>2 DEF PostAction, Reply
<1>8. e = waited[c][reply.uri] /\ reply = Head(outbox[c])
  OBVIOUS
<1>9. /\ forgotten \in [Client -> [Uri -> Entity \cup {NoEntity}]]
      /\ \A d \in Client, w \in Uri :
           forgotten[d][w] = IF waited[d][w] = e THEN NoEntity ELSE waited[d][w]
  BY <1>1, <1>2, <1>5
<1> HIDE DEF e, u, reply, forgotten
<1>10. PICK result \in PostAction(reply) :
         \/ /\ result = "error"
            /\ remaining[e] # <<>>
            /\ ClientSends(c, Acknowledge(reply, result) \o Requests(e))
            /\ remaining' = [remaining EXCEPT ![e] = Tail(@)]
            /\ waited' = [forgotten EXCEPT ![c][Head(remaining[e])] = e]
            /\ UNCHANGED outcome
         \/ /\ result = "ok" \/ remaining[e] = <<>>
            /\ ClientSends(c, Acknowledge(reply, result))
            /\ outcome' = [outcome EXCEPT ![e] = result]
            /\ waited' = forgotten
            /\ UNCHANGED remaining
  BY <1>6
<1>11. CASE /\ result = "error"
            /\ remaining[e] # <<>>
            /\ ClientSends(c, Acknowledge(reply, result) \o Requests(e))
            /\ remaining' = [remaining EXCEPT ![e] = Tail(@)]
            /\ waited' = [forgotten EXCEPT ![c][Head(remaining[e])] = e]
            /\ UNCHANGED outcome
  <2> DEFINE v == Head(remaining[e])
  <2>1. v \in Uri /\ waited' = [forgotten EXCEPT ![c][v] = e]
    BY <1>1, <1>4, <1>11, NextUri
  <2> HIDE DEF v
  <2>2. MovesTo(c, e, v)
    BY <1>9, <2>1 DEF MovesTo
  <2>3. unscheduled' = unscheduled \ {e}
    BY <1>1, <1>4
  <2>4. Asks(c, e)
    BY <1>4, <1>11, <2>2, <2>3 DEF Asks, v
  <2>5. Receives(c, e, result)
    BY <1>1, <1>4, <1>8, <1>11, <2>4 DEF Receives
  <2>6. QED
    BY <1>4, <1>6, <1>7, <2>5
<1>12. CASE /\ result = "ok" \/ remaining[e] = <<>>
            /\ ClientSends(c, Acknowledge(reply, result))
            /\ outcome' = [outcome EXCEPT ![e] = result]
            /\ waited' = forgotten
            /\ UNCHANGED remaining
  <2>1. Forgets(e)
    BY <1>9, <1>12 DEF Forgets
  <2>2. Concludes(e, result)
    BY <1>1, <1>4, <1>12, <2>1 DEF Concludes
  <2>3. Receives(c, e, result)
    BY <1>1, <1>4, <1>8, <1>12, <2>2 DEF Receives
  <2>4. QED
    BY <1>4, <1>6, <1>7, <2>3
<1>13. QED
  BY <1>10, <1>11, <1>12

\* Nothing is left of a reply which was read.
LEMMA ReceiveReads ==
  ASSUME CallInv, RepliesAreWaited, NEW c \in Client, NEW e \in Entity, NEW result,
         Receives(c, e, result)
  PROVE  AnsweredNow(e) /\ RepliesRead /\ outbox' \in [Client -> Seq(Reply)]
<1> DEFINE reply == Head(outbox[c])
           u == reply.uri
           s == outbox[c]
<1>1. /\ TypeOK /\ UrisOfEntities /\ OneUriAtATime
      /\ s # <<>> /\ s \in Seq(Reply) /\ outbox \in [Client -> Seq(Reply)]
      /\ outbox' = [outbox EXCEPT ![c] = Tail(@)]
      /\ waited[c][u] = e /\ e # NoEntity /\ Owner[e] = c
  BY ConstantsAssumption
  DEF ConstantsAssumption, CallInv, TypeInv, TypeOK, ClientTypeOK, Receives
<1>2. /\ reply \in Reply /\ u \in Uri /\ Number(s, Replies(u)) >= 1
  BY <1>1, ReplyRead
<1>3. Tail(s) \in Seq(Reply)
  BY <1>1, HeadTailProperties
<1>4. outbox'[c] = Tail(s) /\ \A d \in Client : d # c => outbox'[d] = outbox[d]
  BY <1>1
<1>5. \A T : Number(Tail(s), T) = Number(s, T) - (IF reply \in T THEN 1 ELSE 0)
  BY <1>1, NumberTail
<1>6. \A T : Number(s, T) \in Nat /\ Number(Tail(s), T) \in Nat
  BY <1>1, <1>3, NumberType
<1>7. \A w \in Uri : reply \in Replies(w) <=> w = u
  BY <1>2 DEF Replies
<1>8. \A d \in Client, w \in Uri : Number(outbox[d], Replies(w)) \in Nat
  BY <1>1, CountTypes
<1>9. outbox' \in [Client -> Seq(Reply)]
  BY <1>1, <1>3
<1>10. \A i \in DOMAIN Tail(s) : i + 1 \in DOMAIN s /\ Tail(s)[i] = s[i + 1]
  BY <1>1, TailIsThere
<1> HIDE DEF s, reply, u
<1>11. \A w \in Uri : Number(Tail(s), Replies(w)) <= Number(s, Replies(w))
  BY <1>5, <1>6
<1>12. Number(Tail(s), Replies(u)) = 0
  <2>1. Number(s, Replies(u)) <= IF waited[c][u] = NoEntity THEN 0 ELSE 1
    BY <1>2 DEF RepliesAreWaited, s
  <2>2. Number(s, Replies(u)) = 1
    BY <1>1, <1>2, <1>6, <2>1
  <2>3. Number(Tail(s), Replies(u)) = 1 - 1
    BY <1>2, <1>5, <1>7, <2>2
  <2>4. QED
    BY <2>3
<1>13. AnsweredNow(e)
  <2> SUFFICES ASSUME NEW d \in Client, NEW w \in Uri, waited[d][w] = e
               PROVE  Number(outbox[d], Replies(w)) >= 1 /\ Number(outbox'[d], Replies(w)) = 0
    BY DEF AnsweredNow
  <2>1. d = c
    BY <1>1 DEF UrisOfEntities
  <2>2. w = u
    BY <1>1, <1>2, <2>1 DEF OneUriAtATime
  <2>3. QED
    BY <1>2, <1>4, <1>12, <2>1, <2>2 DEF s
<1>14. RepliesRead
  <2> SUFFICES ASSUME NEW d \in Client, NEW w \in Uri
               PROVE  /\ Number(outbox'[d], Replies(w)) <= Number(outbox[d], Replies(w))
                      /\ \A r : ToClient(d, r)' => ToClient(d, r)
    BY DEF RepliesRead
  <2>1. CASE d = c
    <3>1. Number(outbox'[d], Replies(w)) <= Number(outbox[d], Replies(w))
      BY <1>4, <1>11, <2>1 DEF s
    <3>2. \A r : ToClient(d, r)' => ToClient(d, r)
      BY <1>4, <1>10, <2>1 DEF s, ToClient
    <3>3. QED
      BY <3>1, <3>2
  <2>2. CASE d # c
    <3>1. outbox'[d] = outbox[d] /\ Number(outbox[d], Replies(w)) \in Nat
      BY <1>4, <1>8, <2>2
    <3>2. Number(outbox'[d], Replies(w)) <= Number(outbox[d], Replies(w))
      BY <3>1
    <3>3. \A r : ToClient(d, r)' => ToClient(d, r)
      BY <3>1 DEF ToClient
    <3>4. QED
      BY <3>2, <3>3
  <2>3. QED
    BY <2>1, <2>2
<1>15. QED
  BY <1>9, <1>13, <1>14

\* A message of the call after a reply is the acknowledgement of it, or no
\* acknowledgement.
AcknowledgesOnly(messages, reply, result) ==
  /\ messages \in Seq(ClientMessage)
  /\ \A i \in DOMAIN messages : \A v \in Uri, r \in Result : messages[i] = Ack(v, r) =>
       ~reply.isDuplicatedDownload /\ v = reply.uri /\ r = result
  /\ ~reply.isDuplicatedDownload =>
       \E i \in DOMAIN messages : messages[i] = Ack(reply.uri, result)

LEMMA AcknowledgeMeans ==
  ASSUME NEW reply \in Reply, NEW result \in Result
  PROVE  AcknowledgesOnly(Acknowledge(reply, result), reply, result)
<1>1. Acknowledge(reply, result) \in Seq(ClientMessage)
  BY AcknowledgeType
<1>2. Acknowledge(reply, result) =
        IF reply.isDuplicatedDownload THEN <<>> ELSE <<Ack(reply.uri, result)>>
  BY DEF Acknowledge, Ack
<1> DEFINE m == Ack(reply.uri, result)
<1>3. \A v, r : m = Ack(v, r) => v = reply.uri /\ r = result
  <2>1. SUFFICES ASSUME NEW v, NEW r, m = Ack(v, r) PROVE v = reply.uri /\ r = result
    OBVIOUS
  <2>2. /\ m.uri = reply.uri /\ m.result = result
        /\ Ack(v, r).uri = v /\ Ack(v, r).result = r
    BY DEF Ack
  <2> HIDE DEF m
  <2>3. QED
    BY <2>1, <2>2
<1> HIDE DEF m
<1>4. DOMAIN <<m>> = {1} /\ <<m>>[1] = m
  OBVIOUS
<1>5. QED
  BY <1>1, <1>2, <1>3, <1>4 DEF AcknowledgesOnly, m

LEMMA AcknowledgeAndAsk ==
  ASSUME NEW reply \in Reply, NEW result \in Result, NEW messages, NEW requests \in Seq(ClientMessage),
         AcknowledgesOnly(messages, reply, result),
         \A u \in Uri, r \in Result : \A i \in DOMAIN requests : requests[i] # Ack(u, r)
  PROVE  AcknowledgesOnly(messages \o requests, reply, result)
<1> DEFINE both == messages \o requests
<1>1. messages \in Seq(ClientMessage)
  BY DEF AcknowledgesOnly
<1>2. /\ both \in Seq(ClientMessage)
      /\ Len(messages) \in Nat /\ Len(requests) \in Nat
      /\ DOMAIN messages = 1 .. Len(messages) /\ DOMAIN requests = 1 .. Len(requests)
      /\ DOMAIN both = 1 .. Len(messages) + Len(requests)
      /\ \A i \in 1 .. Len(messages) + Len(requests) :
            both[i] = IF i <= Len(messages) THEN messages[i] ELSE requests[i - Len(messages)]
  BY <1>1, ConcatProperties, LenProperties
<1> HIDE DEF both
<1>3. ASSUME NEW i \in DOMAIN both, NEW v \in Uri, NEW r \in Result, both[i] = Ack(v, r)
      PROVE  ~reply.isDuplicatedDownload /\ v = reply.uri /\ r = result
  <2>1. CASE i <= Len(messages)
    <3>1. i \in DOMAIN messages /\ messages[i] = Ack(v, r)
      BY <1>2, <1>3, <2>1
    <3>2. QED
      BY <3>1 DEF AcknowledgesOnly
  <2>2. CASE ~(i <= Len(messages))
    <3>1. i - Len(messages) \in DOMAIN requests /\ requests[i - Len(messages)] = Ack(v, r)
      BY <1>2, <1>3, <2>2
    <3>2. QED
      BY <3>1
  <2>3. QED
    BY <2>1, <2>2
<1>4. \A i \in DOMAIN messages : i \in DOMAIN both /\ both[i] = messages[i]
  BY <1>2
<1>5. ~reply.isDuplicatedDownload => \E i \in DOMAIN both : both[i] = Ack(reply.uri, result)
  BY <1>4 DEF AcknowledgesOnly
<1>6. QED
  BY <1>2, <1>3, <1>5 DEF AcknowledgesOnly, both

LEMMA ReceiveMessages ==
  ASSUME DistinctUris, CallInv, KnowledgeInv, Said, Linked, NEW c \in Client, ReceiveReply(c)
  PROVE  Said' /\ Linked' /\ KnowledgeInv'
<1>1. RepliesAreWaited /\ TypeOK /\ UrisOfEntities /\ WaitedIsCurrent /\ TriedInOrder
  BY DEF Linked, CallInv, TypeInv, KnowledgeInv
<1>2. PICK e \in Entity, result \in Result : Receives(c, e, result)
  BY <1>1, ReceiveMeans
<1>3. ProcessesRest /\ placed \subseteq Entity
  BY <1>1 DEF ReceiveReply, workerVars, performerVars, ProcessesRest, TypeOK, PerformerTypeOK
<1>4. AnsweredNow(e) /\ RepliesRead /\ outbox' \in [Client -> Seq(Reply)]
  BY <1>1, <1>2, ReceiveReads
<1>5. Asks(c, e) \/ Concludes(e, result)
  BY <1>2 DEF Receives
<1>6. OthersWait(e)
  BY <1>5, OthersGoOn
<1>7. RepliesAreTrue' /\ Linked'
  BY <1>1, <1>3, <1>4, <1>6, CallReplies, CallLinked DEF Said
<1>8. KnowledgeInv'
  BY <1>5, AsksKnowledge, ConcludesKnowledge
<1> DEFINE head == Head(outbox[c])
<1>9. PICK reply \in Reply, u \in Uri : reply = head /\ u = head.uri /\ ToClient(c, head)
  <2>1. outbox[c] # <<>>
    BY <1>2 DEF Receives
  <2>2. QED
    BY <1>1, <2>1, ReplyRead
<1>10. /\ reply = Head(outbox[c]) /\ u = reply.uri /\ ToClient(c, reply) /\ reply.uri \in Uri
       /\ waited[c][u] = e /\ Owner[e] = c /\ result \in PostAction(reply)
  BY <1>2, <1>9 DEF Receives
<1> HIDE DEF head
<1>11. IsTrue(c, reply)
  BY <1>10 DEF Said, RepliesAreTrue
<1>12. e # NoEntity
  BY ConstantsAssumption DEF ConstantsAssumption
<1>13. /\ \/ /\ result = "error" /\ Asks(c, e)
             /\ ClientSends(c, Acknowledge(reply, result) \o Requests(e))
          \/ /\ Concludes(e, result)
             /\ ClientSends(c, Acknowledge(reply, result))
  BY <1>2, <1>10 DEF Receives
<1>14. u \in Range(Uris[e])
  BY <1>1, <1>10, <1>12 DEF UrisOfEntities
<1>15. Uris[e][Tried(e)] = u
  BY <1>1, <1>10 DEF WaitedIsCurrent
<1>16. /\ ~reply.isDuplicatedDownload => done[u] = NoResult /\ (reply.result = "ok" => e \in placed)
       /\ reply.isDuplicatedDownload => done[u] = reply.result /\ result = reply.result
       /\ result = "ok" => reply.result = "ok"
  BY <1>10, <1>11 DEF IsTrue, PostAction
<1>17. \E messages : /\ ClientSends(c, messages) /\ AcknowledgesOnly(messages, reply, result)
                     /\ Asks(c, e) => result = "error"
  <2> DEFINE acks == Acknowledge(reply, result)
  <2>1. AcknowledgesOnly(acks, reply, result)
    BY <1>10, AcknowledgeMeans
  <2>2. CASE /\ result = "error" /\ Asks(c, e)
             /\ ClientSends(c, Acknowledge(reply, result) \o Requests(e))
    <3>1. remaining[e] # <<>>
      BY <2>2 DEF Asks
    <3>2. /\ Requests(e) \in Seq(ClientMessage)
          /\ \A v \in Uri, r \in Result : \A i \in DOMAIN Requests(e) : Requests(e)[i] # Ack(v, r)
      BY <1>1, <3>1, NoAckRequested
    <3> HIDE DEF acks
    <3>3. AcknowledgesOnly(acks \o Requests(e), reply, result)
      BY <1>10, <2>1, <3>2, AcknowledgeAndAsk
    <3>4. QED
      BY <2>2, <3>3 DEF acks
  <2>3. CASE Concludes(e, result) /\ ClientSends(c, Acknowledge(reply, result))
    <3>1. ~Asks(c, e)
      BY <1>1, <2>3 DEF Concludes, Asks, TypeOK, ClientTypeOK, Result, NoResult
    <3>2. QED
      BY <2>1, <2>3, <3>1
  <2>4. QED
    BY <1>13, <2>2, <2>3
<1>18. PICK messages : /\ ClientSends(c, messages) /\ AcknowledgesOnly(messages, reply, result)
                       /\ Asks(c, e) => result = "error"
  BY <1>17
<1>19. MessagesStay /\ MessagesSent(c, messages)
  BY <1>1, <1>18, SentMeans DEF AcknowledgesOnly
<1>20. /\ \A f \in Entity : outcome[f] = "ok" => outcome'[f] = "ok"
       /\ ~Asks(c, e) => outcome'[e] = result
  BY <1>1, <1>5 DEF Asks, Concludes, TypeOK, ClientTypeOK, NoResult
<1>21. AcksAreTrue'
  <2>1. ASSUME NEW v \in Uri, NEW i \in DOMAIN messages, messages[i] = Ack(v, "ok")
        PROVE  Delivered(v)'
    <3>1. ~reply.isDuplicatedDownload /\ v = u /\ result = "ok"
      BY <1>10, <1>18, <2>1 DEF AcknowledgesOnly, Result
    <3>2. e \in placed' /\ outcome'[e] = "ok"
      BY <1>3, <1>16, <1>18, <1>20, <3>1 DEF ProcessesRest
    <3>3. QED
      BY <1>14, <3>1, <3>2 DEF Delivered
  <2>2. QED
    BY <1>3, <1>19, <1>20, <2>1, CallAcks DEF Said
<1>22. FailuresLast'
  <2>1. CASE Asks(c, e)
    <3>1. result = "error"
      BY <1>18, <2>1
    <3>2. ASSUME ~reply.isDuplicatedDownload, worker = "running"
          PROVE  (ToWorker(c, Ack(u, "error")))'
      <4>1. PICK i \in DOMAIN messages : messages[i] = Ack(u, "error")
        BY <1>10, <1>18, <3>1, <3>2 DEF AcknowledgesOnly
      <4>2. (ToWorker(c, messages[i]))'
        BY <1>19, <3>2 DEF MessagesSent
      <4>3. QED
        BY <4>1, <4>2 DEF ToWorker, Ack
    <3>3. ASSUME NEW i \in Nat, i = Tried(e)
          PROVE  Failed(c, Uris[e][i])'
      <4>1. Uris[e][i] = u
        BY <1>15, <3>3
      <4>2. CASE reply.isDuplicatedDownload
        <5>1. done[u] = "error"
          BY <1>16, <3>1, <4>2
        <5>2. QED
          BY <1>3, <4>1, <5>1 DEF Failed, ProcessesRest
      <4>3. CASE ~reply.isDuplicatedDownload
        <5>1. done'[u] = NoResult
          BY <1>3, <1>16, <4>3 DEF ProcessesRest
        <5>2. worker' = "running" => \E j \in DOMAIN inbox'[c] : inbox'[c][j] = Ack(u, "error")
          BY <1>3, <3>2, <4>3 DEF ProcessesRest, ToWorker, Ack
        <5>3. QED
          BY <4>1, <5>1, <5>2 DEF Failed, ToWorker, Ack
      <4>4. QED
        BY <4>2, <4>3
    <3>4. QED
      BY <1>3, <1>19, <2>1, <3>3, CallFailures DEF Said
  <2>2. CASE Concludes(e, result)
    <3>1. remaining' = remaining
      BY <2>2 DEF Concludes
    <3>2. \A d \in Client, v \in Uri : Failed(d, v) => Failed(d, v)'
      BY <1>3, <1>19, FailuresStay
    <3>3. QED
      BY <1>1, <3>1, <3>2, FailuresKept DEF Said
  <2>3. QED
    BY <1>5, <2>1, <2>2
<1>23. QED
  BY <1>7, <1>8, <1>21, <1>22 DEF Said

\* Performers, the parent and the other steps of calls say nothing.
LEMMA OtherMessagesStep ==
  ASSUME CallInv, KnowledgeInv, Said, Linked,
         \/ UNCHANGED vars
         \/ \E u \in Uri : PerformerStep(u)
         \/ \E c \in Client : Connect(c) \/ ReceiveEof(c) \/ Return(c)
         \/ Destroy \/ ParentDies \/ ParentEnds
  PROVE  Said' /\ Linked' /\ KnowledgeInv'
<1>1. TypeOK /\ TriedInOrder
  BY DEF CallInv, TypeInv, KnowledgeInv
<1>2. /\ Silent /\ unscheduled' = unscheduled /\ done' = done /\ worker' = worker
      /\ activeDownloads' = activeDownloads
  BY DEF vars, workerVars, performerVars, clientVars, parentVars, callVars, Silent, PerformerStep,
         ReportWrongSize, FinishPerform, PerformerExit, PerformerCrash, Connect, ReceiveEof, Return,
         Destroy, ParentDies, ParentEnds, ParentPipeCloses, ClientDies
<1>3. /\ placed \subseteq placed'
      /\ \A v \in Uri : Downloading(v)' => Downloading(v)
  <2>1. ASSUME NEW u \in Uri, PerformerStep(u)
        PROVE  /\ placed \subseteq placed'
               /\ \A v \in Uri : Downloading(v)' => Downloading(v)
    <3>1. placed \subseteq placed'
      BY <2>1 DEF PerformerStep, ReportWrongSize, FinishPerform, PerformerExit, PerformerCrash
    <3>2. PICK next \in ProcessLife : /\ process' = [process EXCEPT ![u] = next]
                                      /\ next \in {"started", "sized"} => process[u] = "started"
      BY <2>1 DEF PerformerStep, ReportWrongSize, FinishPerform, PerformerExit, PerformerCrash,
                  PerformerSends, ProcessLife
    <3>3. process \in [Uri -> ProcessLife]
      BY <1>1 DEF TypeOK, PerformerTypeOK
    <3>4. QED
      BY <3>1, <3>2, <3>3 DEF Downloading
  <2>2. CASE UNCHANGED performerVars
    BY <2>2 DEF performerVars, Downloading
  <2>3. QED
    BY <2>1, <2>2 DEF vars, Connect, ReceiveEof, Return, Destroy, ParentDies, ParentEnds,
                      ParentPipeCloses, ClientDies
<1>4. Said'
  BY <1>1, <1>2, <1>3, SaidKept DEF WorkerIsNotBack
<1>5. Linked'
  <2>1. UNCHANGED <<outbox, waited>>
    BY <1>2 DEF Silent
  <2>2. QED
    BY <1>2, <1>3, <2>1, LinkedKept DEF Active
<1>6. KnowledgeInv'
  BY <1>2, KnowledgeKept DEF Silent
<1>7. QED
  BY <1>4, <1>5, <1>6

LEMMA WorkerKeepsCallVars ==
  WorkerStep => UNCHANGED callVars /\ worker = "running"
BY DEF WorkerStep, HandleInternal, ForkFails, Reap, HandleParent, AcceptFails, HandleClientMessage,
       HandleClientEof, HandlePerformerMessage, HandlePerformerEof, Exit, ProcessProgressMessage,
       NoMoreInput, PollingPerformers, Polling, clientVars

-----------------------------------------------------------------------------
(* The invariant *)

LEMMA ServiceInit == Init => ServiceInv
<1> SUFFICES ASSUME Init PROVE ServiceInv
  OBVIOUS
<1>1. /\ \A c \in Client : inbox[c] = <<>> /\ outbox[c] = <<>>
      /\ \A u \in Uri : process[u] = "none" /\ pipe[u] = <<>>
      /\ Active = {} /\ workerQueue = <<>> /\ reaping = NoUri
  BY DEF Init, Active
<1>2. DOMAIN <<>> = {}
  OBVIOUS
<1>3. \A c \in Client : \A m : ~ToClient(c, m) /\ ~ToWorker(c, m)
  BY <1>1, <1>2 DEF ToClient, ToWorker
<1>4. \A u \in Uri : ~Downloading(u)
  BY <1>1 DEF Downloading
<1>5. RepliesAreWaited
  <2>1. \A c \in Client, u \in Uri : Number(outbox[c], Replies(u)) = 0
    BY <1>1, NumberOfNone
  <2>2. QED
    BY <2>1 DEF RepliesAreWaited
<1>6. RepliesAreTrue /\ AcksAreTrue /\ DownloadsAreWaited
  BY <1>3, <1>4 DEF RepliesAreTrue, AcksAreTrue, DownloadsAreWaited
<1>7. FailuresLast
  <2>1. \A e \in Entity : remaining[e] = Uris[e] /\ Len(Uris[e]) \in Nat
    BY ConstantsAssumption, LenProperties DEF Init, ConstantsAssumption
  <2>2. \A e \in Entity : Tried(e) = 0
    BY <2>1 DEF Tried
  <2>3. 1 .. 0 - 1 = {}
    OBVIOUS
  <2>4. QED
    BY <2>2, <2>3 DEF FailuresLast
<1>8. ServingInv
  <2>1. NothingOverruled
    BY <1>1, IdleOverrulesNothing
  <2>2. FailuresAreErrors
    BY <2>1, NothingIsOverruled
  <2>3. \A u \in Uri : process[u] # "killed" /\ ~Piped(u)
    BY <1>1 DEF Piped
  <2>4. QED
    BY <1>1, <1>4, <2>2, <2>3
    DEF ServingInv, ActiveIsNotDone, ToldOnce, KilledAreOverruled, FilesArePlaced
<1>9. QED
  BY <1>5, <1>6, <1>7, <1>8, KnowledgeInit DEF ServiceInv, MessagesInv

LEMMA ServiceParts ==
  /\ MessagesInv <=> Said /\ Linked
  /\ MessagesInv' <=> Said' /\ Linked'
BY DEF MessagesInv, Said, Linked

LEMMA ServiceInvStep ==
  ASSUME DistinctUris, RequestInv, ServiceInv, [Next]_vars
  PROVE  ServiceInv'
<1>1. CallInv /\ KnowledgeInv /\ Said /\ Linked
  BY ServiceParts DEF RequestInv, ServiceInv
<1>2. RequestInv'
  BY RequestInvStep
<1>3. ASSUME worker' = "running"
      PROVE  ServingInv'
  <2>1. worker = "running"
    BY <1>3, NoSecondWorker
  <2>2. QED
    BY <1>3, <2>1, ServingStep DEF ServiceInv
<1>4. CASE WorkerStep
  <2>1. worker = "running" /\ UNCHANGED callVars
    BY <1>4, WorkerKeepsCallVars
  <2>2. Ready
    BY <1>1, <2>1 DEF Ready, RequestInv, ServiceInv
  <2>3. Said' /\ (worker' # "running" => Linked')
    BY <1>4, <2>2, WorkerMessagesStep DEF SaidAndLinked
  <2>4. ASSUME worker' = "running"
        PROVE  Linked'
    <3>1. (Working /\ RequestInv /\ ServingInv)'
      BY <1>2, <1>3, <2>4 DEF Working
    <3>2. QED
      BY <3>1, NextMeansWaited DEF Linked
  <2>5. KnowledgeInv'
    BY <1>1, <2>1, KnowledgeKept DEF callVars
  <2>6. QED
    BY <1>3, <2>3, <2>4, <2>5, ServiceParts DEF ServiceInv
<1>5. CASE \E c \in Client : ScheduleDownload(c) \/ ReceiveReply(c)
  <2>1. Said' /\ Linked' /\ KnowledgeInv'
    BY <1>1, <1>5, ScheduleMessages, ReceiveMessages
  <2>2. QED
    BY <1>3, <2>1, ServiceParts DEF ServiceInv
<1>6. CASE \/ UNCHANGED vars
           \/ \E u \in Uri : PerformerStep(u)
           \/ \E c \in Client : Connect(c) \/ ReceiveEof(c) \/ Return(c)
           \/ Destroy \/ ParentDies \/ ParentEnds
  <2>1. Said' /\ Linked' /\ KnowledgeInv'
    BY <1>1, <1>6, OtherMessagesStep
  <2>2. QED
    BY <1>3, <2>1, ServiceParts DEF ServiceInv
<1>7. QED
  BY <1>4, <1>5, <1>6 DEF Next, ClientStep

-----------------------------------------------------------------------------
(* What the steps are for the service *)

\* Calls stay where they are, whatever becomes of the worker.
LEMMA SameCall ==
  ASSUME NoInternalErrors, NoInternalErrors', [Next]_vars, pc' = pc
  PROVE  Call' = Call
<1>1. \A c \in Client : pc[c] = "internal error" =>
        /\ worker \notin {"running", "internal error"}
        /\ worker' \notin {"running", "internal error"}
  BY NoSecondWorker DEF NoInternalErrors
<1>2. \A c \in Client : Call[c]' = Call[c]
  BY <1>1 DEF Call
<1>3. QED
  BY <1>2 DEF Call

\* ... and one of them moves.
LEMMA CallMoves ==
  ASSUME TypeOK, worker' = worker, NEW c \in Client, NEW place,
         place \in {"working", "returned", "internal error", "dead"},
         pc' = [pc EXCEPT ![c] = place],
         place = "internal error" => worker \notin {"running", "internal error"}
  PROVE  Call' = [Call EXCEPT ![c] = IF place \in {"internal error", "dead"} THEN "lost" ELSE place]
<1>1. pc \in [Client -> {"idle", "working", "returned", "internal error", "dead"}]
  BY DEF TypeOK, ClientTypeOK
<1>2. pc'[c] = place /\ \A d \in Client \ {c} : pc'[d] = pc[d]
  BY <1>1
<1>3. QED
  BY <1>2 DEF Call

\* Nothing which the service knows of.
LEMMA Unseen ==
  ASSUME Call' = Call, UNCHANGED <<placed, done, outcome>>
  PROVE  UNCHANGED Service!serviceVars
BY DEF Service!serviceVars

LEMMA InitIsService == Init => Service!Init
BY DEF Init, Call, Service!Init, NoResult

\* ProcessFinalResult is for the client's acknowledgement.
LEMMA FinalIsSettle ==
  ASSUME RequestInv, ServiceInv, Call' = Call, NEW c \in Client, HandleClientMessage(c)
  PROVE  Service!ServiceNext \/ UNCHANGED Service!serviceVars
<1> DEFINE m == Head(inbox[c])
<1>1. /\ worker = "running" /\ reaping = NoUri /\ inbox[c] # <<>> /\ outcome' = outcome
      /\ DispatchClientMessage(c, m)
  BY DEF HandleClientMessage, Polling, callVars
<1>2. CallInv /\ WorkerInv /\ ServingInv /\ TypeOK /\ AcksAreTrue
  BY <1>1, ServiceParts DEF RequestInv, ServiceInv, CallInv, TypeInv, Said
<1>3. m \in ClientMessage /\ 1 \in DOMAIN inbox[c] /\ inbox[c][1] = m
  <2>1. inbox[c] \in Seq(ClientMessage)
    BY <1>2 DEF TypeOK, ClientTypeOK
  <2>2. QED
    BY <1>1, <2>1, HeadTailProperties
<1> HIDE DEF m
<1>4. CASE m.command # "done-ack"
  <2>1. done' = done /\ placed' = placed
    BY <1>1, <1>4 DEF DispatchClientMessage, performerVars
  <2>2. QED
    BY <1>1, <2>1, Unseen
<1>5. CASE m.command = "done-ack"
  <2>1. PICK u \in Uri, r \in Result : m = Ack(u, r) /\ ProcessFinalResult(u, r)
    <3>1. m.uri \in Uri /\ m.result \in Result /\ m = Ack(m.uri, m.result)
      BY <1>3, <1>5 DEF ClientMessage, Ack
    <3>2. ProcessFinalResult(m.uri, m.result)
      BY <1>1, <1>5 DEF DispatchClientMessage
    <3>3. QED
      BY <3>1, <3>2
  <2>2. u \in Active
    <3>1. m.uri \in Active
      BY <1>1, <1>2, <1>5, AcknowledgedIsActive DEF m
    <3>2. QED
      BY <2>1, <3>1 DEF Ack
  <2>3. done[u] = "none"
    BY <1>2, <2>2 DEF ServingInv, ActiveIsNotDone, NoResult
  <2>4. r = "ok" => \E f \in placed : Service!Offers(f, u) /\ outcome[f] = "ok"
    <3> SUFFICES ASSUME r = "ok"
                 PROVE  \E f \in placed : Service!Offers(f, u) /\ outcome[f] = "ok"
      OBVIOUS
    <3>1. ToWorker(c, Ack(u, "ok"))
      BY <1>3, <2>1 DEF ToWorker
    <3>2. Delivered(u)
      BY <1>2, <3>1 DEF AcksAreTrue
    <3>3. QED
      BY <3>2 DEF Delivered, Range, Service!Offers
  <2>5. done' = [done EXCEPT ![u] = r] /\ placed' = placed
    BY <2>1, <2>2 DEF ProcessFinalResult, DiesSending, Abort, performerVars
  <2>6. Service!Settle(u, r)
    BY <1>1, <2>3, <2>4, <2>5 DEF Service!Settle
  <2>7. QED
    BY <2>6 DEF Service!ServiceNext, Service!Outcome, Result
<1>6. QED
  BY <1>4, <1>5

\* A wrong size takes the file away.
LEMMA ProgressIsDiscard ==
  ASSUME RequestInv, ServiceInv, Call' = Call, NEW u \in Uri,
         HandlePerformerMessage(u) \/ HandlePerformerEof(u)
  PROVE  Service!ServiceNext \/ UNCHANGED Service!serviceVars
<1>1. Piped(u) /\ reaping = NoUri /\ worker = "running"
  BY DEF HandlePerformerMessage, HandlePerformerEof, PollingPerformers, Polling
<1>2. TypeOK /\ WaitedIsCurrent /\ TargetsAreWaited
  BY <1>1 DEF RequestInv, CallInv, TypeInv, WorkerInv, ServiceInv, KnowledgeInv
<1> DEFINE e == activeDownloads[u].targetPath
           d == activeDownloads[u].waiterSocket
<1>3. u \in Active /\ ~Replied(u)
  BY <1>1, ConstantsAssumption DEF Piped, Replied, ConstantsAssumption
<1>4. e \in Entity /\ d \in Client
  BY <1>2, <1>3 DEF TypeOK, WorkerTypeOK, ActiveDownloadInfo
<1>5. waited[d][u] = e
  BY <1>2, <1>3 DEF TargetsAreWaited
<1>6. outcome[e] # "ok"
  BY <1>2, <1>4, <1>5 DEF WaitedIsCurrent, NoResult
<1>7. done' = done /\ outcome' = outcome /\ (placed' = placed \/ placed' = placed \ {e})
  BY DEF HandlePerformerMessage, HandlePerformerEof, ProcessProgressMessage,
         ProcessPreliminaryResult, DiesSending, Abort, performerVars, clientVars, callVars
<1> HIDE DEF e, d
<1>8. CASE placed' = placed
  BY <1>7, <1>8, Unseen
<1>9. CASE placed' = placed \ {e}
  <2>1. Service!Discard(e)
    BY <1>6, <1>7, <1>9 DEF Service!Discard
  <2>2. QED
    BY <1>4, <2>1 DEF Service!ServiceNext
<1>10. QED
  BY <1>7, <1>8, <1>9

\* The other steps of the worker do not show.
LEMMA WorkerIsService ==
  ASSUME RequestInv, ServiceInv, Call' = Call, WorkerStep
  PROVE  Service!ServiceNext \/ UNCHANGED Service!serviceVars
<1>1. CASE HandleInternal
  <2>1. done' = done /\ outcome' = outcome /\ placed' = placed
    BY <1>1 DEF HandleInternal, ProceedDownload, PopOnHold, ProcessPreliminaryResult, DiesSending,
                Abort, StartNewDownload, performerVars, callVars
  <2>2. QED
    BY <2>1, Unseen
<1>2. CASE \/ ForkFails \/ Reap \/ HandleParent \/ AcceptFails \/ Exit
           \/ \E c \in Client : HandleClientEof(c)
  <2>1. done' = done /\ outcome' = outcome /\ placed' = placed
    BY <1>2 DEF ForkFails, Reap, HandleParent, AcceptFails, Exit, HandleClientEof, Abort,
                performerVars, clientVars, callVars
  <2>2. QED
    BY <2>1, Unseen
<1>3. QED
  BY <1>1, <1>2, FinalIsSettle, ProgressIsDiscard DEF WorkerStep

\* A performer has a file.
LEMMA PerformerIsService ==
  ASSUME RequestInv, ServiceInv, Call' = Call, NEW u \in Uri, PerformerStep(u)
  PROVE  Service!ServiceNext \/ UNCHANGED Service!serviceVars
<1>1. TypeOK /\ WaitedIsCurrent /\ DownloadsAreWaited
  BY DEF RequestInv, CallInv, TypeInv, ServiceInv, KnowledgeInv, MessagesInv
<1>2. done' = done /\ outcome' = outcome
  BY DEF PerformerStep, ReportWrongSize, FinishPerform, PerformerExit, PerformerCrash, workerVars,
         clientVars, callVars
<1>3. CASE placed' = placed
  BY <1>2, <1>3, Unseen
<1>4. CASE placed' # placed
  <2> DEFINE e == activeDownloads[u].targetPath
             d == activeDownloads[u].waiterSocket
  <2>1. placed' = placed \cup {e} /\ Downloading(u) /\ u \in Active
    BY <1>4 DEF PerformerStep, ReportWrongSize, FinishPerform, PerformerExit, PerformerCrash,
                Downloading
  <2>2. e \in Entity /\ d \in Client
    BY <1>1, <2>1 DEF TypeOK, WorkerTypeOK, ActiveDownloadInfo
  <2>3. waited[d][u] = e
    BY <1>1, <2>1 DEF DownloadsAreWaited
  <2>4. outcome[e] = "none"
    BY <1>1, <2>2, <2>3 DEF WaitedIsCurrent, NoResult
  <2> HIDE DEF e, d
  <2>5. Service!Place(e)
    BY <1>2, <2>1, <2>4 DEF Service!Place
  <2>6. QED
    BY <2>2, <2>5 DEF Service!ServiceNext
<1>5. QED
  BY <1>3, <1>4

\* The last reply for an entity is its answer.
LEMMA ReplyIsAnswer ==
  ASSUME RequestInv, ServiceInv, NoInternalErrors, NoInternalErrors', [Next]_vars,
         NEW c \in Client, ReceiveReply(c)
  PROVE  Service!ServiceNext \/ UNCHANGED Service!serviceVars
<1>1. CallInv /\ KnowledgeInv /\ Said /\ RepliesAreWaited
  BY ServiceParts DEF RequestInv, ServiceInv, Linked
<1>2. TypeOK /\ UrisOfEntities /\ WaitedIsCurrent /\ TriedInOrder /\ RepliesAreTrue /\ FailuresLast
  BY <1>1 DEF CallInv, TypeInv, KnowledgeInv, Said
<1>3. PICK e \in Entity, result \in Result : Receives(c, e, result)
  BY <1>1, ReceiveMeans
<1>4. Call' = Call
  BY <1>1, ReceiveMeans, SameCall
<1>5. done' = done /\ placed' = placed
  BY DEF ReceiveReply, workerVars, performerVars
<1>6. CASE Asks(c, e)
  BY <1>4, <1>5, <1>6, Unseen DEF Asks
<1>7. CASE ~Asks(c, e)
  <2>1. /\ result = "ok" \/ remaining[e] = <<>>
        /\ Concludes(e, result)
    BY <1>3, <1>7 DEF Receives
  <2>2. outcome[e] = "none" /\ outcome' = [outcome EXCEPT ![e] = result]
    BY <2>1 DEF Concludes, NoResult
  <2>3. Call[Owner[e]] = "working"
    BY <1>3 DEF Receives, ReceiveReply, Waiting, Call
  <2>4. result = "ok" =>
          \E u \in Uri : /\ Service!Offers(e, u)
                         /\ \/ done[u] = "ok"
                            \/ done[u] = "none" /\ e \in placed
    <3> SUFFICES ASSUME result = "ok"
                 PROVE  \E u \in Uri : /\ Service!Offers(e, u)
                                       /\ \/ done[u] = "ok"
                                          \/ done[u] = "none" /\ e \in placed
      OBVIOUS
    <3> DEFINE reply == Head(outbox[c])
               u == reply.uri
    <3>1. outbox[c] # <<>> /\ waited[c][u] = e /\ "ok" \in PostAction(reply)
      BY <1>3 DEF Receives
    <3>2. reply \in Reply /\ u \in Uri /\ ToClient(c, reply)
      BY <1>2, <3>1, ReplyRead
    <3>3. IsTrue(c, reply)
      BY <1>2, <3>2 DEF RepliesAreTrue
    <3> HIDE DEF reply
    <3>4. reply.result = "ok"
      BY <3>1, <3>2 DEF PostAction
    <3>5. done[u] = "ok" \/ (done[u] = "none" /\ e \in placed)
      BY <3>1, <3>3, <3>4 DEF IsTrue, NoResult
    <3>6. e # NoEntity
      BY ConstantsAssumption DEF ConstantsAssumption
    <3>7. u \in Range(Uris[e])
      BY <1>2, <3>1, <3>2, <3>6 DEF UrisOfEntities
    <3>8. Service!Offers(e, u)
      BY <3>7 DEF Range, Service!Offers
    <3>9. QED
      BY <3>2, <3>5, <3>8
  <2>5. result = "error" => \A i \in 1 .. Len(Uris[e]) - 1 : done[Uris[e][i]] # "ok"
    <3> SUFFICES ASSUME result = "error"
                 PROVE  \A i \in 1 .. Len(Uris[e]) - 1 : done[Uris[e][i]] # "ok"
      OBVIOUS
    <3>1. Len(Uris[e]) \in Nat
      BY <1>2, TriedType
    <3>2. remaining[e] = <<>>
      BY <2>1
    <3>3. Len(remaining[e]) = 0
      BY <3>2
    <3>4. Tried(e) = Len(Uris[e])
      BY <3>1, <3>3 DEF Tried
    <3>5. \A i \in 1 .. Len(Uris[e]) - 1 : Failed(Owner[e], Uris[e][i])
      BY <1>2, <3>4 DEF FailuresLast
    <3>6. QED
      BY <3>5 DEF Failed, NoResult
  <2>6. Service!Answer(e, result)
    BY <1>4, <1>5, <2>2, <2>3, <2>4, <2>5 DEF Service!Answer
  <2>7. QED
    BY <2>6 DEF Service!ServiceNext, Service!Outcome, Result
<1>8. QED
  BY <1>6, <1>7

\* Nothing is waited for any more: everything was answered.
LEMMA ReturnIsReturn ==
  ASSUME RequestInv, ServiceInv, NEW c \in Client, Return(c)
  PROVE  Service!Return(c)
<1>1. TypeOK /\ UnansweredWaits
  BY DEF RequestInv, CallInv, TypeInv, ServiceInv, KnowledgeInv
<1>2. /\ pc[c] = "working" /\ Scheduling(c) = {} /\ WaitedUris(c) = {}
      /\ worker' = worker /\ pc' = [pc EXCEPT ![c] = "returned"]
      /\ UNCHANGED <<placed, done, outcome>>
  BY DEF Return, Waiting, workerVars, performerVars
<1>3. Call[c] = "working"
  BY <1>2 DEF Call
<1>4. Call' = [Call EXCEPT ![c] = "returned"]
  BY <1>1, <1>2, CallMoves
<1>5. ASSUME NEW e \in Entity, Owner[e] = c
      PROVE  outcome[e] # "none"
  <2>1. e \notin unscheduled
    BY <1>2, <1>5 DEF Scheduling, EntitiesOf
  <2>2. e # NoEntity
    BY ConstantsAssumption DEF ConstantsAssumption
  <2>3. \A u \in Uri : waited[c][u] # e
    BY <1>2, <2>2 DEF WaitedUris
  <2>4. QED
    BY <1>1, <1>5, <2>1, <2>3 DEF UnansweredWaits, NoResult
<1>6. QED
  BY <1>2, <1>3, <1>4, <1>5 DEF Service!Return

\* A call begins, or is lost with the worker or with its own process.
LEMMA CallIsService ==
  ASSUME TypeOK, NoInternalErrors, NEW c \in Client, Connect(c) \/ ReceiveEof(c) \/ ClientDies(c)
  PROVE  Service!ServiceNext \/ UNCHANGED Service!serviceVars
<1>1. worker' = worker /\ UNCHANGED <<placed, done, outcome>>
  BY DEF Connect, ReceiveEof, ClientDies, workerVars, performerVars
<1>2. CASE Connect(c)
  <2>1. Call[c] = "idle"
    BY <1>2 DEF Connect, Call
  <2>2. Call' = [Call EXCEPT ![c] = "working"]
    BY <1>1, <1>2, CallMoves DEF Connect
  <2>3. Service!Begin(c)
    BY <1>1, <2>1, <2>2 DEF Service!Begin
  <2>4. QED
    BY <2>3 DEF Service!ServiceNext
<1>3. CASE ReceiveEof(c) \/ ClientDies(c)
  <2>1. Call' = [Call EXCEPT ![c] = "lost"]
    <3>1. CASE ReceiveEof(c)
      <4>1. worker \notin {"running", "internal error"}
        BY <3>1 DEF ReceiveEof, ConnectionLost, NoInternalErrors
      <4>2. QED
        BY <1>1, <3>1, <4>1, CallMoves DEF ReceiveEof
    <3>2. CASE ClientDies(c)
      BY <1>1, <3>2, CallMoves DEF ClientDies
    <3>3. QED
      BY <1>3, <3>1, <3>2
  <2>2. CASE Call[c] = "working"
    <3>1. Service!Lose(c)
      BY <1>1, <2>1, <2>2 DEF Service!Lose
    <3>2. QED
      BY <3>1 DEF Service!ServiceNext
  <2>3. CASE Call[c] = "lost"
    <3>1. Call' = Call
      BY <2>1, <2>3 DEF Call
    <3>2. QED
      BY <1>1, <3>1, Unseen
  <2>4. Call[c] \in {"working", "lost"}
    BY <1>3 DEF ReceiveEof, Waiting, ClientDies, Call, NoInternalErrors
  <2>5. QED
    BY <2>2, <2>3, <2>4
<1>4. QED
  BY <1>2, <1>3

LEMMA NextIsService ==
  ASSUME RequestInv, ServiceInv, NoInternalErrors, NoInternalErrors', [Next]_vars
  PROVE  Service!ServiceNext \/ UNCHANGED Service!serviceVars
<1>1. TypeOK
  BY DEF RequestInv, CallInv, TypeInv
<1>2. CASE UNCHANGED vars \/ Destroy \/ ParentDies \/ ParentPipeCloses
  <2>1. pc' = pc /\ UNCHANGED <<placed, done, outcome>>
    BY <1>2 DEF vars, workerVars, performerVars, clientVars, callVars, Destroy, ParentDies,
                ParentPipeCloses
  <2>2. QED
    BY <2>1, SameCall, Unseen
<1>3. CASE WorkerStep
  <2>1. pc' = pc
    BY <1>3, WorkerKeepsCallVars DEF callVars
  <2>2. QED
    BY <1>3, <2>1, SameCall, WorkerIsService
<1>4. ASSUME NEW u \in Uri, PerformerStep(u)
      PROVE  Service!ServiceNext \/ UNCHANGED Service!serviceVars
  <2>1. pc' = pc
    BY <1>4 DEF PerformerStep, ReportWrongSize, FinishPerform, PerformerExit, PerformerCrash,
                clientVars, callVars
  <2>2. QED
    BY <1>4, <2>1, SameCall, PerformerIsService
<1>5. ASSUME NEW c \in Client, ScheduleDownload(c)
      PROVE  Service!ServiceNext \/ UNCHANGED Service!serviceVars
  <2>1. pc' = pc /\ UNCHANGED <<placed, done, outcome>>
    BY <1>5 DEF ScheduleDownload, workerVars, performerVars
  <2>2. QED
    BY <2>1, SameCall, Unseen
<1>6. ASSUME NEW c \in Client, ReceiveReply(c)
      PROVE  Service!ServiceNext \/ UNCHANGED Service!serviceVars
  BY <1>6, ReplyIsAnswer
<1>7. ASSUME NEW c \in Client, Return(c)
      PROVE  Service!ServiceNext \/ UNCHANGED Service!serviceVars
  BY <1>7, ReturnIsReturn DEF Service!ServiceNext
<1>8. ASSUME NEW c \in Client, Connect(c) \/ ReceiveEof(c) \/ ClientDies(c)
      PROVE  Service!ServiceNext \/ UNCHANGED Service!serviceVars
  BY <1>1, <1>8, CallIsService
<1>9. QED
  BY <1>2, <1>3, <1>4, <1>5, <1>6, <1>7, <1>8 DEF Next, ClientStep, ParentEnds

\* Seen from download(), queues, slots, performers, sockets and deaths do not
\* matter, whatever the number of calls, entities, URIs and slots and whatever
\* fails: every URI gets one result, everybody who shares it hears the same, a
\* success only after the post action of the call which downloaded the file.
THEOREM DownloadsAreTheService == DistinctUris => (Safety => ImplementsService)
<1> SUFFICES ASSUME DistinctUris
             PROVE  Safety => ImplementsService
  OBVIOUS
<1>1. Init => Service!Init
  BY InitIsService
<1>2. Init => ServiceInv
  BY ServiceInit
<1>3. RequestInv /\ ServiceInv /\ [Next]_vars => ServiceInv'
  BY ServiceInvStep
<1>4. RequestInv /\ ServiceInv /\ NoInternalErrors /\ NoInternalErrors' /\ [Next]_vars
        => [Service!ServiceNext]_(Service!serviceVars)
  BY NextIsService
<1>5. Safety => []NoInternalErrors
  BY InternalErrorsAreUnreachable
<1>6. Safety => []RequestInv
  BY RequestInvariant
<1>7. QED
  BY <1>1, <1>2, <1>3, <1>4, <1>5, <1>6, PTL
  DEF Safety, ImplementsService, Service!ServiceSpec
=============================================================================
