------------------------ MODULE DownloadManagerProofs ------------------------
(***************************************************************************)
(* Proofs about DownloadManager, for every set of clients, entities and    *)
(* URIs, every limit and every combination of faults.                      *)
(***************************************************************************)
EXTENDS DownloadManager, FiniteSetTheorems, SequenceTheorems, TLAPS

-----------------------------------------------------------------------------
(* Sequences and messages *)

\* A reply repeated any number of times is a sequence of replies.
LEMMA RepeatedReply ==
  ASSUME NEW n \in Nat, NEW reply \in Reply, NEW s \in Seq(Reply)
  PROVE  s \o [i \in 1 .. n |-> reply] \in Seq(Reply)
<1>1. [i \in 1 .. n |-> reply] \in Seq(Reply)
  BY IsASeq
<1>2. QED
  BY <1>1, ConcatProperties

\* sendSocketMessage puts replies, and nothing else, into the clients' sockets.
LEMMA SendToAllType ==
  ASSUME TypeOK, NEW sockets \in Seq(Client), NEW reply \in Reply,
         SendToAll(sockets, reply)
  PROVE  outbox' \in [Client -> Seq(Reply)]
<1> DEFINE N(c) == Cardinality({j \in Served(sockets) : sockets[j] = c})
<1>1. ASSUME NEW c \in Client
      PROVE  N(c) \in Nat
  <2>1. IsFiniteSet(1 .. Len(sockets))
    BY FS_Interval, LenProperties
  <2>2. {j \in Served(sockets) : sockets[j] = c} \subseteq 1 .. Len(sockets)
    BY LenProperties DEF Served
  <2>3. QED
    BY <2>1, <2>2, FS_Subset, FS_CardinalityType
<1>2. ASSUME NEW c \in Client
      PROVE  outbox[c] \o [i \in 1 .. N(c) |-> reply] \in Seq(Reply)
  BY <1>1, RepeatedReply DEF TypeOK, ClientTypeOK
<1>3. outbox' = [c \in Client |-> outbox[c] \o [i \in 1 .. N(c) |-> reply]]
  BY DEF SendToAll
<1>4. QED
  BY <1>2, <1>3

-----------------------------------------------------------------------------
(* Types.  scheduleDownload takes the front of sortedExtendedUris, which   *)
(* must not be empty: the inductive invariant adds that an entity whose    *)
(* first URI was not requested yet has URIs left and is not waited for.    *)

UnscheduledInv ==
  /\ \A e \in unscheduled : remaining[e] # <<>>
  /\ \A c \in Client, u \in Uri : waited[c][u] \notin unscheduled

TypeInv == TypeOK /\ UnscheduledInv

LEMMA TypeInit == Init => TypeInv
<1> SUFFICES ASSUME Init PROVE TypeInv
  OBVIOUS
<1>1. WorkerTypeOK /\ SocketTypeOK
  <2>1. activeDownloads \in [Active -> ActiveDownloadInfo] /\ Active \subseteq Uri
    BY DEF Init, Active
  <2>2. workerQueue \in Seq(InternalMessage) /\ onHold \in Seq(Request)
        /\ backlog \in Seq(Client)
    BY DEF Init
  <2>3. QED
    BY <2>1, <2>2 DEF Init, WorkerTypeOK, SocketTypeOK, WorkerLife, NoResult
<1>2. PerformerTypeOK
  BY DEF Init, PerformerTypeOK, ProcessLife
<1>3. ClientTypeOK /\ UnscheduledInv
  BY ConstantsAssumption DEF Init, ClientTypeOK, UnscheduledInv, NoResult,
     ConstantsAssumption
<1>4. QED
  BY <1>1, <1>2, <1>3 DEF TypeInv, TypeOK

\* Requests of a client are well formed when the entity has a URI left.
LEMMA RequestsType ==
  ASSUME TypeOK, NEW e \in Entity, remaining[e] # <<>>
  PROVE  /\ Head(remaining[e]) \in Uri
         /\ Tail(remaining[e]) \in Seq(Uri)
         /\ Requests(e) \in Seq(ClientMessage)
<1>1. remaining[e] \in Seq(Uri)
  BY DEF TypeOK, ClientTypeOK
<1>2. Head(remaining[e]) \in Uri /\ Tail(remaining[e]) \in Seq(Uri)
  BY <1>1, HeadTailProperties
<1> DEFINE u == Head(remaining[e])
           size == [command |-> "set-download-size", uri |-> u]
           download == [command |-> "download", uri |-> u, targetPath |-> e]
<1>3. size \in ClientMessage /\ download \in ClientMessage
  BY <1>2 DEF ClientMessage
<1>4. <<size>> \in Seq(ClientMessage) /\ <<download>> \in Seq(ClientMessage)
      /\ <<>> \in Seq(ClientMessage)
  <2> HIDE DEF size, download
  <2>1. QED
    BY <1>3
<1>5. Requests(e) = (IF e \in Sized THEN <<size>> ELSE <<>>) \o <<download>>
  BY DEF Requests
<1>6. Requests(e) \in Seq(ClientMessage)
  <2> HIDE DEF size, download
  <2>1. QED
    BY <1>4, <1>5, ConcatProperties
<1>7. QED
  BY <1>2, <1>6

LEMMA ClientSendsType ==
  ASSUME TypeOK, NEW c \in Client, NEW messages \in Seq(ClientMessage),
         ClientSends(c, messages)
  PROVE  /\ inbox' \in [Client -> Seq(ClientMessage)]
         /\ parent' \in {"alive", "destroying", "dying", "dead"}
<1>1. inbox[c] \o messages \in Seq(ClientMessage)
  BY ConcatProperties DEF TypeOK, ClientTypeOK
<1>2. QED
  BY <1>1 DEF ClientSends, TypeOK, ClientTypeOK

LEMMA AcknowledgeType ==
  ASSUME NEW reply \in Reply, NEW result \in Result
  PROVE  Acknowledge(reply, result) \in Seq(ClientMessage)
<1> DEFINE ack == [command |-> "done-ack", uri |-> reply.uri, result |-> result]
<1>1. ack \in ClientMessage
  BY DEF Reply, ClientMessage
<1>2. <<ack>> \in Seq(ClientMessage) /\ <<>> \in Seq(ClientMessage)
  <2> HIDE DEF ack
  <2>1. QED
    BY <1>1
<1>3. QED
  BY <1>2 DEF Acknowledge

LEMMA ClientStepType ==
  ASSUME TypeInv, NEW c \in Client, ClientStep(c)
  PROVE  TypeInv'
<1> USE DEF TypeInv
<1>1. CASE ScheduleDownload(c)
  <2>1. PICK e \in Scheduling(c) :
             /\ ClientSends(c, Requests(e))
             /\ unscheduled' = unscheduled \ {e}
             /\ remaining' = [remaining EXCEPT ![e] = Tail(@)]
             /\ waited' = [waited EXCEPT ![c][Head(remaining[e])] = e]
    BY <1>1 DEF ScheduleDownload
  <2>2. e \in Entity /\ e \in unscheduled
    BY DEF Scheduling, EntitiesOf
  <2>3. Head(remaining[e]) \in Uri /\ remaining[e] # <<>>
    BY <2>2, RequestsType DEF UnscheduledInv
  <2>4. ClientTypeOK'
    BY <1>1, <2>1, <2>2, <2>3, RequestsType, ClientSendsType
    DEF ScheduleDownload, TypeOK, ClientTypeOK
  <2>5. UnscheduledInv'
    BY <2>1, <2>2, <2>3 DEF UnscheduledInv, TypeOK, ClientTypeOK
  <2>6. WorkerTypeOK' /\ SocketTypeOK' /\ PerformerTypeOK'
    BY <1>1 DEF ScheduleDownload, TypeOK, WorkerTypeOK, SocketTypeOK, PerformerTypeOK, workerVars,
       socketVars, performerVars, Active
  <2>7. QED
    BY <2>4, <2>5, <2>6 DEF TypeOK
<1>2. CASE ReceiveReply(c)
  <2> DEFINE reply == Head(outbox[c])
             e == waited[c][reply.uri]
             forgotten == [waited EXCEPT ![c][reply.uri] = NoEntity]
  <2>1. reply \in Reply /\ outbox' \in [Client -> Seq(Reply)]
    BY <1>2, HeadTailProperties DEF ReceiveReply, TypeOK, ClientTypeOK
  <2>2. reply.uri \in Uri /\ reply.result \in Result /\ e \in Entity \cup {NoEntity}
    <3> HIDE DEF reply
    <3>1. reply.uri \in Uri /\ reply.result \in Result
      BY <2>1 DEF Reply
    <3>2. waited[c] \in [Uri -> Entity \cup {NoEntity}]
      BY DEF TypeOK, ClientTypeOK
    <3>3. QED
      BY <3>1, <3>2
  <2>3. forgotten \in [Client -> [Uri -> Entity \cup {NoEntity}]]
    BY <2>2 DEF TypeOK, ClientTypeOK
  <2> HIDE DEF forgotten
  <2>4. /\ WorkerTypeOK' /\ SocketTypeOK' /\ PerformerTypeOK'
        /\ unscheduled' \subseteq Entity /\ parentPipe' \in {"empty", "exit"}
    BY <1>2 DEF ReceiveReply, TypeOK, WorkerTypeOK, SocketTypeOK, PerformerTypeOK, ClientTypeOK,
       workerVars, socketVars, performerVars, Active
  <2>5. CASE e # NoEntity
    <3>1. e \in Entity /\ e \notin Scheduling(c)
      BY <1>2, <2>2, <2>5 DEF ReceiveReply, Waiting
    <3>2. PICK result \in PostAction(reply) :
            \/ /\ result = "error"
               /\ remaining[e] # <<>>
               /\ ClientSends(c, Acknowledge(reply, result) \o Requests(e))
               /\ remaining' = [remaining EXCEPT ![e] = Tail(@)]
               /\ waited' = [forgotten EXCEPT ![c][Head(remaining[e])] = e]
               /\ UNCHANGED outcome
            \/ /\ result = "ok" \/ remaining[e] = <<>>
               /\ ClientSends(c, Acknowledge(reply, result))
               /\ outcome' = [outcome EXCEPT ![e] = result]
               /\ waited' = forgotten
               /\ UNCHANGED remaining
      BY <1>2, <2>5 DEF ReceiveReply, forgotten
    <3>3. result \in Result
      BY <2>2 DEF PostAction
    <3>4. Acknowledge(reply, result) \in Seq(ClientMessage)
      BY <2>1, <3>3, AcknowledgeType
    <3>5. UNCHANGED pc /\ UNCHANGED unscheduled
      BY <1>2, <2>5 DEF ReceiveReply
    <3>6. CASE /\ result = "error"
               /\ remaining[e] # <<>>
               /\ ClientSends(c, Acknowledge(reply, result) \o Requests(e))
               /\ remaining' = [remaining EXCEPT ![e] = Tail(@)]
               /\ waited' = [forgotten EXCEPT ![c][Head(remaining[e])] = e]
               /\ UNCHANGED outcome
      <4>1. /\ Head(remaining[e]) \in Uri /\ Tail(remaining[e]) \in Seq(Uri)
            /\ Requests(e) \in Seq(ClientMessage)
        BY <3>1, <3>6, RequestsType
      <4>2. Acknowledge(reply, result) \o Requests(e) \in Seq(ClientMessage)
        BY <3>4, <4>1, ConcatProperties
      <4>3. /\ inbox' \in [Client -> Seq(ClientMessage)]
            /\ parent' \in {"alive", "destroying", "dying", "dead"}
        BY <3>6, <4>2, ClientSendsType
      <4>4. remaining' \in [Entity -> Seq(Uri)]
        BY <3>6, <4>1 DEF TypeOK, ClientTypeOK
      <4>5. waited' \in [Client -> [Uri -> Entity \cup {NoEntity}]]
        BY <2>3, <3>1, <3>6, <4>1
      <4>6. ClientTypeOK'
        BY <2>1, <2>4, <3>5, <3>6, <4>3, <4>4, <4>5 DEF TypeOK, ClientTypeOK
      <4>7. UnscheduledInv'
        <5> HIDE DEF reply
        <5>1. e \notin unscheduled
          BY <2>2 DEF UnscheduledInv
        <5>2. \A d \in Client, u \in Uri : forgotten[d][u] \notin unscheduled
          BY <2>2, ConstantsAssumption
          DEF UnscheduledInv, TypeOK, ClientTypeOK, forgotten, ConstantsAssumption
        <5>3. \A d \in Client, u \in Uri : waited'[d][u] \notin unscheduled
          BY <2>3, <3>6, <4>1, <5>1, <5>2
        <5>4. \A f \in unscheduled : remaining'[f] # <<>>
          BY <3>6, <5>1 DEF UnscheduledInv, TypeOK, ClientTypeOK
        <5>5. QED
          BY <3>5, <5>3, <5>4 DEF UnscheduledInv
      <4>8. QED
        BY <2>4, <4>6, <4>7 DEF TypeOK
    <3>7. CASE /\ result = "ok" \/ remaining[e] = <<>>
               /\ ClientSends(c, Acknowledge(reply, result))
               /\ outcome' = [outcome EXCEPT ![e] = result]
               /\ waited' = forgotten
               /\ UNCHANGED remaining
      <4>1. /\ inbox' \in [Client -> Seq(ClientMessage)]
            /\ parent' \in {"alive", "destroying", "dying", "dead"}
        BY <3>4, <3>7, ClientSendsType
      <4>2. ClientTypeOK'
        BY <2>1, <2>3, <2>4, <3>3, <3>5, <3>7, <4>1 DEF TypeOK, ClientTypeOK
      <4>3. UnscheduledInv'
        BY <2>2, <3>5, <3>7, ConstantsAssumption
        DEF UnscheduledInv, TypeOK, ClientTypeOK, forgotten, ConstantsAssumption
      <4>4. QED
        BY <2>4, <4>2, <4>3 DEF TypeOK
    <3>8. QED
      BY <3>2, <3>6, <3>7
  <2>6. CASE e = NoEntity
    BY <1>2, <2>1, <2>4, <2>6 DEF ReceiveReply, TypeOK, ClientTypeOK, UnscheduledInv
  <2>7. QED
    BY <2>5, <2>6
<1>3. CASE ReceiveEof(c)
  BY <1>3 DEF ReceiveEof, UnscheduledInv, TypeOK, WorkerTypeOK, SocketTypeOK, PerformerTypeOK, ClientTypeOK, workerVars,
     socketVars, performerVars, parentVars, callVars, Active
<1>4. CASE Return(c)
  BY <1>4 DEF Return, UnscheduledInv, TypeOK, WorkerTypeOK, SocketTypeOK, PerformerTypeOK, ClientTypeOK, workerVars,
     socketVars, performerVars, parentVars, callVars, Active
<1>5. QED
  BY <1>1, <1>2, <1>3, <1>4 DEF ClientStep

LEMMA PerformerSendsType ==
  ASSUME TypeOK, NEW u \in Uri, NEW message \in PerformerMessage,
         NEW next \in ProcessLife, PerformerSends(u, message, next)
  PROVE  /\ pipe' \in [Uri -> Seq(PerformerMessage)]
         /\ process' \in [Uri -> ProcessLife]
<1>1. Append(pipe[u], message) \in Seq(PerformerMessage)
  BY AppendProperties DEF TypeOK, PerformerTypeOK
<1>2. QED
  BY <1>1 DEF PerformerSends, TypeOK, PerformerTypeOK, ProcessLife

LEMMA PerformerStepType ==
  ASSUME TypeInv, NEW u \in Uri, PerformerStep(u)
  PROVE  TypeInv'
<1>1. UNCHANGED <<workerVars, clientVars>>
  BY DEF PerformerStep, ReportWrongSize, FinishPerform, PerformerExit, PerformerCrash
<1>2. WorkerTypeOK' /\ SocketTypeOK' /\ ClientTypeOK' /\ UnscheduledInv'
  BY <1>1 DEF TypeInv, TypeOK, WorkerTypeOK, SocketTypeOK, ClientTypeOK, UnscheduledInv, Active,
     workerVars, socketVars, clientVars, parentVars, callVars
<1>3. PerformerTypeOK'
  <2>1. CASE ReportWrongSize(u)
    <3>1. "wrong size" \in PerformerMessage /\ "sized" \in ProcessLife
      BY DEF PerformerMessage, ProcessLife
    <3>2. QED
      BY <2>1, <3>1, PerformerSendsType DEF ReportWrongSize, TypeInv, TypeOK, PerformerTypeOK
  <2>2. ASSUME NEW result \in Result, FinishPerform(u, result)
        PROVE  PerformerTypeOK'
    <3>1. result \in PerformerMessage /\ "finishing" \in ProcessLife
      BY DEF PerformerMessage, ProcessLife
    <3>2. placed' \subseteq Entity
      BY <2>2 DEF FinishPerform, TypeInv, TypeOK, PerformerTypeOK, WorkerTypeOK,
         ActiveDownloadInfo
    <3>3. QED
      BY <2>2, <3>1, <3>2, PerformerSendsType DEF FinishPerform, TypeInv, PerformerTypeOK
  <2>3. CASE PerformerExit(u) \/ PerformerCrash(u)
    BY <2>3 DEF PerformerExit, PerformerCrash, TypeInv, TypeOK, PerformerTypeOK, ProcessLife
  <2>4. QED
    BY <2>1, <2>2, <2>3 DEF PerformerStep
<1>4. QED
  BY <1>2, <1>3 DEF TypeInv, TypeOK

\* The steps of the parent process and the start of a call.
LEMMA ParentStepType ==
  ASSUME TypeInv, Destroy \/ ParentDies \/ ParentEnds \/ \E c \in Client : Connect(c)
  PROVE  TypeInv'
<1>1. CASE Destroy \/ ParentDies \/ ParentEnds
  <2>1. UNCHANGED <<workerVars, performerVars, pipe, unscheduled, remaining, waited,
                    outcome, inbox, outbox>>
    BY <1>1 DEF Destroy, ParentDies, ParentEnds, ClientDies, ParentPipeCloses, callVars
  <2>2. WorkerTypeOK' /\ SocketTypeOK' /\ PerformerTypeOK' /\ UnscheduledInv'
    BY <2>1 DEF TypeInv, TypeOK, WorkerTypeOK, SocketTypeOK, PerformerTypeOK, UnscheduledInv, Active,
       workerVars, socketVars, performerVars
  <2>3. /\ parent' \in {"alive", "destroying", "dying", "dead"}
        /\ parentPipe' \in {"empty", "exit"}
        /\ pc' \in [Client -> {"idle", "working", "returned", "internal error", "dead"}]
    BY <1>1 DEF Destroy, ParentDies, ParentEnds, ClientDies, ParentPipeCloses, callVars,
       parentVars, TypeInv, TypeOK, ClientTypeOK
  <2>4. QED
    BY <2>1, <2>2, <2>3 DEF TypeInv, TypeOK, ClientTypeOK
<1>2. CASE \E c \in Client : Connect(c)
  <2>1. PICK c \in Client : Connect(c)
    BY <1>2
  <2>2. backlog' \in Seq(Client)
    BY <2>1, AppendProperties DEF Connect, TypeInv, TypeOK, SocketTypeOK
  <2>3. QED
    BY <2>1, <2>2 DEF Connect, TypeInv, TypeOK, WorkerTypeOK, SocketTypeOK, PerformerTypeOK, ClientTypeOK,
       UnscheduledInv, Active, performerVars, parentVars
<1>3. QED
  BY <1>1, <1>2

LEMMA AbortType ==
  ASSUME TypeOK, NEW how \in WorkerLife, Abort(how)
  PROVE  worker' \in WorkerLife /\ process' \in [Uri -> ProcessLife] /\ placed' \subseteq Entity
BY DEF Abort, Sigterm, TypeOK, PerformerTypeOK, ProcessLife

LEMMA DiesSendingType ==
  ASSUME TypeOK, NEW sockets, DiesSending(sockets)
  PROVE  worker' \in WorkerLife /\ process' \in [Uri -> ProcessLife] /\ placed' \subseteq Entity
<1>1. \/ worker' = "broken pipe" /\ UNCHANGED performerVars
      \/ Abort("bad socket")
  BY DEF DiesSending
<1>2. QED
  BY <1>1, AbortType DEF WorkerLife, performerVars, TypeOK, PerformerTypeOK

\* The two kinds of internal message that handlers push.
LEMMA InternalMessages ==
  /\ PopDownload \in InternalMessage
  /\ \A r \in Request : Proceed(r) \in InternalMessage
  /\ \A u \in Uri, result \in Result :
        [command |-> "done", uri |-> u, result |-> result] \in InternalMessage
BY DEF PopDownload, Proceed, InternalMessage

HandlerTypeOK ==
  /\ WorkerTypeOK
  /\ process \in [Uri -> ProcessLife]
  /\ placed \subseteq Entity
  /\ outbox \in [Client -> Seq(Reply)]

\* The worker does not touch the variables of the calls.
LEMMA WorkerKeepsCalls ==
  ASSUME TypeInv, HandlerTypeOK', SocketTypeOK',
         pipe' \in [Uri -> Seq(PerformerMessage)],
         inbox' \in [Client -> Seq(ClientMessage)],
         UNCHANGED <<parentVars, callVars>>
  PROVE  TypeInv'
BY DEF TypeInv, TypeOK, HandlerTypeOK, WorkerTypeOK, PerformerTypeOK, ClientTypeOK,
   UnscheduledInv, parentVars, callVars

LEMMA AddActiveType ==
  ASSUME TypeOK, NEW r \in Request, AddActive(r)
  PROVE  Active' \subseteq Uri /\ activeDownloads' \in [Active' -> ActiveDownloadInfo]
<1>1. r.uri \in Uri /\ Info(r) \in ActiveDownloadInfo
  BY DEF Request, Info, ActiveDownloadInfo
<1>2. QED
  BY <1>1 DEF AddActive, TypeOK, WorkerTypeOK, Active

LEMMA ProceedDownloadType ==
  ASSUME TypeOK, NEW r \in Request, NEW rest \in Seq(InternalMessage),
         ProceedDownload(r, rest)
  PROVE  HandlerTypeOK' /\ pipe' \in [Uri -> Seq(PerformerMessage)]
<1> USE DEF HandlerTypeOK, performerVars
<1>1. r.uri \in Uri /\ r.targetPath \in Entity /\ r.waiterSocket \in Client
  BY DEF Request
<1>2. PassOn(rest) \in Seq(InternalMessage) /\ Append(onHold, r) \in Seq(Request)
  BY InternalMessages, AppendProperties DEF PassOn, TypeOK, WorkerTypeOK
<1>3. CASE IsDone(r.uri)
  <2> DEFINE reply == [uri |-> r.uri, result |-> done[r.uri], isDuplicatedDownload |-> TRUE]
  <2>1. reply \in Reply /\ <<r.waiterSocket>> \in Seq(Client)
    BY <1>1, <1>3 DEF IsDone, Reply, TypeOK, WorkerTypeOK
  <2>2. outbox' \in [Client -> Seq(Reply)]
    BY <1>3, <2>1, SendToAllType DEF ProceedDownload, Startable
  <2>3. worker' \in WorkerLife /\ process' \in [Uri -> ProcessLife] /\ placed' \subseteq Entity
    BY <1>3, DiesSendingType DEF ProceedDownload, Startable, TypeOK, WorkerTypeOK, PerformerTypeOK
  <2>4. QED
    BY <1>2, <1>3, <2>2, <2>3
    DEF ProceedDownload, Startable, TypeOK, WorkerTypeOK, PerformerTypeOK, Active
<1>4. CASE ~IsDone(r.uri) /\ r.uri \in Active
  <2>1. Append(activeDownloads[r.uri].secondaryWaiterSockets, r.waiterSocket) \in Seq(Client)
    BY <1>1, <1>4, AppendProperties DEF TypeOK, WorkerTypeOK, ActiveDownloadInfo
  <2>2. activeDownloads' \in [Active -> ActiveDownloadInfo]
    <3> DEFINE waiters == Append(activeDownloads[r.uri].secondaryWaiterSockets, r.waiterSocket)
    <3>1. activeDownloads' = [activeDownloads EXCEPT ![r.uri].secondaryWaiterSockets = waiters]
      BY <1>4 DEF ProceedDownload, Startable
    <3>2. activeDownloads \in [Active -> ActiveDownloadInfo] /\ waiters \in Seq(Client)
      BY <2>1 DEF TypeOK, WorkerTypeOK
    <3> HIDE DEF waiters
    <3>3. [activeDownloads[r.uri] EXCEPT !.secondaryWaiterSockets = waiters] \in ActiveDownloadInfo
      BY <1>4, <3>2 DEF ActiveDownloadInfo
    <3> QED
      BY <3>1, <3>2, <3>3
  <2>3. QED
    BY <1>2, <1>4, <2>2
    DEF ProceedDownload, Startable, TypeOK, WorkerTypeOK, PerformerTypeOK, ClientTypeOK, Active
<1>5. CASE ~IsDone(r.uri) /\ r.uri \notin Active /\ ~HasFreeSlot
  BY <1>2, <1>5
  DEF ProceedDownload, Startable, TypeOK, WorkerTypeOK, PerformerTypeOK, ClientTypeOK, Active
<1>6. CASE Startable(r)
  <2>1. StartNewDownload(r)
    BY <1>6 DEF ProceedDownload, Startable
  <2>3. Active' \subseteq Uri /\ activeDownloads' \in [Active' -> ActiveDownloadInfo]
    BY <2>1, AddActiveType DEF StartNewDownload
  <2>4. /\ worker' \in WorkerLife /\ process' \in [Uri -> ProcessLife]
        /\ placed' \subseteq Entity /\ pipe' \in [Uri -> Seq(PerformerMessage)]
    <3>1. "started" \in ProcessLife /\ <<>> \in Seq(PerformerMessage)
      BY DEF ProcessLife
    <3>2. QED
      BY <1>1, <2>1, <3>1 DEF StartNewDownload, TypeOK, WorkerTypeOK, PerformerTypeOK
  <2>5. QED
    BY <1>6, <2>3, <2>4 DEF ProceedDownload, Startable, TypeOK, WorkerTypeOK, ClientTypeOK
<1>7. QED
  BY <1>3, <1>4, <1>5, <1>6 DEF Startable

LEMMA PopOnHoldType ==
  ASSUME TypeOK, NEW rest \in Seq(InternalMessage), PopOnHold(rest)
  PROVE  HandlerTypeOK'
<1>1. onHold' \in Seq(Request) /\ workerQueue' \in Seq(InternalMessage)
  <2>1. CASE onHold = <<>>
    BY <2>1 DEF PopOnHold, TypeOK, WorkerTypeOK
  <2>2. CASE onHold # <<>>
    <3>1. Head(onHold) \in Request /\ Tail(onHold) \in Seq(Request)
      BY <2>2, HeadTailProperties DEF TypeOK, WorkerTypeOK
    <3>2. Append(rest, Proceed(Head(onHold))) \in Seq(InternalMessage)
      BY <3>1, InternalMessages, AppendProperties
    <3>3. QED
      BY <2>2, <3>1, <3>2 DEF PopOnHold
  <2>3. QED
    BY <2>1, <2>2
<1>2. QED
  BY <1>1 DEF PopOnHold, HandlerTypeOK, TypeOK, WorkerTypeOK, PerformerTypeOK, ClientTypeOK,
     performerVars, Active

LEMMA ProcessPreliminaryResultType ==
  ASSUME TypeOK, NEW u \in Uri, NEW result \in Result, NEW rest \in Seq(InternalMessage),
         ProcessPreliminaryResult(u, result, rest)
  PROVE  HandlerTypeOK'
<1> USE DEF HandlerTypeOK, performerVars
<1>1. CASE u \in Active
  <2> DEFINE waiter == <<activeDownloads[u].waiterSocket>>
             reply == [uri |-> u, result |-> result, isDuplicatedDownload |-> FALSE]
  <2>1. waiter \in Seq(Client) /\ reply \in Reply
    BY <1>1 DEF TypeOK, WorkerTypeOK, ActiveDownloadInfo, Reply
  <2>2. outbox' \in [Client -> Seq(Reply)]
    BY <1>1, <2>1, SendToAllType DEF ProcessPreliminaryResult
  <2>3. /\ worker' \in WorkerLife /\ process' \in [Uri -> ProcessLife]
        /\ placed' \subseteq Entity /\ reaping' \in Uri \cup {NoUri}
    BY <1>1, DiesSendingType
    DEF ProcessPreliminaryResult, TypeOK, WorkerTypeOK, PerformerTypeOK
  <2>4. QED
    BY <2>2, <2>3 DEF ProcessPreliminaryResult, TypeOK, WorkerTypeOK, Active
<1>2. CASE u \notin Active
  <2>1. worker' \in WorkerLife /\ process' \in [Uri -> ProcessLife] /\ placed' \subseteq Entity
    BY <1>2, AbortType DEF ProcessPreliminaryResult, WorkerLife
  <2>2. QED
    BY <1>2, <2>1 DEF ProcessPreliminaryResult, TypeOK, WorkerTypeOK, ClientTypeOK, Active
<1>3. QED
  BY <1>1, <1>2

LEMMA ProcessFinalResultType ==
  ASSUME TypeOK, NEW u \in Uri, NEW result \in Result, ProcessFinalResult(u, result)
  PROVE  HandlerTypeOK'
<1> USE DEF HandlerTypeOK, performerVars
<1>1. done' \in [Uri -> Result \cup {NoResult}]
  BY DEF ProcessFinalResult, TypeOK, WorkerTypeOK
<1>2. CASE u \in Active
  <2> DEFINE reply == [uri |-> u, result |-> result, isDuplicatedDownload |-> TRUE]
  <2>1. PendingWaiters(u) \in Seq(Client) /\ reply \in Reply
    BY <1>2 DEF TypeOK, WorkerTypeOK, ActiveDownloadInfo, Reply, PendingWaiters
  <2>2. outbox' \in [Client -> Seq(Reply)]
    BY <1>2, <2>1, SendToAllType DEF ProcessFinalResult
  <2>3. worker' \in WorkerLife /\ process' \in [Uri -> ProcessLife] /\ placed' \subseteq Entity
    BY <1>2, DiesSendingType DEF ProcessFinalResult, TypeOK, WorkerTypeOK, PerformerTypeOK
  <2>4. Active' \subseteq Uri /\ activeDownloads' \in [Active' -> ActiveDownloadInfo]
    BY <1>2 DEF ProcessFinalResult, TypeOK, WorkerTypeOK, Active
  <2>5. workerQueue' \in Seq(InternalMessage)
    <3>1. Append(workerQueue, PopDownload) \in Seq(InternalMessage)
      BY InternalMessages, AppendProperties DEF TypeOK, WorkerTypeOK
    <3>2. workerQueue' \in {workerQueue, Append(workerQueue, PopDownload)}
      BY <1>2 DEF ProcessFinalResult, ScheduleNext
    <3>3. QED
      BY <3>1, <3>2 DEF TypeOK, WorkerTypeOK
  <2>6. QED
    BY <1>1, <2>2, <2>3, <2>4, <2>5 DEF ProcessFinalResult, TypeOK, WorkerTypeOK
<1>3. CASE u \notin Active
  <2>1. worker' \in WorkerLife /\ process' \in [Uri -> ProcessLife] /\ placed' \subseteq Entity
    BY <1>3, AbortType DEF ProcessFinalResult, WorkerLife
  <2>2. QED
    BY <1>1, <1>3, <2>1 DEF ProcessFinalResult, TypeOK, WorkerTypeOK, ClientTypeOK, Active
<1>4. QED
  BY <1>2, <1>3

LEMMA ProcessProgressMessageType ==
  ASSUME TypeOK, NEW u \in Uri, ProcessProgressMessage(u)
  PROVE  HandlerTypeOK'
<1>1. workerQueue' \in Seq(InternalMessage)
  <2> DEFINE failed == [command |-> "done", uri |-> u, result |-> "error"]
  <2>1. failed \in InternalMessage
    BY DEF InternalMessage, Result
  <2>2. Append(workerQueue, failed) \in Seq(InternalMessage)
    <3> HIDE DEF failed
    <3>1. QED
      BY <2>1, AppendProperties DEF TypeOK, WorkerTypeOK
  <2>3. workerQueue' \in {workerQueue, Append(workerQueue, failed)}
    BY DEF ProcessProgressMessage
  <2>4. QED
    BY <2>2, <2>3 DEF TypeOK, WorkerTypeOK
<1>2. process' \in [Uri -> ProcessLife] /\ placed' \subseteq Entity
  BY DEF ProcessProgressMessage, Sigterm, performerVars, TypeOK, PerformerTypeOK, ProcessLife
<1>3. QED
  BY <1>1, <1>2 DEF ProcessProgressMessage, HandlerTypeOK, TypeOK, WorkerTypeOK, ClientTypeOK,
     clientVars, Active

LEMMA HandleInternalType ==
  ASSUME TypeInv, HandleInternal
  PROVE  TypeInv'
<1> DEFINE m == Head(workerQueue)
           rest == Tail(workerQueue)
<1>1. m \in InternalMessage /\ rest \in Seq(InternalMessage)
  BY HeadTailProperties DEF HandleInternal, TypeInv, TypeOK, WorkerTypeOK
<1>2. TypeOK /\ UNCHANGED <<parentVars, callVars, inbox>>
  BY DEF TypeInv, HandleInternal
<1>3. /\ HandlerTypeOK'
      /\ pipe' \in [Uri -> Seq(PerformerMessage)]
      /\ UNCHANGED socketVars
  <2>1. CASE m.command = "proceed-download" /\ ProceedDownload(m.request, rest)
    <3>1. m.request \in Request
      <4> HIDE DEF m
      <4>1. QED
        BY <1>1, <2>1 DEF InternalMessage
    <3>2. UNCHANGED socketVars
      BY <2>1 DEF ProceedDownload, Startable
    <3>3. QED
      BY <1>1, <1>2, <2>1, <3>1, <3>2, ProceedDownloadType
  <2>2. CASE m.command = "pop-download" /\ PopOnHold(rest)
    <3>1. UNCHANGED <<socketVars, pipe>>
      BY <2>2 DEF PopOnHold
    <3>2. QED
      BY <1>1, <1>2, <2>2, <3>1, PopOnHoldType DEF TypeOK, PerformerTypeOK
  <2>3. CASE /\ m.command = "done"
             /\ ProcessPreliminaryResult(m.uri, m.result, rest)
             /\ UNCHANGED pipe
    <3>1. m.uri \in Uri /\ m.result \in Result
      <4> HIDE DEF m
      <4>1. QED
        BY <1>1, <2>3 DEF InternalMessage
    <3>2. UNCHANGED <<socketVars, pipe>>
      BY <2>3 DEF ProcessPreliminaryResult
    <3>3. QED
      BY <1>1, <1>2, <2>3, <3>1, <3>2, ProcessPreliminaryResultType DEF TypeOK, PerformerTypeOK
  <2>4. QED
    BY <2>1, <2>2, <2>3 DEF HandleInternal
<1>4. SocketTypeOK' /\ inbox' \in [Client -> Seq(ClientMessage)]
  BY <1>2, <1>3 DEF TypeOK, SocketTypeOK, ClientTypeOK, socketVars
<1>5. QED
  BY <1>2, <1>3, <1>4, WorkerKeepsCalls

LEMMA ForkFailsType ==
  ASSUME TypeInv, ForkFails
  PROVE  TypeInv'
<1> DEFINE m == Head(workerQueue)
<1>1. TypeOK /\ m \in InternalMessage /\ workerQueue' \in Seq(InternalMessage)
  BY HeadTailProperties DEF ForkFails, TypeInv, TypeOK, WorkerTypeOK
<1>2. m.request \in Request
  <2>1. m.command = "proceed-download"
    BY DEF ForkFails
  <2> HIDE DEF m
  <2>2. QED
    BY <1>1, <2>1 DEF InternalMessage
<1>3. /\ Active' \subseteq Uri /\ activeDownloads' \in [Active' -> ActiveDownloadInfo]
      /\ worker' \in WorkerLife /\ process' \in [Uri -> ProcessLife] /\ placed' \subseteq Entity
  BY <1>1, <1>2, AddActiveType, AbortType DEF ForkFails, WorkerLife
<1>4. WorkerTypeOK' /\ SocketTypeOK' /\ PerformerTypeOK'
  BY <1>1, <1>3 DEF ForkFails, TypeOK, WorkerTypeOK, SocketTypeOK, PerformerTypeOK, socketVars
<1>5. ClientTypeOK' /\ UnscheduledInv'
  BY DEF ForkFails, TypeInv, TypeOK, ClientTypeOK, UnscheduledInv, callVars
<1>6. QED
  BY <1>4, <1>5 DEF TypeInv, TypeOK

LEMMA AcceptFailsType ==
  ASSUME TypeInv, AcceptFails
  PROVE  TypeInv'
<1>1. TypeOK /\ "accept failed" \in WorkerLife
  BY DEF TypeInv, WorkerLife
<1>2. worker' \in WorkerLife /\ process' \in [Uri -> ProcessLife] /\ placed' \subseteq Entity
  BY <1>1, AbortType DEF AcceptFails
<1>3. QED
  BY <1>2 DEF AcceptFails, TypeInv, TypeOK, WorkerTypeOK, SocketTypeOK, PerformerTypeOK,
     ClientTypeOK, UnscheduledInv, Active, socketVars, clientVars, parentVars, callVars

LEMMA ReapType ==
  ASSUME TypeInv, Reap
  PROVE  TypeInv'
<1>1. reaping \in Uri
  BY DEF Reap, TypeInv, TypeOK, WorkerTypeOK
<1>2. process' \in [Uri -> ProcessLife] /\ pipe' \in [Uri -> Seq(PerformerMessage)]
  BY <1>1 DEF Reap, TypeInv, TypeOK, PerformerTypeOK, ProcessLife
<1>3. activeDownloads' \in [Active' -> ActiveDownloadInfo] /\ Active' = Active
  BY <1>1 DEF Reap, TypeInv, TypeOK, WorkerTypeOK, ActiveDownloadInfo, Active
<1>4. WorkerTypeOK' /\ SocketTypeOK' /\ PerformerTypeOK'
  BY <1>2, <1>3
  DEF Reap, TypeInv, TypeOK, WorkerTypeOK, SocketTypeOK, PerformerTypeOK, socketVars
<1>5. ClientTypeOK' /\ UnscheduledInv'
  BY DEF Reap, TypeInv, TypeOK, ClientTypeOK, UnscheduledInv, clientVars, parentVars, callVars
<1>6. QED
  BY <1>4, <1>5 DEF TypeInv, TypeOK

LEMMA HandleParentType ==
  ASSUME TypeInv, HandleParent
  PROVE  TypeInv'
<1>1. TypeOK
  BY DEF TypeInv
<1>2. worker' \in WorkerLife /\ process' \in [Uri -> ProcessLife] /\ placed' \subseteq Entity
  <2>1. CASE UNCHANGED <<worker, performerVars>>
    BY <1>1, <2>1 DEF performerVars, TypeOK, WorkerTypeOK, PerformerTypeOK
  <2>2. CASE Abort("parent gone")
    BY <1>1, <2>2, AbortType DEF WorkerLife
  <2>3. QED
    BY <2>1, <2>2 DEF HandleParent
<1>3. exitFlag' \in BOOLEAN /\ parentPipe' \in {"empty", "exit"}
  BY <1>1 DEF HandleParent, TypeOK, WorkerTypeOK, ClientTypeOK
<1>4. WorkerTypeOK' /\ SocketTypeOK' /\ PerformerTypeOK'
  BY <1>1, <1>2, <1>3 DEF HandleParent, TypeOK, WorkerTypeOK, SocketTypeOK, PerformerTypeOK,
     socketVars, Active
<1>5. ClientTypeOK' /\ UnscheduledInv'
  BY <1>3 DEF HandleParent, TypeInv, TypeOK, ClientTypeOK, UnscheduledInv, callVars
<1>6. QED
  BY <1>4, <1>5 DEF TypeInv, TypeOK

\* A message or an "eof" comes from a connection which exists.
LEMMA SourceType ==
  ASSUME TypeOK, NEW c \in Client, NEW sockets, Source(c, sockets)
  PROVE  backlog' \in Seq(Client) /\ sockets \subseteq Client
BY HeadTailProperties DEF Source, TypeOK, SocketTypeOK

LEMMA DispatchClientMessageType ==
  ASSUME TypeOK, NEW c \in Client, NEW m \in ClientMessage, DispatchClientMessage(c, m)
  PROVE  HandlerTypeOK'
<1> USE DEF HandlerTypeOK, performerVars
<1>1. CASE m.command = "set-download-size" /\ sizes' = sizes \cup {m.uri}
           /\ UNCHANGED <<worker, exitFlag, reaping, workerQueue, done, activeDownloads,
                          onHold, performerVars, outbox>>
  <2>1. m.uri \in Uri
    BY <1>1 DEF ClientMessage
  <2>2. QED
    BY <1>1, <2>1 DEF TypeOK, WorkerTypeOK, PerformerTypeOK, ClientTypeOK, Active
<1>2. CASE m.command = "download"
  <2> DEFINE r == [uri |-> m.uri, targetPath |-> m.targetPath, waiterSocket |-> c]
  <2>1. r \in Request
    BY <1>2 DEF ClientMessage, Request
  <2>2. Append(workerQueue, Proceed(r)) \in Seq(InternalMessage)
    BY <2>1, InternalMessages, AppendProperties DEF TypeOK, WorkerTypeOK
  <2>3. QED
    BY <1>2, <2>2
    DEF DispatchClientMessage, TypeOK, WorkerTypeOK, PerformerTypeOK, ClientTypeOK, Active
<1>3. CASE m.command = "done-ack" /\ ProcessFinalResult(m.uri, m.result)
  <2>1. m.uri \in Uri /\ m.result \in Result
    BY <1>3 DEF ClientMessage
  <2>2. QED
    BY <1>3, <2>1, ProcessFinalResultType
<1>4. QED
  BY <1>1, <1>2, <1>3 DEF DispatchClientMessage

LEMMA HandleClientType ==
  ASSUME TypeInv, NEW c \in Client, HandleClientMessage(c) \/ HandleClientEof(c)
  PROVE  TypeInv'
<1>1. TypeOK
  BY DEF TypeInv
<1>2. CASE HandleClientMessage(c)
  <2>1. Head(inbox[c]) \in ClientMessage /\ inbox' \in [Client -> Seq(ClientMessage)]
    BY <1>1, <1>2, HeadTailProperties DEF HandleClientMessage, TypeOK, ClientTypeOK
  <2>2. HandlerTypeOK'
    BY <1>1, <1>2, <2>1, DispatchClientMessageType DEF HandleClientMessage
  <2>3. SocketTypeOK'
    BY <1>1, <1>2, SourceType DEF HandleClientMessage, SocketTypeOK
  <2>4. pipe' \in [Uri -> Seq(PerformerMessage)] /\ UNCHANGED <<parentVars, callVars>>
    BY <1>1, <1>2 DEF HandleClientMessage, TypeOK, PerformerTypeOK
  <2>5. QED
    BY <2>1, <2>2, <2>3, <2>4, WorkerKeepsCalls
<1>3. CASE HandleClientEof(c)
  <2>1. SocketTypeOK'
    BY <1>1, <1>3, SourceType DEF HandleClientEof, SocketTypeOK, Erased
  <2>2. WorkerTypeOK' /\ PerformerTypeOK' /\ ClientTypeOK' /\ UnscheduledInv'
    BY <1>3 DEF HandleClientEof, TypeInv, TypeOK, WorkerTypeOK, PerformerTypeOK, ClientTypeOK,
       UnscheduledInv, performerVars, clientVars, parentVars, callVars, Active
  <2>3. QED
    BY <2>1, <2>2 DEF TypeInv, TypeOK
<1>4. QED
  BY <1>2, <1>3

LEMMA HandlePerformerType ==
  ASSUME TypeInv, NEW u \in Uri, HandlePerformerMessage(u) \/ HandlePerformerEof(u)
  PROVE  TypeInv'
<1>1. TypeOK
  BY DEF TypeInv
<1>2. /\ pipe' \in [Uri -> Seq(PerformerMessage)]
      /\ HandlePerformerMessage(u) => Head(pipe[u]) \in PerformerMessage
  <2>1. pipe \in [Uri -> Seq(PerformerMessage)] /\ pipe[u] \in Seq(PerformerMessage)
    BY <1>1 DEF TypeOK, PerformerTypeOK
  <2>2. CASE HandlePerformerMessage(u)
    <3>1. pipe[u] # <<>> /\ pipe' = [pipe EXCEPT ![u] = Tail(@)]
      BY <2>2 DEF HandlePerformerMessage
    <3>2. Head(pipe[u]) \in PerformerMessage /\ Tail(pipe[u]) \in Seq(PerformerMessage)
      BY <2>1, <3>1, HeadTailProperties
    <3>3. QED
      BY <2>1, <3>1, <3>2
  <2>3. CASE ~HandlePerformerMessage(u)
    BY <2>1, <2>3 DEF HandlePerformerEof
  <2>4. QED
    BY <2>2, <2>3
<1>3. workerQueue \in Seq(InternalMessage) /\ "error" \in Result
  BY <1>1 DEF TypeOK, WorkerTypeOK, Result
<1>4. CASE HandlePerformerMessage(u) /\ Head(pipe[u]) = "wrong size"
  <2>1. ProcessProgressMessage(u)
    BY <1>4 DEF HandlePerformerMessage
  <2>2. HandlerTypeOK'
    BY <1>1, <2>1, ProcessProgressMessageType
  <2>3. UNCHANGED <<parentVars, callVars, inbox, socketVars>>
    BY <2>1 DEF ProcessProgressMessage, clientVars
  <2>4. SocketTypeOK' /\ inbox' \in [Client -> Seq(ClientMessage)]
    BY <1>1, <2>3 DEF TypeOK, SocketTypeOK, ClientTypeOK, socketVars
  <2>5. QED
    BY <1>2, <2>2, <2>3, <2>4, WorkerKeepsCalls
<1>5. ASSUME NEW result \in Result, ProcessPreliminaryResult(u, result, workerQueue),
             UNCHANGED <<parentVars, callVars, inbox>>
      PROVE  TypeInv'
  <2>1. HandlerTypeOK'
    BY <1>1, <1>3, <1>5, ProcessPreliminaryResultType
  <2>2. UNCHANGED socketVars
    BY <1>5 DEF ProcessPreliminaryResult
  <2>3. SocketTypeOK' /\ inbox' \in [Client -> Seq(ClientMessage)]
    BY <1>1, <1>5, <2>2 DEF TypeOK, SocketTypeOK, ClientTypeOK, socketVars
  <2>4. QED
    BY <1>2, <1>5, <2>1, <2>3, WorkerKeepsCalls
<1>6. CASE HandlePerformerMessage(u) /\ Head(pipe[u]) # "wrong size"
  <2>1. Head(pipe[u]) \in Result
    BY <1>2, <1>6 DEF PerformerMessage
  <2>2. QED
    BY <1>5, <1>6, <2>1 DEF HandlePerformerMessage
<1>7. CASE HandlePerformerEof(u)
  BY <1>3, <1>5, <1>7 DEF HandlePerformerEof, UnexpectedExit
<1>8. QED
  BY <1>4, <1>6, <1>7

LEMMA WorkerStepType ==
  ASSUME TypeInv, WorkerStep
  PROVE  TypeInv'
<1>1. CASE Exit
  BY <1>1 DEF Exit, TypeInv, TypeOK, WorkerTypeOK, SocketTypeOK, PerformerTypeOK, ClientTypeOK,
     UnscheduledInv, WorkerLife, socketVars, performerVars, clientVars, parentVars, callVars,
     Active
<1>2. QED
  BY <1>1, HandleInternalType, ForkFailsType, ReapType, HandleParentType, AcceptFailsType,
     HandleClientType, HandlePerformerType DEF WorkerStep

LEMMA TypeInvStep == TypeInv /\ [Next]_vars => TypeInv'
<1> SUFFICES ASSUME TypeInv, [Next]_vars
             PROVE  TypeInv'
  OBVIOUS
<1>1. CASE UNCHANGED vars
  BY <1>1 DEF vars, TypeInv, TypeOK, WorkerTypeOK, SocketTypeOK, PerformerTypeOK,
     ClientTypeOK, UnscheduledInv, workerVars, socketVars, performerVars, clientVars,
     parentVars, callVars, Active
<1>2. CASE Next
  BY <1>2, WorkerStepType, PerformerStepType, ClientStepType, ParentStepType DEF Next
<1>3. QED
  BY <1>1, <1>2

\* Every variable keeps its type, whatever the requests, the limit, the order of
\* messages and the faults.
THEOREM TypeCorrect == Safety => []TypeOK
<1>1. TypeInv => TypeOK
  BY DEF TypeInv
<1>2. QED
  BY TypeInit, TypeInvStep, <1>1, PTL DEF Safety

-----------------------------------------------------------------------------
(* Slots: the limit on parallel downloads holds, and no free slot goes     *)
(* unnoticed while downloads are on hold.  The second needs a count of the *)
(* messages in the internal queue which make the worker look at the hold   *)
(* list.                                                                   *)

WakeUpCommand == {"pop-download", "proceed-download"}

IsWakeUp(m) == m.command \in WakeUpCommand

WakeUps(queue) == {i \in DOMAIN queue : IsWakeUp(queue[i])}

\* Slots in use and wake-ups under way.
UsedSlots == Cardinality(Active)

WakeUpCount == Cardinality(WakeUps(workerQueue))

-----------------------------------------------------------------------------
(* Counting *)

LEMMA WakeUpsFinite ==
  ASSUME NEW queue \in Seq(InternalMessage)
  PROVE  IsFiniteSet(WakeUps(queue)) /\ Cardinality(WakeUps(queue)) \in Nat
<1>1. IsFiniteSet(1 .. Len(queue))
  BY FS_Interval, LenProperties
<1>2. WakeUps(queue) \subseteq 1 .. Len(queue)
  BY LenProperties DEF WakeUps
<1>3. QED
  BY <1>1, <1>2, FS_Subset, FS_CardinalityType

LEMMA WakeUpsAppend ==
  ASSUME NEW queue \in Seq(InternalMessage), NEW m \in InternalMessage
  PROVE  Cardinality(WakeUps(Append(queue, m))) =
           Cardinality(WakeUps(queue)) + (IF IsWakeUp(m) THEN 1 ELSE 0)
<1> DEFINE longer == Append(queue, m)
           last == Len(queue) + 1
<1>1. /\ Len(queue) \in Nat
      /\ DOMAIN queue = 1 .. Len(queue)
      /\ DOMAIN longer = 1 .. last
      /\ \A i \in 1 .. Len(queue) : longer[i] = queue[i]
      /\ longer[last] = m
  BY AppendProperties, LenProperties
<1> HIDE DEF longer
<1>2. last \notin WakeUps(queue)
  BY <1>1 DEF WakeUps
<1>3. CASE IsWakeUp(m)
  <2>1. WakeUps(longer) = WakeUps(queue) \cup {last}
    BY <1>1, <1>3 DEF WakeUps
  <2>2. QED
    BY <1>2, <1>3, <2>1, WakeUpsFinite, FS_AddElement DEF longer
<1>4. CASE ~IsWakeUp(m)
  <2>1. WakeUps(longer) = WakeUps(queue)
    BY <1>1, <1>4 DEF WakeUps
  <2>2. QED
    BY <1>4, <2>1, WakeUpsFinite DEF longer
<1>5. QED
  BY <1>3, <1>4

LEMMA WakeUpsTail ==
  ASSUME NEW queue \in Seq(InternalMessage), queue # <<>>
  PROVE  Cardinality(WakeUps(Tail(queue))) =
           Cardinality(WakeUps(queue)) - (IF IsWakeUp(Head(queue)) THEN 1 ELSE 0)
<1> DEFINE shorter == Tail(queue)
           others == WakeUps(queue) \ {1}
           shift == [i \in WakeUps(shorter) |-> i + 1]
<1>1. /\ Len(queue) \in Nat
      /\ Len(queue) >= 1
      /\ DOMAIN queue = 1 .. Len(queue)
      /\ DOMAIN shorter = 1 .. Len(queue) - 1
      /\ \A i \in 1 .. Len(queue) - 1 : shorter[i] = queue[i + 1]
      /\ shorter \in Seq(InternalMessage)
      /\ Head(queue) = queue[1]
  BY HeadTailProperties, LenProperties
<1> HIDE DEF shorter
<1>2. shift \in Bijection(WakeUps(shorter), others)
  <2>1. shift \in [WakeUps(shorter) -> others]
    BY <1>1 DEF WakeUps
  <2>2. \A i, j \in WakeUps(shorter) : shift[i] = shift[j] => i = j
    BY <1>1 DEF WakeUps
  <2>3. ASSUME NEW j \in others
        PROVE  \E i \in WakeUps(shorter) : shift[i] = j
    <3>1. j - 1 \in WakeUps(shorter)
      BY <1>1 DEF WakeUps
    <3>2. shift[j - 1] = j
      BY <1>1, <3>1 DEF WakeUps
    <3>3. QED
      BY <3>1, <3>2
  <2>4. QED
    BY <2>1, <2>2, <2>3 DEF Bijection, Injection, Surjection, IsInjective
<1>3. Cardinality(others) = Cardinality(WakeUps(shorter))
  BY <1>1, <1>2, WakeUpsFinite, FS_Bijection DEF ExistsBijection
<1>4. Cardinality(others) =
        Cardinality(WakeUps(queue)) - (IF 1 \in WakeUps(queue) THEN 1 ELSE 0)
  <2>1. IsFiniteSet(WakeUps(queue)) /\ Cardinality(WakeUps(queue)) \in Nat
    BY WakeUpsFinite
  <2>2. Cardinality(others) =
          IF 1 \in WakeUps(queue) THEN Cardinality(WakeUps(queue)) - 1
                                  ELSE Cardinality(WakeUps(queue))
    BY <2>1, FS_RemoveElement
  <2> HIDE DEF others
  <2>3. QED
    BY <2>1, <2>2
<1>5. 1 \in WakeUps(queue) <=> IsWakeUp(Head(queue))
  BY <1>1 DEF WakeUps
<1>6. QED
  BY <1>3, <1>4, <1>5 DEF shorter

LEMMA ActiveFinite ==
  TypeOK => IsFiniteSet(Active) /\ UsedSlots \in Nat
BY ConstantsAssumption, FS_Subset, FS_CardinalityType
DEF TypeOK, WorkerTypeOK, ConstantsAssumption, UsedSlots

\* The invariant in terms of the counts.
Noticed == worker = "running" /\ onHold # <<>> => Limit - UsedSlots <= WakeUpCount

LEMMA WakeUpInvariant == (NoLostWakeup <=> Noticed) /\ (NoLostWakeup' <=> Noticed')
BY DEF Noticed, NoLostWakeup, Positions, UsedSlots, WakeUpCount, WakeUps, IsWakeUp, WakeUpCommand
-----------------------------------------------------------------------------
(* The steps of the worker which change the counts.  `rest` is the         *)
(* internal queue without the message being handled.                       *)

SlotInv == TypeInv /\ SlotLimit /\ NoLostWakeup

\* A step which leaves slots, queue and hold list alone.
LEMMA SlotsUntouched ==
  ASSUME SlotInv, worker' = "running" => worker = "running",
         Active' = Active, UNCHANGED <<workerQueue, onHold>>
  PROVE  SlotLimit' /\ NoLostWakeup'
BY WakeUpInvariant DEF SlotInv, SlotLimit, Noticed, UsedSlots, WakeUpCount

\* A new download takes a slot which was free.
LEMMA AddActiveSlots ==
  ASSUME TypeOK, NEW r, Startable(r), AddActive(r)
  PROVE  UsedSlots' = UsedSlots + 1 /\ UsedSlots < Limit
<1>1. Active' = Active \cup {r.uri} /\ r.uri \notin Active
  BY DEF AddActive, Startable, Active
<1>2. QED
  BY <1>1, ActiveFinite, FS_AddElement DEF Startable, HasFreeSlot, UsedSlots

LEMMA ProceedDownloadSlots ==
  ASSUME SlotInv, worker = "running", workerQueue # <<>>,
         NEW r \in Request, Head(workerQueue) = Proceed(r),
         ProceedDownload(r, Tail(workerQueue))
  PROVE  SlotLimit' /\ NoLostWakeup'
<1> DEFINE rest == Tail(workerQueue)
<1>1. TypeOK /\ rest \in Seq(InternalMessage) /\ workerQueue \in Seq(InternalMessage)
  BY HeadTailProperties DEF SlotInv, TypeInv, TypeOK, WorkerTypeOK
<1>2. IsWakeUp(Head(workerQueue)) /\ IsWakeUp(PopDownload) /\ PopDownload \in InternalMessage
  BY InternalMessages DEF IsWakeUp, WakeUpCommand, Proceed, PopDownload
<1>3. /\ Cardinality(WakeUps(rest)) = WakeUpCount - 1
      /\ Cardinality(WakeUps(PassOn(rest))) = WakeUpCount
      /\ WakeUpCount \in Nat
  <2>1. WakeUpCount \in Nat /\ Cardinality(WakeUps(rest)) = WakeUpCount - 1
    BY <1>1, <1>2, WakeUpsTail, WakeUpsFinite DEF WakeUpCount
  <2> HIDE DEF rest
  <2>2. Cardinality(WakeUps(Append(rest, PopDownload))) = Cardinality(WakeUps(rest)) + 1
    BY <1>1, <1>2, WakeUpsAppend
  <2>3. QED
    BY <2>1, <2>2 DEF PassOn
<1>4. /\ Limit \in Nat /\ UsedSlots \in Nat
      /\ UsedSlots <= Limit
      /\ onHold # <<>> => Limit - UsedSlots <= WakeUpCount
  BY <1>1, ActiveFinite, WakeUpInvariant, ConstantsAssumption
  DEF SlotInv, SlotLimit, Noticed, UsedSlots, ConstantsAssumption
<1> HIDE DEF rest
<1>5. CASE IsDone(r.uri) \/ r.uri \in Active
  <2>1. workerQueue' = PassOn(rest) /\ onHold' = onHold /\ Active' = Active
    BY <1>1, <1>5 DEF ProceedDownload, Startable, TypeOK, WorkerTypeOK, Active, rest
  <2>2. WakeUpCount' = WakeUpCount /\ UsedSlots' = UsedSlots
    BY <1>3, <2>1 DEF WakeUpCount, UsedSlots
  <2>3. QED
    BY <1>4, <2>1, <2>2, WakeUpInvariant DEF SlotLimit, Noticed, UsedSlots
<1>6. CASE ~IsDone(r.uri) /\ r.uri \notin Active /\ ~HasFreeSlot
  <2>1. workerQueue' = rest /\ Active' = Active
    BY <1>6 DEF ProceedDownload, Startable, Active, rest
  <2>2. WakeUpCount' = WakeUpCount - 1 /\ UsedSlots' = UsedSlots /\ UsedSlots >= Limit
    BY <1>3, <1>4, <1>6, <2>1 DEF WakeUpCount, UsedSlots, HasFreeSlot
  <2>3. WakeUpCount' \in Nat
    BY <1>1, <2>1, WakeUpsFinite DEF WakeUpCount
  <2>4. QED
    BY <1>3, <1>4, <2>2, <2>3, WakeUpInvariant DEF SlotLimit, Noticed, UsedSlots
<1>7. CASE Startable(r)
  <2>1. workerQueue' = rest /\ onHold' = onHold /\ StartNewDownload(r)
    BY <1>7 DEF ProceedDownload, Startable, rest
  <2>2. WakeUpCount' = WakeUpCount - 1
    BY <1>3, <2>1 DEF WakeUpCount
  <2>3. UsedSlots' = UsedSlots + 1 /\ UsedSlots < Limit
    BY <1>1, <1>7, <2>1, AddActiveSlots DEF StartNewDownload
  <2>4. QED
    BY <1>3, <1>4, <2>1, <2>2, <2>3, WakeUpInvariant DEF SlotLimit, Noticed, UsedSlots
<1>8. QED
  BY <1>5, <1>6, <1>7 DEF Startable

LEMMA ForkFailsSlots ==
  ASSUME SlotInv, ForkFails
  PROVE  SlotLimit' /\ NoLostWakeup'
<1>1. TypeOK /\ worker' # "running" /\ Limit \in Nat
  BY ConstantsAssumption DEF SlotInv, TypeInv, ForkFails, Abort, ConstantsAssumption
<1>2. UsedSlots \in Nat /\ UsedSlots' = UsedSlots + 1 /\ UsedSlots < Limit
  BY <1>1, AddActiveSlots, ActiveFinite DEF ForkFails
<1>3. QED
  BY <1>1, <1>2, WakeUpInvariant DEF SlotLimit, Noticed, UsedSlots

LEMMA PopOnHoldSlots ==
  ASSUME SlotInv, worker = "running", workerQueue # <<>>,
         Head(workerQueue).command = "pop-download", PopOnHold(Tail(workerQueue))
  PROVE  SlotLimit' /\ NoLostWakeup'
<1> DEFINE rest == Tail(workerQueue)
<1>1. /\ TypeOK /\ rest \in Seq(InternalMessage) /\ workerQueue \in Seq(InternalMessage)
      /\ onHold \in Seq(Request)
  BY HeadTailProperties DEF SlotInv, TypeInv, TypeOK, WorkerTypeOK
<1>2. Active' = Active /\ SlotLimit'
  BY DEF PopOnHold, Active, SlotInv, SlotLimit
<1>3. CASE onHold = <<>>
  BY <1>2, <1>3, WakeUpInvariant DEF PopOnHold, Noticed
<1>4. CASE onHold # <<>>
  <2> DEFINE m == Proceed(Head(onHold))
  <2>1. m \in InternalMessage /\ IsWakeUp(m)
    <3>1. Head(onHold) \in Request
      BY <1>1, <1>4, HeadTailProperties
    <3>2. QED
      BY <3>1, InternalMessages DEF Proceed, IsWakeUp, WakeUpCommand
  <2> HIDE DEF m
  <2>2. IsWakeUp(Head(workerQueue))
    BY DEF IsWakeUp, WakeUpCommand
  <2>3. workerQueue' = Append(rest, m)
    BY <1>4 DEF PopOnHold, m
  <2>4. WakeUpCount \in Nat /\ Cardinality(WakeUps(rest)) = WakeUpCount - 1
    BY <1>1, <2>2, WakeUpsTail, WakeUpsFinite DEF WakeUpCount
  <2> HIDE DEF rest
  <2>5. WakeUpCount' = WakeUpCount
    BY <1>1, <2>1, <2>3, <2>4, WakeUpsAppend DEF WakeUpCount
  <2>6. UsedSlots' = UsedSlots
    BY <1>2 DEF UsedSlots
  <2>7. QED
    BY <1>2, <1>4, <2>5, <2>6, WakeUpInvariant DEF SlotInv, Noticed
<1>5. QED
  BY <1>3, <1>4
LEMMA ProcessPreliminaryResultSlots ==
  ASSUME SlotInv, worker = "running", NEW u, NEW result, NEW rest \in Seq(InternalMessage),
         ProcessPreliminaryResult(u, result, rest),
         Cardinality(WakeUps(rest)) = WakeUpCount
  PROVE  SlotLimit' /\ NoLostWakeup'
<1>1. workerQueue' = rest /\ onHold' = onHold /\ Active' = Active
  BY DEF ProcessPreliminaryResult, Active
<1>2. WakeUpCount' = WakeUpCount /\ UsedSlots' = UsedSlots
  BY <1>1 DEF WakeUpCount, UsedSlots
<1>3. QED
  BY <1>1, <1>2, WakeUpInvariant DEF SlotInv, SlotLimit, Noticed, UsedSlots

LEMMA HandleInternalSlots ==
  ASSUME SlotInv, HandleInternal
  PROVE  SlotLimit' /\ NoLostWakeup'
<1> DEFINE m == Head(workerQueue)
           rest == Tail(workerQueue)
<1>1. /\ worker = "running" /\ workerQueue # <<>>
      /\ workerQueue \in Seq(InternalMessage)
      /\ m \in InternalMessage /\ rest \in Seq(InternalMessage)
  BY HeadTailProperties DEF HandleInternal, SlotInv, TypeInv, TypeOK, WorkerTypeOK
<1>2. CASE m.command = "proceed-download" /\ ProceedDownload(m.request, rest)
  <2>1. m.request \in Request /\ m = Proceed(m.request)
    <3> HIDE DEF m
    <3>1. m \in [command : {"proceed-download"}, request : Request]
      BY <1>1, <1>2 DEF InternalMessage
    <3>2. QED
      BY <3>1 DEF Proceed
  <2>2. QED
    BY <1>1, <1>2, <2>1, ProceedDownloadSlots
<1>3. CASE m.command = "pop-download" /\ PopOnHold(rest)
  BY <1>1, <1>3, PopOnHoldSlots
<1>4. CASE m.command = "done" /\ ProcessPreliminaryResult(m.uri, m.result, rest)
  <2>1. ~IsWakeUp(Head(workerQueue))
    BY <1>4 DEF IsWakeUp, WakeUpCommand
  <2>2. WakeUpCount \in Nat
    BY <1>1, WakeUpsFinite DEF WakeUpCount
  <2>3. Cardinality(WakeUps(rest)) = WakeUpCount
    BY <1>1, <2>1, <2>2, WakeUpsTail DEF WakeUpCount
  <2>4. QED
    BY <1>1, <1>4, <2>3, ProcessPreliminaryResultSlots
<1>5. QED
  BY <1>2, <1>3, <1>4 DEF HandleInternal

\* "done-ack" frees a slot and schedules the next download.
LEMMA ProcessFinalResultSlots ==
  ASSUME SlotInv, worker = "running", NEW u, NEW result, ProcessFinalResult(u, result)
  PROVE  SlotLimit' /\ NoLostWakeup'
<1>1. TypeOK /\ workerQueue \in Seq(InternalMessage) /\ UNCHANGED onHold
  BY DEF SlotInv, TypeInv, TypeOK, WorkerTypeOK, ProcessFinalResult
<1>2. CASE worker' # "running" /\ UNCHANGED <<workerQueue, activeDownloads>>
  BY <1>1, <1>2, SlotsUntouched DEF Active
<1>3. CASE /\ u \in Active
           /\ activeDownloads' = [v \in Active \ {u} |-> activeDownloads[v]]
           /\ workerQueue' = ScheduleNext(workerQueue)
  <2>1. Active' = Active \ {u}
    BY <1>3 DEF Active
  <2>2. UsedSlots \in Nat /\ UsedSlots' = UsedSlots - 1
    BY <1>1, <1>3, <2>1, ActiveFinite, FS_RemoveElement DEF UsedSlots
  <2>3. PopDownload \in InternalMessage /\ IsWakeUp(PopDownload)
    BY InternalMessages DEF IsWakeUp, WakeUpCommand, PopDownload
  <2>4. WakeUpCount \in Nat /\ WakeUpCount' = WakeUpCount + 1
    BY <1>1, <1>3, <2>3, WakeUpsAppend, WakeUpsFinite DEF WakeUpCount, ScheduleNext
  <2>5. Limit \in Nat
    BY ConstantsAssumption DEF ConstantsAssumption
  <2>6. Noticed' /\ SlotLimit'
    BY <1>1, <2>2, <2>4, <2>5, WakeUpInvariant DEF SlotInv, SlotLimit, Noticed, UsedSlots
  <2>7. QED
    BY <2>6, WakeUpInvariant
<1>4. \/ worker' # "running" /\ UNCHANGED <<workerQueue, activeDownloads>>
      \/ /\ u \in Active
         /\ activeDownloads' = [v \in Active \ {u} |-> activeDownloads[v]]
         /\ workerQueue' = ScheduleNext(workerQueue)
  BY DEF ProcessFinalResult, DiesSending, Abort
<1>5. QED
  BY <1>2, <1>3, <1>4

LEMMA HandleClientSlots ==
  ASSUME SlotInv, NEW c \in Client, HandleClientMessage(c) \/ HandleClientEof(c)
  PROVE  SlotLimit' /\ NoLostWakeup'
<1>1. worker = "running"
  BY DEF HandleClientMessage, HandleClientEof, Polling
<1>2. CASE HandleClientEof(c)
  BY <1>1, <1>2, SlotsUntouched DEF HandleClientEof, Active
<1>3. CASE HandleClientMessage(c)
  <2> DEFINE m == Head(inbox[c])
  <2>1. m \in ClientMessage
    BY <1>3, HeadTailProperties DEF HandleClientMessage, SlotInv, TypeInv, TypeOK, ClientTypeOK
  <2>2. DispatchClientMessage(c, m)
    BY <1>3 DEF HandleClientMessage
  <2> HIDE DEF m
  <2>3. CASE m.command = "set-download-size" /\ UNCHANGED <<workerQueue, activeDownloads, onHold>>
    BY <1>1, <2>3, SlotsUntouched DEF Active
  <2>4. CASE /\ m.command = "download"
             /\ workerQueue' = Append(workerQueue, Proceed([uri |-> m.uri,
                                 targetPath |-> m.targetPath, waiterSocket |-> c]))
             /\ UNCHANGED <<activeDownloads, onHold, worker>>
    <3> DEFINE r == [uri |-> m.uri, targetPath |-> m.targetPath, waiterSocket |-> c]
    <3>1. r \in Request
      BY <2>1, <2>4 DEF ClientMessage, Request
    <3>2. Proceed(r) \in InternalMessage /\ IsWakeUp(Proceed(r))
      BY <3>1, InternalMessages DEF IsWakeUp, WakeUpCommand, Proceed
    <3>3. TypeOK /\ workerQueue \in Seq(InternalMessage) /\ Limit \in Nat
      BY ConstantsAssumption
      DEF SlotInv, TypeInv, TypeOK, WorkerTypeOK, ConstantsAssumption
    <3>4. WakeUpCount \in Nat /\ UsedSlots \in Nat
      BY <3>3, WakeUpsFinite, ActiveFinite DEF WakeUpCount
    <3>5. WakeUpCount' = WakeUpCount + 1 /\ UsedSlots' = UsedSlots
      BY <2>4, <3>2, <3>3, <3>4, WakeUpsAppend DEF WakeUpCount, UsedSlots, Active
    <3>6. Noticed' /\ SlotLimit'
      BY <2>4, <3>3, <3>4, <3>5, WakeUpInvariant DEF SlotInv, SlotLimit, Noticed, UsedSlots
    <3>7. QED
      BY <3>6, WakeUpInvariant
  <2>5. CASE m.command = "done-ack" /\ ProcessFinalResult(m.uri, m.result)
    BY <1>1, <2>5, ProcessFinalResultSlots
  <2>6. QED
    BY <2>2, <2>3, <2>4, <2>5 DEF DispatchClientMessage
<1>4. QED
  BY <1>2, <1>3

LEMMA HandlePerformerSlots ==
  ASSUME SlotInv, NEW u \in Uri, HandlePerformerMessage(u) \/ HandlePerformerEof(u)
  PROVE  SlotLimit' /\ NoLostWakeup'
<1>1. worker = "running" /\ workerQueue \in Seq(InternalMessage)
  BY DEF HandlePerformerMessage, HandlePerformerEof, PollingPerformers, Polling, SlotInv,
     TypeInv, TypeOK, WorkerTypeOK
<1>2. CASE ProcessProgressMessage(u)
  <2> DEFINE failed == [command |-> "done", uri |-> u, result |-> "error"]
  <2>1. failed \in InternalMessage /\ ~IsWakeUp(failed)
    BY DEF InternalMessage, Result, IsWakeUp, WakeUpCommand
  <2> HIDE DEF failed
  <2>2. workerQueue' \in {workerQueue, Append(workerQueue, failed)}
        /\ UNCHANGED <<onHold, activeDownloads>>
    BY <1>2 DEF ProcessProgressMessage, failed
  <2>3. WakeUpCount \in Nat
    BY <1>1, WakeUpsFinite DEF WakeUpCount
  <2>4. WakeUpCount' = WakeUpCount /\ UsedSlots' = UsedSlots
    <3>1. Cardinality(WakeUps(Append(workerQueue, failed))) = WakeUpCount
      BY <1>1, <2>1, <2>3, WakeUpsAppend DEF WakeUpCount
    <3>2. QED
      BY <2>2, <3>1 DEF WakeUpCount, UsedSlots, Active
  <2>5. QED
    BY <1>1, <2>2, <2>4, WakeUpInvariant DEF SlotInv, SlotLimit, Noticed, UsedSlots
<1>3. ASSUME NEW result, ProcessPreliminaryResult(u, result, workerQueue)
      PROVE  SlotLimit' /\ NoLostWakeup'
  BY <1>1, <1>3, ProcessPreliminaryResultSlots DEF WakeUpCount
<1>4. QED
  BY <1>2, <1>3 DEF HandlePerformerMessage, HandlePerformerEof

LEMMA SlotStep ==
  ASSUME SlotInv, Next
  PROVE  SlotLimit' /\ NoLostWakeup'
<1>1. CASE Reap \/ HandleParent \/ AcceptFails \/ Exit
  <2>1. Active' = Active /\ UNCHANGED <<workerQueue, onHold>>
    BY <1>1 DEF Reap, HandleParent, AcceptFails, Exit, Active, SlotInv, TypeInv, TypeOK,
       WorkerTypeOK
  <2>2. worker = "running"
    BY <1>1 DEF Reap, HandleParent, AcceptFails, Exit, NoMoreInput, PollingPerformers, Polling
  <2>3. QED
    BY <2>1, <2>2, SlotsUntouched
<1>2. CASE WorkerStep
  BY <1>1, <1>2, HandleInternalSlots, ForkFailsSlots, HandleClientSlots,
     HandlePerformerSlots DEF WorkerStep
<1>3. CASE UNCHANGED <<worker, workerQueue, onHold, activeDownloads>>
  BY <1>3, SlotsUntouched DEF Active
<1>4. (\E u \in Uri : PerformerStep(u)) => UNCHANGED workerVars
  BY DEF PerformerStep, ReportWrongSize, FinishPerform, PerformerExit, PerformerCrash
<1>5. (\E c \in Client : ClientStep(c)) => UNCHANGED workerVars
  BY DEF ClientStep, ScheduleDownload, ReceiveReply, ReceiveEof, Return
<1>6. Destroy \/ ParentDies \/ ParentEnds => UNCHANGED workerVars
  BY DEF Destroy, ParentDies, ParentEnds, ParentPipeCloses, ClientDies
<1>7. (\E c \in Client : Connect(c)) =>
        UNCHANGED <<worker, workerQueue, onHold, activeDownloads>>
  BY DEF Connect
<1>8. QED
  BY <1>2, <1>3, <1>4, <1>5, <1>6, <1>7 DEF Next, workerVars

LEMMA SlotInvInit == Init => SlotInv
<1> SUFFICES ASSUME Init PROVE SlotInv
  OBVIOUS
<1>1. Active = {} /\ Limit \in Nat
  BY ConstantsAssumption DEF Init, Active, ConstantsAssumption
<1>2. SlotLimit
  BY <1>1, FS_EmptySet DEF SlotLimit
<1>3. NoLostWakeup
  BY DEF Init, NoLostWakeup
<1>4. QED
  BY <1>2, <1>3, TypeInit DEF SlotInv

LEMMA SlotInvStep == SlotInv /\ [Next]_vars => SlotInv'
<1> SUFFICES ASSUME SlotInv, [Next]_vars
             PROVE  SlotInv'
  OBVIOUS
<1>1. TypeInv'
  BY TypeInvStep DEF SlotInv
<1>2. CASE Next
  BY <1>1, <1>2, SlotStep DEF SlotInv
<1>3. CASE UNCHANGED vars
  BY <1>1, <1>3, SlotsUntouched DEF vars, workerVars, SlotInv, Active
<1>4. QED
  BY <1>2, <1>3

\* The number of downloads in progress never exceeds
\* cupt::downloader::max-simultaneous-downloads, for every limit.
THEOREM SlotLimitHolds == Safety => []SlotLimit
<1>1. SlotInv => SlotLimit
  BY DEF SlotInv
<1>2. QED
  BY <1>1, SlotInvInit, SlotInvStep, PTL DEF Safety

\* Whenever downloads are on hold, the internal queue holds a wake-up for every
\* free slot, for every limit and every order of requests and results.
THEOREM NoWakeupIsLost == Safety => []NoLostWakeup
<1>1. SlotInv => NoLostWakeup
  BY DEF SlotInv
<1>2. QED
  BY <1>1, SlotInvInit, SlotInvStep, PTL DEF Safety

-----------------------------------------------------------------------------
(***************************************************************************)
(* The requests: each one which a client waits for is in exactly one       *)
(* place, and no two performers write to one target path.                  *)
(*                                                                         *)
(* The first needs a count of every kind of message; the second follows a  *)
(* target path from the request to the performer, which is possible only   *)
(* because no request gets lost or doubled on the way.                     *)
(***************************************************************************)
\* The entities of one call have different URIs.  convertEntitiesToDownloads
\* refuses equal target paths, and the callers of Manager::download make the
\* target path of an entity out of what distinguishes its URIs.
DistinctUris ==
  \A e, f \in Entity :
    Owner[e] = Owner[f] /\ Range(Uris[e]) \cap Range(Uris[f]) # {} => e = f

-----------------------------------------------------------------------------
(* The places of a request *)

\* How many members of T the sequence holds.
Hits(seq, T) == {i \in DOMAIN seq : seq[i] \in T}

Number(seq, T) == Cardinality(Hits(seq, T))

Downloads(u) == {m \in ClientMessage : m.command = "download" /\ m.uri = u}

Acknowledgements(u) == {m \in ClientMessage : m.command = "done-ack" /\ m.uri = u}

Proceeds(c, u) == {m \in InternalMessage :
  m.command = "proceed-download" /\ m.request.uri = u /\ m.request.waiterSocket = c}

Held(c, u) == {r \in Request : r.uri = u /\ r.waiterSocket = c}

Replies(u) == {r \in Reply : r.uri = u}

FreshReplies(u) == {r \in Reply : r.uri = u /\ ~r.isDuplicatedDownload}

Primary(c, u) ==
  IF u \in Active /\ activeDownloads[u].waiterSocket = c /\ ~Replied(u) THEN 1 ELSE 0

Secondary(c, u) ==
  IF u \in Active THEN Number(activeDownloads[u].secondaryWaiterSockets, {c}) ELSE 0

Count(c, u) ==
    Number(inbox[c], Downloads(u)) + Number(workerQueue, Proceeds(c, u))
  + Number(onHold, Held(c, u)) + Primary(c, u) + Secondary(c, u)
  + Number(outbox[c], Replies(u))

-----------------------------------------------------------------------------
(* The inductive invariant *)

\* What a client remembers: an entity is waited for under one of its URIs at a
\* time, and by the call it was passed to.
UrisOfEntities ==
  /\ \A e \in Entity : Range(remaining[e]) \subseteq Range(Uris[e])
  /\ \A c \in Client, u \in Uri : waited[c][u] # NoEntity =>
       Owner[waited[c][u]] = c /\ u \in Range(Uris[waited[c][u]])

OneUriAtATime ==
  \A c \in Client, u, v \in Uri :
    waited[c][u] # NoEntity /\ waited[c][u] = waited[c][v] => u = v

\* The worker handles one internal message at a time; a "done" of its own is for
\* a performer whose pipe is open and which nobody waits for.
QueueIsShort ==
  \A i \in DOMAIN workerQueue :
    /\ i = 1
    /\ reaping = NoUri
    /\ workerQueue[i].command = "done" => Piped(workerQueue[i].uri)

\* A performer lives, and is waited for, only while its pipe is open.
PerformersArePiped ==
  /\ reaping # NoUri => Piped(reaping)
  /\ \A u \in Uri : process[u] # "none" => Piped(u)

RequestsCounted ==
  \A c \in Client, u \in Uri : Count(c, u) = IF waited[c][u] = NoEntity THEN 0 ELSE 1

\* A fresh reply and its acknowledgement belong to a download which is active,
\* has got its result and was requested by that client.
Acknowledged(c, u) ==
  IF u \in Active /\ activeDownloads[u].waiterSocket = c /\ Replied(u) THEN 1 ELSE 0

AcknowledgedOnce ==
  \A c \in Client, u \in Uri :
    Number(inbox[c], Acknowledgements(u)) + Number(outbox[c], FreshReplies(u))
      <= Acknowledged(c, u)

\* The target path of a request is the one its client waits for.
IsWaited(r) == waited[r.waiterSocket][r.uri] = r.targetPath

TargetsAreWaited ==
  /\ \A c \in Client : \A i \in DOMAIN inbox[c] :
       inbox[c][i].command = "download" => waited[c][inbox[c][i].uri] = inbox[c][i].targetPath
  /\ \A i \in DOMAIN workerQueue :
       workerQueue[i].command = "proceed-download" => IsWaited(workerQueue[i].request)
  /\ \A i \in DOMAIN onHold : IsWaited(onHold[i])
  /\ \A u \in Active : ~Replied(u) =>
       waited[activeDownloads[u].waiterSocket][u] = activeDownloads[u].targetPath

OnePipePerTarget ==
  \A u, v \in Active :
    Piped(u) /\ Piped(v) /\ activeDownloads[u].targetPath = activeDownloads[v].targetPath
      => u = v

CallInv == TypeInv /\ UrisOfEntities /\ OneUriAtATime

WorkerInv ==
  /\ QueueIsShort
  /\ PerformersArePiped
  /\ RequestsCounted
  /\ AcknowledgedOnce
  /\ TargetsAreWaited
  /\ OnePipePerTarget

RequestInv == CallInv /\ (worker = "running" => WorkerInv)

-----------------------------------------------------------------------------
(* Counting *)

LEMMA NumberType ==
  ASSUME NEW S, NEW seq \in Seq(S), NEW T
  PROVE  IsFiniteSet(Hits(seq, T)) /\ Number(seq, T) \in Nat
<1>1. IsFiniteSet(1 .. Len(seq))
  BY FS_Interval, LenProperties
<1>2. Hits(seq, T) \subseteq 1 .. Len(seq)
  BY LenProperties DEF Hits
<1>3. QED
  BY <1>1, <1>2, FS_Subset, FS_CardinalityType DEF Number

LEMMA NumberOfNone == \A T : Number(<<>>, T) = 0
<1>1. \A T : Hits(<<>>, T) = {}
  BY DEF Hits
<1>2. QED
  BY <1>1, FS_EmptySet DEF Number

LEMMA NumberOfOne ==
  ASSUME NEW x, NEW T
  PROVE  Number(<<x>>, T) = IF x \in T THEN 1 ELSE 0
<1>1. CASE x \in T
  <2>1. Hits(<<x>>, T) = {1}
    BY <1>1 DEF Hits
  <2>2. QED
    BY <1>1, <2>1, FS_Singleton DEF Number
<1>2. CASE x \notin T
  <2>1. Hits(<<x>>, T) = {}
    BY <1>2 DEF Hits
  <2>2. QED
    BY <1>2, <2>1, FS_EmptySet DEF Number
<1>3. QED
  BY <1>1, <1>2

LEMMA NumberConcat ==
  ASSUME NEW S, NEW s \in Seq(S), NEW t \in Seq(S), NEW T
  PROVE  Number(s \o t, T) = Number(s, T) + Number(t, T)
<1> DEFINE both == s \o t
           moved == {i + Len(s) : i \in Hits(t, T)}
           move == [i \in Hits(t, T) |-> i + Len(s)]
<1>1. /\ Len(s) \in Nat /\ Len(t) \in Nat
      /\ DOMAIN s = 1 .. Len(s) /\ DOMAIN t = 1 .. Len(t)
  BY LenProperties
<1>2. /\ both \in Seq(S) /\ Len(both) = Len(s) + Len(t)
      /\ DOMAIN both = 1 .. Len(s) + Len(t)
      /\ \A i \in 1 .. Len(s) + Len(t) :
            both[i] = IF i <= Len(s) THEN s[i] ELSE t[i - Len(s)]
  BY ConcatProperties, LenProperties
<1> HIDE DEF both
<1>3. Hits(s, T) \subseteq 1 .. Len(s) /\ Hits(t, T) \subseteq 1 .. Len(t)
  BY <1>1 DEF Hits
<1>4. Hits(both, T) = Hits(s, T) \cup moved
  <2>1. ASSUME NEW i \in Hits(both, T)
        PROVE  i \in Hits(s, T) \cup moved
    <3>1. i \in 1 .. Len(s) + Len(t) /\ both[i] \in T
      BY <1>2 DEF Hits
    <3>2. CASE i <= Len(s)
      BY <1>1, <1>2, <3>1, <3>2 DEF Hits
    <3>3. CASE i > Len(s)
      <4>1. i - Len(s) \in 1 .. Len(t) /\ t[i - Len(s)] \in T
        BY <1>1, <1>2, <3>1, <3>3
      <4>2. i - Len(s) \in Hits(t, T) /\ i = (i - Len(s)) + Len(s)
        BY <1>1, <3>1, <4>1 DEF Hits
      <4>3. QED
        BY <4>2
    <3>4. QED
      BY <1>1, <3>1, <3>2, <3>3
  <2>2. ASSUME NEW i \in Hits(s, T)
        PROVE  i \in Hits(both, T)
    BY <1>1, <1>2 DEF Hits
  <2>3. ASSUME NEW i \in Hits(t, T)
        PROVE  i + Len(s) \in Hits(both, T)
    <3>1. i \in 1 .. Len(t) /\ t[i] \in T
      BY <1>1 DEF Hits
    <3>2. i + Len(s) \in 1 .. Len(s) + Len(t) /\ both[i + Len(s)] = t[i]
      <4>1. /\ i + Len(s) \in 1 .. Len(s) + Len(t)
            /\ ~(i + Len(s) <= Len(s))
            /\ (i + Len(s)) - Len(s) = i
        BY <1>1, <3>1
      <4>2. both[i + Len(s)] = t[(i + Len(s)) - Len(s)]
        BY <1>2, <4>1
      <4>3. QED
        BY <4>1, <4>2
    <3>3. QED
      BY <1>2, <3>1, <3>2 DEF Hits
  <2>4. QED
    BY <2>1, <2>2, <2>3
<1>5. Hits(s, T) \cap moved = {}
  BY <1>1, <1>3
<1>6. IsFiniteSet(Hits(s, T)) /\ IsFiniteSet(Hits(t, T))
      /\ Number(s, T) \in Nat /\ Number(t, T) \in Nat
  BY NumberType
<1>7. move \in Bijection(Hits(t, T), moved)
  <2>1. move \in [Hits(t, T) -> moved]
    OBVIOUS
  <2>2. \A i, j \in Hits(t, T) : move[i] = move[j] => i = j
    BY <1>1, <1>3
  <2>3. \A k \in moved : \E i \in Hits(t, T) : move[i] = k
    OBVIOUS
  <2>4. QED
    BY <2>1, <2>2, <2>3 DEF Bijection, Injection, Surjection, IsInjective
<1>8. IsFiniteSet(moved) /\ Cardinality(moved) = Number(t, T)
  BY <1>6, <1>7, FS_Bijection DEF ExistsBijection, Number
<1> HIDE DEF moved
<1>9. Cardinality(Hits(s, T) \cup moved) = Number(s, T) + Number(t, T)
  <2>1. Cardinality(Hits(s, T) \cup moved) =
          Cardinality(Hits(s, T)) + Cardinality(moved) - Cardinality(Hits(s, T) \cap moved)
    BY <1>6, <1>8, FS_Union
  <2>2. Cardinality(Hits(s, T) \cap moved) = 0
    BY <1>5, FS_EmptySet
  <2>3. Cardinality(Hits(s, T)) = Number(s, T)
    BY DEF Number
  <2>4. QED
    BY <1>6, <1>8, <2>1, <2>2, <2>3
<1>10. QED
  BY <1>4, <1>9 DEF Number, both

LEMMA NumberAppend ==
  ASSUME NEW S, NEW s \in Seq(S), NEW x \in S, NEW T
  PROVE  Number(Append(s, x), T) = Number(s, T) + (IF x \in T THEN 1 ELSE 0)
<1>1. Append(s, x) = s \o <<x>> /\ <<x>> \in Seq(S)
  BY AppendIsConcat
<1>2. Number(s \o <<x>>, T) = Number(s, T) + Number(<<x>>, T)
  BY <1>1, NumberConcat
<1>3. QED
  BY <1>1, <1>2, NumberOfOne

LEMMA NumberTail ==
  ASSUME NEW S, NEW s \in Seq(S), s # <<>>, NEW T
  PROVE  Number(Tail(s), T) = Number(s, T) - (IF Head(s) \in T THEN 1 ELSE 0)
<1>1. Head(s) \in S /\ Tail(s) \in Seq(S) /\ <<Head(s)>> \in Seq(S)
  BY HeadTailProperties
<1>2. s = <<Head(s)>> \o Tail(s)
  OBVIOUS
<1>3. Number(s, T) = Number(<<Head(s)>>, T) + Number(Tail(s), T)
  <2> DEFINE first == <<Head(s)>>
             others == Tail(s)
  <2>1. first \in Seq(S) /\ others \in Seq(S) /\ s = first \o others
    BY <1>1, <1>2
  <2> HIDE DEF first, others
  <2>2. Number(first \o others, T) = Number(first, T) + Number(others, T)
    BY <2>1, NumberConcat
  <2>3. QED
    BY <2>1, <2>2 DEF first, others
<1>4. Number(Tail(s), T) \in Nat /\ Number(s, T) \in Nat
  BY <1>1, NumberType
<1>5. QED
  BY <1>3, <1>4, NumberOfOne

LEMMA NumberRepeated ==
  ASSUME NEW n \in Nat, NEW x, NEW T
  PROVE  Number([i \in 1 .. n |-> x], T) = IF x \in T THEN n ELSE 0
<1>1. CASE x \in T
  <2>1. Hits([i \in 1 .. n |-> x], T) = 1 .. n
    BY <1>1 DEF Hits
  <2>2. QED
    BY <1>1, <2>1, FS_Interval DEF Number
<1>2. CASE x \notin T
  <2>1. Hits([i \in 1 .. n |-> x], T) = {}
    BY <1>2 DEF Hits
  <2>2. QED
    BY <1>2, <2>1, FS_EmptySet DEF Number
<1>3. QED
  BY <1>1, <1>2

\* What is not counted is not there.
LEMMA NumberZero ==
  ASSUME NEW S, NEW s \in Seq(S), NEW T
  PROVE  Number(s, T) = 0 <=> \A i \in DOMAIN s : s[i] \notin T
<1>1. IsFiniteSet(Hits(s, T))
  BY NumberType
<1>2. Number(s, T) = 0 <=> Hits(s, T) = {}
  BY <1>1, FS_EmptySet DEF Number
<1>3. QED
  BY <1>2 DEF Hits

\* The count in terms of sets of messages is the one of the property.
LEMMA CountsRequests ==
  ASSUME TypeOK, NEW c \in Client, NEW u \in Uri
  PROVE  RequestCount(c, u) = Count(c, u)
<1>1. /\ inbox[c] \in Seq(ClientMessage) /\ workerQueue \in Seq(InternalMessage)
      /\ onHold \in Seq(Request) /\ outbox[c] \in Seq(Reply)
  BY DEF TypeOK, ClientTypeOK, WorkerTypeOK
<1>2. Positions(inbox[c], LAMBDA m : m.command = "download" /\ m.uri = u)
        = Number(inbox[c], Downloads(u))
  <2>1. \A i \in DOMAIN inbox[c] : inbox[c][i] \in ClientMessage
    BY <1>1, LenProperties
  <2>2. QED
    BY <2>1 DEF Positions, Number, Hits, Downloads
<1>3. Positions(workerQueue, LAMBDA m : /\ m.command = "proceed-download"
                                        /\ m.request.uri = u
                                        /\ m.request.waiterSocket = c)
        = Number(workerQueue, Proceeds(c, u))
  <2>1. \A i \in DOMAIN workerQueue : workerQueue[i] \in InternalMessage
    BY <1>1, LenProperties
  <2>2. QED
    BY <2>1 DEF Positions, Number, Hits, Proceeds
<1>4. Positions(onHold, LAMBDA r : r.uri = u /\ r.waiterSocket = c)
        = Number(onHold, Held(c, u))
  <2>1. \A i \in DOMAIN onHold : onHold[i] \in Request
    BY <1>1, LenProperties
  <2>2. QED
    BY <2>1 DEF Positions, Number, Hits, Held
<1>5. Positions(outbox[c], LAMBDA r : r.uri = u) = Number(outbox[c], Replies(u))
  <2>1. \A i \in DOMAIN outbox[c] : outbox[c][i] \in Reply
    BY <1>1, LenProperties
  <2>2. QED
    BY <2>1 DEF Positions, Number, Hits, Replies
<1>6. Positions(activeDownloads[u].secondaryWaiterSockets, LAMBDA s : s = c)
        = Number(activeDownloads[u].secondaryWaiterSockets, {c})
  BY DEF Positions, Number, Hits
<1>7. QED
  BY <1>2, <1>3, <1>4, <1>5, <1>6 DEF RequestCount, Count, Primary, Secondary

LEMMA CountTypes ==
  ASSUME TypeOK, NEW c \in Client, NEW u \in Uri
  PROVE  /\ Number(inbox[c], Downloads(u)) \in Nat
         /\ Number(inbox[c], Acknowledgements(u)) \in Nat
         /\ Number(workerQueue, Proceeds(c, u)) \in Nat
         /\ Number(onHold, Held(c, u)) \in Nat
         /\ Primary(c, u) \in Nat
         /\ Secondary(c, u) \in Nat
         /\ Number(outbox[c], Replies(u)) \in Nat
         /\ Number(outbox[c], FreshReplies(u)) \in Nat
<1>1. /\ inbox[c] \in Seq(ClientMessage) /\ workerQueue \in Seq(InternalMessage)
      /\ onHold \in Seq(Request) /\ outbox[c] \in Seq(Reply)
  BY DEF TypeOK, ClientTypeOK, WorkerTypeOK
<1>2. u \in Active => activeDownloads[u].secondaryWaiterSockets \in Seq(Client)
  BY DEF TypeOK, WorkerTypeOK, ActiveDownloadInfo
<1>3. Secondary(c, u) \in Nat
  BY <1>2, NumberType DEF Secondary
<1>4. QED
  BY <1>1, <1>3, NumberType DEF Primary

\* The places before and after a step.
LEMMA CountParts ==
  ASSUME TypeOK, NEW c \in Client, NEW u \in Uri
  PROVE  /\ Number(inbox[c], Downloads(u)) \in Nat
         /\ Number(workerQueue, Proceeds(c, u)) \in Nat
         /\ Number(onHold, Held(c, u)) \in Nat
         /\ Primary(c, u) \in Nat
         /\ Secondary(c, u) \in Nat
         /\ Number(outbox[c], Replies(u)) \in Nat
         /\ Count(c, u) = Number(inbox[c], Downloads(u)) + Number(workerQueue, Proceeds(c, u))
                          + Number(onHold, Held(c, u)) + Primary(c, u) + Secondary(c, u)
                          + Number(outbox[c], Replies(u))
BY CountTypes DEF Count

LEMMA NextCount ==
  ASSUME NEW c \in Client, NEW u \in Uri
  PROVE  Count(c, u)' = Number(inbox'[c], Downloads(u)) + Number(workerQueue', Proceeds(c, u))
                        + Number(onHold', Held(c, u)) + Primary(c, u)' + Secondary(c, u)'
                        + Number(outbox'[c], Replies(u))
BY DEF Count

\* No request of c for u is under way to a performer.
Quiet(c, u) ==
  /\ Number(inbox[c], Downloads(u)) = 0
  /\ Number(workerQueue, Proceeds(c, u)) = 0
  /\ Number(onHold, Held(c, u)) = 0
  /\ Primary(c, u) = 0

LEMMA QuietMeans ==
  ASSUME TypeOK, NEW c \in Client, NEW u \in Uri, Quiet(c, u)
  PROVE  /\ \A i \in DOMAIN inbox[c] :
              ~(inbox[c][i].command = "download" /\ inbox[c][i].uri = u)
         /\ \A i \in DOMAIN workerQueue :
              ~(/\ workerQueue[i].command = "proceed-download"
                /\ workerQueue[i].request.uri = u
                /\ workerQueue[i].request.waiterSocket = c)
         /\ \A i \in DOMAIN onHold : ~(onHold[i].uri = u /\ onHold[i].waiterSocket = c)
         /\ u \in Active /\ activeDownloads[u].waiterSocket = c => Replied(u)
<1>1. /\ inbox[c] \in Seq(ClientMessage) /\ workerQueue \in Seq(InternalMessage)
      /\ onHold \in Seq(Request)
  BY DEF TypeOK, ClientTypeOK, WorkerTypeOK
<1>2. /\ \A i \in DOMAIN inbox[c] : inbox[c][i] \in ClientMessage
      /\ \A i \in DOMAIN workerQueue : workerQueue[i] \in InternalMessage
      /\ \A i \in DOMAIN onHold : onHold[i] \in Request
  BY <1>1, LenProperties
<1>3. /\ \A i \in DOMAIN inbox[c] : inbox[c][i] \notin Downloads(u)
      /\ \A i \in DOMAIN workerQueue : workerQueue[i] \notin Proceeds(c, u)
      /\ \A i \in DOMAIN onHold : onHold[i] \notin Held(c, u)
  BY <1>1, NumberZero DEF Quiet
<1>4. QED
  BY <1>2, <1>3 DEF Downloads, Proceeds, Held, Primary, Quiet

\* A client which does not wait for a URI has no request for it anywhere.
LEMMA NotWaited ==
  ASSUME TypeOK, RequestsCounted, NEW c \in Client, NEW u \in Uri, waited[c][u] = NoEntity
  PROVE  Quiet(c, u) /\ Secondary(c, u) = 0 /\ Number(outbox[c], Replies(u)) = 0
<1>1. Count(c, u) = 0
  BY DEF RequestsCounted
<1>2. QED
  BY <1>1, CountTypes DEF Count, Quiet

\* A reply is the only thing left of a request which the client waits for.
LEMMA AnsweredOnce ==
  ASSUME TypeOK, RequestsCounted, NEW c \in Client, outbox[c] # <<>>,
         NEW u \in Uri, u = Head(outbox[c]).uri
  PROVE  /\ waited[c][u] # NoEntity
         /\ Quiet(c, u) /\ Secondary(c, u) = 0 /\ Number(outbox[c], Replies(u)) = 1
<1>1. outbox[c] \in Seq(Reply) /\ Head(outbox[c]) \in Reply /\ Tail(outbox[c]) \in Seq(Reply)
  BY HeadTailProperties DEF TypeOK, ClientTypeOK
<1>2. Head(outbox[c]) \in Replies(u)
  BY <1>1 DEF Replies
<1>3. /\ Number(Tail(outbox[c]), Replies(u)) \in Nat
      /\ Number(outbox[c], Replies(u)) \in Nat
      /\ Number(Tail(outbox[c]), Replies(u)) = Number(outbox[c], Replies(u)) - 1
  BY <1>1, <1>2, NumberType, NumberTail
<1>4. Number(outbox[c], Replies(u)) >= 1
  BY <1>3
<1>5. Count(c, u) = IF waited[c][u] = NoEntity THEN 0 ELSE 1
  BY DEF RequestsCounted
<1>6. QED
  BY <1>4, <1>5, CountTypes DEF Count, Quiet

-----------------------------------------------------------------------------
(* The client's own records *)

LEMMA CallInit == Init => CallInv
<1> SUFFICES ASSUME Init
             PROVE  CallInv
  OBVIOUS
<1>1. UrisOfEntities /\ OneUriAtATime
  BY DEF Init, UrisOfEntities, OneUriAtATime
<1>2. QED
  BY <1>1, TypeInit DEF CallInv

\* The first of the remaining URIs is taken away; it is one of the entity's.
LEMMA NextUri ==
  ASSUME TypeOK, UrisOfEntities, NEW e \in Entity, remaining[e] # <<>>
  PROVE  /\ Head(remaining[e]) \in Uri
         /\ Head(remaining[e]) \in Range(Uris[e])
         /\ Range(Tail(remaining[e])) \subseteq Range(Uris[e])
<1>1. remaining[e] \in Seq(Uri)
  BY DEF TypeOK, ClientTypeOK
<1>2. /\ Head(remaining[e]) \in Uri
      /\ Head(remaining[e]) = remaining[e][1] /\ 1 \in DOMAIN remaining[e]
      /\ DOMAIN Tail(remaining[e]) = 1 .. Len(remaining[e]) - 1
      /\ \A i \in 1 .. Len(remaining[e]) - 1 : Tail(remaining[e])[i] = remaining[e][i + 1]
      /\ Len(remaining[e]) \in Nat /\ DOMAIN remaining[e] = 1 .. Len(remaining[e])
  BY <1>1, HeadTailProperties, LenProperties
<1>3. Range(Tail(remaining[e])) \subseteq Range(remaining[e])
  <2>1. ASSUME NEW i \in 1 .. Len(remaining[e]) - 1
        PROVE  Tail(remaining[e])[i] \in Range(remaining[e])
    <3>1. i + 1 \in DOMAIN remaining[e] /\ Tail(remaining[e])[i] = remaining[e][i + 1]
      BY <1>2
    <3>2. QED
      BY <3>1 DEF Range
  <2>2. QED
    BY <1>2, <2>1 DEF Range
<1>4. Range(remaining[e]) \subseteq Range(Uris[e])
  BY DEF UrisOfEntities
<1>5. QED
  BY <1>2, <1>3, <1>4 DEF Range

\* The steps of a client which change its records: the first URI of an entity, ...
LEMMA ScheduleCall ==
  ASSUME CallInv, NEW c \in Client, ScheduleDownload(c)
  PROVE  UrisOfEntities' /\ OneUriAtATime'
<1> DEFINE u(e) == Head(remaining[e])
<1>1. PICK e \in Scheduling(c) :
         /\ remaining' = [remaining EXCEPT ![e] = Tail(@)]
         /\ waited' = [waited EXCEPT ![c][Head(remaining[e])] = e]
  BY DEF ScheduleDownload
<1>2. e \in Entity /\ Owner[e] = c /\ e \in unscheduled
  BY DEF Scheduling, EntitiesOf
<1>3. TypeOK /\ remaining[e] # <<>> /\ \A d \in Client, v \in Uri : waited[d][v] # e
  BY <1>2 DEF CallInv, TypeInv, UnscheduledInv
<1>4. /\ Head(remaining[e]) \in Uri /\ Head(remaining[e]) \in Range(Uris[e])
      /\ Range(Tail(remaining[e])) \subseteq Range(Uris[e])
  BY <1>2, <1>3, NextUri DEF CallInv
<1>5. /\ waited \in [Client -> [Uri -> Entity \cup {NoEntity}]]
      /\ remaining \in [Entity -> Seq(Uri)]
  BY <1>3 DEF TypeOK, ClientTypeOK
<1>6. UrisOfEntities'
  <2>1. \A f \in Entity : Range(remaining'[f]) \subseteq Range(Uris[f])
    BY <1>1, <1>2, <1>4, <1>5 DEF CallInv, UrisOfEntities
  <2>2. ASSUME NEW d \in Client, NEW v \in Uri, waited'[d][v] # NoEntity
        PROVE  Owner[waited'[d][v]] = d /\ v \in Range(Uris[waited'[d][v]])
    <3>1. CASE d = c /\ v = Head(remaining[e])
      BY <1>1, <1>2, <1>4, <1>5, <3>1
    <3>2. CASE ~(d = c /\ v = Head(remaining[e]))
      <4>1. waited'[d][v] = waited[d][v]
        BY <1>1, <1>5, <3>2
      <4>2. QED
        BY <2>2, <4>1 DEF CallInv, UrisOfEntities
    <3>3. QED
      BY <3>1, <3>2
  <2>3. QED
    BY <2>1, <2>2 DEF UrisOfEntities
<1>7. OneUriAtATime'
  BY <1>1, <1>3, <1>4, <1>5 DEF CallInv, OneUriAtATime
<1>8. QED
  BY <1>6, <1>7

\* ... and a reply, after which the next one may be requested.
LEMMA ReceiveCall ==
  ASSUME CallInv, NEW c \in Client, ReceiveReply(c)
  PROVE  UrisOfEntities' /\ OneUriAtATime'
<1> DEFINE reply == Head(outbox[c])
           u == reply.uri
           e == waited[c][u]
           forgotten == [waited EXCEPT ![c][u] = NoEntity]
<1>1. TypeOK /\ reply \in Reply /\ u \in Uri
      /\ waited \in [Client -> [Uri -> Entity \cup {NoEntity}]]
      /\ remaining \in [Entity -> Seq(Uri)]
  <2>1. TypeOK
    BY DEF CallInv, TypeInv
  <2>2. reply \in Reply
    BY <2>1, HeadTailProperties DEF ReceiveReply, TypeOK, ClientTypeOK
  <2>3. QED
    BY <2>1, <2>2 DEF Reply, TypeOK, ClientTypeOK
<1>2. CASE e = NoEntity
  <2>1. UNCHANGED <<remaining, waited>>
    BY <1>2 DEF ReceiveReply
  <2>2. QED
    BY <2>1 DEF CallInv, UrisOfEntities, OneUriAtATime
<1>3. CASE e # NoEntity
  <2>1. \/ /\ remaining[e] # <<>>
           /\ remaining' = [remaining EXCEPT ![e] = Tail(@)]
           /\ waited' = [forgotten EXCEPT ![c][Head(remaining[e])] = e]
        \/ waited' = forgotten /\ UNCHANGED remaining
    BY <1>3 DEF ReceiveReply
  <2> HIDE DEF u
  <2>2. e \in Entity /\ Owner[e] = c
    BY <1>1, <1>3 DEF CallInv, UrisOfEntities
  <2>3. /\ \A d \in Client, w \in Uri : forgotten[d][w] # NoEntity =>
              forgotten[d][w] = waited[d][w]
        /\ \A w \in Uri : forgotten[c][w] # e
        /\ forgotten \in [Client -> [Uri -> Entity \cup {NoEntity}]]
    BY <1>1, <1>3 DEF CallInv, OneUriAtATime
  <2> HIDE DEF e, forgotten
  <2>4. CASE waited' = forgotten /\ UNCHANGED remaining
    <3>1. \A d \in Client, w \in Uri : waited'[d][w] # NoEntity => waited'[d][w] = waited[d][w]
      BY <2>3, <2>4
    <3>2. UrisOfEntities'
      BY <2>4, <3>1 DEF CallInv, UrisOfEntities
    <3>3. OneUriAtATime'
      BY <3>1 DEF CallInv, OneUriAtATime
    <3>4. QED
      BY <3>2, <3>3
  <2>5. CASE /\ remaining[e] # <<>>
             /\ remaining' = [remaining EXCEPT ![e] = Tail(@)]
             /\ waited' = [forgotten EXCEPT ![c][Head(remaining[e])] = e]
    <3>1. /\ Head(remaining[e]) \in Uri /\ Head(remaining[e]) \in Range(Uris[e])
          /\ Range(Tail(remaining[e])) \subseteq Range(Uris[e])
      BY <1>1, <2>2, <2>5, NextUri DEF CallInv
    <3>2. \A f \in Entity : Range(remaining'[f]) \subseteq Range(Uris[f])
      BY <1>1, <2>2, <2>5, <3>1 DEF CallInv, UrisOfEntities
    <3>3. ASSUME NEW d \in Client, NEW w \in Uri, waited'[d][w] # NoEntity
          PROVE  Owner[waited'[d][w]] = d /\ w \in Range(Uris[waited'[d][w]])
      <4>1. CASE d = c /\ w = Head(remaining[e])
        BY <2>2, <2>3, <2>5, <3>1, <4>1
      <4>2. CASE ~(d = c /\ w = Head(remaining[e]))
        <5>1. waited'[d][w] = forgotten[d][w]
          BY <2>3, <2>5, <4>2
        <5>2. QED
          BY <2>3, <3>3, <5>1 DEF CallInv, UrisOfEntities
      <4>3. QED
        BY <4>1, <4>2
    <3>4. OneUriAtATime'
      <4>1. ASSUME NEW d \in Client, NEW v \in Uri, NEW w \in Uri,
                   waited'[d][v] # NoEntity, waited'[d][v] = waited'[d][w]
            PROVE  v = w
        <5>1. CASE d = c /\ (v = Head(remaining[e]) \/ w = Head(remaining[e]))
          BY <2>3, <2>5, <3>1, <4>1, <5>1
        <5>2. CASE ~(d = c /\ (v = Head(remaining[e]) \/ w = Head(remaining[e])))
          <6>1. waited'[d][v] = forgotten[d][v] /\ waited'[d][w] = forgotten[d][w]
            BY <2>3, <2>5, <5>2
          <6>2. waited[d][v] = waited'[d][v] /\ waited[d][w] = waited'[d][w]
            BY <2>3, <4>1, <6>1
          <6>3. QED
            BY <4>1, <6>2 DEF CallInv, OneUriAtATime
        <5>3. QED
          BY <5>1, <5>2
      <4>2. QED
        BY <4>1 DEF OneUriAtATime
    <3>5. QED
      BY <3>2, <3>3, <3>4 DEF UrisOfEntities
  <2>6. QED
    BY <2>1, <2>4, <2>5
<1>4. QED
  BY <1>2, <1>3

LEMMA CallInvStep == CallInv /\ [Next]_vars => CallInv'
<1> SUFFICES ASSUME CallInv, [Next]_vars
             PROVE  CallInv'
  OBVIOUS
<1>1. TypeInv'
  BY TypeInvStep DEF CallInv
<1>2. CASE UNCHANGED <<remaining, waited>>
  BY <1>1, <1>2 DEF CallInv, UrisOfEntities, OneUriAtATime
<1>3. CASE \E c \in Client : ScheduleDownload(c) \/ ReceiveReply(c)
  BY <1>1, <1>3, ScheduleCall, ReceiveCall DEF CallInv
<1>4. UNCHANGED <<remaining, waited>> \/ \E c \in Client : ScheduleDownload(c) \/ ReceiveReply(c)
  <2>1. CASE UNCHANGED vars
    BY <2>1 DEF vars, clientVars, callVars
  <2>2. CASE WorkerStep
    BY <2>2 DEF WorkerStep, HandleInternal, ForkFails, Reap, HandleParent, AcceptFails,
       HandleClientMessage, HandleClientEof, HandlePerformerMessage, HandlePerformerEof, Exit,
       ProcessProgressMessage, clientVars, callVars
  <2>3. CASE \E u \in Uri : PerformerStep(u)
    BY <2>3 DEF PerformerStep, ReportWrongSize, FinishPerform, PerformerExit, PerformerCrash,
       clientVars, callVars
  <2>4. CASE \E c \in Client : Connect(c) \/ ClientStep(c)
    BY <2>4 DEF Connect, ClientStep, ReceiveEof, Return
  <2>5. CASE Destroy \/ ParentDies \/ ParentEnds
    BY <2>5 DEF Destroy, ParentDies, ParentEnds, ParentPipeCloses, ClientDies, callVars
  <2>6. QED
    BY <2>1, <2>2, <2>3, <2>4, <2>5 DEF Next
<1>5. QED
  BY <1>2, <1>3, <1>4

-----------------------------------------------------------------------------
(* Steps of the clients while the worker runs *)

\* What the steps of a client leave alone.
LEMMA WorkerSideKept ==
  ASSUME WorkerInv, UNCHANGED <<workerVars, process>>
  PROVE  QueueIsShort' /\ PerformersArePiped' /\ OnePipePerTarget'
BY DEF WorkerInv, workerVars, socketVars, QueueIsShort, PerformersArePiped, OnePipePerTarget,
   Piped, Active

\* scheduleDownload sends one request, and no acknowledgement.
LEMMA RequestsNumber ==
  ASSUME TypeOK, NEW e \in Entity, remaining[e] # <<>>, NEW u \in Uri
  PROVE  /\ Number(Requests(e), Downloads(u)) = IF u = Head(remaining[e]) THEN 1 ELSE 0
         /\ Number(Requests(e), Acknowledgements(u)) = 0
         /\ \A i \in DOMAIN Requests(e) : Requests(e)[i].command = "download" =>
              Requests(e)[i].uri = Head(remaining[e]) /\ Requests(e)[i].targetPath = e
<1> DEFINE v == Head(remaining[e])
           size == [command |-> "set-download-size", uri |-> v]
           download == [command |-> "download", uri |-> v, targetPath |-> e]
           first == IF e \in Sized THEN <<size>> ELSE <<>>
<1>1. v \in Uri
  BY RequestsType
<1>2. size \in ClientMessage /\ download \in ClientMessage
  BY <1>1 DEF ClientMessage
<1>3. /\ size \notin Downloads(u) /\ size \notin Acknowledgements(u)
      /\ download \notin Acknowledgements(u)
      /\ download \in Downloads(u) <=> u = v
      /\ size.command # "download" /\ download.uri = v /\ download.targetPath = e
  BY <1>2 DEF Downloads, Acknowledgements
<1>4. Requests(e) = first \o <<download>>
  BY DEF Requests
<1> HIDE DEF v, size, download
<1>5. first \in Seq(ClientMessage) /\ <<download>> \in Seq(ClientMessage)
  BY <1>2
<1>6. Number(first, Downloads(u)) = 0 /\ Number(first, Acknowledgements(u)) = 0
  BY <1>3, NumberOfOne, NumberOfNone
<1>7. /\ Number(Requests(e), Downloads(u)) = Number(first, Downloads(u))
                                              + Number(<<download>>, Downloads(u))
      /\ Number(Requests(e), Acknowledgements(u)) = Number(first, Acknowledgements(u))
                                              + Number(<<download>>, Acknowledgements(u))
  <2> HIDE DEF first
  <2>1. \A T : Number(first \o <<download>>, T) = Number(first, T) + Number(<<download>>, T)
    BY <1>5, NumberConcat
  <2>2. QED
    BY <1>4, <2>1
<1>8. \A i \in DOMAIN Requests(e) : Requests(e)[i] \in {size, download}
  BY <1>4
<1>9. QED
  BY <1>3, <1>6, <1>7, <1>8, NumberOfOne DEF v

\* A fresh reply is acknowledged once, and without a request.
LEMMA AcknowledgeNumber ==
  ASSUME NEW reply \in Reply, NEW result \in Result, NEW u \in Uri
  PROVE  /\ Number(Acknowledge(reply, result), Downloads(u)) = 0
         /\ Number(Acknowledge(reply, result), Acknowledgements(u)) =
              IF reply \in FreshReplies(u) THEN 1 ELSE 0
         /\ \A i \in DOMAIN Acknowledge(reply, result) :
              Acknowledge(reply, result)[i].command # "download"
<1> DEFINE ack == [command |-> "done-ack", uri |-> reply.uri, result |-> result]
<1>1. ack \in ClientMessage
  BY DEF Reply, ClientMessage
<1>2. /\ ack \notin Downloads(u) /\ ack.command # "download"
      /\ ack \in Acknowledgements(u) <=> reply.uri = u
  BY <1>1 DEF Downloads, Acknowledgements
<1>3. reply \in FreshReplies(u) <=> reply.uri = u /\ ~reply.isDuplicatedDownload
  BY DEF FreshReplies
<1>4. Acknowledge(reply, result) = IF reply.isDuplicatedDownload THEN <<>> ELSE <<ack>>
  BY DEF Acknowledge
<1> HIDE DEF ack
<1>5. QED
  BY <1>2, <1>3, <1>4, NumberOfOne, NumberOfNone

\* Requests which are under way keep their target path when the client changes
\* its mind only about URIs it has no request for.
LEMMA TargetsKept ==
  ASSUME TypeOK, TargetsAreWaited, UNCHANGED workerVars,
         \A c \in Client, u \in Uri : waited'[c][u] = waited[c][u] \/ Quiet(c, u),
         \A c \in Client : \A i \in DOMAIN inbox'[c] :
           \/ i \in DOMAIN inbox[c] /\ inbox'[c][i] = inbox[c][i]
           \/ inbox'[c][i].command = "download" =>
                waited'[c][inbox'[c][i].uri] = inbox'[c][i].targetPath
  PROVE  TargetsAreWaited'
<1>1. /\ \A c \in Client : \A i \in DOMAIN inbox[c] : inbox[c][i] \in ClientMessage
      /\ \A i \in DOMAIN workerQueue : workerQueue[i] \in InternalMessage
      /\ \A i \in DOMAIN onHold : onHold[i] \in Request
      /\ \A u \in Active : u \in Uri /\ activeDownloads[u].waiterSocket \in Client
  <2>1. /\ \A c \in Client : inbox[c] \in Seq(ClientMessage)
        /\ workerQueue \in Seq(InternalMessage)
        /\ onHold \in Seq(Request)
    BY DEF TypeOK, ClientTypeOK, WorkerTypeOK
  <2>2. QED
    BY <2>1, LenProperties DEF TypeOK, WorkerTypeOK, ActiveDownloadInfo
<1>2. ASSUME NEW c \in Client, NEW i \in DOMAIN inbox'[c], inbox'[c][i].command = "download"
      PROVE  waited'[c][inbox'[c][i].uri] = inbox'[c][i].targetPath
  <2>1. CASE i \in DOMAIN inbox[c] /\ inbox'[c][i] = inbox[c][i]
    <3> DEFINE u == inbox[c][i].uri
    <3>1. u \in Uri /\ waited[c][u] = inbox[c][i].targetPath
      BY <1>1, <1>2, <2>1 DEF TargetsAreWaited, ClientMessage
    <3>2. ~Quiet(c, u)
      BY <1>2, <2>1, <3>1, QuietMeans
    <3>3. QED
      BY <2>1, <3>1, <3>2
  <2>2. QED
    BY <1>2, <2>1
<1>3. ASSUME NEW i \in DOMAIN workerQueue, workerQueue[i].command = "proceed-download"
      PROVE  IsWaited(workerQueue[i].request)'
  <2> DEFINE r == workerQueue[i].request
  <2>1. r \in Request
    BY <1>1, <1>3 DEF InternalMessage
  <2>2. r.uri \in Uri /\ r.waiterSocket \in Client
    BY <2>1 DEF Request
  <2>3. ~Quiet(r.waiterSocket, r.uri)
    BY <1>3, <2>2, QuietMeans
  <2>4. waited[r.waiterSocket][r.uri] = r.targetPath
    BY <1>3 DEF TargetsAreWaited, IsWaited
  <2>5. workerQueue' = workerQueue
    BY DEF workerVars
  <2>6. QED
    BY <2>2, <2>3, <2>4, <2>5 DEF IsWaited
<1>4. ASSUME NEW i \in DOMAIN onHold
      PROVE  IsWaited(onHold[i])'
  <2> DEFINE r == onHold[i]
  <2>1. r.uri \in Uri /\ r.waiterSocket \in Client
    BY <1>1 DEF Request
  <2>2. ~Quiet(r.waiterSocket, r.uri)
    BY <2>1, QuietMeans
  <2>3. waited[r.waiterSocket][r.uri] = r.targetPath
    BY DEF TargetsAreWaited, IsWaited
  <2>4. onHold' = onHold
    BY DEF workerVars
  <2>5. QED
    BY <2>1, <2>2, <2>3, <2>4 DEF IsWaited
<1>5. ASSUME NEW u \in Active, ~Replied(u)
      PROVE  waited'[activeDownloads[u].waiterSocket][u] = activeDownloads[u].targetPath
  <2>1. ~Quiet(activeDownloads[u].waiterSocket, u)
    BY <1>1, <1>5, QuietMeans
  <2>2. QED
    BY <1>1, <1>5, <2>1 DEF TargetsAreWaited
<1>6. QED
  BY <1>2, <1>3, <1>4, <1>5 DEF TargetsAreWaited, workerVars, Active, Replied

\* A message in an inbox was there or has just been sent.
LEMMA SentOrThere ==
  ASSUME TypeOK, NEW c \in Client, NEW messages \in Seq(ClientMessage),
         inbox' = [inbox EXCEPT ![c] = @ \o messages],
         NEW d \in Client, NEW i \in DOMAIN inbox'[d]
  PROVE  \/ i \in DOMAIN inbox[d] /\ inbox'[d][i] = inbox[d][i]
         \/ d = c /\ \E j \in DOMAIN messages : inbox'[d][i] = messages[j]
<1>1. inbox \in [Client -> Seq(ClientMessage)]
  BY DEF TypeOK, ClientTypeOK
<1>2. CASE d # c
  BY <1>1, <1>2
<1>3. CASE d = c
  <2>1. inbox'[c] = inbox[c] \o messages
    BY <1>1
  <2>2. /\ DOMAIN inbox[c] = 1 .. Len(inbox[c])
        /\ DOMAIN messages = 1 .. Len(messages)
        /\ Len(inbox[c]) \in Nat /\ Len(messages) \in Nat
        /\ DOMAIN inbox'[c] = 1 .. Len(inbox[c]) + Len(messages)
    BY <1>1, <2>1, LenProperties, ConcatProperties
  <2>3. inbox'[c][i] = IF i <= Len(inbox[c]) THEN inbox[c][i] ELSE messages[i - Len(inbox[c])]
    BY <1>1, <1>3, <2>1, <2>2, ConcatProperties
  <2>4. QED
    BY <1>3, <2>2, <2>3
<1>4. QED
  BY <1>2, <1>3

LEMMA ScheduleRequests ==
  ASSUME DistinctUris, CallInv, WorkerInv, worker = "running", NEW c \in Client,
         ScheduleDownload(c)
  PROVE  WorkerInv'
<1>1. PICK e \in Scheduling(c) :
         /\ ClientSends(c, Requests(e))
         /\ waited' = [waited EXCEPT ![c][Head(remaining[e])] = e]
  BY DEF ScheduleDownload
<1> DEFINE v == Head(remaining[e])
<1>2. e \in Entity /\ Owner[e] = c /\ e \in unscheduled
  BY DEF Scheduling, EntitiesOf
<1>3. TypeOK /\ remaining[e] # <<>> /\ \A d \in Client, w \in Uri : waited[d][w] # e
  BY <1>2 DEF CallInv, TypeInv, UnscheduledInv
<1>4. v \in Uri /\ v \in Range(Uris[e]) /\ Requests(e) \in Seq(ClientMessage)
  BY <1>2, <1>3, NextUri, RequestsType DEF CallInv
<1>5. /\ waited \in [Client -> [Uri -> Entity \cup {NoEntity}]]
      /\ inbox \in [Client -> Seq(ClientMessage)]
  BY <1>3 DEF TypeOK, ClientTypeOK
<1>6. UNCHANGED <<workerVars, process, outbox>>
  BY DEF ScheduleDownload, performerVars
<1>7. inbox' = [inbox EXCEPT ![c] = @ \o Requests(e)]
  BY <1>1 DEF ClientSends, ConnectionLost
<1>8. waited[c][v] = NoEntity
  <2>1. SUFFICES ASSUME waited[c][v] # NoEntity
                 PROVE  FALSE
    OBVIOUS
  <2>2. waited[c][v] \in Entity /\ Owner[waited[c][v]] = c /\ v \in Range(Uris[waited[c][v]])
    BY <1>4, <1>5, <2>1 DEF CallInv, UrisOfEntities
  <2>3. waited[c][v] = e
    BY <1>2, <1>4, <2>2 DEF DistinctUris
  <2>4. QED
    BY <1>3, <1>4, <2>3
<1>9. Quiet(c, v) /\ Secondary(c, v) = 0 /\ Number(outbox[c], Replies(v)) = 0
  BY <1>3, <1>4, <1>8, NotWaited DEF WorkerInv
<1> HIDE DEF v
<1>10. ASSUME NEW d \in Client, NEW w \in Uri
       PROVE  /\ Number(inbox'[d], Downloads(w)) =
                   Number(inbox[d], Downloads(w)) + (IF d = c /\ w = v THEN 1 ELSE 0)
              /\ Number(inbox'[d], Acknowledgements(w)) = Number(inbox[d], Acknowledgements(w))
              /\ waited'[d][w] = IF d = c /\ w = v THEN e ELSE waited[d][w]
  <2>1. /\ Number(Requests(e), Downloads(w)) = IF w = v THEN 1 ELSE 0
        /\ Number(Requests(e), Acknowledgements(w)) = 0
    BY <1>2, <1>3, RequestsNumber DEF v
  <2>2. ASSUME NEW T
        PROVE  /\ Number(inbox[d], T) \in Nat
               /\ Number(inbox'[d], T) =
                    Number(inbox[d], T) + (IF d = c THEN Number(Requests(e), T) ELSE 0)
    <3>1. inbox'[d] = IF d = c THEN inbox[c] \o Requests(e) ELSE inbox[d]
      BY <1>5, <1>7
    <3>2. Number(inbox[c] \o Requests(e), T) = Number(inbox[c], T) + Number(Requests(e), T)
      BY <1>4, <1>5, NumberConcat
    <3>3. Number(inbox[d], T) \in Nat
      BY <1>5, NumberType
    <3>4. QED
      BY <3>1, <3>2, <3>3
  <2>3. waited'[d][w] = IF d = c /\ w = v THEN e ELSE waited[d][w]
    BY <1>1, <1>5 DEF v
  <2>4. QED
    BY <2>1, <2>2, <2>3
<1>11. RequestsCounted'
  <2>1. ASSUME NEW d \in Client, NEW w \in Uri
        PROVE  Count(d, w)' = Count(d, w) + (IF d = c /\ w = v THEN 1 ELSE 0)
    <3>1. /\ Primary(d, w)' = Primary(d, w) /\ Secondary(d, w)' = Secondary(d, w)
          /\ workerQueue' = workerQueue /\ onHold' = onHold /\ outbox' = outbox
      BY <1>6 DEF workerVars, Primary, Secondary, Active, Replied
    <3>2. Count(d, w)' = Number(inbox'[d], Downloads(w)) + Number(workerQueue, Proceeds(d, w))
                         + Number(onHold, Held(d, w)) + Primary(d, w) + Secondary(d, w)
                         + Number(outbox[d], Replies(w))
      BY <3>1, NextCount
    <3>3. Number(inbox'[d], Downloads(w)) =
            Number(inbox[d], Downloads(w)) + (IF d = c /\ w = v THEN 1 ELSE 0)
      BY <1>10
    <3>4. QED
      <4>1. /\ Number(inbox[d], Downloads(w)) \in Nat
            /\ Number(workerQueue, Proceeds(d, w)) \in Nat
            /\ Number(onHold, Held(d, w)) \in Nat
            /\ Primary(d, w) \in Nat /\ Secondary(d, w) \in Nat
            /\ Number(outbox[d], Replies(w)) \in Nat
            /\ Count(d, w) = Number(inbox[d], Downloads(w)) + Number(workerQueue, Proceeds(d, w))
                             + Number(onHold, Held(d, w)) + Primary(d, w) + Secondary(d, w)
                             + Number(outbox[d], Replies(w))
        BY <1>3, CountParts
      <4>2. QED
        BY <3>2, <3>3, <4>1
  <2>2. ASSUME NEW d \in Client, NEW w \in Uri
        PROVE  Count(d, w)' = IF waited'[d][w] = NoEntity THEN 0 ELSE 1
    <3>1. Count(d, w) = IF waited[d][w] = NoEntity THEN 0 ELSE 1
      BY DEF WorkerInv, RequestsCounted
    <3>2. e # NoEntity
      BY <1>2, ConstantsAssumption DEF ConstantsAssumption
    <3>3. QED
      BY <1>8, <1>10, <2>1, <3>1, <3>2
  <2>3. QED
    BY <2>2 DEF RequestsCounted
<1>12. AcknowledgedOnce'
  <2>1. \A d \in Client, w \in Uri : Acknowledged(d, w)' = Acknowledged(d, w)
    BY <1>6 DEF workerVars, Acknowledged, Active, Replied
  <2>2. QED
    BY <1>6, <1>10, <2>1 DEF WorkerInv, AcknowledgedOnce
<1>13. TargetsAreWaited'
  <2>1. \A d \in Client, w \in Uri : waited'[d][w] = waited[d][w] \/ Quiet(d, w)
    BY <1>9, <1>10
  <2>2. ASSUME NEW d \in Client, NEW i \in DOMAIN inbox'[d]
        PROVE  \/ i \in DOMAIN inbox[d] /\ inbox'[d][i] = inbox[d][i]
               \/ inbox'[d][i].command = "download" =>
                    waited'[d][inbox'[d][i].uri] = inbox'[d][i].targetPath
    <3>1. \A j \in DOMAIN Requests(e) : Requests(e)[j].command = "download" =>
            Requests(e)[j].uri = v /\ Requests(e)[j].targetPath = e
      BY <1>2, <1>3, <1>4, RequestsNumber DEF v
    <3>2. waited'[c][v] = e
      BY <1>4, <1>10 DEF v
    <3>3. QED
      BY <1>3, <1>4, <1>7, <3>1, <3>2, SentOrThere
  <2>3. QED
    BY <1>3, <1>6, <2>1, <2>2, TargetsKept DEF WorkerInv
<1>14. QED
  BY <1>6, <1>11, <1>12, <1>13, WorkerSideKept DEF WorkerInv

\* A reply for u is taken out and the post action done.  The client sends the
\* acknowledgement and, when it asks for more, a request of e for the URI v.
AnswerStep(c, u, e, v, asks, messages) ==
  /\ outbox[c] # <<>>
  /\ u = Head(outbox[c]).uri
  /\ outbox' = [outbox EXCEPT ![c] = Tail(@)]
  /\ inbox' = [inbox EXCEPT ![c] = @ \o messages]
  /\ UNCHANGED <<workerVars, process>>
  /\ asks => v = u \/ waited[c][v] = NoEntity
  /\ \A w \in Uri :
       /\ Number(messages, Downloads(w)) = IF asks /\ w = v THEN 1 ELSE 0
       /\ Number(messages, Acknowledgements(w)) =
            IF Head(outbox[c]) \in FreshReplies(w) THEN 1 ELSE 0
  /\ \A j \in DOMAIN messages : messages[j].command = "download" =>
       asks /\ messages[j].uri = v /\ messages[j].targetPath = e
  /\ \A d \in Client, w \in Uri :
       waited'[d][w] = IF asks /\ d = c /\ w = v THEN e
                       ELSE IF d = c /\ w = u THEN NoEntity ELSE waited[d][w]

LEMMA AnswerRequests ==
  ASSUME CallInv, WorkerInv, NEW c \in Client, NEW u \in Uri, NEW e \in Entity,
         NEW v \in Uri, NEW asks \in BOOLEAN, NEW messages \in Seq(ClientMessage),
         AnswerStep(c, u, e, v, asks, messages)
  PROVE  WorkerInv'
<1> USE DEF AnswerStep
<1>1. TypeOK /\ outbox \in [Client -> Seq(Reply)] /\ inbox \in [Client -> Seq(ClientMessage)]
      /\ Head(outbox[c]) \in Reply
  <2>1. TypeOK /\ outbox[c] \in Seq(Reply)
    BY DEF CallInv, TypeInv, TypeOK, ClientTypeOK
  <2>2. QED
    BY <2>1, HeadTailProperties DEF TypeOK, ClientTypeOK
<1>2. /\ waited[c][u] # NoEntity
      /\ Quiet(c, u) /\ Secondary(c, u) = 0 /\ Number(outbox[c], Replies(u)) = 1
  BY <1>1, AnsweredOnce DEF WorkerInv
<1>3. asks => Quiet(c, v)
  BY <1>1, <1>2, NotWaited DEF WorkerInv
<1>4. e # NoEntity
  BY ConstantsAssumption DEF ConstantsAssumption
<1>5. ASSUME NEW d \in Client, NEW T
      PROVE  /\ Number(inbox[d], T) \in Nat /\ Number(outbox[d], T) \in Nat
             /\ Number(inbox'[d], T) =
                  Number(inbox[d], T) + (IF d = c THEN Number(messages, T) ELSE 0)
             /\ Number(outbox'[d], T) =
                  Number(outbox[d], T) - (IF d = c /\ Head(outbox[c]) \in T THEN 1 ELSE 0)
  <2>1. Number(inbox[d], T) \in Nat /\ Number(outbox[d], T) \in Nat
    BY <1>1, NumberType
  <2>2. Number(inbox'[d], T) =
          Number(inbox[d], T) + (IF d = c THEN Number(messages, T) ELSE 0)
    <3>1. inbox'[d] = IF d = c THEN inbox[c] \o messages ELSE inbox[d]
      BY <1>1
    <3>2. Number(inbox[c] \o messages, T) = Number(inbox[c], T) + Number(messages, T)
      BY <1>1, NumberConcat
    <3>3. QED
      BY <2>1, <3>1, <3>2
  <2>3. outbox'[d] = IF d = c THEN Tail(outbox[c]) ELSE outbox[d]
    BY <1>1
  <2>4. Number(Tail(outbox[c]), T) =
          Number(outbox[c], T) - (IF Head(outbox[c]) \in T THEN 1 ELSE 0)
    BY <1>1, NumberTail
  <2>5. QED
    BY <2>1, <2>2, <2>3, <2>4
<1>6. RequestsCounted'
  <2> SUFFICES ASSUME NEW d \in Client, NEW w \in Uri
               PROVE  Count(d, w)' = IF waited'[d][w] = NoEntity THEN 0 ELSE 1
    BY DEF RequestsCounted
  <2>1. /\ Primary(d, w)' = Primary(d, w) /\ Secondary(d, w)' = Secondary(d, w)
        /\ workerQueue' = workerQueue /\ onHold' = onHold
    BY DEF workerVars, Primary, Secondary, Active, Replied
  <2>2. Number(inbox'[d], Downloads(w)) =
          Number(inbox[d], Downloads(w)) + (IF asks /\ d = c /\ w = v THEN 1 ELSE 0)
    <3>1. /\ Number(inbox[d], Downloads(w)) \in Nat
          /\ Number(inbox'[d], Downloads(w)) =
               Number(inbox[d], Downloads(w)) + (IF d = c THEN Number(messages, Downloads(w)) ELSE 0)
      BY <1>5
    <3>2. Number(messages, Downloads(w)) = IF asks /\ w = v THEN 1 ELSE 0
      OBVIOUS
    <3>3. QED
      BY <3>1, <3>2
  <2>3. Number(outbox'[d], Replies(w)) =
          Number(outbox[d], Replies(w)) - (IF d = c /\ w = u THEN 1 ELSE 0)
    <3>1. Head(outbox[c]) \in Replies(w) <=> w = u
      BY <1>1 DEF Replies
    <3>2. Number(outbox'[d], Replies(w)) = Number(outbox[d], Replies(w))
            - (IF d = c /\ Head(outbox[c]) \in Replies(w) THEN 1 ELSE 0)
      BY <1>5
    <3> HIDE DEF AnswerStep
    <3>3. QED
      BY <3>1, <3>2
  <2>4. Count(d, w)' = Number(inbox'[d], Downloads(w)) + Number(workerQueue, Proceeds(d, w))
                       + Number(onHold, Held(d, w)) + Primary(d, w) + Secondary(d, w)
                       + Number(outbox'[d], Replies(w))
    BY <2>1, NextCount
  <2>5. /\ Number(inbox[d], Downloads(w)) \in Nat
        /\ Number(workerQueue, Proceeds(d, w)) \in Nat
        /\ Number(onHold, Held(d, w)) \in Nat
        /\ Primary(d, w) \in Nat /\ Secondary(d, w) \in Nat
        /\ Number(outbox[d], Replies(w)) \in Nat
        /\ Count(d, w) = Number(inbox[d], Downloads(w)) + Number(workerQueue, Proceeds(d, w))
                         + Number(onHold, Held(d, w)) + Primary(d, w) + Secondary(d, w)
                         + Number(outbox[d], Replies(w))
    BY <1>1, CountParts
  <2>6. Count(d, w)' = Count(d, w) + (IF asks /\ d = c /\ w = v THEN 1 ELSE 0)
                                   - (IF d = c /\ w = u THEN 1 ELSE 0)
    <3> DEFINE more == IF asks /\ d = c /\ w = v THEN 1 ELSE 0
               less == IF d = c /\ w = u THEN 1 ELSE 0
    <3>1. more \in Int /\ less \in Int
      OBVIOUS
    <3>2. /\ Number(inbox'[d], Downloads(w)) = Number(inbox[d], Downloads(w)) + more
          /\ Number(outbox'[d], Replies(w)) = Number(outbox[d], Replies(w)) - less
      BY <2>2, <2>3
    <3> HIDE DEF more, less, AnswerStep
    <3> DEFINE asked == Number(inbox[d], Downloads(w))
               queued == Number(workerQueue, Proceeds(d, w))
               held == Number(onHold, Held(d, w))
               first == Primary(d, w)
               second == Secondary(d, w)
               replied == Number(outbox[d], Replies(w))
    <3>3. /\ asked \in Nat /\ queued \in Nat /\ held \in Nat
          /\ first \in Nat /\ second \in Nat /\ replied \in Nat
          /\ Count(d, w) = asked + queued + held + first + second + replied
      BY <2>5
    <3>4. Count(d, w)' = (asked + more) + queued + held + first + second + (replied - less)
      BY <2>4, <3>2
    <3> HIDE DEF asked, queued, held, first, second, replied
    <3>5. Count(d, w)' = Count(d, w) + more - less
      BY <3>1, <3>3, <3>4
    <3>6. QED
      BY <3>5 DEF more, less
  <2>7. Count(d, w) = IF waited[d][w] = NoEntity THEN 0 ELSE 1
    BY DEF WorkerInv, RequestsCounted
  <2>8. QED
    BY <1>2, <1>4, <2>6, <2>7
<1>7. AcknowledgedOnce'
  <2> SUFFICES ASSUME NEW d \in Client, NEW w \in Uri
               PROVE  Number(inbox'[d], Acknowledgements(w)) + Number(outbox'[d], FreshReplies(w))
                        <= Acknowledged(d, w)'
    BY DEF AcknowledgedOnce
  <2>1. Acknowledged(d, w)' = Acknowledged(d, w)
    BY DEF workerVars, Acknowledged, Active, Replied
  <2>2. /\ Number(inbox[d], Acknowledgements(w)) \in Nat
        /\ Number(outbox[d], FreshReplies(w)) \in Nat
        /\ Number(inbox'[d], Acknowledgements(w)) =
             Number(inbox[d], Acknowledgements(w))
             + (IF d = c /\ Head(outbox[c]) \in FreshReplies(w) THEN 1 ELSE 0)
        /\ Number(outbox'[d], FreshReplies(w)) =
             Number(outbox[d], FreshReplies(w))
             - (IF d = c /\ Head(outbox[c]) \in FreshReplies(w) THEN 1 ELSE 0)
    <3>1. /\ Number(inbox[d], Acknowledgements(w)) \in Nat
          /\ Number(inbox'[d], Acknowledgements(w)) =
               Number(inbox[d], Acknowledgements(w))
               + (IF d = c THEN Number(messages, Acknowledgements(w)) ELSE 0)
      BY <1>5
    <3>2. Number(messages, Acknowledgements(w)) =
            IF Head(outbox[c]) \in FreshReplies(w) THEN 1 ELSE 0
      OBVIOUS
    <3>3. QED
      BY <1>5, <3>1, <3>2
  <2>3. Number(inbox[d], Acknowledgements(w)) + Number(outbox[d], FreshReplies(w))
          <= Acknowledged(d, w)
    BY DEF WorkerInv, AcknowledgedOnce
  <2>4. QED
    BY <2>1, <2>2, <2>3
<1>8. TargetsAreWaited'
  <2>1. \A d \in Client, w \in Uri : waited'[d][w] = waited[d][w] \/ Quiet(d, w)
    BY <1>2, <1>3
  <2>2. ASSUME NEW d \in Client, NEW i \in DOMAIN inbox'[d]
        PROVE  \/ i \in DOMAIN inbox[d] /\ inbox'[d][i] = inbox[d][i]
               \/ inbox'[d][i].command = "download" =>
                    waited'[d][inbox'[d][i].uri] = inbox'[d][i].targetPath
    <3>1. asks => waited'[c][v] = e
      OBVIOUS
    <3>2. \/ i \in DOMAIN inbox[d] /\ inbox'[d][i] = inbox[d][i]
          \/ d = c /\ \E j \in DOMAIN messages : inbox'[d][i] = messages[j]
      BY <1>1, SentOrThere
    <3>3. QED
      BY <3>1, <3>2
  <2>3. TargetsAreWaited
    BY DEF WorkerInv
  <2>4. QED
    BY <1>1, <2>1, <2>2, <2>3, TargetsKept
<1>9. QED
  BY <1>6, <1>7, <1>8, WorkerSideKept DEF WorkerInv

LEMMA ReceiveRequests ==
  ASSUME DistinctUris, CallInv, WorkerInv, worker = "running", NEW c \in Client,
         ReceiveReply(c)
  PROVE  WorkerInv'
<1> DEFINE reply == Head(outbox[c])
           u == reply.uri
           e == waited[c][u]
           v == Head(remaining[e])
<1>1. /\ TypeOK
      /\ waited \in [Client -> [Uri -> Entity \cup {NoEntity}]]
      /\ outbox[c] # <<>>
      /\ outbox[c] \in Seq(Reply)
  BY DEF CallInv, TypeInv, TypeOK, ClientTypeOK, ReceiveReply
<1>2. reply \in Reply /\ u \in Uri /\ reply.result \in Result
  <2>1. reply \in Reply
    BY <1>1, HeadTailProperties
  <2>2. QED
    BY <2>1 DEF Reply
<1>3. e # NoEntity
  BY <1>1, <1>2, AnsweredOnce DEF WorkerInv
<1>4. e \in Entity /\ Owner[e] = c /\ u \in Range(Uris[e])
  BY <1>1, <1>2, <1>3 DEF CallInv, UrisOfEntities
<1>5. /\ UNCHANGED <<workerVars, process>>
      /\ outbox' = [outbox EXCEPT ![c] = Tail(@)]
  BY DEF ReceiveReply, performerVars
<1>6. PICK result \in PostAction(reply) :
         \/ /\ remaining[e] # <<>>
            /\ ClientSends(c, Acknowledge(reply, result) \o Requests(e))
            /\ waited' = [[waited EXCEPT ![c][u] = NoEntity] EXCEPT ![c][v] = e]
         \/ /\ ClientSends(c, Acknowledge(reply, result))
            /\ waited' = [waited EXCEPT ![c][u] = NoEntity]
  BY <1>3 DEF ReceiveReply
<1> HIDE DEF reply
<1>7. result \in Result
  BY <1>2, <1>6 DEF PostAction
<1>8. Acknowledge(reply, result) \in Seq(ClientMessage)
  BY <1>2, <1>7, AcknowledgeType
<1>9. ASSUME NEW w \in Uri
      PROVE  /\ Number(Acknowledge(reply, result), Downloads(w)) = 0
             /\ Number(Acknowledge(reply, result), Acknowledgements(w)) =
                  IF reply \in FreshReplies(w) THEN 1 ELSE 0
             /\ \A i \in DOMAIN Acknowledge(reply, result) :
                  Acknowledge(reply, result)[i].command # "download"
  BY <1>2, <1>7, AcknowledgeNumber
<1>10. \A messages : ClientSends(c, messages) => inbox' = [inbox EXCEPT ![c] = @ \o messages]
  BY DEF ClientSends, ConnectionLost
<1> HIDE DEF u, e, v
<1>11. CASE /\ remaining[e] # <<>>
            /\ ClientSends(c, Acknowledge(reply, result) \o Requests(e))
            /\ waited' = [[waited EXCEPT ![c][u] = NoEntity] EXCEPT ![c][v] = e]
  <2> DEFINE ack == Acknowledge(reply, result)
             messages == ack \o Requests(e)
  <2>1. v \in Uri /\ v \in Range(Uris[e]) /\ Requests(e) \in Seq(ClientMessage)
    BY <1>1, <1>4, <1>11, NextUri, RequestsType DEF CallInv, v
  <2>2. messages \in Seq(ClientMessage)
    BY <1>8, <2>1, ConcatProperties
  <2>3. v = u \/ waited[c][v] = NoEntity
    <3>1. SUFFICES ASSUME waited[c][v] # NoEntity
                   PROVE  v = u
      OBVIOUS
    <3>2. /\ waited[c][v] \in Entity /\ Owner[waited[c][v]] = c
          /\ v \in Range(Uris[waited[c][v]])
      BY <1>1, <2>1, <3>1 DEF CallInv, UrisOfEntities
    <3>3. waited[c][v] = e
      BY <1>4, <2>1, <3>2 DEF DistinctUris
    <3>4. QED
      BY <1>2, <1>3, <2>1, <3>3 DEF CallInv, OneUriAtATime, e
  <2>4. \A w \in Uri :
          /\ Number(messages, Downloads(w)) = IF TRUE /\ w = v THEN 1 ELSE 0
          /\ Number(messages, Acknowledgements(w)) =
               IF Head(outbox[c]) \in FreshReplies(w) THEN 1 ELSE 0
    <3> SUFFICES ASSUME NEW w \in Uri
                 PROVE  /\ Number(messages, Downloads(w)) = IF w = v THEN 1 ELSE 0
                        /\ Number(messages, Acknowledgements(w)) =
                             IF reply \in FreshReplies(w) THEN 1 ELSE 0
      BY DEF reply
    <3>1. /\ Number(Requests(e), Downloads(w)) = IF w = v THEN 1 ELSE 0
          /\ Number(Requests(e), Acknowledgements(w)) = 0
      BY <1>1, <1>4, <1>11, RequestsNumber DEF v
    <3>2. \A T : Number(messages, T) = Number(ack, T) + Number(Requests(e), T)
      BY <1>8, <2>1, NumberConcat
    <3> HIDE DEF messages
    <3>3. QED
      BY <1>9, <3>1, <3>2
  <2>5. \A j \in DOMAIN messages : messages[j].command = "download" =>
          TRUE /\ messages[j].uri = v /\ messages[j].targetPath = e
    <3>1. ASSUME NEW j \in DOMAIN messages
          PROVE  \/ \E i \in DOMAIN ack : messages[j] = ack[i]
                 \/ \E i \in DOMAIN Requests(e) : messages[j] = Requests(e)[i]
      <4>1. /\ DOMAIN ack = 1 .. Len(ack) /\ DOMAIN Requests(e) = 1 .. Len(Requests(e))
            /\ Len(ack) \in Nat /\ Len(Requests(e)) \in Nat
            /\ DOMAIN messages = 1 .. Len(ack) + Len(Requests(e))
            /\ messages[j] = IF j <= Len(ack) THEN ack[j] ELSE Requests(e)[j - Len(ack)]
        BY <1>8, <2>1, <2>2, LenProperties, ConcatProperties
      <4> HIDE DEF messages, ack
      <4>2. QED
        BY <4>1
    <3>2. \A i \in DOMAIN Requests(e) : Requests(e)[i].command = "download" =>
            Requests(e)[i].uri = v /\ Requests(e)[i].targetPath = e
      BY <1>1, <1>2, <1>4, <1>11, RequestsNumber DEF v
    <3>3. \A i \in DOMAIN ack : ack[i].command # "download"
      BY <1>2, <1>9
    <3> HIDE DEF messages, ack
    <3>4. QED
      BY <3>1, <3>2, <3>3
  <2>6. \A d \in Client, w \in Uri :
          waited'[d][w] = IF TRUE /\ d = c /\ w = v THEN e
                          ELSE IF d = c /\ w = u THEN NoEntity ELSE waited[d][w]
    BY <1>1, <1>2, <1>11, <2>1
  <2>7. inbox' = [inbox EXCEPT ![c] = @ \o messages]
    BY <1>10, <1>11
  <2>8. outbox[c] # <<>> /\ u = Head(outbox[c]).uri
    BY <1>1 DEF u, reply
  <2> HIDE DEF messages
  <2>9. AnswerStep(c, u, e, v, TRUE, messages)
    BY <1>5, <2>3, <2>4, <2>5, <2>6, <2>7, <2>8 DEF AnswerStep
  <2>10. QED
    BY <1>2, <1>4, <2>1, <2>2, <2>9, AnswerRequests
<1>12. CASE /\ ClientSends(c, Acknowledge(reply, result))
            /\ waited' = [waited EXCEPT ![c][u] = NoEntity]
  <2> DEFINE messages == Acknowledge(reply, result)
  <2>1. \A d \in Client, w \in Uri :
          waited'[d][w] = IF FALSE /\ d = c /\ w = u THEN e
                          ELSE IF d = c /\ w = u THEN NoEntity ELSE waited[d][w]
    BY <1>1, <1>2, <1>12
  <2>2. inbox' = [inbox EXCEPT ![c] = @ \o messages]
    BY <1>10, <1>12
  <2>3. outbox[c] # <<>> /\ u = Head(outbox[c]).uri
    BY <1>1 DEF u, reply
  <2>4. /\ \A w \in Uri :
             /\ Number(messages, Downloads(w)) = IF FALSE /\ w = u THEN 1 ELSE 0
             /\ Number(messages, Acknowledgements(w)) =
                  IF Head(outbox[c]) \in FreshReplies(w) THEN 1 ELSE 0
        /\ \A j \in DOMAIN messages : messages[j].command # "download"
    BY <1>2, <1>9 DEF reply
  <2> HIDE DEF messages
  <2>5. AnswerStep(c, u, e, u, FALSE, messages)
    BY <1>5, <2>1, <2>2, <2>3, <2>4 DEF AnswerStep
  <2>6. QED
    BY <1>2, <1>4, <1>8, <2>5, AnswerRequests DEF messages
<1>13. QED
  BY <1>6, <1>11, <1>12

-----------------------------------------------------------------------------
(* Steps of the worker and the performers *)

\* Steps which move no message and start no process.
LEMMA RequestsKept ==
  ASSUME WorkerInv,
         UNCHANGED <<workerQueue, onHold, activeDownloads, reaping, waited, inbox, outbox>>,
         \A u \in Uri : process'[u] # "none" => process[u] # "none"
  PROVE  WorkerInv'
<1>1. QueueIsShort' /\ PerformersArePiped' /\ OnePipePerTarget'
  BY DEF WorkerInv, QueueIsShort, PerformersArePiped, OnePipePerTarget, Piped, Active
<1>2. RequestsCounted'
  BY DEF WorkerInv, RequestsCounted, Count, Primary, Secondary, Replied, Active
<1>3. AcknowledgedOnce'
  BY DEF WorkerInv, AcknowledgedOnce, Acknowledged, Replied, Active
<1>4. TargetsAreWaited'
  BY DEF WorkerInv, TargetsAreWaited, IsWaited, Replied, Active
<1>5. QED
  BY <1>1, <1>2, <1>3, <1>4 DEF WorkerInv

LEMMA PerformerRequests ==
  ASSUME CallInv, WorkerInv, NEW u \in Uri, PerformerStep(u)
  PROVE  WorkerInv'
<1>1. process \in [Uri -> ProcessLife] /\ process[u] # "none"
  BY DEF CallInv, TypeInv, TypeOK, PerformerTypeOK, PerformerStep, ReportWrongSize, FinishPerform,
     PerformerExit, PerformerCrash
<1>2. \A v \in Uri : process'[v] # "none" => process[v] # "none"
  BY <1>1 DEF PerformerStep, ReportWrongSize, FinishPerform, PerformerExit, PerformerCrash,
     PerformerSends
<1>3. UNCHANGED <<workerQueue, onHold, activeDownloads, reaping, waited, inbox, outbox>>
  BY DEF PerformerStep, ReportWrongSize, FinishPerform, PerformerExit, PerformerCrash, workerVars,
     clientVars, callVars
<1>4. QED
  BY <1>2, <1>3, RequestsKept

\* The worker takes the only message of its queue.
LEMMA TakenFromQueue ==
  ASSUME TypeOK, QueueIsShort, workerQueue # <<>>
  PROVE  /\ reaping = NoUri
         /\ Tail(workerQueue) = <<>>
         /\ Head(workerQueue) \in InternalMessage
         /\ Head(workerQueue).command = "done" => Piped(Head(workerQueue).uri)
         /\ \A T : Number(workerQueue, T) = IF Head(workerQueue) \in T THEN 1 ELSE 0
         /\ \A i \in DOMAIN workerQueue : workerQueue[i] = Head(workerQueue)
<1>1. workerQueue \in Seq(InternalMessage)
  BY DEF TypeOK, WorkerTypeOK
<1>2. /\ Len(workerQueue) \in Nat /\ DOMAIN workerQueue = 1 .. Len(workerQueue)
      /\ Len(workerQueue) # 0 /\ Head(workerQueue) = workerQueue[1]
      /\ Head(workerQueue) \in InternalMessage
  BY <1>1, LenProperties, HeadTailProperties, EmptySeq
<1>3. 1 \in DOMAIN workerQueue /\ Len(workerQueue) \in DOMAIN workerQueue
  BY <1>2
<1>4. Len(workerQueue) = 1
  BY <1>3 DEF QueueIsShort
<1>5. workerQueue = <<Head(workerQueue)>> /\ Tail(workerQueue) = <<>>
  <2>1. Tail(workerQueue) \in Seq(InternalMessage) /\ Len(Tail(workerQueue)) = 0
    BY <1>1, <1>4, HeadTailProperties
  <2>2. Tail(workerQueue) = <<>>
    BY <2>1, EmptySeq
  <2>3. workerQueue = <<Head(workerQueue)>> \o Tail(workerQueue)
    BY <1>1
  <2>4. <<Head(workerQueue)>> \in Seq(InternalMessage)
    BY <1>2
  <2>5. <<Head(workerQueue)>> \o <<>> = <<Head(workerQueue)>>
    BY <2>4, ConcatEmptySeq
  <2>6. QED
    BY <2>2, <2>3, <2>5
<1>6. \A T : Number(workerQueue, T) = IF Head(workerQueue) \in T THEN 1 ELSE 0
  <2> DEFINE m == Head(workerQueue)
  <2>1. \A T : Number(<<m>>, T) = IF m \in T THEN 1 ELSE 0
    BY NumberOfOne
  <2>2. QED
    BY <1>5, <2>1
<1>7. QED
  BY <1>2, <1>3, <1>4, <1>5, <1>6 DEF QueueIsShort

LEMMA NothingQueued == ASSUME workerQueue = <<>> PROVE \A T : Number(workerQueue, T) = 0
BY NumberOfNone

LEMMA RepeatedReplies ==
  ASSUME NEW n \in Nat, NEW reply \in Reply
  PROVE  [i \in 1 .. n |-> reply] \in Seq(Reply)
BY IsASeq

\* sendSocketMessage to all sockets: each occurrence of a client gets a reply.
Answers(sockets, reply) == AllServed(sockets) /\ SendToAll(sockets, reply)

LEMMA RepliesNumber ==
  ASSUME TypeOK, NEW sockets \in Seq(Client), NEW reply \in Reply, Answers(sockets, reply)
  PROVE  \A c \in Client : \A T :
           /\ Number(sockets, {c}) \in Nat
           /\ Number(outbox[c], T) \in Nat
           /\ Number(outbox'[c], T) =
                Number(outbox[c], T) + (IF reply \in T THEN Number(sockets, {c}) ELSE 0)
<1> SUFFICES ASSUME NEW c \in Client, NEW T
             PROVE  /\ Number(sockets, {c}) \in Nat
                    /\ Number(outbox[c], T) \in Nat
                    /\ Number(outbox'[c], T) = Number(outbox[c], T)
                         + (IF reply \in T THEN Number(sockets, {c}) ELSE 0)
  OBVIOUS
<1> DEFINE n == Cardinality({j \in Served(sockets) : sockets[j] = c})
           replies == [i \in 1 .. n |-> reply]
<1>1. {j \in Served(sockets) : sockets[j] = c} = Hits(sockets, {c})
  BY DEF Answers, AllServed, Hits
<1>2. n = Number(sockets, {c}) /\ n \in Nat
  BY <1>1, NumberType DEF Number
<1>3. outbox'[c] = outbox[c] \o replies
  BY DEF Answers, SendToAll
<1> HIDE DEF n
<1>4. replies \in Seq(Reply)
  BY <1>2, RepeatedReplies
<1>5. Number(replies, T) = IF reply \in T THEN n ELSE 0
  <2>1. n \in Nat
    BY <1>2
  <2>2. QED
    BY <2>1, NumberRepeated, Zenon
<1>6. outbox[c] \in Seq(Reply)
  BY DEF TypeOK, ClientTypeOK
<1> HIDE DEF replies
<1>7. Number(outbox[c] \o replies, T) = Number(outbox[c], T) + Number(replies, T)
  BY <1>4, <1>6, NumberConcat
<1>8. QED
  BY <1>2, <1>3, <1>5, <1>6, <1>7, NumberType

LEMMA ReplyNumber ==
  ASSUME TypeOK, NEW s \in Client, NEW reply \in Reply, Answers(<<s>>, reply)
  PROVE  \A c \in Client : \A T :
           /\ Number(outbox[c], T) \in Nat
           /\ Number(outbox'[c], T) =
                Number(outbox[c], T) + (IF reply \in T /\ c = s THEN 1 ELSE 0)
<1> DEFINE sockets == <<s>>
<1>1. sockets \in Seq(Client) /\ Answers(sockets, reply)
  OBVIOUS
<1>2. \A c \in Client : Number(sockets, {c}) = IF c = s THEN 1 ELSE 0
  BY NumberOfOne
<1> HIDE DEF sockets
<1>3. \A c \in Client : \A T :
        /\ Number(sockets, {c}) \in Nat
        /\ Number(outbox[c], T) \in Nat
        /\ Number(outbox'[c], T) =
             Number(outbox[c], T) + (IF reply \in T THEN Number(sockets, {c}) ELSE 0)
  BY <1>1, RepliesNumber
<1>4. QED
  BY <1>2, <1>3

\* The return of waitpid().
LEMMA ReapRequests ==
  ASSUME CallInv, WorkerInv, Reap
  PROVE  WorkerInv'
<1> DEFINE u == reaping
<1>1. /\ Piped(u) /\ u \in Active /\ Active \subseteq Uri
      /\ activeDownloads \in [Active -> ActiveDownloadInfo]
      /\ process \in [Uri -> ProcessLife]
      /\ NoUri \notin Uri
  BY ConstantsAssumption DEF Reap, WorkerInv, PerformersArePiped, CallInv, TypeInv, TypeOK,
     WorkerTypeOK, PerformerTypeOK, Piped, ConstantsAssumption
<1>2. /\ process' = [process EXCEPT ![u] = "none"]
      /\ activeDownloads' = [activeDownloads EXCEPT ![u].piped = FALSE]
      /\ reaping' = NoUri /\ reaping # NoUri
      /\ UNCHANGED <<workerQueue, onHold, waited, inbox, outbox>>
  BY DEF Reap, clientVars, callVars
<1>3. Active' = Active
  BY <1>1, <1>2 DEF Active
<1>4. \A v \in Active :
        /\ activeDownloads'[v].waiterSocket = activeDownloads[v].waiterSocket
        /\ activeDownloads'[v].secondaryWaiterSockets = activeDownloads[v].secondaryWaiterSockets
        /\ activeDownloads'[v].targetPath = activeDownloads[v].targetPath
        /\ v # u => activeDownloads'[v] = activeDownloads[v]
        /\ ~activeDownloads'[u].piped
  BY <1>1, <1>2 DEF ActiveDownloadInfo
<1>5. \A v \in Active : Replied(v)' <=> Replied(v)
  BY <1>1, <1>2, <1>4 DEF Replied
<1>6. \A v \in Uri : Piped(v)' <=> Piped(v) /\ v # u
  BY <1>3, <1>4 DEF Piped
<1>7. QueueIsShort'
  BY <1>2 DEF WorkerInv, QueueIsShort
<1>8. PerformersArePiped'
  BY <1>1, <1>2, <1>6 DEF WorkerInv, PerformersArePiped
<1>9. RequestsCounted'
  <2>1. \A c \in Client, v \in Uri : Primary(c, v)' = Primary(c, v) /\ Secondary(c, v)' = Secondary(c, v)
    BY <1>3, <1>4, <1>5 DEF Primary, Secondary
  <2>2. QED
    BY <1>2, <2>1 DEF WorkerInv, RequestsCounted, Count
<1>10. AcknowledgedOnce'
  <2>1. \A c \in Client, v \in Uri : Acknowledged(c, v)' = Acknowledged(c, v)
    BY <1>3, <1>4, <1>5 DEF Acknowledged
  <2>2. QED
    BY <1>2, <2>1 DEF WorkerInv, AcknowledgedOnce
<1>11. TargetsAreWaited'
  BY <1>2, <1>3, <1>4, <1>5 DEF WorkerInv, TargetsAreWaited, IsWaited
<1>12. OnePipePerTarget'
  <2>1. \A v \in Active : v \in Uri
    BY DEF CallInv, TypeInv, TypeOK, WorkerTypeOK
  <2>2. QED
    BY <1>3, <1>4, <1>6, <2>1 DEF WorkerInv, OnePipePerTarget
<1>13. QED
  BY <1>7, <1>8, <1>9, <1>10, <1>11, <1>12 DEF WorkerInv

\* A worker which goes on has reached every socket.
LEMMA ServedOrDead ==
  ASSUME NEW sockets, DiesSending(sockets)
  PROVE  worker' # "running"
BY DEF DiesSending, Abort

\* A result: the one which waits for the download gets a fresh reply, and the
\* request ends there.
LEMMA PreliminaryRequests ==
  ASSUME CallInv, WorkerInv, worker' = "running", NEW u \in Uri, Piped(u), reaping = NoUri,
         NEW result \in Result, ProcessPreliminaryResult(u, result, <<>>),
         UNCHANGED <<waited, inbox>>,
         \A c \in Client, w \in Uri : Number(workerQueue, Proceeds(c, w)) = 0
  PROVE  WorkerInv'
<1> DEFINE s == activeDownloads[u].waiterSocket
           reply == [uri |-> u, result |-> result, isDuplicatedDownload |-> FALSE]
<1>1. /\ TypeOK /\ u \in Active /\ Active \subseteq Uri /\ s \in Client
      /\ reply \in Reply /\ <<s>> \in Seq(Client) /\ NoUri \notin Uri
  <2>1. TypeOK /\ u \in Active /\ Active \subseteq Uri /\ s \in Client
    BY DEF CallInv, TypeInv, TypeOK, WorkerTypeOK, Piped, ActiveDownloadInfo
  <2>2. reply \in Reply /\ NoUri \notin Uri
    BY ConstantsAssumption DEF Reply, ConstantsAssumption
  <2> HIDE DEF s
  <2>3. <<s>> \in Seq(Client)
    BY <2>1
  <2>4. QED
    BY <2>1, <2>2, <2>3
<1>2. /\ Answers(<<s>>, reply)
      /\ workerQueue' = <<>> /\ reaping' = u
      /\ UNCHANGED <<activeDownloads, onHold, process>>
  BY <1>1, ServedOrDead DEF ProcessPreliminaryResult, performerVars, Answers
<1> HIDE DEF reply
<1>3. \A c \in Client : \A T :
        /\ Number(outbox[c], T) \in Nat
        /\ Number(outbox'[c], T) =
             Number(outbox[c], T) + (IF reply \in T /\ c = s THEN 1 ELSE 0)
  <2> HIDE DEF s
  <2>1. QED
    BY <1>1, <1>2, ReplyNumber
<1>4. ASSUME NEW w \in Uri
      PROVE  (reply \in Replies(w) <=> w = u) /\ (reply \in FreshReplies(w) <=> w = u)
  BY <1>1 DEF Replies, FreshReplies, reply
<1>5. /\ ~Replied(u) /\ Replied(u)'
      /\ \A w \in Active : w # u => (Replied(w)' <=> Replied(w))
  BY <1>1, <1>2 DEF Replied, Piped
<1>6. ASSUME NEW c \in Client, NEW w \in Uri
      PROVE  /\ Primary(c, w)' = Primary(c, w) - (IF w = u /\ c = s THEN 1 ELSE 0)
             /\ Acknowledged(c, w)' = Acknowledged(c, w) + (IF w = u /\ c = s THEN 1 ELSE 0)
             /\ Secondary(c, w)' = Secondary(c, w)
  BY <1>1, <1>2, <1>5 DEF Primary, Acknowledged, Secondary, Active
<1>7. Active' = Active /\ \A w \in Uri : Piped(w)' <=> Piped(w)
  BY <1>2 DEF Active, Piped
<1>8. QueueIsShort' /\ PerformersArePiped' /\ OnePipePerTarget'
  BY <1>1, <1>2, <1>7
  DEF WorkerInv, QueueIsShort, PerformersArePiped, OnePipePerTarget
<1>9. RequestsCounted'
  <2> SUFFICES ASSUME NEW c \in Client, NEW w \in Uri
               PROVE  Count(c, w)' = IF waited'[c][w] = NoEntity THEN 0 ELSE 1
    BY DEF RequestsCounted
  <2> DEFINE n == IF w = u /\ c = s THEN 1 ELSE 0
  <2>1. n \in Int
    OBVIOUS
  <2>2. /\ Primary(c, w)' = Primary(c, w) - n
        /\ Secondary(c, w)' = Secondary(c, w)
        /\ Number(outbox'[c], Replies(w)) = Number(outbox[c], Replies(w)) + n
        /\ Number(workerQueue', Proceeds(c, w)) = 0
        /\ Number(workerQueue, Proceeds(c, w)) = 0
        /\ onHold' = onHold /\ inbox' = inbox
    BY <1>2, <1>3, <1>4, <1>6, NumberOfNone
  <2>3. Count(c, w)' = Number(inbox[c], Downloads(w)) + 0 + Number(onHold, Held(c, w))
                       + (Primary(c, w) - n) + Secondary(c, w)
                       + (Number(outbox[c], Replies(w)) + n)
    BY <2>2, NextCount
  <2>4. /\ Number(inbox[c], Downloads(w)) \in Nat /\ Number(onHold, Held(c, w)) \in Nat
        /\ Primary(c, w) \in Nat /\ Secondary(c, w) \in Nat
        /\ Number(outbox[c], Replies(w)) \in Nat
        /\ Count(c, w) = Number(inbox[c], Downloads(w)) + 0
                         + Number(onHold, Held(c, w)) + Primary(c, w) + Secondary(c, w)
                         + Number(outbox[c], Replies(w))
    BY <1>1, <2>2, CountParts
  <2> HIDE DEF n
  <2>5. Count(c, w)' = Count(c, w)
    BY <2>1, <2>3, <2>4
  <2>6. QED
    BY <2>5 DEF WorkerInv, RequestsCounted
<1>10. AcknowledgedOnce'
  <2> SUFFICES ASSUME NEW c \in Client, NEW w \in Uri
               PROVE  Number(inbox'[c], Acknowledgements(w)) + Number(outbox'[c], FreshReplies(w))
                        <= Acknowledged(c, w)'
    BY DEF AcknowledgedOnce
  <2>1. /\ Number(inbox[c], Acknowledgements(w)) \in Nat
        /\ Number(outbox[c], FreshReplies(w)) \in Nat
        /\ Acknowledged(c, w) \in Nat
    BY <1>1, CountTypes DEF Acknowledged
  <2>2. Number(inbox[c], Acknowledgements(w)) + Number(outbox[c], FreshReplies(w))
          <= Acknowledged(c, w)
    BY DEF WorkerInv, AcknowledgedOnce
  <2>3. QED
    BY <1>3, <1>4, <1>6, <2>1, <2>2
<1>11. TargetsAreWaited'
  BY <1>2, <1>5, <1>7 DEF WorkerInv, TargetsAreWaited, IsWaited
<1>12. QED
  BY <1>8, <1>9, <1>10, <1>11 DEF WorkerInv

-----------------------------------------------------------------------------
(* Internal messages *)

\* What a step adds to the six places of a request.
Flow(c, u, inboxes, queue, hold, primary, secondary, outboxes) ==
  /\ Number(inbox'[c], Downloads(u)) = Number(inbox[c], Downloads(u)) + inboxes
  /\ Number(workerQueue', Proceeds(c, u)) = Number(workerQueue, Proceeds(c, u)) + queue
  /\ Number(onHold', Held(c, u)) = Number(onHold, Held(c, u)) + hold
  /\ Primary(c, u)' = Primary(c, u) + primary
  /\ Secondary(c, u)' = Secondary(c, u) + secondary
  /\ Number(outbox'[c], Replies(u)) = Number(outbox[c], Replies(u)) + outboxes

LEMMA FlowCounts ==
  ASSUME TypeOK, RequestsCounted, waited' = waited, NEW c \in Client, NEW u \in Uri,
         NEW inboxes \in Int, NEW queue \in Int, NEW hold \in Int, NEW primary \in Int,
         NEW secondary \in Int, NEW outboxes \in Int,
         Flow(c, u, inboxes, queue, hold, primary, secondary, outboxes),
         inboxes + queue + hold + primary + secondary + outboxes = 0
  PROVE  Count(c, u)' = IF waited'[c][u] = NoEntity THEN 0 ELSE 1
<1>1. Count(c, u)' = (Number(inbox[c], Downloads(u)) + inboxes)
                     + (Number(workerQueue, Proceeds(c, u)) + queue)
                     + (Number(onHold, Held(c, u)) + hold) + (Primary(c, u) + primary)
                     + (Secondary(c, u) + secondary) + (Number(outbox[c], Replies(u)) + outboxes)
  BY NextCount DEF Flow
<1>2. /\ Number(inbox[c], Downloads(u)) \in Nat /\ Number(workerQueue, Proceeds(c, u)) \in Nat
      /\ Number(onHold, Held(c, u)) \in Nat /\ Primary(c, u) \in Nat /\ Secondary(c, u) \in Nat
      /\ Number(outbox[c], Replies(u)) \in Nat
      /\ Count(c, u) = Number(inbox[c], Downloads(u)) + Number(workerQueue, Proceeds(c, u))
                       + Number(onHold, Held(c, u)) + Primary(c, u) + Secondary(c, u)
                       + Number(outbox[c], Replies(u))
  BY CountParts
<1>3. Count(c, u)' = Count(c, u)
  BY <1>1, <1>2
<1>4. QED
  BY <1>3 DEF RequestsCounted

\* The wake-up of a request on hold is no request.
LEMMA WakeUp ==
  /\ PassOn(<<>>) = <<PopDownload>> /\ ScheduleNext(<<>>) = <<PopDownload>>
  /\ \A i \in DOMAIN <<PopDownload>> :
       i = 1 /\ <<PopDownload>>[i].command = "pop-download"
  /\ \A c \in Client, u \in Uri : Number(<<PopDownload>>, Proceeds(c, u)) = 0
<1>1. \A c, u : PopDownload \notin Proceeds(c, u)
  BY DEF PopDownload, Proceeds
<1>2. PopDownload.command = "pop-download"
  BY DEF PopDownload
<1>3. PassOn(<<>>) = <<PopDownload>> /\ ScheduleNext(<<>>) = <<PopDownload>>
  BY DEF PassOn, ScheduleNext
<1> HIDE DEF PopDownload
<1>4. \A c \in Client, u \in Uri : Number(<<PopDownload>>, Proceeds(c, u)) = 0
  BY <1>1, NumberOfOne
<1>5. QED
  BY <1>2, <1>3, <1>4

\* The message of a request counts once, for its client and URI.
LEMMA ProceedNumber ==
  ASSUME NEW m \in InternalMessage, m.command = "proceed-download"
  PROVE  /\ m.request \in Request
         /\ \A c \in Client, u \in Uri :
              m \in Proceeds(c, u) <=> m.request.uri = u /\ m.request.waiterSocket = c
BY DEF InternalMessage, Proceeds

\* What a request which the worker takes from its queue means.
LEMMA RequestTaken ==
  ASSUME CallInv, WorkerInv, workerQueue # <<>>,
         Head(workerQueue).command = "proceed-download"
  PROVE  LET r == Head(workerQueue).request
         IN  /\ reaping = NoUri
             /\ r \in Request
             /\ waited[r.waiterSocket][r.uri] = r.targetPath
             /\ \A c \in Client, w \in Uri : Number(workerQueue, Proceeds(c, w)) =
                  IF w = r.uri /\ c = r.waiterSocket THEN 1 ELSE 0
<1> DEFINE m == Head(workerQueue)
<1>1. /\ m \in InternalMessage /\ reaping = NoUri
      /\ \A T : Number(workerQueue, T) = IF m \in T THEN 1 ELSE 0
      /\ \A i \in DOMAIN workerQueue : workerQueue[i] = m
      /\ 1 \in DOMAIN workerQueue
  <2>1. TypeOK /\ QueueIsShort
    BY DEF CallInv, TypeInv, WorkerInv
  <2>2. workerQueue \in Seq(InternalMessage)
    BY <2>1 DEF TypeOK, WorkerTypeOK
  <2>3. 1 \in DOMAIN workerQueue
    BY <2>2, LenProperties, EmptySeq
  <2>4. QED
    BY <2>1, <2>3, TakenFromQueue
<1> HIDE DEF m
<1>2. /\ m.request \in Request
      /\ \A c \in Client, w \in Uri :
           m \in Proceeds(c, w) <=> m.request.uri = w /\ m.request.waiterSocket = c
  BY <1>1, ProceedNumber DEF m
<1>3. IsWaited(m.request)
  BY <1>1 DEF WorkerInv, TargetsAreWaited, m
<1>4. \A c \in Client, w \in Uri : Number(workerQueue, Proceeds(c, w)) =
         IF w = m.request.uri /\ c = m.request.waiterSocket THEN 1 ELSE 0
  BY <1>1, <1>2
<1>5. QED
  BY <1>1, <1>2, <1>3, <1>4 DEF IsWaited, m

\* The worker has taken request r out of its queue.
Taken(r) ==
  /\ r \in Request
  /\ reaping = NoUri
  /\ waited[r.waiterSocket][r.uri] = r.targetPath
  /\ \A c \in Client, w \in Uri : Number(workerQueue, Proceeds(c, w)) =
       IF w = r.uri /\ c = r.waiterSocket THEN 1 ELSE 0
  /\ UNCHANGED <<reaping, waited, inbox>>

\* proceedDownload: the URI was downloaded already, ...
LEMMA ProceedDone ==
  ASSUME CallInv, WorkerInv, NEW r, Taken(r), NEW reply \in Reply,
         reply.uri = r.uri, reply.isDuplicatedDownload, Answers(<<r.waiterSocket>>, reply),
         workerQueue' = <<PopDownload>>, UNCHANGED <<onHold, activeDownloads, process>>
  PROVE  WorkerInv'
<1> DEFINE s == r.waiterSocket
           u == r.uri
<1>1. /\ TypeOK /\ s \in Client /\ u \in Uri
      /\ UNCHANGED <<reaping, waited, inbox, onHold, activeDownloads, process>>
  BY DEF CallInv, TypeInv, Taken, Request
<1>2. \A c \in Client : \A T :
        /\ Number(outbox[c], T) \in Nat
        /\ Number(outbox'[c], T) =
             Number(outbox[c], T) + (IF reply \in T /\ c = s THEN 1 ELSE 0)
  <2>1. Answers(<<s>>, reply)
    OBVIOUS
  <2> HIDE DEF s
  <2>2. QED
    BY <1>1, <2>1, ReplyNumber
<1>3. \A w \in Uri : (reply \in Replies(w) <=> w = u) /\ reply \notin FreshReplies(w)
  BY DEF Replies, FreshReplies
<1>4. Active' = Active /\ \A w \in Uri : (Piped(w)' <=> Piped(w)) /\ (Replied(w)' <=> Replied(w))
  BY <1>1 DEF Active, Piped, Replied
<1>5. /\ \A i \in DOMAIN workerQueue' :
           i = 1 /\ workerQueue'[i].command = "pop-download"
      /\ \A c \in Client, w \in Uri : Number(workerQueue', Proceeds(c, w)) = 0
  BY WakeUp
<1>6. QueueIsShort' /\ PerformersArePiped' /\ OnePipePerTarget'
  <2>1. reaping' = NoUri
    BY DEF Taken
  <2>2. QED
    BY <1>1, <1>4, <1>5, <2>1
    DEF WorkerInv, QueueIsShort, PerformersArePiped, OnePipePerTarget, CallInv, TypeInv, TypeOK,
        WorkerTypeOK, Piped, Active
<1>7. RequestsCounted'
  <2> SUFFICES ASSUME NEW c \in Client, NEW w \in Uri
               PROVE  Count(c, w)' = IF waited'[c][w] = NoEntity THEN 0 ELSE 1
    BY DEF RequestsCounted
  <2> DEFINE n == IF w = u /\ c = s THEN 1 ELSE 0
  <2>1. n \in Int /\ -n \in Int /\ 0 \in Int /\ 0 + -n + 0 + 0 + 0 + n = 0
    OBVIOUS
  <2>2. Flow(c, w, 0, -n, 0, 0, 0, n)
    <3>1. /\ Number(workerQueue, Proceeds(c, w)) = n
          /\ Number(workerQueue', Proceeds(c, w)) = 0
      BY <1>5 DEF Taken
    <3>2. Number(outbox'[c], Replies(w)) = Number(outbox[c], Replies(w)) + n
      BY <1>2, <1>3
    <3>3. Primary(c, w)' = Primary(c, w) /\ Secondary(c, w)' = Secondary(c, w)
      BY <1>1, <1>4 DEF Primary, Secondary
    <3>4. /\ Number(inbox[c], Downloads(w)) \in Nat /\ Number(onHold, Held(c, w)) \in Nat
          /\ Primary(c, w) \in Nat /\ Secondary(c, w) \in Nat
      BY <1>1, CountTypes
    <3> HIDE DEF n
    <3>5. QED
      BY <1>1, <2>1, <3>1, <3>2, <3>3, <3>4 DEF Flow
  <2>3. RequestsCounted /\ waited' = waited
    BY <1>1 DEF WorkerInv
  <2> HIDE DEF n
  <2>4. QED
    BY <1>1, <2>1, <2>2, <2>3, FlowCounts
<1>8. AcknowledgedOnce'
  <2> SUFFICES ASSUME NEW c \in Client, NEW w \in Uri
               PROVE  Number(inbox'[c], Acknowledgements(w)) + Number(outbox'[c], FreshReplies(w))
                        <= Acknowledged(c, w)'
    BY DEF AcknowledgedOnce
  <2>1. Number(outbox'[c], FreshReplies(w)) = Number(outbox[c], FreshReplies(w))
    BY <1>2, <1>3
  <2>2. Acknowledged(c, w)' = Acknowledged(c, w)
    BY <1>1, <1>4 DEF Acknowledged
  <2>3. QED
    BY <1>1, <2>1, <2>2 DEF WorkerInv, AcknowledgedOnce
<1>9. TargetsAreWaited'
  <2>1. \A i \in DOMAIN workerQueue' : workerQueue'[i].command # "proceed-download"
    BY <1>5
  <2>2. \A w \in Active : w \in Uri
    BY <1>1 DEF TypeOK, WorkerTypeOK
  <2>3. QED
    BY <1>1, <1>4, <2>1, <2>2 DEF WorkerInv, TargetsAreWaited, IsWaited
<1>10. QED
  BY <1>6, <1>7, <1>8, <1>9 DEF WorkerInv

\* ... somebody else's request for it is under way, ...
LEMMA ProceedSecond ==
  ASSUME CallInv, WorkerInv, NEW r, Taken(r), r.uri \in Active,
         activeDownloads' = [activeDownloads EXCEPT
           ![r.uri].secondaryWaiterSockets = Append(@, r.waiterSocket)],
         workerQueue' = <<PopDownload>>, UNCHANGED <<onHold, process, outbox>>
  PROVE  WorkerInv'
<1> DEFINE s == r.waiterSocket
           u == r.uri
           waiters == activeDownloads[u].secondaryWaiterSockets
<1>1. /\ TypeOK /\ s \in Client /\ u \in Uri /\ u \in Active /\ Active \subseteq Uri
      /\ activeDownloads \in [Active -> ActiveDownloadInfo]
      /\ waiters \in Seq(Client)
      /\ UNCHANGED <<reaping, waited, inbox, onHold, process, outbox>>
  BY DEF CallInv, TypeInv, TypeOK, WorkerTypeOK, Taken, Request, ActiveDownloadInfo
<1>2. /\ Active' = Active
      /\ activeDownloads'[u].secondaryWaiterSockets = Append(waiters, s)
      /\ \A w \in Active :
           /\ activeDownloads'[w].waiterSocket = activeDownloads[w].waiterSocket
           /\ activeDownloads'[w].targetPath = activeDownloads[w].targetPath
           /\ activeDownloads'[w].piped <=> activeDownloads[w].piped
           /\ w # u => activeDownloads'[w] = activeDownloads[w]
  BY <1>1 DEF Active, ActiveDownloadInfo
<1>3. \A w \in Active : (Piped(w)' <=> Piped(w)) /\ (Replied(w)' <=> Replied(w))
  BY <1>1, <1>2 DEF Piped, Replied
<1>4. \A w \in Uri : Piped(w)' <=> Piped(w)
  BY <1>2, <1>3 DEF Piped
<1>5. /\ \A i \in DOMAIN workerQueue' :
           i = 1 /\ workerQueue'[i].command = "pop-download"
      /\ \A c \in Client, w \in Uri : Number(workerQueue', Proceeds(c, w)) = 0
  BY WakeUp
<1>6. QueueIsShort' /\ PerformersArePiped' /\ OnePipePerTarget'
  <2>1. reaping' = NoUri
    BY DEF Taken
  <2>2. QED
    BY <1>1, <1>2, <1>4, <1>5, <2>1
    DEF WorkerInv, QueueIsShort, PerformersArePiped, OnePipePerTarget
<1>7. RequestsCounted'
  <2> SUFFICES ASSUME NEW c \in Client, NEW w \in Uri
               PROVE  Count(c, w)' = IF waited'[c][w] = NoEntity THEN 0 ELSE 1
    BY DEF RequestsCounted
  <2> DEFINE n == IF w = u /\ c = s THEN 1 ELSE 0
  <2>1. n \in Int /\ -n \in Int /\ 0 \in Int /\ 0 + -n + 0 + 0 + n + 0 = 0
    OBVIOUS
  <2>2. Flow(c, w, 0, -n, 0, 0, n, 0)
    <3>1. /\ Number(workerQueue, Proceeds(c, w)) = n
          /\ Number(workerQueue', Proceeds(c, w)) = 0
      BY <1>5 DEF Taken
    <3>2. Secondary(c, w)' = Secondary(c, w) + n
      <4>1. Number(Append(waiters, s), {c}) = Number(waiters, {c}) + (IF s \in {c} THEN 1 ELSE 0)
        BY <1>1, NumberAppend
      <4>2. Number(waiters, {c}) \in Nat /\ Secondary(c, w) \in Nat
        BY <1>1, CountTypes, NumberType
      <4>3. CASE w = u
        BY <1>1, <1>2, <4>1, <4>2, <4>3 DEF Secondary
      <4>4. CASE w # u
        BY <1>2, <4>2, <4>4 DEF Secondary
      <4>5. QED
        BY <4>3, <4>4
    <3>3. Primary(c, w)' = Primary(c, w)
      BY <1>2, <1>3 DEF Primary
    <3>4. /\ Number(inbox[c], Downloads(w)) \in Nat /\ Number(onHold, Held(c, w)) \in Nat
          /\ Primary(c, w) \in Nat /\ Number(outbox[c], Replies(w)) \in Nat
      BY <1>1, CountTypes
    <3> HIDE DEF n
    <3>5. QED
      BY <1>1, <2>1, <3>1, <3>2, <3>3, <3>4 DEF Flow
  <2>3. RequestsCounted /\ waited' = waited
    BY <1>1 DEF WorkerInv
  <2> HIDE DEF n
  <2>4. QED
    BY <1>1, <2>1, <2>2, <2>3, FlowCounts
<1>8. AcknowledgedOnce'
  <2>1. \A c \in Client, w \in Uri : Acknowledged(c, w)' = Acknowledged(c, w)
    BY <1>2, <1>3 DEF Acknowledged
  <2>2. QED
    BY <1>1, <2>1 DEF WorkerInv, AcknowledgedOnce
<1>9. TargetsAreWaited'
  <2>1. \A i \in DOMAIN workerQueue' : workerQueue'[i].command # "proceed-download"
    BY <1>5
  <2>2. TargetsAreWaited /\ waited' = waited /\ inbox' = inbox /\ onHold' = onHold
    BY <1>1 DEF WorkerInv
  <2>3. \A w \in Active' : ~Replied(w)' =>
          waited'[activeDownloads'[w].waiterSocket][w] = activeDownloads'[w].targetPath
    BY <1>1, <1>2, <1>3, <2>2 DEF TargetsAreWaited
  <2>4. /\ \A d \in Client : \A i \in DOMAIN inbox'[d] :
             inbox'[d][i].command = "download"
               => waited'[d][inbox'[d][i].uri] = inbox'[d][i].targetPath
        /\ \A i \in DOMAIN onHold' : IsWaited(onHold[i])'
    BY <2>2 DEF TargetsAreWaited, IsWaited
  <2>5. \A i \in DOMAIN workerQueue' :
          workerQueue'[i].command = "proceed-download" => IsWaited(workerQueue[i].request)'
    BY <2>1
  <2>6. QED
    BY <2>3, <2>4, <2>5 DEF TargetsAreWaited
<1>10. QED
  BY <1>6, <1>7, <1>8, <1>9 DEF WorkerInv

\* ... there is no free slot, ...
LEMMA ProceedHeld ==
  ASSUME CallInv, WorkerInv, NEW r, Taken(r), workerQueue' = <<>>,
         onHold' = Append(onHold, r), UNCHANGED <<activeDownloads, process, outbox>>
  PROVE  WorkerInv'
<1> DEFINE s == r.waiterSocket
           u == r.uri
<1>1. /\ TypeOK /\ s \in Client /\ u \in Uri /\ r \in Request
      /\ onHold \in Seq(Request)
      /\ UNCHANGED <<reaping, waited, inbox, activeDownloads, process, outbox>>
  BY DEF CallInv, TypeInv, TypeOK, WorkerTypeOK, Taken, Request
<1>2. Active' = Active /\ \A w \in Uri : (Piped(w)' <=> Piped(w)) /\ (Replied(w)' <=> Replied(w))
  BY <1>1 DEF Active, Piped, Replied
<1>3. QueueIsShort' /\ PerformersArePiped' /\ OnePipePerTarget'
  BY <1>1, <1>2 DEF WorkerInv, QueueIsShort, PerformersArePiped, OnePipePerTarget, Piped, Active
<1>4. RequestsCounted'
  <2> SUFFICES ASSUME NEW c \in Client, NEW w \in Uri
               PROVE  Count(c, w)' = IF waited'[c][w] = NoEntity THEN 0 ELSE 1
    BY DEF RequestsCounted
  <2> DEFINE n == IF w = u /\ c = s THEN 1 ELSE 0
  <2>1. n \in Int /\ -n \in Int /\ 0 \in Int /\ 0 + -n + n + 0 + 0 + 0 = 0
    OBVIOUS
  <2>2. Flow(c, w, 0, -n, n, 0, 0, 0)
    <3>1. /\ Number(workerQueue, Proceeds(c, w)) = n
          /\ Number(workerQueue', Proceeds(c, w)) = 0
      BY NumberOfNone DEF Taken
    <3>2. Number(onHold', Held(c, w)) = Number(onHold, Held(c, w)) + n
      <4>1. Number(Append(onHold, r), Held(c, w)) =
              Number(onHold, Held(c, w)) + (IF r \in Held(c, w) THEN 1 ELSE 0)
        BY <1>1, NumberAppend
      <4>2. r \in Held(c, w) <=> w = u /\ c = s
        BY <1>1 DEF Held
      <4>3. QED
        BY <4>1, <4>2
    <3>3. Primary(c, w)' = Primary(c, w) /\ Secondary(c, w)' = Secondary(c, w)
      BY <1>1, <1>2 DEF Primary, Secondary
    <3>4. /\ Number(inbox[c], Downloads(w)) \in Nat /\ Secondary(c, w) \in Nat
          /\ Primary(c, w) \in Nat /\ Number(outbox[c], Replies(w)) \in Nat
      BY <1>1, CountTypes
    <3> HIDE DEF n
    <3>5. QED
      BY <1>1, <2>1, <3>1, <3>2, <3>3, <3>4 DEF Flow
  <2>3. RequestsCounted /\ waited' = waited
    BY <1>1 DEF WorkerInv
  <2> HIDE DEF n
  <2>4. QED
    BY <1>1, <2>1, <2>2, <2>3, FlowCounts
<1>5. AcknowledgedOnce'
  BY <1>1, <1>2 DEF WorkerInv, AcknowledgedOnce, Acknowledged
<1>6. TargetsAreWaited'
  <2>1. /\ DOMAIN onHold = 1 .. Len(onHold) /\ Len(onHold) \in Nat
        /\ DOMAIN onHold' = 1 .. Len(onHold) + 1
        /\ \A i \in 1 .. Len(onHold) : onHold'[i] = onHold[i]
        /\ onHold'[Len(onHold) + 1] = r
    BY <1>1, AppendProperties, LenProperties
  <2>2. ASSUME NEW i \in DOMAIN onHold'
        PROVE  waited'[onHold'[i].waiterSocket][onHold'[i].uri] = onHold'[i].targetPath
    <3>1. CASE i \in DOMAIN onHold
      BY <1>1, <2>1, <3>1 DEF WorkerInv, TargetsAreWaited, IsWaited
    <3>2. CASE onHold'[i] = r
      BY <1>1, <3>2 DEF Taken
    <3>3. QED
      BY <2>1, <3>1, <3>2
  <2>3. \A w \in Active : w \in Uri
    BY <1>1 DEF TypeOK, WorkerTypeOK
  <2>4. QED
    BY <1>1, <1>2, <2>2, <2>3 DEF WorkerInv, TargetsAreWaited, IsWaited
<1>7. QED
  BY <1>3, <1>4, <1>5, <1>6 DEF WorkerInv

\* ... or the download starts.  A target path which is being written to belongs
\* to the same entity, and that is waited for under one URI at a time.
LEMMA ProceedStarts ==
  ASSUME CallInv, WorkerInv, NEW r, Taken(r), r.uri \notin Active, AddActive(r),
         process' = [process EXCEPT ![r.uri] = "started"], workerQueue' = <<>>,
         UNCHANGED <<onHold, outbox>>
  PROVE  WorkerInv'
<1> DEFINE s == r.waiterSocket
           u == r.uri
<1>1. /\ TypeOK /\ s \in Client /\ u \in Uri /\ u \notin Active /\ Active \subseteq Uri
      /\ r.targetPath \in Entity
      /\ activeDownloads \in [Active -> ActiveDownloadInfo]
      /\ process \in [Uri -> ProcessLife]
      /\ reaping = NoUri /\ reaping' = NoUri /\ NoUri \notin Uri /\ NoEntity \notin Entity
      /\ waited[s][u] = r.targetPath
      /\ UNCHANGED <<waited, inbox, onHold, outbox>>
  BY ConstantsAssumption DEF CallInv, TypeInv, TypeOK, WorkerTypeOK, PerformerTypeOK, Taken,
     Request, ConstantsAssumption
<1>2. /\ Active' = Active \cup {u}
      /\ \A w \in Active : activeDownloads'[w] = activeDownloads[w]
      /\ activeDownloads'[u].waiterSocket = s
      /\ activeDownloads'[u].secondaryWaiterSockets = <<>>
      /\ activeDownloads'[u].targetPath = r.targetPath
      /\ activeDownloads'[u].piped = TRUE
  BY <1>1 DEF AddActive, Active, Info
<1>3. /\ ~Replied(u)'
      /\ \A w \in Active : Replied(w)' <=> Replied(w)
      /\ \A w \in Uri : Piped(w)' <=> Piped(w) \/ w = u
  BY <1>1, <1>2 DEF Replied, Piped
<1>4. ASSUME NEW c \in Client, NEW w \in Uri
      PROVE  /\ Primary(c, w)' = Primary(c, w) + (IF w = u /\ c = s THEN 1 ELSE 0)
             /\ Secondary(c, w)' = Secondary(c, w)
             /\ Acknowledged(c, w)' = Acknowledged(c, w)
  <2>1. CASE w = u
    <3>1. Primary(c, u) = 0 /\ Secondary(c, u) = 0 /\ Acknowledged(c, u) = 0
      BY <1>1 DEF Primary, Secondary, Acknowledged
    <3>2. /\ Primary(c, u)' = IF c = s THEN 1 ELSE 0
          /\ Acknowledged(c, u)' = 0
      BY <1>2, <1>3 DEF Primary, Acknowledged
    <3>3. Secondary(c, u)' = 0
      BY <1>2, NumberOfNone DEF Secondary
    <3>4. QED
      BY <2>1, <3>1, <3>2, <3>3
  <2>2. CASE w # u
    <3>1. w \in Active' <=> w \in Active
      BY <1>2, <2>2
    <3>2. Primary(c, w)' = Primary(c, w) /\ Acknowledged(c, w)' = Acknowledged(c, w)
      BY <1>2, <1>3, <3>1 DEF Primary, Acknowledged
    <3>3. Secondary(c, w)' = Secondary(c, w)
      BY <1>2, <3>1 DEF Secondary
    <3>4. Primary(c, w) \in Nat
      BY <1>1, CountTypes
    <3>5. QED
      BY <2>2, <3>2, <3>3, <3>4
  <2>3. QED
    BY <2>1, <2>2
<1>5. QueueIsShort'
  BY DEF QueueIsShort
<1>6. PerformersArePiped'
  BY <1>1, <1>3 DEF WorkerInv, PerformersArePiped
<1>7. RequestsCounted'
  <2> SUFFICES ASSUME NEW c \in Client, NEW w \in Uri
               PROVE  Count(c, w)' = IF waited'[c][w] = NoEntity THEN 0 ELSE 1
    BY DEF RequestsCounted
  <2> DEFINE n == IF w = u /\ c = s THEN 1 ELSE 0
  <2>1. n \in Int /\ -n \in Int /\ 0 \in Int /\ 0 + -n + 0 + n + 0 + 0 = 0
    OBVIOUS
  <2>2. Flow(c, w, 0, -n, 0, n, 0, 0)
    <3>1. /\ Number(workerQueue, Proceeds(c, w)) = n
          /\ Number(workerQueue', Proceeds(c, w)) = 0
      BY NumberOfNone DEF Taken
    <3>2. Primary(c, w)' = Primary(c, w) + n /\ Secondary(c, w)' = Secondary(c, w)
      BY <1>4
    <3>3. /\ Number(inbox[c], Downloads(w)) \in Nat /\ Secondary(c, w) \in Nat
          /\ Number(onHold, Held(c, w)) \in Nat /\ Number(outbox[c], Replies(w)) \in Nat
      BY <1>1, CountTypes
    <3> HIDE DEF n
    <3>4. QED
      BY <1>1, <2>1, <3>1, <3>2, <3>3 DEF Flow
  <2>3. RequestsCounted /\ waited' = waited
    BY <1>1 DEF WorkerInv
  <2> HIDE DEF n
  <2>4. QED
    BY <1>1, <2>1, <2>2, <2>3, FlowCounts
<1>8. AcknowledgedOnce'
  BY <1>1, <1>4 DEF WorkerInv, AcknowledgedOnce
<1>9. TargetsAreWaited'
  BY <1>1, <1>2, <1>3 DEF WorkerInv, TargetsAreWaited, IsWaited
<1>10. OnePipePerTarget'
  <2>1. ASSUME NEW v \in Active, Piped(v), activeDownloads[v].targetPath = r.targetPath
        PROVE  FALSE
    <3> DEFINE t == activeDownloads[v].waiterSocket
    <3>1. t \in Client /\ v \in Uri
      BY <1>1 DEF ActiveDownloadInfo
    <3>2. waited[t][v] = r.targetPath
      BY <1>1, <2>1 DEF WorkerInv, TargetsAreWaited, Replied, Piped
    <3>3. t = Owner[r.targetPath] /\ s = Owner[r.targetPath]
      BY <1>1, <3>1, <3>2 DEF CallInv, UrisOfEntities
    <3>4. v = u
      BY <1>1, <3>1, <3>2, <3>3 DEF CallInv, OneUriAtATime
    <3>5. QED
      BY <1>1, <3>4
  <2>2. \A w \in Active : w \in Uri /\ w # u
    BY <1>1
  <2>3. QED
    BY <1>1, <1>2, <1>3, <2>1, <2>2 DEF WorkerInv, OnePipePerTarget
<1>11. QED
  BY <1>5, <1>6, <1>7, <1>8, <1>9, <1>10 DEF WorkerInv

\* "pop-download": the first request on hold goes to the queue.
LEMMA PopRequests ==
  ASSUME CallInv, WorkerInv, workerQueue # <<>>,
         Head(workerQueue).command = "pop-download", PopOnHold(<<>>), worker' = "running",
         UNCHANGED <<waited, inbox>>
  PROVE  WorkerInv'
<1>1. /\ TypeOK /\ onHold \in Seq(Request) /\ Active \subseteq Uri
      /\ reaping' = reaping /\ UNCHANGED <<activeDownloads, process, waited, inbox, outbox>>
  BY DEF CallInv, TypeInv, TypeOK, WorkerTypeOK, PopOnHold, performerVars
<1>2. /\ reaping = NoUri
      /\ \A c \in Client, w \in Uri : Number(workerQueue, Proceeds(c, w)) = 0
  <2>1. QueueIsShort
    BY DEF WorkerInv
  <2>2. \A c, w : Head(workerQueue) \notin Proceeds(c, w)
    BY DEF Proceeds
  <2>3. QED
    BY <1>1, <2>1, <2>2, TakenFromQueue
<1>3. Active' = Active /\ \A w \in Uri : (Piped(w)' <=> Piped(w)) /\ (Replied(w)' <=> Replied(w))
  BY <1>1 DEF Active, Piped, Replied
<1>4. PerformersArePiped' /\ OnePipePerTarget'
  BY <1>1, <1>3 DEF WorkerInv, PerformersArePiped, OnePipePerTarget, Piped, Active
<1>5. AcknowledgedOnce'
  BY <1>1, <1>3 DEF WorkerInv, AcknowledgedOnce, Acknowledged
<1>6. \A c \in Client, w \in Uri : Primary(c, w)' = Primary(c, w) /\ Secondary(c, w)' = Secondary(c, w)
  BY <1>1, <1>3 DEF Primary, Secondary
<1>7. CASE onHold = <<>>
  <2>1. workerQueue' = <<>> /\ onHold' = onHold
    BY <1>7 DEF PopOnHold
  <2>2. QueueIsShort'
    BY <2>1 DEF QueueIsShort
  <2>3. RequestsCounted'
    <3> SUFFICES ASSUME NEW c \in Client, NEW w \in Uri
                 PROVE  Count(c, w)' = Count(c, w)
      BY <1>1 DEF WorkerInv, RequestsCounted
    <3>1. Number(workerQueue', Proceeds(c, w)) = Number(workerQueue, Proceeds(c, w))
      BY <1>2, <2>1, NumberOfNone
    <3>2. QED
      BY <1>1, <1>6, <2>1, <3>1 DEF Count
  <2>4. TargetsAreWaited'
    BY <1>1, <1>3, <2>1 DEF WorkerInv, TargetsAreWaited, IsWaited
  <2>5. QED
    BY <1>4, <1>5, <2>2, <2>3, <2>4 DEF WorkerInv
<1>8. CASE onHold # <<>>
  <2> DEFINE r == Head(onHold)
             m == Proceed(r)
  <2>1. /\ r \in Request /\ Tail(onHold) \in Seq(Request)
        /\ r = onHold[1] /\ 1 \in DOMAIN onHold
        /\ DOMAIN Tail(onHold) = 1 .. Len(onHold) - 1
        /\ \A i \in 1 .. Len(onHold) - 1 : Tail(onHold)[i] = onHold[i + 1]
        /\ Len(onHold) \in Nat /\ DOMAIN onHold = 1 .. Len(onHold)
    BY <1>1, <1>8, HeadTailProperties, LenProperties
  <2>2. /\ m \in InternalMessage /\ m.command = "proceed-download" /\ m.request = r
    BY <2>1 DEF Proceed, InternalMessage
  <2>3. \A c \in Client, w \in Uri :
          m \in Proceeds(c, w) <=> r.uri = w /\ r.waiterSocket = c
    BY <2>2 DEF Proceeds
  <2>4. workerQueue' = <<m>> /\ onHold' = Tail(onHold)
    BY <1>8 DEF PopOnHold
  <2> HIDE DEF m
  <2>5. DOMAIN workerQueue' = {1} /\ workerQueue'[1] = m
    BY <2>4
  <2>6. QueueIsShort'
    BY <1>1, <1>2, <2>2, <2>5 DEF QueueIsShort
  <2>7. RequestsCounted'
    <3> SUFFICES ASSUME NEW c \in Client, NEW w \in Uri
                 PROVE  Count(c, w)' = IF waited'[c][w] = NoEntity THEN 0 ELSE 1
      BY DEF RequestsCounted
    <3> DEFINE n == IF w = r.uri /\ c = r.waiterSocket THEN 1 ELSE 0
    <3>1. n \in Int /\ -n \in Int /\ 0 \in Int /\ 0 + n + -n + 0 + 0 + 0 = 0
      OBVIOUS
    <3>2. Flow(c, w, 0, n, -n, 0, 0, 0)
      <4>1. /\ Number(workerQueue', Proceeds(c, w)) = n
            /\ Number(workerQueue, Proceeds(c, w)) = 0
        BY <1>2, <2>3, <2>4, NumberOfOne
      <4>2. Number(onHold', Held(c, w)) = Number(onHold, Held(c, w)) - n
        <5>1. Number(Tail(onHold), Held(c, w)) =
                Number(onHold, Held(c, w)) - (IF r \in Held(c, w) THEN 1 ELSE 0)
          BY <1>1, <1>8, NumberTail
        <5>2. r \in Held(c, w) <=> w = r.uri /\ c = r.waiterSocket
          BY <2>1 DEF Held
        <5> HIDE DEF r
        <5>3. QED
          BY <2>4, <5>1, <5>2
      <4>3. /\ Number(inbox[c], Downloads(w)) \in Nat /\ Secondary(c, w) \in Nat
            /\ Primary(c, w) \in Nat /\ Number(outbox[c], Replies(w)) \in Nat
            /\ Number(onHold, Held(c, w)) \in Nat
        BY <1>1, CountTypes
      <4> HIDE DEF n
      <4>4. QED
        BY <1>1, <1>6, <3>1, <4>1, <4>2, <4>3 DEF Flow
    <3>3. RequestsCounted /\ waited' = waited
      BY <1>1 DEF WorkerInv
    <3> HIDE DEF n
    <3>4. QED
      BY <1>1, <3>1, <3>2, <3>3, FlowCounts
  <2>8. TargetsAreWaited'
    <3>1. \A i \in DOMAIN onHold' : i + 1 \in DOMAIN onHold /\ onHold'[i] = onHold[i + 1]
      BY <2>1, <2>4
    <3>2. ASSUME NEW i \in DOMAIN onHold'
          PROVE  waited'[onHold'[i].waiterSocket][onHold'[i].uri] = onHold'[i].targetPath
      BY <1>1, <3>1 DEF WorkerInv, TargetsAreWaited, IsWaited
    <3>3. waited'[m.request.waiterSocket][m.request.uri] = m.request.targetPath
      BY <1>1, <2>1, <2>2 DEF WorkerInv, TargetsAreWaited, IsWaited
    <3>4. QED
      BY <1>1, <1>3, <2>5, <3>2, <3>3 DEF WorkerInv, TargetsAreWaited, IsWaited
  <2>9. QED
    BY <1>4, <1>5, <2>6, <2>7, <2>8 DEF WorkerInv
<1>9. QED
  BY <1>7, <1>8

LEMMA ProceedRequests ==
  ASSUME CallInv, WorkerInv, worker' = "running", NEW r, Taken(r), ProceedDownload(r, <<>>)
  PROVE  WorkerInv'
<1>1. /\ TypeOK /\ r \in Request /\ r.waiterSocket \in Client /\ r.uri \in Uri
      /\ workerQueue' \in {<<>>, <<PopDownload>>}
  BY WakeUp DEF CallInv, TypeInv, Taken, Request, ProceedDownload
<1>2. CASE IsDone(r.uri)
  <2> DEFINE reply == [uri |-> r.uri, result |-> done[r.uri], isDuplicatedDownload |-> TRUE]
             sockets == <<r.waiterSocket>>
  <2>1. done[r.uri] \in Result
    BY <1>1, <1>2 DEF IsDone, TypeOK, WorkerTypeOK
  <2>2. reply \in Reply /\ reply.uri = r.uri /\ reply.isDuplicatedDownload
    BY <1>1, <2>1 DEF Reply
  <2>3. /\ SendToAll(sockets, reply) /\ workerQueue' = PassOn(<<>>)
        /\ \/ AllServed(sockets) /\ UNCHANGED performerVars
           \/ DiesSending(sockets)
        /\ UNCHANGED <<activeDownloads, onHold>>
    BY <1>2 DEF ProceedDownload, Startable
  <2> HIDE DEF reply
  <2>4. Answers(sockets, reply) /\ UNCHANGED <<process, onHold, activeDownloads>>
    BY <2>3, ServedOrDead DEF Answers, performerVars
  <2>5. workerQueue' = <<PopDownload>>
    BY <2>3, WakeUp
  <2>6. QED
    BY <2>2, <2>4, <2>5, ProceedDone
<1>3. CASE ~IsDone(r.uri) /\ r.uri \in Active
  <2>1. /\ activeDownloads' = [activeDownloads EXCEPT
             ![r.uri].secondaryWaiterSockets = Append(@, r.waiterSocket)]
        /\ workerQueue' = PassOn(<<>>)
        /\ UNCHANGED <<onHold, process, outbox>>
    BY <1>3 DEF ProceedDownload, Startable, performerVars
  <2>2. workerQueue' = <<PopDownload>>
    BY <2>1, WakeUp
  <2>3. QED
    BY <1>3, <2>1, <2>2, ProceedSecond
<1>4. CASE ~IsDone(r.uri) /\ r.uri \notin Active /\ ~HasFreeSlot
  <2>1. /\ onHold' = Append(onHold, r) /\ workerQueue' = <<>>
        /\ UNCHANGED <<activeDownloads, process, outbox>>
    BY <1>4 DEF ProceedDownload, Startable, performerVars
  <2>2. QED
    BY <2>1, ProceedHeld
<1>5. CASE Startable(r)
  <2>1. /\ r.uri \notin Active /\ AddActive(r)
        /\ process' = [process EXCEPT ![r.uri] = "started"]
        /\ workerQueue' = <<>> /\ UNCHANGED <<onHold, outbox>>
    BY <1>5 DEF ProceedDownload, Startable, StartNewDownload
  <2>2. QED
    BY <2>1, ProceedStarts
<1>6. QED
  BY <1>2, <1>3, <1>4, <1>5 DEF Startable

LEMMA InternalRequests ==
  ASSUME CallInv, WorkerInv, worker' = "running", HandleInternal
  PROVE  WorkerInv'
<1> DEFINE m == Head(workerQueue)
<1>1. TypeOK /\ QueueIsShort /\ workerQueue # <<>> /\ UNCHANGED <<waited, inbox>>
  BY DEF CallInv, TypeInv, WorkerInv, HandleInternal, callVars
<1>2. /\ reaping = NoUri /\ Tail(workerQueue) = <<>> /\ m \in InternalMessage
      /\ m.command = "done" => Piped(m.uri)
      /\ \A T : Number(workerQueue, T) = IF m \in T THEN 1 ELSE 0
  BY <1>1, TakenFromQueue
<1>3. \/ m.command = "proceed-download" /\ ProceedDownload(m.request, <<>>)
      \/ m.command = "pop-download" /\ PopOnHold(<<>>)
      \/ m.command = "done" /\ ProcessPreliminaryResult(m.uri, m.result, <<>>)
  BY <1>2 DEF HandleInternal
<1>4. CASE m.command = "proceed-download" /\ ProceedDownload(m.request, <<>>)
  <2> DEFINE r == m.request
  <2>1. /\ reaping = NoUri /\ r \in Request
        /\ waited[r.waiterSocket][r.uri] = r.targetPath
        /\ \A c \in Client, w \in Uri : Number(workerQueue, Proceeds(c, w)) =
             IF w = r.uri /\ c = r.waiterSocket THEN 1 ELSE 0
    BY <1>1, <1>4, RequestTaken
  <2>2. reaping' = reaping
    BY <1>4 DEF ProceedDownload
  <2>3. Taken(r)
    BY <1>1, <2>1, <2>2 DEF Taken
  <2>4. ProceedDownload(r, <<>>)
    BY <1>4
  <2> HIDE DEF r
  <2>5. QED
    BY <2>3, <2>4, ProceedRequests
<1>5. CASE m.command = "pop-download" /\ PopOnHold(<<>>)
  BY <1>1, <1>5, PopRequests
<1>6. CASE m.command = "done" /\ ProcessPreliminaryResult(m.uri, m.result, <<>>)
  <2>1. m.uri \in Uri /\ m.result \in Result /\ Piped(m.uri)
    BY <1>2, <1>6 DEF InternalMessage
  <2>2. \A c \in Client, w \in Uri : m \notin Proceeds(c, w)
    BY <1>6 DEF Proceeds
  <2>3. \A c \in Client, w \in Uri : Number(workerQueue, Proceeds(c, w)) = 0
    BY <1>2, <2>2
  <2>4. QED
    BY <1>1, <1>2, <1>6, <2>1, <2>3, PreliminaryRequests
<1>7. QED
  BY <1>3, <1>4, <1>5, <1>6

-----------------------------------------------------------------------------
(* Messages of the performers *)

\* killPerformerBecauseOfWrongSize.
LEMMA ProgressRequests ==
  ASSUME CallInv, WorkerInv, NEW u \in Uri, Piped(u), reaping = NoUri, workerQueue = <<>>,
         ProcessProgressMessage(u)
  PROVE  WorkerInv'
<1>1. /\ process \in [Uri -> ProcessLife] /\ Active \subseteq Uri
      /\ UNCHANGED <<reaping, activeDownloads, onHold, waited, inbox, outbox>>
  BY DEF CallInv, TypeInv, TypeOK, PerformerTypeOK, WorkerTypeOK, ProcessProgressMessage,
     clientVars, callVars
<1>2. CASE u \notin sizes
  <2>1. UNCHANGED <<workerQueue, process>>
    BY <1>2 DEF ProcessProgressMessage, performerVars
  <2>2. QED
    BY <1>1, <2>1, RequestsKept
<1>3. CASE u \in sizes
  <2> DEFINE m == [command |-> "done", uri |-> u, result |-> "error"]
  <2>1. /\ Sigterm({u}) /\ workerQueue' = <<m>>
    BY <1>3 DEF ProcessProgressMessage
  <2>2. \A v \in Uri : process'[v] # "none" => process[v] # "none"
    BY <1>1, <2>1 DEF Sigterm
  <2>3. \A c \in Client, w \in Uri : m \notin Proceeds(c, w)
    BY DEF Proceeds
  <2>4. m.command = "done" /\ m.uri = u
    OBVIOUS
  <2> HIDE DEF m
  <2>5. DOMAIN workerQueue' = {1} /\ workerQueue'[1] = m
    BY <2>1
  <2>6. Active' = Active /\ \A w \in Uri : (Piped(w)' <=> Piped(w)) /\ (Replied(w)' <=> Replied(w))
    BY <1>1 DEF Active, Piped, Replied
  <2>7. QueueIsShort'
    <3>1. Piped(u)'
      BY <2>6
    <3>2. QED
      BY <1>1, <2>4, <2>5, <3>1 DEF QueueIsShort, Piped
  <2>8. PerformersArePiped' /\ OnePipePerTarget'
    BY <1>1, <2>2, <2>6 DEF WorkerInv, PerformersArePiped, OnePipePerTarget, Piped, Active
  <2>9. RequestsCounted'
    <3> SUFFICES ASSUME NEW c \in Client, NEW w \in Uri
                 PROVE  Count(c, w)' = Count(c, w)
      BY <1>1 DEF WorkerInv, RequestsCounted
    <3>1. Number(workerQueue', Proceeds(c, w)) = Number(workerQueue, Proceeds(c, w))
      BY <2>1, <2>3, NumberOfOne, NumberOfNone
    <3>2. Primary(c, w)' = Primary(c, w) /\ Secondary(c, w)' = Secondary(c, w)
      BY <1>1, <2>6 DEF Primary, Secondary
    <3>3. QED
      BY <1>1, <3>1, <3>2 DEF Count
  <2>10. AcknowledgedOnce'
    BY <1>1, <2>6 DEF WorkerInv, AcknowledgedOnce, Acknowledged
  <2>11. TargetsAreWaited'
    BY <1>1, <2>4, <2>5, <2>6 DEF WorkerInv, TargetsAreWaited, IsWaited
  <2>12. QED
    BY <2>7, <2>8, <2>9, <2>10, <2>11 DEF WorkerInv
<1>4. QED
  BY <1>2, <1>3

LEMMA PerformerInput ==
  ASSUME CallInv, WorkerInv, worker' = "running", NEW u \in Uri,
         HandlePerformerMessage(u) \/ HandlePerformerEof(u)
  PROVE  WorkerInv'
<1>1. /\ TypeOK /\ workerQueue = <<>> /\ reaping = NoUri /\ Piped(u)
      /\ \A c \in Client, w \in Uri : Number(workerQueue, Proceeds(c, w)) = 0
  BY NumberOfNone DEF CallInv, TypeInv, HandlePerformerMessage, HandlePerformerEof,
     PollingPerformers, Polling
<1>2. ASSUME NEW result \in Result, ProcessPreliminaryResult(u, result, <<>>),
             UNCHANGED <<waited, inbox>>
      PROVE  WorkerInv'
  BY <1>1, <1>2, PreliminaryRequests
<1>3. CASE HandlePerformerMessage(u)
  <2>1. Head(pipe[u]) \in PerformerMessage
    <3>1. pipe[u] \in Seq(PerformerMessage) /\ pipe[u] # <<>>
      BY <1>1, <1>3 DEF TypeOK, PerformerTypeOK, HandlePerformerMessage
    <3>2. QED
      BY <3>1, HeadTailProperties
  <2>2. CASE Head(pipe[u]) = "wrong size"
    BY <1>1, <1>3, <2>2, ProgressRequests DEF HandlePerformerMessage
  <2>3. CASE Head(pipe[u]) # "wrong size"
    <3>1. Head(pipe[u]) \in Result
      BY <2>1, <2>3 DEF PerformerMessage
    <3>2. ProcessPreliminaryResult(u, Head(pipe[u]), <<>>) /\ UNCHANGED <<waited, inbox>>
      BY <1>1, <1>3, <2>3 DEF HandlePerformerMessage, callVars
    <3>3. QED
      BY <1>2, <3>1, <3>2
  <2>4. QED
    BY <2>2, <2>3
<1>4. CASE HandlePerformerEof(u)
  <2>1. /\ UnexpectedExit \in Result /\ ProcessPreliminaryResult(u, UnexpectedExit, <<>>)
        /\ UNCHANGED <<waited, inbox>>
    BY <1>1, <1>4 DEF HandlePerformerEof, UnexpectedExit, Result, callVars
  <2>2. QED
    BY <1>2, <2>1
<1>5. QED
  BY <1>3, <1>4

-----------------------------------------------------------------------------
(* Messages of the clients *)

TakesMessage(c) == inbox[c] # <<>> /\ inbox' = [inbox EXCEPT ![c] = Tail(@)]

LEMMA MessageTaken ==
  ASSUME TypeOK, NEW c \in Client, TakesMessage(c)
  PROVE  /\ Head(inbox[c]) \in ClientMessage
         /\ \A d \in Client : \A T :
              /\ Number(inbox[d], T) \in Nat
              /\ Number(inbox'[d], T) =
                   Number(inbox[d], T) - (IF d = c /\ Head(inbox[c]) \in T THEN 1 ELSE 0)
         /\ 1 \in DOMAIN inbox[c] /\ Head(inbox[c]) = inbox[c][1]
         /\ \A d \in Client : \A i \in DOMAIN inbox'[d] :
              \E j \in DOMAIN inbox[d] : inbox'[d][i] = inbox[d][j]
<1>1. inbox \in [Client -> Seq(ClientMessage)] /\ inbox[c] # <<>> /\ inbox[c] \in Seq(ClientMessage)
  BY DEF TypeOK, ClientTypeOK, TakesMessage
<1>2. inbox'[c] = Tail(inbox[c]) /\ \A d \in Client : d # c => inbox'[d] = inbox[d]
  BY <1>1 DEF TakesMessage
<1>3. /\ Head(inbox[c]) \in ClientMessage /\ Head(inbox[c]) = inbox[c][1]
      /\ 1 \in DOMAIN inbox[c]
      /\ DOMAIN Tail(inbox[c]) = 1 .. Len(inbox[c]) - 1
      /\ \A i \in 1 .. Len(inbox[c]) - 1 : Tail(inbox[c])[i] = inbox[c][i + 1]
      /\ Len(inbox[c]) \in Nat /\ DOMAIN inbox[c] = 1 .. Len(inbox[c])
  BY <1>1, HeadTailProperties, LenProperties
<1>4. \A d \in Client : \A T : Number(inbox[d], T) \in Nat
  BY <1>1, NumberType
<1>5. \A T : Number(Tail(inbox[c]), T) =
               Number(inbox[c], T) - (IF Head(inbox[c]) \in T THEN 1 ELSE 0)
  BY <1>1, NumberTail
<1>6. \A i \in DOMAIN inbox'[c] : \E j \in DOMAIN inbox[c] : inbox'[c][i] = inbox[c][j]
  <2>1. ASSUME NEW i \in 1 .. Len(inbox[c]) - 1
        PROVE  \E j \in DOMAIN inbox[c] : Tail(inbox[c])[i] = inbox[c][j]
    <3>1. i + 1 \in DOMAIN inbox[c]
      BY <1>3
    <3>2. QED
      BY <1>3, <3>1
  <2>2. QED
    BY <1>2, <1>3, <2>1
<1>7. ASSUME NEW d \in Client, NEW T
      PROVE  Number(inbox'[d], T) =
               Number(inbox[d], T) - (IF d = c /\ Head(inbox[c]) \in T THEN 1 ELSE 0)
  <2>1. CASE d = c
    BY <1>2, <1>5, <2>1
  <2>2. CASE d # c
    BY <1>2, <1>4, <2>2
  <2>3. QED
    BY <2>1, <2>2
<1>8. ASSUME NEW d \in Client, NEW i \in DOMAIN inbox'[d]
      PROVE  \E j \in DOMAIN inbox[d] : inbox'[d][i] = inbox[d][j]
  BY <1>2, <1>6
<1>9. QED
  BY <1>3, <1>4, <1>7, <1>8

\* A size is noted.
LEMMA SizeRequests ==
  ASSUME CallInv, WorkerInv, NEW c \in Client, TakesMessage(c),
         Head(inbox[c]).command = "set-download-size",
         UNCHANGED <<workerQueue, onHold, activeDownloads, reaping, waited, process, outbox>>
  PROVE  WorkerInv'
<1> DEFINE m == Head(inbox[c])
<1>1. TypeOK
  BY DEF CallInv, TypeInv
<1>2. /\ \A d \in Client : \A T :
           /\ Number(inbox[d], T) \in Nat
           /\ Number(inbox'[d], T) = Number(inbox[d], T) - (IF d = c /\ m \in T THEN 1 ELSE 0)
      /\ \A d \in Client : \A i \in DOMAIN inbox'[d] :
           \E j \in DOMAIN inbox[d] : inbox'[d][i] = inbox[d][j]
  BY <1>1, MessageTaken
<1>3. \A u : m \notin Downloads(u) /\ m \notin Acknowledgements(u)
  BY DEF Downloads, Acknowledgements
<1> HIDE DEF m
<1>4. \A d \in Client, u \in Uri :
        /\ Number(inbox'[d], Downloads(u)) = Number(inbox[d], Downloads(u))
        /\ Number(inbox'[d], Acknowledgements(u)) = Number(inbox[d], Acknowledgements(u))
  BY <1>2, <1>3
<1>5. QueueIsShort' /\ PerformersArePiped' /\ OnePipePerTarget'
  BY DEF WorkerInv, QueueIsShort, PerformersArePiped, OnePipePerTarget, Piped, Active
<1>6. RequestsCounted'
  <2>1. \A d \in Client, u \in Uri : Primary(d, u)' = Primary(d, u) /\ Secondary(d, u)' = Secondary(d, u)
    BY DEF Primary, Secondary, Replied, Active
  <2>2. QED
    BY <1>4, <2>1 DEF WorkerInv, RequestsCounted, Count
<1>7. AcknowledgedOnce'
  BY <1>4 DEF WorkerInv, AcknowledgedOnce, Acknowledged, Replied, Active
<1>8. TargetsAreWaited'
  <2>1. ASSUME NEW d \in Client, NEW i \in DOMAIN inbox'[d], inbox'[d][i].command = "download"
        PROVE  waited'[d][inbox'[d][i].uri] = inbox'[d][i].targetPath
    BY <1>2, <2>1 DEF WorkerInv, TargetsAreWaited
  <2>2. QED
    BY <2>1 DEF WorkerInv, TargetsAreWaited, IsWaited, Replied, Active
<1>9. QED
  BY <1>5, <1>6, <1>7, <1>8 DEF WorkerInv

\* A request goes to the internal queue.
LEMMA DownloadRequests ==
  ASSUME CallInv, WorkerInv, NEW c \in Client, TakesMessage(c),
         Head(inbox[c]).command = "download", workerQueue = <<>>, reaping = NoUri,
         workerQueue' = Append(workerQueue, Proceed([uri |-> Head(inbox[c]).uri,
           targetPath |-> Head(inbox[c]).targetPath, waiterSocket |-> c])),
         UNCHANGED <<onHold, activeDownloads, reaping, waited, process, outbox>>
  PROVE  WorkerInv'
<1> DEFINE m == Head(inbox[c])
           u == m.uri
           r == [uri |-> u, targetPath |-> m.targetPath, waiterSocket |-> c]
<1>1. TypeOK
  BY DEF CallInv, TypeInv
<1>2. /\ m \in ClientMessage
      /\ \A d \in Client : \A T :
           /\ Number(inbox[d], T) \in Nat
           /\ Number(inbox'[d], T) = Number(inbox[d], T) - (IF d = c /\ m \in T THEN 1 ELSE 0)
      /\ 1 \in DOMAIN inbox[c] /\ m = inbox[c][1]
      /\ \A d \in Client : \A i \in DOMAIN inbox'[d] :
           \E j \in DOMAIN inbox[d] : inbox'[d][i] = inbox[d][j]
  BY <1>1, MessageTaken
<1>3. /\ \A w \in Uri : m \in Downloads(w) <=> w = u
      /\ \A w \in Uri : m \notin Acknowledgements(w)
      /\ u \in Uri /\ m.targetPath \in Entity
  BY <1>2 DEF ClientMessage, Downloads, Acknowledgements
<1>4. waited[c][u] = m.targetPath
  BY <1>2 DEF WorkerInv, TargetsAreWaited
<1> HIDE DEF m
<1>5. /\ r \in Request /\ workerQueue' = <<Proceed(r)>>
      /\ r.uri = u /\ r.waiterSocket = c /\ r.targetPath = m.targetPath
  BY <1>3 DEF Request, m
<1> HIDE DEF r
<1>6. /\ Proceed(r).command = "proceed-download" /\ Proceed(r).request = r
      /\ \A d \in Client, w \in Uri : Proceed(r) \in Proceeds(d, w) <=> w = u /\ d = c
  BY <1>5 DEF Proceed, InternalMessage, Proceeds
<1>7. DOMAIN workerQueue' = {1} /\ workerQueue'[1] = Proceed(r)
  BY <1>5
<1>8. QueueIsShort' /\ PerformersArePiped' /\ OnePipePerTarget'
  <2>1. QueueIsShort'
    BY <1>6, <1>7 DEF QueueIsShort
  <2>2. PerformersArePiped'
    BY DEF WorkerInv, PerformersArePiped, Piped, Active
  <2>3. OnePipePerTarget'
    BY DEF WorkerInv, OnePipePerTarget, Piped, Active
  <2>4. QED
    BY <2>1, <2>2, <2>3
<1>9. RequestsCounted'
  <2> SUFFICES ASSUME NEW d \in Client, NEW w \in Uri
               PROVE  Count(d, w)' = IF waited'[d][w] = NoEntity THEN 0 ELSE 1
    BY DEF RequestsCounted
  <2> DEFINE n == IF w = u /\ d = c THEN 1 ELSE 0
  <2>1. n \in Int /\ -n \in Int /\ 0 \in Int /\ -n + n + 0 + 0 + 0 + 0 = 0
    OBVIOUS
  <2>2. Flow(d, w, -n, n, 0, 0, 0, 0)
    <3>1. /\ Number(workerQueue', Proceeds(d, w)) = n
          /\ Number(workerQueue, Proceeds(d, w)) = 0
      BY <1>5, <1>6, NumberOfOne, NumberOfNone
    <3>2. Number(inbox'[d], Downloads(w)) = Number(inbox[d], Downloads(w)) - n
      BY <1>2, <1>3
    <3>3. Primary(d, w)' = Primary(d, w) /\ Secondary(d, w)' = Secondary(d, w)
      BY DEF Primary, Secondary, Replied, Active
    <3>4. /\ Number(inbox[d], Downloads(w)) \in Nat /\ Secondary(d, w) \in Nat
          /\ Primary(d, w) \in Nat /\ Number(outbox[d], Replies(w)) \in Nat
          /\ Number(onHold, Held(d, w)) \in Nat
      BY <1>1, CountTypes
    <3> HIDE DEF n
    <3>5. QED
      BY <2>1, <3>1, <3>2, <3>3, <3>4 DEF Flow
  <2>3. RequestsCounted
    BY DEF WorkerInv
  <2> HIDE DEF n
  <2>4. QED
    BY <1>1, <2>1, <2>2, <2>3, FlowCounts
<1>10. AcknowledgedOnce'
  <2>1. \A d \in Client, w \in Uri :
          Number(inbox'[d], Acknowledgements(w)) = Number(inbox[d], Acknowledgements(w))
    BY <1>2, <1>3
  <2>2. QED
    BY <2>1 DEF WorkerInv, AcknowledgedOnce, Acknowledged, Replied, Active
<1>11. TargetsAreWaited'
  <2>1. ASSUME NEW d \in Client, NEW i \in DOMAIN inbox'[d], inbox'[d][i].command = "download"
        PROVE  waited'[d][inbox'[d][i].uri] = inbox'[d][i].targetPath
    BY <1>2, <2>1 DEF WorkerInv, TargetsAreWaited
  <2>2. waited'[r.waiterSocket][r.uri] = r.targetPath
    BY <1>4, <1>5
  <2>3. \A i \in DOMAIN workerQueue' : IsWaited(workerQueue[i].request)'
    BY <1>6, <1>7, <2>2 DEF IsWaited
  <2>4. \A i \in DOMAIN onHold' : IsWaited(onHold[i])'
    BY DEF WorkerInv, TargetsAreWaited, IsWaited
  <2>5. \A w \in Active' : ~Replied(w)' =>
          waited'[activeDownloads'[w].waiterSocket][w] = activeDownloads'[w].targetPath
    BY DEF WorkerInv, TargetsAreWaited, Replied, Active
  <2>6. QED
    BY <2>1, <2>3, <2>4, <2>5 DEF TargetsAreWaited
<1>12. QED
  BY <1>8, <1>9, <1>10, <1>11 DEF WorkerInv

\* The download which a client acknowledges is active, has got its result, and
\* nobody writes for it any more.
LEMMA AcknowledgedIsActive ==
  ASSUME CallInv, WorkerInv, reaping = NoUri, NEW c \in Client, inbox[c] # <<>>,
         Head(inbox[c]).command = "done-ack"
  PROVE  LET u == Head(inbox[c]).uri
         IN  /\ u \in Uri /\ u \in Active
             /\ activeDownloads[u].waiterSocket = c
             /\ Replied(u) /\ ~Piped(u) /\ process[u] = "none"
             /\ Number(inbox[c], Acknowledgements(u)) = 1
             /\ Number(outbox[c], FreshReplies(u)) = 0
<1> DEFINE m == Head(inbox[c])
           u == m.uri
<1>1. TypeOK /\ inbox[c] \in Seq(ClientMessage)
  BY DEF CallInv, TypeInv, TypeOK, ClientTypeOK
<1>2. m \in ClientMessage /\ Tail(inbox[c]) \in Seq(ClientMessage)
  BY <1>1, HeadTailProperties
<1>3. u \in Uri /\ m \in Acknowledgements(u)
  BY <1>2 DEF ClientMessage, Acknowledgements
<1>4. \A T : /\ Number(Tail(inbox[c]), T) \in Nat
             /\ Number(Tail(inbox[c]), T) = Number(inbox[c], T) - (IF m \in T THEN 1 ELSE 0)
  BY <1>1, <1>2, NumberTail, NumberType
<1> HIDE DEF m
<1>5. /\ Number(inbox[c], Acknowledgements(u)) \in Nat
      /\ Number(outbox[c], FreshReplies(u)) \in Nat
  BY <1>1, <1>3, CountTypes
<1>6. Number(inbox[c], Acknowledgements(u)) >= 1
  BY <1>3, <1>4, <1>5
<1>7. Number(inbox[c], Acknowledgements(u)) + Number(outbox[c], FreshReplies(u))
        <= Acknowledged(c, u)
  BY <1>3 DEF WorkerInv, AcknowledgedOnce
<1>8. Acknowledged(c, u) \in {0, 1}
  BY DEF Acknowledged
<1>9. /\ Acknowledged(c, u) = 1 /\ Number(inbox[c], Acknowledgements(u)) = 1
      /\ Number(outbox[c], FreshReplies(u)) = 0
  BY <1>5, <1>6, <1>7, <1>8
<1>10. u \in Active /\ activeDownloads[u].waiterSocket = c /\ Replied(u)
  BY <1>9 DEF Acknowledged
<1>11. ~Piped(u)
  <2>1. NoUri \notin Uri
    BY ConstantsAssumption DEF ConstantsAssumption
  <2>2. QED
    BY <1>3, <1>10, <2>1 DEF Replied, Piped
<1>12. process[u] = "none"
  BY <1>3, <1>11 DEF WorkerInv, PerformersArePiped
<1>13. QED
  BY <1>3, <1>9, <1>10, <1>11, <1>12 DEF m

\* finishPendingDownloads: everybody else who waits gets the result, and the
\* download is not active any more.
FinishStep(c, u, reply, waiters) ==
  /\ TakesMessage(c)
  /\ Head(inbox[c]).command = "done-ack" /\ Head(inbox[c]).uri = u
  /\ reaping = NoUri /\ workerQueue = <<>>
  /\ reply.uri = u /\ reply.isDuplicatedDownload
  /\ waiters = PendingWaiters(u)
  /\ Answers(waiters, reply)
  /\ activeDownloads' = [v \in Active \ {u} |-> activeDownloads[v]]
  /\ workerQueue' = <<PopDownload>>
  /\ UNCHANGED <<onHold, reaping, waited, process>>

LEMMA FinishRequests ==
  ASSUME CallInv, WorkerInv, NEW c \in Client, NEW u \in Uri, NEW reply \in Reply,
         NEW waiters \in Seq(Client), FinishStep(c, u, reply, waiters)
  PROVE  WorkerInv'
<1> DEFINE m == Head(inbox[c])
<1>1. /\ TypeOK /\ Active \subseteq Uri
      /\ activeDownloads \in [Active -> ActiveDownloadInfo]
      /\ UNCHANGED <<onHold, reaping, waited, process>>
      /\ reaping' = NoUri
  BY DEF CallInv, TypeInv, TypeOK, WorkerTypeOK, FinishStep
<1>2. /\ u \in Active /\ activeDownloads[u].waiterSocket = c
      /\ Replied(u) /\ ~Piped(u) /\ process[u] = "none"
      /\ Number(inbox[c], Acknowledgements(u)) = 1
      /\ Number(outbox[c], FreshReplies(u)) = 0
  BY AcknowledgedIsActive DEF FinishStep, TakesMessage
<1>3. /\ m \in ClientMessage
      /\ \A d \in Client : \A T :
           /\ Number(inbox[d], T) \in Nat
           /\ Number(inbox'[d], T) = Number(inbox[d], T) - (IF d = c /\ m \in T THEN 1 ELSE 0)
      /\ \A d \in Client : \A i \in DOMAIN inbox'[d] :
           \E j \in DOMAIN inbox[d] : inbox'[d][i] = inbox[d][j]
  BY <1>1, MessageTaken DEF FinishStep
<1>4. \A w \in Uri : m \notin Downloads(w) /\ (m \in Acknowledgements(w) <=> w = u)
  BY <1>3 DEF FinishStep, Downloads, Acknowledgements
<1> HIDE DEF m
<1>5. \A d \in Client : \A T :
        /\ Number(waiters, {d}) \in Nat
        /\ Number(outbox[d], T) \in Nat
        /\ Number(outbox'[d], T) =
             Number(outbox[d], T) + (IF reply \in T THEN Number(waiters, {d}) ELSE 0)
  BY <1>1, RepliesNumber DEF FinishStep
<1>6. \A w \in Uri : (reply \in Replies(w) <=> w = u) /\ reply \notin FreshReplies(w)
  BY DEF FinishStep, Replies, FreshReplies
<1>7. /\ Active' = Active \ {u}
      /\ \A w \in Active \ {u} : activeDownloads'[w] = activeDownloads[w]
  BY DEF FinishStep, Active
<1>8. /\ \A w \in Active \ {u} : Replied(w)' <=> Replied(w)
      /\ \A w \in Uri : Piped(w)' <=> Piped(w)
  BY <1>1, <1>2, <1>7 DEF Replied, Piped
<1>9. /\ \A i \in DOMAIN workerQueue' :
           i = 1 /\ workerQueue'[i].command = "pop-download"
      /\ \A d \in Client, w \in Uri : Number(workerQueue', Proceeds(d, w)) = 0
      /\ \A d \in Client, w \in Uri : Number(workerQueue, Proceeds(d, w)) = 0
  BY WakeUp, NumberOfNone DEF FinishStep
<1>10. ASSUME NEW d \in Client, NEW w \in Uri
       PROVE  /\ Primary(d, w)' = Primary(d, w)
              /\ Secondary(d, w)' = Secondary(d, w) - (IF w = u THEN Number(waiters, {d}) ELSE 0)
              /\ Acknowledged(d, w)' = Acknowledged(d, w) - (IF w = u /\ d = c THEN 1 ELSE 0)
  <2>1. CASE w = u
    <3>1. w \notin Active'
      BY <1>7, <2>1
    <3>2. Primary(d, w)' = 0 /\ Secondary(d, w)' = 0 /\ Acknowledged(d, w)' = 0
      BY <3>1 DEF Primary, Secondary, Acknowledged
    <3>3. Primary(d, w) = 0 /\ Acknowledged(d, w) = IF d = c THEN 1 ELSE 0
      BY <1>2, <2>1 DEF Primary, Acknowledged
    <3>4. Secondary(d, w) = Number(waiters, {d})
      BY <1>2, <2>1 DEF Secondary, FinishStep, PendingWaiters
    <3>5. QED
      BY <1>5, <2>1, <3>2, <3>3, <3>4
  <2>2. CASE w # u
    <3>1. w \in Active' <=> w \in Active
      BY <1>7, <2>2
    <3>2. Primary(d, w)' = Primary(d, w) /\ Acknowledged(d, w)' = Acknowledged(d, w)
      BY <1>7, <1>8, <2>2, <3>1 DEF Primary, Acknowledged
    <3>3. Secondary(d, w)' = Secondary(d, w)
      BY <1>7, <2>2, <3>1 DEF Secondary
    <3>4. Secondary(d, w) \in Nat /\ Acknowledged(d, w) \in Nat
      BY <1>1, CountTypes DEF Acknowledged
    <3>5. QED
      BY <2>2, <3>2, <3>3, <3>4
  <2>3. QED
    BY <2>1, <2>2
<1>11. QueueIsShort' /\ PerformersArePiped'
  BY <1>1, <1>8, <1>9 DEF WorkerInv, QueueIsShort, PerformersArePiped
<1>12. OnePipePerTarget'
  BY <1>1, <1>7, <1>8 DEF WorkerInv, OnePipePerTarget
<1>13. RequestsCounted'
  <2> SUFFICES ASSUME NEW d \in Client, NEW w \in Uri
               PROVE  Count(d, w)' = IF waited'[d][w] = NoEntity THEN 0 ELSE 1
    BY DEF RequestsCounted
  <2> DEFINE n == IF w = u THEN Number(waiters, {d}) ELSE 0
  <2>1. n \in Int /\ -n \in Int /\ 0 \in Int /\ 0 + 0 + 0 + 0 + -n + n = 0
    <3>1. n \in Int
      BY <1>5
    <3> HIDE DEF n
    <3>2. QED
      BY <3>1
  <2>2. Flow(d, w, 0, 0, 0, 0, -n, n)
    <3>1. /\ Number(inbox'[d], Downloads(w)) = Number(inbox[d], Downloads(w))
          /\ Number(outbox'[d], Replies(w)) = Number(outbox[d], Replies(w)) + n
          /\ Secondary(d, w)' = Secondary(d, w) - n
      <4>1. Number(inbox'[d], Downloads(w)) = Number(inbox[d], Downloads(w))
        BY <1>3, <1>4
      <4>2. Number(outbox'[d], Replies(w)) = Number(outbox[d], Replies(w)) + n
        BY <1>5, <1>6
      <4>3. Secondary(d, w)' = Secondary(d, w) - n
        BY <1>10
      <4>4. QED
        BY <4>1, <4>2, <4>3
    <3>2. Primary(d, w)' = Primary(d, w)
      BY <1>10
    <3>3. /\ Number(inbox[d], Downloads(w)) \in Nat /\ Secondary(d, w) \in Nat
          /\ Primary(d, w) \in Nat /\ Number(outbox[d], Replies(w)) \in Nat
          /\ Number(onHold, Held(d, w)) \in Nat
      BY <1>1, CountTypes
    <3> HIDE DEF n
    <3>4. QED
      BY <1>1, <1>9, <2>1, <3>1, <3>2, <3>3 DEF Flow
  <2>3. RequestsCounted /\ waited' = waited
    BY <1>1 DEF WorkerInv
  <2> HIDE DEF n
  <2>4. QED
    BY <1>1, <2>1, <2>2, <2>3, FlowCounts
<1>14. AcknowledgedOnce'
  <2> SUFFICES ASSUME NEW d \in Client, NEW w \in Uri
               PROVE  Number(inbox'[d], Acknowledgements(w)) + Number(outbox'[d], FreshReplies(w))
                        <= Acknowledged(d, w)'
    BY DEF AcknowledgedOnce
  <2> DEFINE n == IF w = u /\ d = c THEN 1 ELSE 0
  <2>1. /\ Number(inbox'[d], Acknowledgements(w)) = Number(inbox[d], Acknowledgements(w)) - n
        /\ Number(outbox'[d], FreshReplies(w)) = Number(outbox[d], FreshReplies(w))
        /\ Acknowledged(d, w)' = Acknowledged(d, w) - n
    <3>1. Number(inbox'[d], Acknowledgements(w)) = Number(inbox[d], Acknowledgements(w)) - n
      BY <1>3, <1>4
    <3>2. Number(outbox'[d], FreshReplies(w)) = Number(outbox[d], FreshReplies(w))
      <4>1. reply \notin FreshReplies(w)
        BY <1>6
      <4>2. ASSUME NEW T, reply \notin T
            PROVE  Number(outbox'[d], T) = Number(outbox[d], T)
        <5>1. Number(outbox[d], T) \in Nat
          BY <1>5
        <5>2. Number(outbox'[d], T) =
                Number(outbox[d], T) + (IF reply \in T THEN Number(waiters, {d}) ELSE 0)
          BY <1>5
        <5>3. QED
          BY <4>2, <5>1, <5>2
      <4>3. QED
        BY <4>1, <4>2
    <3>3. Acknowledged(d, w)' = Acknowledged(d, w) - n
      BY <1>10
    <3>4. QED
      BY <3>1, <3>2, <3>3
  <2>2. Number(inbox[d], Acknowledgements(w)) + Number(outbox[d], FreshReplies(w))
          <= Acknowledged(d, w)
    BY DEF WorkerInv, AcknowledgedOnce
  <2>3. /\ Number(inbox[d], Acknowledgements(w)) \in Nat
        /\ Number(outbox[d], FreshReplies(w)) \in Nat
        /\ Acknowledged(d, w) \in Nat /\ n \in Int
    BY <1>1, CountTypes DEF Acknowledged
  <2> HIDE DEF n
  <2>4. QED
    BY <2>1, <2>2, <2>3
<1>15. TargetsAreWaited'
  <2>1. ASSUME NEW d \in Client, NEW i \in DOMAIN inbox'[d], inbox'[d][i].command = "download"
        PROVE  waited'[d][inbox'[d][i].uri] = inbox'[d][i].targetPath
    BY <1>1, <1>3, <2>1 DEF WorkerInv, TargetsAreWaited
  <2>2. \A i \in DOMAIN workerQueue' : workerQueue'[i].command # "proceed-download"
    BY <1>9
  <2>3. \A i \in DOMAIN onHold' : IsWaited(onHold[i])'
    BY <1>1 DEF WorkerInv, TargetsAreWaited, IsWaited
  <2>4. \A w \in Active' : ~Replied(w)' =>
          waited'[activeDownloads'[w].waiterSocket][w] = activeDownloads'[w].targetPath
    BY <1>1, <1>7, <1>8 DEF WorkerInv, TargetsAreWaited
  <2>5. QED
    BY <2>1, <2>2, <2>3, <2>4 DEF TargetsAreWaited
<1>16. QED
  BY <1>11, <1>12, <1>13, <1>14, <1>15 DEF WorkerInv

LEMMA ClientInput ==
  ASSUME CallInv, WorkerInv, worker' = "running", NEW c \in Client, HandleClientMessage(c)
  PROVE  WorkerInv'
<1> DEFINE m == Head(inbox[c])
<1>1. /\ TypeOK /\ TakesMessage(c) /\ inbox[c] # <<>> /\ workerQueue = <<>> /\ reaping = NoUri
      /\ DispatchClientMessage(c, m)
      /\ UNCHANGED waited
  BY DEF CallInv, TypeInv, HandleClientMessage, TakesMessage, Polling, callVars
<1>2. CASE m.command = "set-download-size"
  <2>1. UNCHANGED <<workerQueue, onHold, activeDownloads, reaping, process, outbox>>
    BY <1>1, <1>2 DEF DispatchClientMessage, performerVars
  <2>2. QED
    BY <1>1, <1>2, <2>1, SizeRequests
<1>3. CASE m.command = "download"
  <2>1. /\ workerQueue' = Append(workerQueue, Proceed([uri |-> m.uri,
             targetPath |-> m.targetPath, waiterSocket |-> c]))
        /\ UNCHANGED <<onHold, activeDownloads, reaping, process, outbox>>
    BY <1>1, <1>3 DEF DispatchClientMessage, performerVars
  <2>2. QED
    BY <1>1, <1>3, <2>1, DownloadRequests
<1>4. CASE m.command = "done-ack"
  <2> DEFINE u == m.uri
             reply == [uri |-> u, result |-> m.result, isDuplicatedDownload |-> TRUE]
             waiters == PendingWaiters(u)
  <2>1. u \in Uri /\ u \in Active
    BY <1>1, <1>4, AcknowledgedIsActive
  <2>2. m \in ClientMessage
    BY <1>1, MessageTaken
  <2>3. m.result \in Result
    BY <1>4, <2>2 DEF ClientMessage
  <2>4. reply \in Reply /\ reply.uri = u /\ reply.isDuplicatedDownload
    BY <2>1, <2>3 DEF Reply
  <2>5. waiters \in Seq(Client)
    BY <1>1, <2>1 DEF TypeOK, WorkerTypeOK, ActiveDownloadInfo, PendingWaiters
  <2>6. /\ SendToAll(waiters, reply)
        /\ \/ /\ AllServed(waiters)
              /\ activeDownloads' = [v \in Active \ {u} |-> activeDownloads[v]]
              /\ workerQueue' = ScheduleNext(workerQueue)
              /\ UNCHANGED performerVars
           \/ DiesSending(waiters)
        /\ UNCHANGED <<reaping, onHold>>
    BY <1>1, <1>4, <2>1 DEF DispatchClientMessage, ProcessFinalResult
  <2> HIDE DEF reply, waiters
  <2>7. /\ Answers(waiters, reply)
        /\ activeDownloads' = [v \in Active \ {u} |-> activeDownloads[v]]
        /\ workerQueue' = <<PopDownload>>
        /\ UNCHANGED <<reaping, onHold, process>>
    BY <1>1, <2>6, ServedOrDead, WakeUp DEF Answers, performerVars
  <2>8. m.uri = u /\ waiters = PendingWaiters(u)
    BY DEF waiters
  <2> HIDE DEF u
  <2>9. FinishStep(c, u, reply, waiters)
    BY <1>1, <1>4, <2>4, <2>7, <2>8 DEF FinishStep
  <2>10. QED
    BY <2>1, <2>4, <2>5, <2>9, FinishRequests
<1>5. QED
  BY <1>1, <1>2, <1>3, <1>4 DEF DispatchClientMessage

-----------------------------------------------------------------------------
(* The invariant *)

LEMMA WorkerInit == Init => WorkerInv
<1> SUFFICES ASSUME Init
             PROVE  WorkerInv
  OBVIOUS
<1>1. /\ Active = {} /\ workerQueue = <<>> /\ onHold = <<>> /\ reaping = NoUri
      /\ \A u \in Uri : process[u] = "none"
      /\ \A c \in Client : inbox[c] = <<>> /\ outbox[c] = <<>>
      /\ \A c \in Client, u \in Uri : waited[c][u] = NoEntity
  BY DEF Init, Active
<1>2. QueueIsShort /\ PerformersArePiped /\ TargetsAreWaited /\ OnePipePerTarget
  BY <1>1 DEF QueueIsShort, PerformersArePiped, TargetsAreWaited, OnePipePerTarget
<1>3. RequestsCounted
  BY <1>1, NumberOfNone DEF RequestsCounted, Count, Primary, Secondary
<1>4. AcknowledgedOnce
  BY <1>1, NumberOfNone DEF AcknowledgedOnce, Acknowledged
<1>5. QED
  BY <1>2, <1>3, <1>4 DEF WorkerInv

LEMMA WorkerInvStep ==
  ASSUME DistinctUris, CallInv, WorkerInv, worker = "running", worker' = "running", [Next]_vars
  PROVE  WorkerInv'
<1>1. CASE \/ UNCHANGED vars \/ HandleParent \/ Destroy \/ ParentDies \/ ParentEnds
           \/ \E c \in Client : HandleClientEof(c) \/ Connect(c) \/ ReceiveEof(c) \/ Return(c)
  <2>1. UNCHANGED <<workerQueue, onHold, activeDownloads, reaping, waited, inbox, outbox>>
    BY <1>1 DEF vars, workerVars, clientVars, callVars, HandleParent, Destroy, ParentDies,
       ParentEnds, ParentPipeCloses, ClientDies, HandleClientEof, Connect, ReceiveEof, Return
  <2>2. process' = process
    BY <1>1 DEF vars, performerVars, HandleParent, Abort, Destroy, ParentDies,
       ParentEnds, ParentPipeCloses, ClientDies, HandleClientEof, Connect, ReceiveEof, Return
  <2>3. QED
    BY <2>1, <2>2, RequestsKept
<1>2. CASE Exit \/ ForkFails \/ AcceptFails
  BY <1>2 DEF Exit, ForkFails, AcceptFails, Abort
<1>3. CASE HandleInternal
  BY <1>3, InternalRequests
<1>4. CASE Reap
  BY <1>4, ReapRequests
<1>5. ASSUME NEW c \in Client, HandleClientMessage(c)
      PROVE  WorkerInv'
  BY <1>5, ClientInput
<1>6. ASSUME NEW u \in Uri, HandlePerformerMessage(u) \/ HandlePerformerEof(u)
      PROVE  WorkerInv'
  BY <1>6, PerformerInput
<1>7. ASSUME NEW u \in Uri, PerformerStep(u)
      PROVE  WorkerInv'
  BY <1>7, PerformerRequests
<1>8. ASSUME NEW c \in Client, ScheduleDownload(c)
      PROVE  WorkerInv'
  BY <1>8, ScheduleRequests
<1>9. ASSUME NEW c \in Client, ReceiveReply(c)
      PROVE  WorkerInv'
  BY <1>9, ReceiveRequests
<1>10. QED
  BY <1>1, <1>2, <1>3, <1>4, <1>5, <1>6, <1>7, <1>8, <1>9 DEF Next, WorkerStep, ClientStep

\* A worker which has ended does not start again.
LEMMA NoSecondWorker ==
  ASSUME [Next]_vars, worker' = "running"
  PROVE  worker = "running"
BY DEF vars, workerVars, Next, WorkerStep, HandleInternal, ForkFails, Reap, HandleParent,
   AcceptFails, HandleClientMessage, HandleClientEof, HandlePerformerMessage, HandlePerformerEof,
   Exit, PollingPerformers, Polling, PerformerStep, ReportWrongSize, FinishPerform, PerformerExit,
   PerformerCrash, Connect, ClientStep, ScheduleDownload, ReceiveReply, ReceiveEof, Return, Destroy,
   ParentDies, ParentEnds, ParentPipeCloses, ClientDies

LEMMA RequestInvStep ==
  ASSUME DistinctUris, RequestInv, [Next]_vars
  PROVE  RequestInv'
<1>1. CallInv'
  BY CallInvStep DEF RequestInv
<1>2. ASSUME worker' = "running"
      PROVE  WorkerInv'
  <2>1. worker = "running"
    BY <1>2, NoSecondWorker
  <2>2. QED
    BY <1>2, <2>1, WorkerInvStep DEF RequestInv
<1>3. QED
  BY <1>1, <1>2 DEF RequestInv

LEMMA RequestInvariant == DistinctUris => (Safety => []RequestInv)
<1> SUFFICES ASSUME DistinctUris
             PROVE  Safety => []RequestInv
  OBVIOUS
<1>1. Init => RequestInv
  BY CallInit, WorkerInit DEF RequestInv
<1>2. RequestInv /\ [Next]_vars => RequestInv'
  BY RequestInvStep
<1>3. QED
  BY <1>1, <1>2, PTL DEF Safety

-----------------------------------------------------------------------------
(* What the invariant is for *)

\* While the worker runs, a request which a client waits for is in exactly one of
\* the places where worker() and download() keep it, and nothing is there which
\* nobody waits for: whatever the number of clients, entities and slots, however
\* the messages interleave and whatever fails.
THEOREM RequestsAreSomewhere == DistinctUris => (Safety => []EveryRequestIsSomewhere)
<1> SUFFICES ASSUME DistinctUris
             PROVE  Safety => []EveryRequestIsSomewhere
  OBVIOUS
<1>1. RequestInv => EveryRequestIsSomewhere
  BY CountsRequests
  DEF RequestInv, CallInv, TypeInv, WorkerInv, RequestsCounted, EveryRequestIsSomewhere
<1>2. QED
  BY <1>1, RequestInvariant, PTL

\* Two performers never write to one target path: startNewDownload for the next
\* URI of an entity follows the waitpid() for the performer of the previous one.
THEOREM TargetsHaveOneWriter == DistinctUris => (Safety => []OneWriterPerTarget)
<1> SUFFICES ASSUME DistinctUris
             PROVE  Safety => []OneWriterPerTarget
  OBVIOUS
<1>1. RequestInv => OneWriterPerTarget
  <2> SUFFICES ASSUME RequestInv, worker = "running"
               PROVE  OneWriterPerTarget
    BY DEF OneWriterPerTarget
  <2>1. \A u \in Uri : Writes(u) => Piped(u)
    BY DEF RequestInv, WorkerInv, PerformersArePiped, Writes
  <2>2. Active \subseteq Uri
    BY DEF RequestInv, CallInv, TypeInv, TypeOK, WorkerTypeOK
  <2>3. QED
    BY <2>1, <2>2 DEF RequestInv, WorkerInv, OnePipePerTarget, OneWriterPerTarget, Piped
<1>2. QED
  BY <1>1, RequestInvariant, PTL

\* The internal errors of worker() and download().
NoInternalErrors ==
  /\ worker # "internal error"
  /\ worker = "running" => \A c \in Client : pc[c] # "internal error"

\* The worker's own messages and those of its performers are about active downloads.
LEMMA ResultIsActive ==
  ASSUME NEW u, NEW result, NEW rest, u \in Active, worker = "running",
         ProcessPreliminaryResult(u, result, rest)
  PROVE  worker' # "internal error"
BY DEF ProcessPreliminaryResult, DiesSending, Abort

LEMMA WorkerErrors ==
  ASSUME RequestInv, NoInternalErrors, [Next]_vars
  PROVE  worker' # "internal error"
<1> SUFFICES ASSUME worker' # worker
             PROVE  worker' # "internal error"
  BY DEF NoInternalErrors
<1>1. CASE ForkFails \/ HandleParent \/ AcceptFails \/ Exit
  BY <1>1 DEF ForkFails, HandleParent, AcceptFails, Exit, Abort
<1>2. CASE HandleInternal
  <2> DEFINE m == Head(workerQueue)
  <2>1. worker = "running" /\ WorkerInv /\ TypeOK /\ workerQueue # <<>>
    BY <1>2 DEF HandleInternal, RequestInv, CallInv, TypeInv
  <2>2. m.command = "done" => m.uri \in Active
    BY <2>1, TakenFromQueue DEF WorkerInv, Piped
  <2>3. \A rest : ~(m.command = "pop-download" /\ PopOnHold(rest))
    BY DEF PopOnHold
  <2>4. \A r, rest : ProceedDownload(r, rest) => worker' # "internal error"
    BY <2>1 DEF ProceedDownload, DiesSending, Abort, StartNewDownload
  <2>5. QED
    BY <1>2, <2>1, <2>2, <2>3, <2>4, ResultIsActive DEF HandleInternal
<1>3. ASSUME NEW c \in Client, HandleClientMessage(c)
      PROVE  worker' # "internal error"
  <2> DEFINE m == Head(inbox[c])
  <2>1. /\ worker = "running" /\ WorkerInv /\ CallInv /\ reaping = NoUri /\ inbox[c] # <<>>
        /\ DispatchClientMessage(c, m)
    BY <1>3 DEF HandleClientMessage, Polling, RequestInv
  <2>2. m.command = "done-ack" /\ ProcessFinalResult(m.uri, m.result)
    BY <2>1 DEF DispatchClientMessage
  <2>3. m.uri \in Active
    BY <2>1, <2>2, AcknowledgedIsActive
  <2>4. QED
    BY <2>1, <2>2, <2>3 DEF ProcessFinalResult, DiesSending, Abort
<1>4. ASSUME NEW u \in Uri, HandlePerformerMessage(u) \/ HandlePerformerEof(u)
      PROVE  worker' # "internal error"
  <2>1. u \in Active /\ worker = "running"
    BY <1>4 DEF HandlePerformerMessage, HandlePerformerEof, Piped, PollingPerformers, Polling
  <2>2. \/ UNCHANGED worker
        \/ \E result, rest : ProcessPreliminaryResult(u, result, rest)
    BY <1>4 DEF HandlePerformerMessage, HandlePerformerEof, ProcessProgressMessage
  <2>3. QED
    BY <2>1, <2>2, ResultIsActive
<1>5. CASE \/ UNCHANGED vars \/ Reap \/ Destroy \/ ParentDies \/ ParentEnds
           \/ \E u \in Uri : PerformerStep(u)
           \/ \E c \in Client : HandleClientEof(c) \/ Connect(c) \/ ClientStep(c)
  BY <1>5 DEF vars, workerVars, Reap, Destroy, ParentDies, ParentEnds, ParentPipeCloses, ClientDies,
     PerformerStep, ReportWrongSize, FinishPerform, PerformerExit, PerformerCrash, HandleClientEof,
     Connect, ClientStep, ScheduleDownload, ReceiveReply, ReceiveEof, Return
<1>6. QED
  BY <1>1, <1>2, <1>3, <1>4, <1>5 DEF Next, WorkerStep

LEMMA ClientErrors ==
  ASSUME RequestInv, NoInternalErrors, [Next]_vars, worker' = "running", NEW c \in Client
  PROVE  pc'[c] # "internal error"
<1>1. worker = "running" /\ WorkerInv /\ TypeOK
  BY NoSecondWorker DEF RequestInv, CallInv, TypeInv
<1>2. pc[c] # "internal error" /\ pc \in [Client -> {"idle", "working", "returned",
                                                        "internal error", "dead"}]
  BY <1>1 DEF NoInternalErrors, TypeOK, ClientTypeOK
<1>3. ASSUME NEW d \in Client, ReceiveReply(d)
      PROVE  pc' = pc
  <2> DEFINE u == Head(outbox[d]).uri
  <2>1. outbox[d] # <<>> /\ outbox[d] \in Seq(Reply)
    BY <1>1, <1>3 DEF ReceiveReply, TypeOK, ClientTypeOK
  <2>2. u \in Uri
    <3>1. Head(outbox[d]) \in Reply
      BY <2>1, HeadTailProperties
    <3>2. QED
      BY <3>1 DEF Reply
  <2>3. waited[d][u] # NoEntity
    BY <1>1, <2>1, <2>2, AnsweredOnce DEF WorkerInv
  <2>4. QED
    BY <1>3, <2>3 DEF ReceiveReply
<1>4. ASSUME NEW d \in Client, ReceiveEof(d)
      PROVE  FALSE
  BY <1>1, <1>4 DEF ReceiveEof, ConnectionLost
<1>5. ASSUME NEW d \in Client, Connect(d) \/ ScheduleDownload(d) \/ Return(d) \/ ClientDies(d)
      PROVE  pc'[c] # "internal error"
  BY <1>2, <1>5 DEF Connect, ScheduleDownload, Return, ClientDies
<1>6. CASE \/ UNCHANGED vars \/ WorkerStep \/ Destroy \/ ParentDies \/ ParentPipeCloses
           \/ \E u \in Uri : PerformerStep(u)
  <2>1. pc' = pc
    BY <1>6 DEF vars, clientVars, callVars, WorkerStep, HandleInternal, ForkFails, Reap,
       HandleParent, AcceptFails, HandleClientMessage, HandleClientEof, HandlePerformerMessage,
       HandlePerformerEof, Exit, ProcessProgressMessage, Destroy, ParentDies, ParentPipeCloses,
       PerformerStep, ReportWrongSize, FinishPerform, PerformerExit, PerformerCrash
  <2>2. QED
    BY <1>2, <2>1
<1>7. QED
  BY <1>2, <1>3, <1>4, <1>5, <1>6 DEF Next, ClientStep, ParentEnds

\* The fatal2i() about results in worker() and download() are unreachable: no result
\* arrives for a URI which is not active ("received preliminary result", "received
\* final result for unexistent download") or which the call does not wait for
\* ("received unknown uri"), and no call sees the end of its socket too early.
THEOREM InternalErrorsAreUnreachable == DistinctUris => (Safety => []NoInternalErrors)
<1> SUFFICES ASSUME DistinctUris
             PROVE  Safety => []NoInternalErrors
  OBVIOUS
<1>1. Init => NoInternalErrors
  BY DEF Init, NoInternalErrors
<1>2. RequestInv /\ NoInternalErrors /\ [Next]_vars => NoInternalErrors'
  BY WorkerErrors, ClientErrors DEF NoInternalErrors
<1>3. QED
  BY <1>1, <1>2, RequestInvariant, PTL DEF Safety
=============================================================================
