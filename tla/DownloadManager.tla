--------------------------- MODULE DownloadManager ---------------------------
(***************************************************************************)
(* The download manager (cpp/lib/src/download/manager.cpp).                *)
(*                                                                         *)
(* A forked worker process owns all the queues.  Clients are calls of      *)
(* Manager::download, each with a socket of its own to the worker; they    *)
(* run in threads of the parent process.  The worker forks one performer   *)
(* process for every download in progress and reads its pipe.  The worker  *)
(* drains its internal queue before it polls, and poll looks at the parent *)
(* pipe, then at the listening socket, then at the clients, then at the    *)
(* performers.                                                             *)
(*                                                                         *)
(* A definition whose name adds words to that of a later one (HasFreeSlot  *)
(* and HasFreeSlotOffByOne) is a wrong version of it: the properties must  *)
(* tell the two apart.                                                     *)
(*                                                                         *)
(* Left out: the progress meter and the messages which only feed it        *)
(* ("forward-to-progress", progress of a size the worker agrees with).     *)
(* Reuse of process and descriptor numbers by the kernel is not modelled.  *)
(***************************************************************************)
EXTENDS Integers, Sequences, FiniteSets

CONSTANTS
  Client,      \* calls of Manager::download, each in a thread of the parent
  Entity,      \* download entities; an entity stands for its target path too
  Uri,
  Owner,       \* Owner[e]: the client which passed entity e
  Uris,        \* Uris[e]: the URIs of e, sorted by priority of their protocols
  Sized,       \* entities whose size is known (size # -1)
  Limit,       \* cupt::downloader::max-simultaneous-downloads
  Faults,      \* what the environment may do: see FaultKind
  NoUri,       \* no URI: the worker is not inside waitpid()
  NoEntity     \* no entity: the URI is not in waitedUriToTargetPath

FaultKind == {"fork fails", "accept fails", "performer crashes", "parent dies"}

ASSUME ConstantsAssumption ==
  /\ Owner \in [Entity -> Client]
  /\ Uris \in [Entity -> Seq(Uri) \ {<<>>}]
  /\ Sized \subseteq Entity
  /\ Limit \in Nat
  /\ Faults \subseteq FaultKind
  /\ NoUri \notin Uri
  /\ NoEntity \notin Entity
  /\ IsFiniteSet(Uri)

VARIABLES
  (* the worker process *)
  worker,          \* "running", or how it ended
  exitFlag,
  reaping,         \* the URI whose performer the worker waits for in waitpid()
  workerQueue,     \* internal messages
  done,            \* final results of URIs
  activeDownloads, \* URI -> ActiveDownloadInfo, a function on the active URIs
  onHold,
  sizes,           \* URIs with a known size
  clientSockets,   \* accepted connections
  backlog,         \* connections which wait for accept()
  (* the performer processes and what they leave on disk *)
  process,         \* URI -> life of the performer process
  pipe,            \* URI -> unread messages of the performer
  placed,          \* entities with a complete file at their target path
  (* the parent process and the clients *)
  parent,
  parentPipe,      \* unread messages of the parent
  pc,              \* where a client is inside download()
  unscheduled,     \* entities whose first URI the client has still to request
  remaining,       \* entity -> sortedExtendedUris: URIs not tried yet
  waited,          \* client -> waitedUriToTargetPath: URI -> entity
  outcome,         \* entity -> what became of it
  inbox,           \* client -> messages to the worker
  outbox           \* client -> replies of the worker

socketVars == <<clientSockets, backlog>>
workerVars == <<worker, exitFlag, reaping, workerQueue, done, activeDownloads,
                onHold, sizes, socketVars>>
performerVars == <<process, placed>>
parentVars == <<parent, parentPipe>>
callVars == <<pc, unscheduled, remaining, waited, outcome>>
clientVars == <<parentVars, callVars, inbox, outbox>>
vars == <<workerVars, performerVars, pipe, clientVars>>

-----------------------------------------------------------------------------
(* Types *)

Result == {"ok", "error"}
NoResult == "none"

WorkerLife == {"running", "exited", "fork failed", "accept failed",
               "internal error", "bad socket", "broken pipe", "parent gone"}

\* "started": runs; "sized": has told a wrong size; "finishing": has sent its
\* result; "killed": was sent SIGTERM; "dead": ended and not waited for.
ProcessLife == {"none", "started", "sized", "finishing", "killed", "dead"}

Request == [uri : Uri, targetPath : Entity, waiterSocket : Client]

ActiveDownloadInfo ==
  [waiterSocket : Client, secondaryWaiterSockets : Seq(Client),
   targetPath : Entity, piped : BOOLEAN]

InternalMessage ==
       [command : {"proceed-download"}, request : Request]
  \cup [command : {"pop-download"}]
  \cup [command : {"done"}, uri : Uri, result : Result]

PerformerMessage == {"wrong size"} \cup Result

ClientMessage ==
       [command : {"set-download-size"}, uri : Uri]
  \cup [command : {"download"}, uri : Uri, targetPath : Entity]
  \cup [command : {"done-ack"}, uri : Uri, result : Result]

Reply == [uri : Uri, result : Result, isDuplicatedDownload : BOOLEAN]

Active == DOMAIN activeDownloads

WorkerTypeOK ==
  /\ worker \in WorkerLife
  /\ exitFlag \in BOOLEAN
  /\ reaping \in Uri \cup {NoUri}
  /\ workerQueue \in Seq(InternalMessage)
  /\ done \in [Uri -> Result \cup {NoResult}]
  /\ Active \subseteq Uri
  /\ activeDownloads \in [Active -> ActiveDownloadInfo]
  /\ onHold \in Seq(Request)
  /\ sizes \subseteq Uri

SocketTypeOK ==
  /\ clientSockets \subseteq Client
  /\ backlog \in Seq(Client)

PerformerTypeOK ==
  /\ process \in [Uri -> ProcessLife]
  /\ pipe \in [Uri -> Seq(PerformerMessage)]
  /\ placed \subseteq Entity

ClientTypeOK ==
  /\ parent \in {"alive", "destroying", "dying", "dead"}
  /\ parentPipe \in {"empty", "exit"}
  /\ pc \in [Client -> {"idle", "working", "returned", "internal error", "dead"}]
  /\ unscheduled \subseteq Entity
  /\ remaining \in [Entity -> Seq(Uri)]
  /\ waited \in [Client -> [Uri -> Entity \cup {NoEntity}]]
  /\ outcome \in [Entity -> Result \cup {NoResult}]
  /\ inbox \in [Client -> Seq(ClientMessage)]
  /\ outbox \in [Client -> Seq(Reply)]

TypeOK == WorkerTypeOK /\ SocketTypeOK /\ PerformerTypeOK /\ ClientTypeOK

Init ==
  /\ worker = "running"
  /\ exitFlag = FALSE
  /\ reaping = NoUri
  /\ workerQueue = <<>>
  /\ done = [u \in Uri |-> NoResult]
  /\ activeDownloads = [u \in {} |-> {}]
  /\ onHold = <<>>
  /\ sizes = {}
  /\ clientSockets = {}
  /\ backlog = <<>>
  /\ process = [u \in Uri |-> "none"]
  /\ pipe = [u \in Uri |-> <<>>]
  /\ placed = {}
  /\ parent = "alive"
  /\ parentPipe = "empty"
  /\ pc = [c \in Client |-> "idle"]
  /\ unscheduled = Entity
  /\ remaining = Uris
  /\ waited = [c \in Client |-> [u \in Uri |-> NoEntity]]
  /\ outcome = [e \in Entity |-> NoResult]
  /\ inbox = [c \in Client |-> <<>>]
  /\ outbox = [c \in Client |-> <<>>]

-----------------------------------------------------------------------------
(* Sockets and processes *)

\* The client has closed its end: download() returned or its process died.
Hangup(c) == pc[c] \in {"returned", "dead"}

\* A process which still runs code of its own.
Alive(u) == process[u] \in {"started", "sized", "finishing", "killed"}

\* The worker's end of every accepted connection is closed: the performers
\* inherit these descriptors, so the worker's death alone does not close them.
ConnectionLost == worker # "running" /\ \A u \in Uri : ~Alive(u)

\* kill(pid, SIGTERM) of the performers in U; a performer which has sent its
\* result exits all the same.
Sigterm(U) ==
  process' = [u \in Uri |-> IF u \in U /\ process[u] \in {"started", "sized"}
                            THEN "killed" ELSE process[u]]

\* An exception leaves worker(), or the parent is gone: terminateDownloadProcesses
\* and _exit(EXIT_FAILURE).
Abort(how) ==
  /\ worker' = how
  /\ Sigterm(Active)
  /\ UNCHANGED placed

\* write() to a socket whose other end is closed raises SIGPIPE, which nobody
\* handles; write() to a descriptor the worker has closed itself is an error.
Unreachable(c) == c \notin clientSockets \/ Hangup(c)

\* The positions of `sockets` served before the first write that fails.
Served(sockets) ==
  {i \in DOMAIN sockets : \A j \in 1 .. i : ~Unreachable(sockets[j])}

\* sendSocketMessage(socket, reply) for one socket after the other.
SendToAll(sockets, reply) ==
  outbox' = [c \in Client |-> outbox[c] \o
               [i \in 1 .. Cardinality({j \in Served(sockets) : sockets[j] = c})
                  |-> reply]]

AllServed(sockets) == Served(sockets) = DOMAIN sockets

\* The worker dies at the first socket which is not served.
DiesSending(sockets) ==
  \E i \in DOMAIN sockets \ Served(sockets) :
    /\ \A j \in 1 .. i - 1 : j \in Served(sockets)
    /\ IF sockets[i] \in clientSockets
       THEN worker' = "broken pipe" /\ UNCHANGED performerVars
       ELSE Abort("bad socket")

-----------------------------------------------------------------------------
(* Handlers of the worker.  `rest` is the internal queue without the       *)
(* message being handled.                                                  *)

Info(r) == [waiterSocket |-> r.waiterSocket, secondaryWaiterSockets |-> <<>>,
            targetPath |-> r.targetPath, piped |-> TRUE]

PopDownload == [command |-> "pop-download"]

Proceed(r) == [command |-> "proceed-download", request |-> r]

\* The URI was downloaded, or tried, before.
IsDone(u) == done[u] # NoResult

HasFreeSlotOffByOne == Cardinality(Active) <= Limit

HasFreeSlot == Cardinality(Active) < Limit

\* A request which takes no slot passes the wake-up on to the next on hold.
PassOnNothing(rest) == rest

PassOn(rest) == Append(rest, PopDownload)

\* "schedule next download if any"
ScheduleNext(queue) == Append(queue, PopDownload)

\* Those whom finishPendingDownloads answers.
NoPendingWaiters(u) == <<>>

PendingWaiters(u) == activeDownloads[u].secondaryWaiterSockets

\* A request which no earlier one answers and no limit holds back.
Startable(r) == ~IsDone(r.uri) /\ r.uri \notin Active /\ HasFreeSlot

\* "new element" of activeDownloads
AddActive(r) ==
  activeDownloads' = [u \in Active \cup {r.uri} |->
                        IF u = r.uri THEN Info(r) ELSE activeDownloads[u]]

\* startNewDownload: a new element of activeDownloads and a performer process.
StartNewDownload(r) ==
  /\ AddActive(r)
  /\ process' = [process EXCEPT ![r.uri] = "started"]
  /\ pipe' = [pipe EXCEPT ![r.uri] = <<>>]
  /\ UNCHANGED <<worker, placed>>

ProceedDownload(r, rest) ==
  /\ UNCHANGED <<exitFlag, reaping, done, sizes, socketVars>>
  /\ \/ /\ IsDone(r.uri)
        /\ SendToAll(<<r.waiterSocket>>,
                     [uri |-> r.uri, result |-> done[r.uri], isDuplicatedDownload |-> TRUE])
        /\ workerQueue' = PassOn(rest)
        /\ \/ AllServed(<<r.waiterSocket>>) /\ UNCHANGED <<worker, performerVars>>
           \/ DiesSending(<<r.waiterSocket>>)
        /\ UNCHANGED <<activeDownloads, onHold, pipe>>
     \/ /\ ~IsDone(r.uri)
        /\ r.uri \in Active
        /\ activeDownloads' = [activeDownloads EXCEPT
                                 ![r.uri].secondaryWaiterSockets = Append(@, r.waiterSocket)]
        /\ workerQueue' = PassOn(rest)
        /\ UNCHANGED <<worker, onHold, performerVars, pipe, outbox>>
     \/ /\ ~IsDone(r.uri)
        /\ r.uri \notin Active
        /\ ~HasFreeSlot
        /\ onHold' = Append(onHold, r)
        /\ workerQueue' = rest
        /\ UNCHANGED <<worker, activeDownloads, performerVars, pipe, outbox>>
     \/ /\ Startable(r)
        /\ StartNewDownload(r)
        /\ workerQueue' = rest
        /\ UNCHANGED <<onHold, outbox>>

\* "pop-download"
PopOnHold(rest) ==
  /\ IF onHold = <<>>
     THEN workerQueue' = rest /\ UNCHANGED onHold
     ELSE workerQueue' = Append(rest, Proceed(Head(onHold))) /\ onHold' = Tail(onHold)
  /\ UNCHANGED <<worker, exitFlag, reaping, done, activeDownloads, sizes,
                 socketVars, performerVars, pipe, outbox>>

\* The reply, then waitpid() on the performer: Reap is its return.
ProcessPreliminaryResult(u, result, rest) ==
  /\ workerQueue' = rest
  /\ UNCHANGED <<exitFlag, done, activeDownloads, onHold, sizes, socketVars>>
  /\ IF u \in Active
     THEN LET waiter == <<activeDownloads[u].waiterSocket>>
          IN  /\ SendToAll(waiter, [uri |-> u, result |-> result,
                                    isDuplicatedDownload |-> FALSE])
              /\ \/ /\ AllServed(waiter)
                    /\ reaping' = u
                    /\ UNCHANGED <<worker, performerVars>>
                 \/ DiesSending(waiter) /\ UNCHANGED reaping
     ELSE Abort("internal error") /\ UNCHANGED <<reaping, outbox>>

\* waitpid() returns and performerPipe.reset() drops what was not read.
ReapWithoutWaiting ==
  /\ worker = "running"
  /\ reaping # NoUri
  /\ pipe' = [pipe EXCEPT ![reaping] = <<>>]
  /\ activeDownloads' = [activeDownloads EXCEPT ![reaping].piped = FALSE]
  /\ reaping' = NoUri
  /\ UNCHANGED <<worker, exitFlag, workerQueue, done, onHold, sizes, socketVars,
                 performerVars, clientVars>>

Reap ==
  /\ worker = "running"
  /\ reaping # NoUri
  /\ process[reaping] = "dead"
  /\ process' = [process EXCEPT ![reaping] = "none"]
  /\ pipe' = [pipe EXCEPT ![reaping] = <<>>]
  /\ activeDownloads' = [activeDownloads EXCEPT ![reaping].piped = FALSE]
  /\ reaping' = NoUri
  /\ UNCHANGED <<worker, exitFlag, workerQueue, done, onHold, sizes, socketVars,
                 placed, clientVars>>

\* finishPendingDownloads, then the slot is free and somebody on hold may go.
ProcessFinalResult(u, result) ==
  /\ done' = [done EXCEPT ![u] = result]
  /\ UNCHANGED <<exitFlag, reaping, onHold, sizes>>
  /\ IF u \in Active
     THEN LET waiters == PendingWaiters(u)
          IN  /\ SendToAll(waiters, [uri |-> u, result |-> result,
                                     isDuplicatedDownload |-> TRUE])
              /\ \/ /\ AllServed(waiters)
                    /\ activeDownloads' = [v \in Active \ {u} |-> activeDownloads[v]]
                    /\ workerQueue' = ScheduleNext(workerQueue)
                    /\ UNCHANGED <<worker, performerVars>>
                 \/ DiesSending(waiters) /\ UNCHANGED <<workerQueue,
                                                        activeDownloads>>
     ELSE Abort("internal error") /\ UNCHANGED <<workerQueue, activeDownloads,
                                                 outbox>>

\* killPerformerBecauseOfWrongSize, when the size of the URI is known: its
\* failure goes to the internal queue and its file is removed.
ProcessProgressMessage(u) ==
  /\ UNCHANGED <<worker, exitFlag, reaping, done, activeDownloads, onHold, sizes,
                 socketVars, clientVars>>
  /\ IF u \in sizes
     THEN /\ Sigterm({u})
          /\ workerQueue' = Append(workerQueue, [command |-> "done", uri |-> u,
                                                 result |-> "error"])
          /\ placed' = placed \ {activeDownloads[u].targetPath}
     ELSE UNCHANGED <<workerQueue, performerVars>>

-----------------------------------------------------------------------------
(* The loop of the worker: pollAllInput and the dispatch of one message    *)

\* Messages of the internal queue come first.
HandleInternal ==
  /\ worker = "running"
  /\ reaping = NoUri
  /\ workerQueue # <<>>
  /\ LET m == Head(workerQueue)
         rest == Tail(workerQueue)
     IN  \/ m.command = "proceed-download" /\ ProceedDownload(m.request, rest)
         \/ m.command = "pop-download" /\ PopOnHold(rest)
         \/ m.command = "done" /\ ProcessPreliminaryResult(m.uri, m.result, rest) /\ UNCHANGED pipe
  /\ UNCHANGED <<parentVars, callVars, inbox>>

\* startNewDownload when fork() fails.  The process number of the new element is
\* still 0 when terminateDownloadProcesses signals the elements, and kill(0)
\* reaches every process of the group: the parent as well.
ForkFails ==
  /\ "fork fails" \in Faults
  /\ worker = "running"
  /\ reaping = NoUri
  /\ workerQueue # <<>>
  /\ Head(workerQueue).command = "proceed-download"
  /\ Startable(Head(workerQueue).request)
  /\ AddActive(Head(workerQueue).request)
  /\ Abort("fork failed")
  /\ parent' = IF parent = "dead" THEN "dead" ELSE "dying"
  /\ workerQueue' = Tail(workerQueue)
  /\ UNCHANGED <<exitFlag, reaping, done, onHold, sizes, socketVars, pipe,
                 parentPipe, callVars, inbox, outbox>>

Polling == worker = "running" /\ reaping = NoUri /\ workerQueue = <<>>

ParentReadyToExitOnly == parentPipe = "exit"

ParentReady == parentPipe = "exit" \/ parent = "dead"

ClientReady(c) == inbox[c] # <<>> \/ Hangup(c)

NoEarlierInput == ~ParentReady /\ backlog = <<>>

NoClientInput == \A c \in clientSockets : ~ClientReady(c)

\* "exit" from the destructor, or the end of the parent process.
HandleParent ==
  /\ Polling
  /\ ParentReady
  /\ IF parentPipe = "exit"
     THEN /\ exitFlag' = TRUE
          /\ parentPipe' = "empty"
          /\ UNCHANGED <<worker, performerVars>>
     ELSE Abort("parent gone") /\ UNCHANGED <<exitFlag, parentPipe>>
  /\ UNCHANGED <<reaping, workerQueue, done, activeDownloads, onHold, sizes,
                 socketVars, pipe, parent, callVars, inbox, outbox>>

\* "unable to accept new socket connection"
AcceptFails ==
  /\ "accept fails" \in Faults
  /\ Polling
  /\ ~ParentReady
  /\ backlog # <<>>
  /\ Abort("accept failed")
  /\ UNCHANGED <<exitFlag, reaping, workerQueue, done, activeDownloads, onHold,
                 sizes, socketVars, pipe, clientVars>>

\* The message comes from a client which is connected already, or from the
\* next connection: accept() is followed by a blocking read from it.
Source(c, sockets) ==
  \/ /\ backlog # <<>>
     /\ c = Head(backlog)
     /\ backlog' = Tail(backlog)
     /\ sockets = clientSockets \cup {c}
  \/ /\ NoEarlierInput
     /\ c \in clientSockets
     /\ UNCHANGED backlog
     /\ sockets = clientSockets

DispatchClientMessage(c, m) ==
  \/ /\ m.command = "set-download-size"
     /\ sizes' = sizes \cup {m.uri}
     /\ UNCHANGED <<worker, exitFlag, reaping, workerQueue, done, activeDownloads,
                    onHold, performerVars, outbox>>
  \/ /\ m.command = "download"
     /\ workerQueue' = Append(workerQueue,
          Proceed([uri |-> m.uri, targetPath |-> m.targetPath, waiterSocket |-> c]))
     /\ UNCHANGED <<worker, exitFlag, reaping, done, activeDownloads, onHold,
                    sizes, performerVars, outbox>>
  \/ m.command = "done-ack" /\ ProcessFinalResult(m.uri, m.result)

HandleClientMessage(c) ==
  /\ Polling
  /\ inbox[c] # <<>>
  /\ \E sockets \in {clientSockets, clientSockets \cup {c}} :
       Source(c, sockets) /\ clientSockets' = sockets
  /\ inbox' = [inbox EXCEPT ![c] = Tail(@)]
  /\ DispatchClientMessage(c, Head(inbox[c]))
  /\ UNCHANGED <<pipe, parentVars, callVars>>

\* clientSockets.erase(sock)
ErasedNothing(c, sockets) == sockets

Erased(c, sockets) == sockets \ {c}

HandleClientEof(c) ==
  /\ Polling
  /\ inbox[c] = <<>>
  /\ Hangup(c)
  /\ \E sockets \in {clientSockets, clientSockets \cup {c}} :
       Source(c, sockets) /\ clientSockets' = Erased(c, sockets)
  /\ UNCHANGED <<worker, exitFlag, reaping, workerQueue, done, activeDownloads,
                 onHold, sizes, performerVars, pipe, clientVars>>

\* The pipe of a performer is polled until performerPipe.reset().
Piped(u) == u \in Active /\ activeDownloads[u].piped

PollingPerformers == Polling /\ NoEarlierInput /\ NoClientInput

HandlePerformerMessage(u) ==
  /\ PollingPerformers
  /\ Piped(u)
  /\ pipe[u] # <<>>
  /\ pipe' = [pipe EXCEPT ![u] = Tail(@)]
  /\ IF Head(pipe[u]) = "wrong size"
     THEN ProcessProgressMessage(u)
     ELSE /\ ProcessPreliminaryResult(u, Head(pipe[u]), workerQueue)
          /\ UNCHANGED <<parentVars, callVars, inbox>>

\* "download method exited unexpectedly"
UnexpectedExit == "error"

HandlePerformerEof(u) ==
  /\ PollingPerformers
  /\ Piped(u)
  /\ pipe[u] = <<>>
  /\ process[u] = "dead"
  /\ ProcessPreliminaryResult(u, UnexpectedExit, workerQueue)
  /\ UNCHANGED <<pipe, parentVars, callVars, inbox>>

PerformerReady(u) == Piped(u) /\ (pipe[u] # <<>> \/ process[u] = "dead")

NoMoreInput == PollingPerformers /\ \A u \in Uri : ~PerformerReady(u)

\* exitFlag is set and there are no more messages to read.
Exit ==
  /\ exitFlag
  /\ NoMoreInput
  /\ worker' = "exited"
  /\ UNCHANGED <<exitFlag, reaping, workerQueue, done, activeDownloads, onHold,
                 sizes, socketVars, performerVars, pipe, clientVars>>

WorkerStep ==
  \/ HandleInternal
  \/ ForkFails
  \/ Reap
  \/ HandleParent
  \/ AcceptFails
  \/ \E c \in Client : HandleClientMessage(c) \/ HandleClientEof(c)
  \/ \E u \in Uri : HandlePerformerMessage(u) \/ HandlePerformerEof(u)
  \/ Exit

-----------------------------------------------------------------------------
(* The performer process of a URI: startNewDownload after fork(), perform  *)

\* sendSocketMessage of a performer; nobody reads once the worker is gone or
\* has reset the pipe, and SIGPIPE ends the process.
PerformerSends(u, message, next) ==
  IF worker = "running" /\ Piped(u)
  THEN /\ pipe' = [pipe EXCEPT ![u] = Append(@, message)]
       /\ process' = [process EXCEPT ![u] = next]
  ELSE /\ process' = [process EXCEPT ![u] = "dead"]
       /\ UNCHANGED pipe

\* "expected-size" or "downloading" tells a size which is not the known one.
\* A performer does so at most once (the bound of this model).
ReportWrongSize(u) ==
  /\ process[u] = "started"
  /\ PerformerSends(u, "wrong size", "sized")
  /\ UNCHANGED <<workerVars, placed, clientVars>>

\* The method returns and "done" is sent.  A method which was too slow to die
\* of SIGTERM may get as far, but its file was unlinked.
FinishPerform(u, result) ==
  /\ process[u] \in {"started", "sized", "killed"}
  /\ PerformerSends(u, result, "finishing")
  /\ placed' = IF result = "ok" /\ process[u] # "killed" /\ u \in Active
               THEN placed \cup {activeDownloads[u].targetPath} ELSE placed
  /\ UNCHANGED <<workerVars, clientVars>>

\* _exit(0) or the delivery of SIGTERM.
PerformerExit(u) ==
  /\ process[u] \in {"finishing", "killed"}
  /\ process' = [process EXCEPT ![u] = "dead"]
  /\ UNCHANGED <<workerVars, pipe, placed, clientVars>>

PerformerCrash(u) ==
  /\ "performer crashes" \in Faults
  /\ process[u] \in {"started", "sized"}
  /\ process' = [process EXCEPT ![u] = "dead"]
  /\ UNCHANGED <<workerVars, pipe, placed, clientVars>>

PerformerStep(u) ==
  \/ ReportWrongSize(u)
  \/ \E result \in Result : FinishPerform(u, result)
  \/ PerformerExit(u)
  \/ PerformerCrash(u)

-----------------------------------------------------------------------------
(* A client: one call of Manager::download                                 *)

EntitiesOf(c) == {e \in Entity : Owner[e] = c}

\* Both messages of scheduleDownload for the first of the remaining URIs.
RequestsSwapped(e) ==
  <<[command |-> "download", uri |-> e, targetPath |-> Head(remaining[e])]>>

Requests(e) ==
  LET uri == Head(remaining[e])
  IN  (IF e \in Sized THEN <<[command |-> "set-download-size", uri |-> uri]>> ELSE <<>>)
        \o <<[command |-> "download", uri |-> uri, targetPath |-> e]>>

\* A write to a connection which the worker has closed kills the whole parent.
ClientSends(c, messages) ==
  IF messages # <<>> /\ c \in clientSockets /\ ConnectionLost
  THEN parent' = "dying" /\ UNCHANGED inbox
  ELSE inbox' = [inbox EXCEPT ![c] = @ \o messages] /\ UNCHANGED parent

Connect(c) ==
  /\ parent = "alive"
  /\ pc[c] = "idle"
  /\ pc' = [pc EXCEPT ![c] = "working"]
  /\ backlog' = Append(backlog, c)
  /\ UNCHANGED <<worker, exitFlag, reaping, workerQueue, done, activeDownloads,
                 onHold, sizes, clientSockets, performerVars, pipe, parentVars,
                 unscheduled, remaining, waited, outcome, inbox, outbox>>

Scheduling(c) == EntitiesOf(c) \cap unscheduled

\* The first URI of an entity.
ScheduleDownload(c) ==
  /\ parent = "alive"
  /\ pc[c] = "working"
  /\ \E e \in Scheduling(c) :
       /\ ClientSends(c, Requests(e))
       /\ unscheduled' = unscheduled \ {e}
       /\ remaining' = [remaining EXCEPT ![e] = Tail(@)]
       /\ waited' = [waited EXCEPT ![c][Head(remaining[e])] = e]
  /\ UNCHANGED <<workerVars, performerVars, pipe, parentPipe, pc, outcome,
                 outbox>>

WaitedUris(c) == {u \in Uri : waited[c][u] # NoEntity}

Waiting(c) == parent = "alive" /\ pc[c] = "working" /\ Scheduling(c) = {}

\* The post action of an entity turns a fresh success into its own result.
PostAction(reply) ==
  IF reply.result = "ok" /\ ~reply.isDuplicatedDownload THEN Result ELSE {reply.result}

AcknowledgeSuccess(reply, result) ==
  IF reply.isDuplicatedDownload \/ result = "error" THEN <<>>
  ELSE <<[command |-> "done-ack", uri |-> reply.uri, result |-> result]>>

AcknowledgeDownload(reply, result) ==
  IF reply.isDuplicatedDownload THEN <<>>
  ELSE <<[command |-> "done-ack", uri |-> reply.uri, result |-> reply.result]>>

Acknowledge(reply, result) ==
  IF reply.isDuplicatedDownload THEN <<>>
  ELSE <<[command |-> "done-ack", uri |-> reply.uri, result |-> result]>>

\* A reply for a URI which is waited: the post action, "done-ack", and on
\* failure the next URI of the entity.
ReceiveReply(c) ==
  /\ Waiting(c)
  /\ WaitedUris(c) # {}
  /\ outbox[c] # <<>>
  /\ outbox' = [outbox EXCEPT ![c] = Tail(@)]
  /\ LET reply == Head(outbox[c])
         e == waited[c][reply.uri]
         forgotten == [waited EXCEPT ![c][reply.uri] = NoEntity]
     IN  \/ /\ e # NoEntity
           /\ \E result \in PostAction(reply) :
                \/ /\ result = "error"
                   /\ remaining[e] # <<>>
                   /\ ClientSends(c, Acknowledge(reply, result) \o Requests(e))
                   /\ remaining' = [remaining EXCEPT ![e] = Tail(@)]
                   /\ waited' = [forgotten EXCEPT ![c][Head(remaining[e])] = e]
                   /\ UNCHANGED outcome
                \/ /\ result = "ok" \/ remaining[e] = <<>>
                   /\ ClientSends(c, Acknowledge(reply, result))
                   /\ outcome' = [outcome EXCEPT ![e] = result]
                   /\ waited' = forgotten
                   /\ UNCHANGED remaining
           /\ UNCHANGED pc
        \/ /\ e = NoEntity  \* "received unknown uri"
           /\ pc' = [pc EXCEPT ![c] = "internal error"]
           /\ UNCHANGED <<parent, remaining, waited, outcome, inbox>>
  /\ UNCHANGED <<workerVars, performerVars, pipe, parentPipe, unscheduled>>

\* "eof" is not a reply: "wrong parameter count for download result message".
ReceiveEof(c) ==
  /\ Waiting(c)
  /\ WaitedUris(c) # {}
  /\ outbox[c] = <<>>
  /\ c \in clientSockets
  /\ ConnectionLost
  /\ pc' = [pc EXCEPT ![c] = "internal error"]
  /\ UNCHANGED <<workerVars, performerVars, pipe, parentVars, unscheduled,
                 remaining, waited, outcome, inbox, outbox>>

\* Nothing is waited for any more: close(sock).
Return(c) ==
  /\ Waiting(c)
  /\ WaitedUris(c) = {}
  /\ pc' = [pc EXCEPT ![c] = "returned"]
  /\ UNCHANGED <<workerVars, performerVars, pipe, parentVars, unscheduled,
                 remaining, waited, outcome, inbox, outbox>>

\* download() while it runs; Connect starts it.
ClientStep(c) ==
  ScheduleDownload(c) \/ ReceiveReply(c) \/ ReceiveEof(c) \/ Return(c)

-----------------------------------------------------------------------------
(* The parent process                                                      *)

\* ~ManagerImpl, once no download() runs any more.
Destroy ==
  /\ parent = "alive"
  /\ \A c \in Client : pc[c] # "working"
  /\ parent' = "destroying"
  /\ parentPipe' = IF worker = "running" THEN "exit" ELSE parentPipe
  /\ UNCHANGED <<workerVars, performerVars, pipe, callVars, inbox, outbox>>

\* The parent is killed.  The kernel closes its descriptors one by one.
ParentDies ==
  /\ "parent dies" \in Faults
  /\ parent \in {"alive", "destroying"}
  /\ parent' = "dying"
  /\ UNCHANGED <<workerVars, performerVars, pipe, parentPipe, callVars, inbox,
                 outbox>>

ClientDies(c) ==
  /\ parent \in {"dying", "dead"}
  /\ pc[c] \in {"working", "internal error"}
  /\ pc' = [pc EXCEPT ![c] = "dead"]
  /\ UNCHANGED <<workerVars, performerVars, pipe, parentVars, unscheduled,
                 remaining, waited, outcome, inbox, outbox>>

ParentPipeCloses ==
  /\ parent = "dying"
  /\ parent' = "dead"
  /\ UNCHANGED <<workerVars, performerVars, pipe, parentPipe, callVars, inbox,
                 outbox>>

ParentEnds == ParentPipeCloses \/ \E c \in Client : ClientDies(c)

Next ==
  \/ WorkerStep
  \/ \E u \in Uri : PerformerStep(u)
  \/ \E c \in Client : Connect(c) \/ ClientStep(c)
  \/ Destroy
  \/ ParentDies
  \/ ParentEnds

Safety == Init /\ [][Next]_vars

\* The worker and the clients are processes which the system schedules; every
\* download method ends (connections have timeouts) and a killed process dies.
Fairness ==
  /\ WF_vars(WorkerStep)
  /\ \A u \in Uri : /\ WF_vars(\E result \in Result : FinishPerform(u, result))
                    /\ WF_vars(PerformerExit(u))
  /\ \A c \in Client : WF_vars(ClientStep(c))
  /\ WF_vars(ParentEnds)

Spec == Safety /\ Fairness

-----------------------------------------------------------------------------
(* Properties *)

\* proceedDownload never starts a download above
\* cupt::downloader::max-simultaneous-downloads, counting those between "done"
\* and "done-ack", however often requests go on hold and come back.
SlotLimit == Cardinality(Active) <= Limit

\* Where the request of client c for URI u can be, and how often it is there.
Positions(seq, Test(_)) == Cardinality({i \in DOMAIN seq : Test(seq[i])})

Replied(u) == reaping = u \/ ~activeDownloads[u].piped

RequestCount(c, u) ==
    Positions(inbox[c], LAMBDA m : m.command = "download" /\ m.uri = u)
  + Positions(workerQueue, LAMBDA m : /\ m.command = "proceed-download"
                                      /\ m.request.uri = u
                                      /\ m.request.waiterSocket = c)
  + Positions(onHold, LAMBDA r : r.uri = u /\ r.waiterSocket = c)
  + (IF u \in Active /\ activeDownloads[u].waiterSocket = c /\ ~Replied(u) THEN 1 ELSE 0)
  + (IF u \in Active
     THEN Positions(activeDownloads[u].secondaryWaiterSockets, LAMBDA s : s = c) ELSE 0)
  + Positions(outbox[c], LAMBDA r : r.uri = u)

\* Every request a client waits for is in exactly one place of the manager, and
\* nothing else is: no request or reply is lost, answered twice or misdirected
\* on the way through the queue, the hold list, the waiters and the sockets.
EveryRequestIsSomewhere ==
  worker = "running" =>
    \A c \in Client, u \in Uri :
      pc[c] = "working" => RequestCount(c, u) = IF waited[c][u] = NoEntity THEN 0 ELSE 1

\* While downloads are on hold, every free slot has a message in the internal
\* queue which will use it or pass it on: no wake-up is lost.
NoLostWakeup ==
  worker = "running" /\ onHold # <<>> =>
    Limit - Cardinality(Active) <=
      Positions(workerQueue, LAMBDA m : m.command \in {"pop-download", "proceed-download"})

\* Two performers never write to one target path at a time: the retry with the
\* next URI of an entity starts only after the previous performer, killed or
\* not, was waited for.
Writes(u) == process[u] \in {"started", "sized", "killed"}

OneWriterPerTarget ==
  worker = "running" =>
    \A u \in Uri : Writes(u) =>
      /\ u \in Active
      /\ \A v \in Active \ {u} : Writes(v) =>
            activeDownloads[v].targetPath # activeDownloads[u].targetPath

\* Every call of download() ends, unless the process does or the worker accepts
\* no calls any more: requests on hold get a slot, secondary waiters an answer,
\* failed URIs are retried until the list is empty.
EveryCallReturns ==
  \A c \in Client :
    pc[c] = "working" ~> pc[c] # "working" \/ parent = "dead" \/ worker = "accept failed"

\* ~ManagerImpl does not wait for ever in waitpid(), and a worker which was asked
\* to exit leaves no download, no request on hold and no process behind, though
\* "exit" overtakes what the clients have sent.
NothingIsLeft ==
  /\ Active = {}
  /\ onHold = <<>>
  /\ \A u \in Uri : process[u] = "none"

WorkerExits ==
  parent = "destroying" ~>
    worker # "running" /\ (worker = "exited" /\ parent # "dead" => NothingIsLeft)

\* "parent process exited before closing parentPipe socket... no reason to live
\* anymore": the worker and all performers end after the parent.
NothingOutlivesTheParent ==
  parent = "dead" ~> worker # "running" /\ \A u \in Uri : ~Alive(u)

-----------------------------------------------------------------------------
(* The service which calls of download() see.  A call whose process died, or
   which saw the worker abort or exit, is lost; one which ended in an internal
   error of its own or of the worker has no place in the service. *)
Call ==
  [c \in Client |->
     IF \/ pc[c] = "dead"
        \/ pc[c] = "internal error" /\ worker \notin {"running", "internal error"}
     THEN "lost" ELSE pc[c]]

Service == INSTANCE DownloadService WITH
  call <- Call, files <- placed, result <- done, answer <- outcome

\* Seen from download(), queues, slots, performers and messages do not matter:
\* every URI gets one result and everybody who shares it hears the same, a
\* success only after the post action of the call which downloaded the file; a
\* file behind a success stays; calls end when all is answered.  The fatal2i()
\* of worker and download() are unreachable: no result arrives for a URI which
\* is not active (a killed performer's late "done" included) or not waited for.
ImplementsService == Service!ServiceSpec

-----------------------------------------------------------------------------
(* What comments and documentation say and the code does not do            *)

\* The destructor reports that "the download worker process aborted
\* unexpectedly": a worker which aborts ends its performers and nobody else.
AbortSparesTheParent == worker = "fork failed" => parent # "dying"
=============================================================================
