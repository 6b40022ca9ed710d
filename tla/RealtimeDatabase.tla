-------------------------- MODULE RealtimeDatabase --------------------------
(***************************************************************************)
(* The Firebase Realtime Database client as ThermoCheck uses it: one       *)
(* .childAdded observer on users/<uid>/entryPoints, saves of new children  *)
(* of that node, and removals of the whole users/<uid> node.               *)
(*                                                                         *)
(* The client runs on a serial queue of its own.  The app's calls are      *)
(* enqueued on it (calls); its events and completion callbacks are         *)
(* enqueued on the app's main queue (mainQ).  A write takes effect locally *)
(* before the server has seen it and is undone if the server refuses it.   *)
(* The server, and the other devices of the same user, are external: they  *)
(* are modelled from the protocol the client speaks with them.             *)
(***************************************************************************)
EXTENDS Naturals, FiniteSets, Sequences, SequencesExt

CONSTANTS
  Points,     \* entry points; each stands for one childByAutoId key
  Clears,     \* removals of the user's node
  Elsewhere,  \* the writes that another device of the user may issue
  Statuses,   \* the server's possible answers to a request
  MaxLosses,  \* bound: how often the connection is lost
  MaxDeaths   \* bound: how often the process dies

ASSUME WritesAssumption ==
  /\ Points \cap Clears = {}
  /\ {"auth", "observe", "data"} \cap (Points \cup Clears) = {}
  /\ Elsewhere \subseteq Points \cup Clears
ASSUME FinitePointsAssumption == IsFiniteSet(Points)
ASSUME StatusesAssumption == "ok" \in Statuses /\ Statuses \subseteq {"ok", "denied"}
ASSUME BoundsAssumption == MaxLosses \in Nat /\ MaxDeaths \in Nat

VARIABLES
  calls,        \* blocks waiting on FIRDatabaseQuery.sharedQueue
  pending,      \* FWriteTree.allWrites: writes without an answer, in writeId order
  listen,       \* the observer's listen: "off", "unacked" or "acked"
  serverCache,  \* the children the server has told this client about
  connection,   \* FPersistentConnection: "off", "authenticating" or "on"
  toServer,     \* requests on the wire
  toClient,     \* answers and data pushes on the wire
  mainQ,        \* events and completion blocks waiting on the main queue
  server,       \* the children stored under users/<uid>/entryPoints
  watching,     \* the server pushes changes over the present connection
  losses,       \* connection losses so far
  deaths,       \* process deaths so far
  taken,        \* history: writes issued so far, by any device
  outcome,      \* history: the answer each write's completion block was given
  covers        \* history: the points that were issued before each clear

client   == <<calls, pending, listen, serverCache>>
wire     == <<connection, toServer, toClient, watching, losses, deaths>>
history  == <<taken, outcome, covers>>
dbVars   == <<client, wire, mainQ, server, history>>

Write    == Points \cup Clears
Request  == Write \cup {"auth", "observe"}

Message ==
       [type : {"auth"}]
  \cup [type : {"data"}, points : SUBSET Points]
  \cup [type : {"listen"}, status : {"ok", "denied"}]
  \cup [type : {"put"}, write : Write, status : {"ok", "denied"}]

MainBlock ==
       [block : {"childAdded"}, point : Points]
  \cup [block : {"answer"}, write : Write, status : {"ok", "denied"}]

-----------------------------------------------------------------------------
\* mutant of Overlay: the server's children show through a removal
OverlayLeaky(cache, writes) ==
  cache \cup (ToSet(writes) \cap Points)

(***************************************************************************)
(* What the observer sees: the server's children under the writes that are *)
(* still pending.  A removal hides everything that was written before it;  *)
(* a save after the last removal shows its point.                          *)
(***************************************************************************)
Overlay(cache, writes) ==
  {p \in Points :
     \/ p \in cache /\ \A i \in DOMAIN writes : writes[i] \notin Clears
     \/ \E i \in DOMAIN writes :
          /\ writes[i] = p
          /\ \A j \in DOMAIN writes : j > i => writes[j] \notin Clears}

EventCache == IF listen = "off" THEN {} ELSE Overlay(serverCache, pending)

\* mutant of ChildAdded: a child that appears is announced as removed
ChildRemoved(p) == [block |-> "childRemoved", point |-> p]

ChildAdded(p) == [block |-> "childAdded", point |-> p]

\* mutant of Raise: every child is announced again
RaiseAll(answers) ==
  \E added \in SetToSeqs(EventCache') :
    mainQ' = mainQ \o [i \in 1..Len(added) |-> ChildAdded(added[i])] \o answers

(***************************************************************************)
(* After a change of its caches the client enqueues, on the main queue,    *)
(* one childAdded event for each child that appeared (in the order of keys *)
(* the model does not carry) and after them the completion block it has to *)
(* call.  Children that disappeared raise childRemoved, which this app     *)
(* does not observe.                                                       *)
(***************************************************************************)
Raise(answers) ==
  \E added \in SetToSeqs(EventCache' \ EventCache) :
    mainQ' = mainQ \o [i \in 1..Len(added) |-> ChildAdded(added[i])] \o answers

Init ==
  /\ calls = <<"observe">>
  /\ pending = <<>>
  /\ listen = "off"
  /\ serverCache = {}
  /\ connection = "off"
  /\ toServer = <<>>
  /\ toClient = <<>>
  /\ mainQ = <<>>
  /\ server \in SUBSET Points
  /\ watching = FALSE
  /\ losses = 0 /\ deaths = 0
  /\ taken = server
  /\ outcome = [w \in Write |-> "none"]
  /\ covers = [c \in Clears |-> {}]

-----------------------------------------------------------------------------
(* The app's thread. *)

(* A write gets its key, and its place after the writes before it, when it *)
(* is issued.                                                              *)
Issue(w) ==
  /\ w \in Write \ taken
  /\ taken' = taken \cup {w}
  /\ covers' = IF w \in Clears
               THEN [covers EXCEPT ![w] = taken \cap Points]
               ELSE covers
  /\ UNCHANGED outcome

(* setValue / removeValue: validate, then enqueue set:withNode:.           *)
CallWrite(w) ==
  /\ w \notin Elsewhere
  /\ Issue(w)
  /\ calls' = Append(calls, w)

(* The main queue runs its next block.                                     *)
TakeBlock ==
  /\ mainQ # <<>>
  /\ mainQ' = Tail(mainQ)

-----------------------------------------------------------------------------
(* The client's serial queue. *)

(* addEventRegistration: the view starts from the pending writes, since    *)
(* nothing is cached before the first listen, and the listen is sent when  *)
(* there is a connection, even one that is still authenticating.           *)
RunObserve ==
  /\ calls # <<>> /\ Head(calls) = "observe"
  /\ calls' = Tail(calls)
  /\ listen' = "unacked"
  /\ toServer' = IF connection # "off" THEN Append(toServer, "observe") ELSE toServer
  /\ UNCHANGED <<pending, serverCache>>
  /\ Raise(<<>>)
  /\ UNCHANGED <<connection, toClient, watching, losses, deaths, server, history>>

(* set:withNode: the write is recorded, its events are raised, and it is   *)
(* sent when the connection is authenticated.                              *)
RunWrite ==
  /\ calls # <<>> /\ Head(calls) \in Write
  /\ calls' = Tail(calls)
  /\ pending' = Append(pending, Head(calls))
  /\ UNCHANGED <<listen, serverCache>>
  /\ Raise(<<>>)
  /\ toServer' = IF connection = "on" THEN Append(toServer, Head(calls)) ELSE toServer
  /\ UNCHANGED <<connection, toClient, watching, losses, deaths, server, history>>

Listens == IF listen = "off" THEN <<>> ELSE <<"observe">>

\* mutants of Restored: no puts, puts before listens, keys not sorted
RestoredListens  == Listens
RestoredPutFirst == pending \o Listens
RestoredUnsorted == Listens \o Reverse(pending)

(* restoreState: the listens are sent, then every outstanding put in the   *)
(* order of the indices.                                                   *)
Restored == Listens \o pending

(* onReady: the user is signed in, so the client authenticates first.      *)
Connect ==
  /\ connection = "off"
  /\ connection' = "authenticating"
  /\ toServer' = <<"auth">>
  /\ UNCHANGED <<client, toClient, watching, losses, deaths, mainQ, server, history>>

(* onDisconnect: the answers in flight are lost with the callbacks that    *)
(* waited for them; the writes stay outstanding.                           *)
Disconnect ==
  /\ connection # "off" /\ losses < MaxLosses
  /\ losses' = losses + 1
  /\ connection' = "off"
  /\ listen' = IF listen = "acked" THEN "unacked" ELSE listen
  /\ toServer' = <<>>
  /\ toClient' = <<>>
  /\ watching' = FALSE
  /\ UNCHANGED <<calls, pending, serverCache, deaths, mainQ, server, history>>

Receive(m) ==
  /\ toClient # <<>> /\ Head(toClient) = m
  /\ toClient' = Tail(toClient)
  /\ UNCHANGED <<calls, watching, losses, deaths, server>>

(* The connection is authenticated: what is outstanding is sent, a listen  *)
(* that was sent meanwhile once more.  (A refused token closes the         *)
(* connection, which Disconnect covers.)                                   *)
ReceiveAuthAnswer ==
  /\ Receive([type |-> "auth"])
  /\ connection' = "on"
  /\ toServer' = toServer \o Restored
  /\ UNCHANGED <<pending, listen, serverCache, mainQ, history>>

\* mutant of WithData: a push is dropped while a write is pending
WithDataIfQuiet(S) == IF listen = "off" \/ pending # <<>> THEN serverCache ELSE S

(* A data push replaces what the client knows of the node, while it has a  *)
(* view of it, and whatever is pending.                                    *)
WithData(S) == IF listen = "off" THEN serverCache ELSE S

ReceiveData ==
  \E S \in SUBSET Points :
    /\ Receive([type |-> "data", points |-> S])
    /\ serverCache' = WithData(S)
    /\ UNCHANGED <<pending, listen, connection, toServer, history>>
    /\ Raise(<<>>)

(* The answer to a listen.  A refused listen removes the registration and  *)
(* its view: the observer is never called again, and further answers are   *)
(* ignored.                                                                *)
ReceiveListenAnswer ==
  \E s \in Statuses :
    /\ Receive([type |-> "listen", status |-> s])
    /\ listen' = IF s = "ok" /\ listen # "off" THEN "acked" ELSE "off"
    /\ serverCache' = IF s = "ok" THEN serverCache ELSE {}
    /\ UNCHANGED <<pending, connection, toServer, history>>
    /\ Raise(<<>>)

\* mutant of Answered: an answered put stays outstanding
AnsweredKept(i) == pending

Answered(i) == RemoveAt(pending, i)

(* The answer to a put: the write leaves the pending writes, whether it    *)
(* was accepted (the server's data already carries it) or refused (it is   *)
(* reverted), the events of that are raised, then its completion block.    *)
(* The put is answered after every listen of the same connection, so the   *)
(* client never has to hold the acknowledgement back (putsToAck).          *)
ReceivePutAnswer ==
  \E i \in DOMAIN pending, s \in Statuses :
    /\ Receive([type |-> "put", write |-> pending[i], status |-> s])
    /\ pending' = Answered(i)
    /\ outcome' = [outcome EXCEPT ![pending[i]] = s]
    /\ UNCHANGED <<listen, serverCache, connection, toServer, taken, covers>>
    /\ Raise(<<[block |-> "answer", write |-> pending[i], status |-> s]>>)

-----------------------------------------------------------------------------
(* The server, and the other devices (external). *)

Stored(w, S) == IF w \in Clears THEN {} ELSE S \cup {w}

Push(S) ==
  IF watching /\ S # server THEN <<[type |-> "data", points |-> S]>> ELSE <<>>

ServerAuthenticates ==
  /\ toServer # <<>> /\ Head(toServer) = "auth"
  /\ toServer' = Tail(toServer)
  /\ toClient' = Append(toClient, [type |-> "auth"])
  /\ UNCHANGED <<client, connection, watching, losses, deaths, mainQ, server, history>>

ServerListens ==
  /\ toServer # <<>> /\ Head(toServer) = "observe"
  /\ toServer' = Tail(toServer)
  /\ \E s \in Statuses :
       /\ watching' = (s = "ok")
       /\ toClient' = toClient
            \o (IF s = "ok" THEN <<[type |-> "data", points |-> server]>> ELSE <<>>)
            \o <<[type |-> "listen", status |-> s]>>
  /\ UNCHANGED <<client, connection, losses, deaths, mainQ, server, history>>

(* The data a write changes is pushed before the write is answered.        *)
ServerAccepts ==
  /\ toServer # <<>> /\ Head(toServer) \in Write
  /\ toServer' = Tail(toServer)
  /\ server' = Stored(Head(toServer), server)
  /\ toClient' = toClient \o Push(server')
       \o <<[type |-> "put", write |-> Head(toServer), status |-> "ok"]>>
  /\ UNCHANGED <<client, connection, watching, losses, deaths, mainQ, history>>

ServerRefuses ==
  /\ "denied" \in Statuses
  /\ toServer # <<>> /\ Head(toServer) \in Write
  /\ toServer' = Tail(toServer)
  /\ toClient' = Append(toClient,
       [type |-> "put", write |-> Head(toServer), status |-> "denied"])
  /\ UNCHANGED <<client, connection, watching, losses, deaths, mainQ, server, history>>

OtherDeviceWrites ==
  \E w \in Elsewhere :
    /\ Issue(w)
    /\ server' = Stored(w, server)
    /\ toClient' = toClient \o Push(server')
    /\ UNCHANGED <<client, connection, toServer, watching, losses, deaths, mainQ>>

(* The process dies and the app is opened again: nothing of the client is  *)
(* on disk, so pending writes and unread answers are gone; the new chart   *)
(* observes again.                                                         *)
Relaunch ==
  /\ deaths < MaxDeaths
  /\ deaths' = deaths + 1
  /\ calls' = <<"observe">>
  /\ pending' = <<>>
  /\ listen' = "off"
  /\ serverCache' = {}
  /\ connection' = "off"
  /\ toServer' = <<>>
  /\ toClient' = <<>>
  /\ mainQ' = <<>>
  /\ watching' = FALSE
  /\ UNCHANGED <<losses, server, history>>

-----------------------------------------------------------------------------
ClientRuns == RunObserve \/ RunWrite

ClientReceives ==
  ReceiveAuthAnswer \/ ReceiveData \/ ReceiveListenAnswer \/ ReceivePutAnswer

ServerServes ==
  ServerAuthenticates \/ ServerListens \/ ServerAccepts \/ ServerRefuses

(* Everything but the app's own thread.                                    *)
Service ==
  ClientRuns \/ Connect \/ Disconnect \/ ClientReceives \/ ServerServes
    \/ OtherDeviceWrites

(* On its own the client serves an app that writes whenever it likes.      *)
AppWrites ==
  /\ \E w \in Write : CallWrite(w)
  /\ UNCHANGED <<pending, listen, serverCache, wire, mainQ, server>>

AppRunsBlock ==
  /\ TakeBlock
  /\ UNCHANGED <<client, wire, server, history>>

Next == Service \/ AppWrites \/ AppRunsBlock \/ Relaunch

Spec == Init /\ [][Next]_dbVars

(* Every queue is served, and the client reconnects; the user, the other   *)
(* devices and the failures owe nothing.                                   *)
Fairness ==
  /\ WF_dbVars(ClientRuns)
  /\ WF_dbVars(Connect)
  /\ WF_dbVars(ClientReceives)
  /\ WF_dbVars(ServerServes)
  /\ WF_dbVars(AppRunsBlock)

FairSpec == Spec /\ Fairness

-----------------------------------------------------------------------------
(* The values the variables range over. *)
TypeOK ==
  /\ calls \in Seq(Request)
  /\ pending \in Seq(Write)
  /\ listen \in {"off", "unacked", "acked"}
  /\ serverCache \in SUBSET Points
  /\ connection \in {"off", "authenticating", "on"}
  /\ toServer \in Seq(Request)
  /\ toClient \in Seq(Message)
  /\ mainQ \in Seq(MainBlock)
  /\ server \in SUBSET Points
  /\ watching \in BOOLEAN
  /\ losses \in 0..MaxLosses /\ deaths \in 0..MaxDeaths
  /\ taken \in SUBSET Write
  /\ outcome \in [Write -> {"none", "ok", "denied"}]
  /\ covers \in [Clears -> SUBSET Points]

DataMessages == {i \in DOMAIN toClient : toClient[i].type = "data"}

(* What the client will know once it has read everything on the wire.      *)
LastData ==
  IF DataMessages = {} THEN serverCache ELSE toClient[Max(DataMessages)].points

(* While the server pushes changes over the connection, the client's cache *)
(* plus the pushes in flight describe exactly what the server stores,      *)
(* through reconnections, resent writes and other devices' writes.         *)
CacheTracksServer == watching /\ listen # "off" => LastData = server

(* What is on the wire, the oldest first: the answers and pushes that come *)
(* back, then the requests that go out.                                    *)
Carries(m) ==
  IF m.type = "put" THEN m.write ELSE IF m.type = "listen" THEN "observe" ELSE m.type
OnWire == [i \in DOMAIN toClient |-> Carries(toClient[i])] \o toServer

Before(q, a, b) == \E i, j \in DOMAIN q : i < j /\ q[i] = a /\ q[j] = b

(* Once connected, each pending write is on its way to the server or its   *)
(* answer is on its way back, in the order of the writes, and therefore    *)
(* once, since none is pending twice (WritesWaitOnce): a lost connection   *)
(* neither drops, repeats nor reorders a write.                            *)
NothingForgotten ==
  connection = "on" =>
    /\ ToSet(pending) = ToSet(OnWire) \cap Write
    /\ \A v, w \in ToSet(pending) : Before(OnWire, v, w) => Before(pending, v, w)

(* A write waits in one place only, in the app's calls or among the        *)
(* pending writes, and only until it is answered.                          *)
WritesWaitOnce ==
  /\ IsInjective(calls) /\ IsInjective(pending)
  /\ ToSet(calls) \cap ToSet(pending) = {}
  /\ \A w \in Write :
       w \in ToSet(calls) \cup ToSet(pending) => w \in taken /\ outcome[w] = "none"
  /\ \A w \in Write \ taken : outcome[w] = "none"

(* A completion block that waits on the main queue carries the one answer  *)
(* its write was given, and no write has two blocks waiting.               *)
AnswerBlocks == {i \in DOMAIN mainQ : mainQ[i].block = "answer"}
HeardOnce ==
  /\ \A i \in AnswerBlocks : mainQ[i].status = outcome[mainQ[i].write]
  /\ \A i, j \in AnswerBlocks : mainQ[i].write = mainQ[j].write => i = j

(* The answer to a put never overtakes the answer to a listen, the case in *)
(* which sendPut: would have to defer the acknowledgement.                 *)
NoDeferredAnswer ==
  \A i \in DOMAIN toClient :
    toClient[i].type = "put" =>
      /\ "observe" \notin ToSet(toServer)
      /\ \A j \in DOMAIN toClient : j > i => toClient[j].type # "listen"

(* A clear that was confirmed is final: no point that was issued before it *)
(* is on the server, on the wire or visible to the observer again.         *)
ConfirmedClearIsFinal ==
  \A c \in Clears :
    outcome[c] = "ok" =>
      covers[c] \cap (server \cup EventCache \cup ToSet(pending) \cup ToSet(toServer)) = {}

(* A point whose save was confirmed is stored until a clear that was       *)
(* issued after it, on whichever device: resending an earlier clear does   *)
(* not erase it.                                                           *)
ConfirmedSaveIsStored ==
  \A p \in Points :
    outcome[p] = "ok" /\ (\A c \in Clears \cap taken : p \notin covers[c])
      => p \in server

(* Once nothing is under way, the observer sees exactly the stored points. *)
Settled ==
  /\ connection = "on" /\ listen = "acked"
  /\ calls = <<>> /\ toServer = <<>> /\ toClient = <<>>
SettledViewIsServer == Settled => EventCache = server

(* The completion block of a write is called at most once, however often   *)
(* the write was sent.                                                     *)
AnsweredOnce ==
  [][\A w \in Write : outcome[w] # "none" => outcome'[w] = outcome[w]]_dbVars

(* A write that is pending is answered, unless the process dies first.     *)
PendingIsAnswered ==
  \A w \in Write : w \in ToSet(pending) ~> w \notin ToSet(pending)
=============================================================================
