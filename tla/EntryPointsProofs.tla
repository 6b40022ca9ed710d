------------------------- MODULE EntryPointsProofs -------------------------
(***************************************************************************)
(* What is proved of the Realtime Database client for every set of points  *)
(* and clears, every bound and every choice of the server's answers; then  *)
(* of EntryPoints, the chart and the sheet that use it, for any number of  *)
(* points, clears, fingers, connection losses and process deaths.          *)
(***************************************************************************)
EXTENDS EntryPoints, FiniteSetTheorems, SequenceTheorems, TLAPS

(***************************************************************************)
(* The sequences the steps build.                                          *)
(***************************************************************************)

(* A block or message taken from the head of a queue was one of the        *)
(* queue's, and what is left is a queue of the same kind.                  *)
LEMMA TailType ==
  ASSUME NEW S, NEW s \in Seq(S), s # <<>>
  PROVE  Head(s) \in S /\ Tail(s) \in Seq(S)
BY HeadTailProperties

(* A write that is answered leaves a sequence of pending writes            *)
(* (FWriteTree.removeWriteId).                                             *)
LEMMA RemoveAtType ==
  ASSUME NEW S, NEW s \in Seq(S), NEW i \in DOMAIN s
  PROVE  RemoveAt(s, i) \in Seq(S)
<1>1. i \in 1..Len(s)
  BY LenProperties
<1>2. SubSeq(s, 1, i - 1) \in Seq(S)
  BY <1>1, SubSeqProperties
<1>3. SubSeq(s, i + 1, Len(s)) \in Seq(S)
  BY <1>1, SubSeqProperties, LenProperties
<1> QED
  BY <1>2, <1>3, ConcatProperties DEF RemoveAt

(* The events and the completion block of a step are blocks of the main    *)
(* queue (FEventRaiser).                                                   *)
LEMMA RaiseType ==
  ASSUME mainQ \in Seq(MainBlock),
         EventCache' \in SUBSET Points,
         NEW answers \in Seq(MainBlock),
         Raise(answers)
  PROVE  mainQ' \in Seq(MainBlock)
<1> DEFINE New == EventCache' \ EventCache
<1>1. PICK added \in SetToSeqs(New) :
        mainQ' = mainQ \o [i \in 1..Len(added) |-> ChildAdded(added[i])] \o answers
  BY DEF Raise
<1>2. IsFiniteSet(New)
  BY FinitePointsAssumption, FS_Subset
<1>3. added \in [1..Cardinality(New) -> New] /\ Cardinality(New) \in Nat
  BY <1>2, FS_CardinalityType DEF SetToSeqs
<1>4. added \in Seq(Points)
  <2>1. added \in [1..Cardinality(New) -> Points]
    BY <1>3
  <2> QED
    BY <1>3, <2>1, SeqDef
<1> DEFINE events == [i \in 1..Len(added) |-> ChildAdded(added[i])]
<1>5. \A i \in 1..Len(added) : ChildAdded(added[i]) \in MainBlock
  BY <1>4, ElementOfSeq DEF ChildAdded, MainBlock
<1>6. events \in Seq(MainBlock)
  BY <1>4, <1>5, IsASeq, LenProperties
<1> QED
  BY <1>1, <1>6, ConcatProperties

(* What the observer sees is always a set of points.                       *)
LEMMA EventCacheType == EventCache \in SUBSET Points
BY DEF EventCache, Overlay

LEMMA EventCachePrimeType == EventCache' \in SUBSET Points
BY DEF EventCache, Overlay

(* A message on its own is a queue of messages; so is a data push, or the  *)
(* lack of one.                                                            *)
LEMMA MessageType ==
  /\ \A m \in Message : <<m>> \in Seq(Message)
  /\ \A S \in SUBSET Points : [type |-> "data", points |-> S] \in Message
  /\ \A s \in Statuses : [type |-> "listen", status |-> s] \in Message
  /\ \A w \in Write, s \in Statuses :
       [type |-> "put", write |-> w, status |-> s] \in Message
<1>1. \A m \in Message : <<m>> \in Seq(Message)
  OBVIOUS
<1>2. \A S \in SUBSET Points : [type |-> "data", points |-> S] \in Message
  BY DEF Message
<1>3. \A s \in Statuses : [type |-> "listen", status |-> s] \in Message
  BY StatusesAssumption DEF Message
<1>4. \A w \in Write, s \in Statuses :
        [type |-> "put", write |-> w, status |-> s] \in Message
  BY StatusesAssumption DEF Message
<1> QED
  BY <1>1, <1>2, <1>3, <1>4

LEMMA PushType ==
  ASSUME NEW S \in SUBSET Points
  PROVE  Push(S) \in Seq(Message)
BY MessageType, EmptySeq DEF Push

LEMMA StoredType ==
  ASSUME NEW w \in Write, NEW S \in SUBSET Points
  PROVE  Stored(w, S) \in SUBSET Points
BY DEF Stored, Write

(* The history of a write that is issued.                                  *)
LEMMA IssueType ==
  ASSUME TypeOK, NEW w, Issue(w)
  PROVE  /\ w \in Write
         /\ taken' \in SUBSET Write
         /\ covers' \in [Clears -> SUBSET Points]
         /\ outcome' \in [Write -> {"none", "ok", "denied"}]
<1>1. w \in Write /\ taken' = taken \cup {w} /\ outcome' = outcome
  BY DEF Issue
<1>2. taken \cap Points \in SUBSET Points
  OBVIOUS
<1>3. covers' \in [Clears -> SUBSET Points]
  BY <1>2 DEF TypeOK, Issue
<1> QED
  BY <1>1, <1>3 DEF TypeOK

-----------------------------------------------------------------------------
(* The variables of the client, the wire and the server keep their types   *)
(* under every step of the client, the server and the app.                 *)
LEMMA InitType == Init => TypeOK
<1> SUFFICES ASSUME Init PROVE TypeOK
  OBVIOUS
<1>1. <<"observe">> \in Seq(Request)
  BY DEF Request
<1>2. /\ losses \in 0..MaxLosses /\ deaths \in 0..MaxDeaths
  BY BoundsAssumption DEF Init
<1> QED
  BY <1>1, <1>2, EmptySeq DEF Init, TypeOK, Write

LEMMA TypeStep == TypeOK /\ [Next]_dbVars => TypeOK'
<1> SUFFICES ASSUME TypeOK, [Next]_dbVars
             PROVE  TypeOK'
  OBVIOUS
<1>a. /\ calls \in Seq(Request) /\ pending \in Seq(Write)
      /\ toServer \in Seq(Request) /\ toClient \in Seq(Message)
      /\ mainQ \in Seq(MainBlock)
      /\ serverCache \in SUBSET Points /\ server \in SUBSET Points
      /\ listen \in {"off", "unacked", "acked"}
      /\ losses \in 0..MaxLosses /\ deaths \in 0..MaxDeaths
  BY DEF TypeOK
<1>b. <<"observe">> \in Seq(Request) /\ pending \in Seq(Request) /\ Write \subseteq Request
  BY <1>a, SeqMonotonic DEF Request
<1>c. <<>> \in Seq(Request) /\ <<>> \in Seq(Write) /\ <<>> \in Seq(Message)
      /\ <<>> \in Seq(MainBlock)
  BY EmptySeq
<1>1. CASE RunObserve
  <2>1. calls' \in Seq(Request) /\ toServer' \in Seq(Request)
    BY <1>1, <1>a, TailType, AppendProperties DEF RunObserve, Request
  <2>2. mainQ' \in Seq(MainBlock)
    BY <1>1, <1>a, <1>c, RaiseType, EventCachePrimeType DEF RunObserve
  <2> QED
    BY <1>1, <2>1, <2>2 DEF RunObserve, TypeOK, history
<1>2. CASE RunWrite
  <2>1. Head(calls) \in Write /\ Head(calls) \in Request /\ calls' \in Seq(Request)
    BY <1>2, <1>a, TailType DEF RunWrite
  <2>2. pending' \in Seq(Write) /\ toServer' \in Seq(Request)
    BY <1>2, <1>a, <2>1, AppendProperties DEF RunWrite
  <2>3. mainQ' \in Seq(MainBlock)
    BY <1>2, <1>a, <1>c, RaiseType, EventCachePrimeType DEF RunWrite
  <2> QED
    BY <1>2, <2>1, <2>2, <2>3 DEF RunWrite, TypeOK, history
<1>3. CASE Connect
  <2>1. toServer' \in Seq(Request)
    BY <1>3 DEF Connect, Request
  <2> QED
    BY <1>3, <2>1 DEF Connect, TypeOK, client, history
<1>4. CASE Disconnect
  <2>1. losses' \in 0..MaxLosses
    BY <1>4, <1>a, BoundsAssumption DEF Disconnect
  <2> QED
    BY <1>4, <1>c, <2>1 DEF Disconnect, TypeOK, history
<1>5. CASE ReceiveData
  <2>1. PICK S \in SUBSET Points :
          /\ Receive([type |-> "data", points |-> S])
          /\ serverCache' = WithData(S)
          /\ UNCHANGED <<pending, listen, connection, toServer, history>>
          /\ Raise(<<>>)
    BY <1>5 DEF ReceiveData
  <2>2. toClient' \in Seq(Message)
    BY <2>1, <1>a, TailType DEF Receive
  <2>3. mainQ' \in Seq(MainBlock)
    BY <2>1, <1>a, <1>c, RaiseType, EventCachePrimeType
  <2> QED
    BY <2>1, <2>2, <2>3 DEF Receive, WithData, TypeOK, history
<1>6. CASE ReceiveListenAnswer
  <2>1. PICK s \in Statuses :
          /\ Receive([type |-> "listen", status |-> s])
          /\ listen' = IF s = "ok" /\ listen # "off" THEN "acked" ELSE "off"
          /\ serverCache' = IF s = "ok" THEN serverCache ELSE {}
          /\ UNCHANGED <<pending, connection, toServer, history>>
          /\ Raise(<<>>)
    BY <1>6 DEF ReceiveListenAnswer
  <2>2. toClient' \in Seq(Message)
    BY <2>1, <1>a, TailType DEF Receive
  <2>3. mainQ' \in Seq(MainBlock)
    BY <2>1, <1>a, <1>c, RaiseType, EventCachePrimeType
  <2> QED
    BY <2>1, <2>2, <2>3 DEF Receive, TypeOK, history
<1>7. CASE ReceivePutAnswer
  <2>1. PICK i \in DOMAIN pending, s \in Statuses :
          /\ Receive([type |-> "put", write |-> pending[i], status |-> s])
          /\ pending' = Answered(i)
          /\ outcome' = [outcome EXCEPT ![pending[i]] = s]
          /\ UNCHANGED <<listen, serverCache, connection, toServer, taken, covers>>
          /\ Raise(<<[block |-> "answer", write |-> pending[i], status |-> s]>>)
    BY <1>7 DEF ReceivePutAnswer
  <2>2. toClient' \in Seq(Message)
    BY <2>1, <1>a, TailType DEF Receive
  <2>3. pending' \in Seq(Write)
    BY <2>1, <1>a, RemoveAtType DEF Answered
  <2>4. pending[i] \in Write /\ s \in {"ok", "denied"}
    BY <1>a, LenProperties, ElementOfSeq, StatusesAssumption
  <2>5. <<[block |-> "answer", write |-> pending[i], status |-> s]>> \in Seq(MainBlock)
    BY <2>4 DEF MainBlock
  <2>6. mainQ' \in Seq(MainBlock)
    BY <2>1, <2>5, <1>a, RaiseType, EventCachePrimeType
  <2>7. outcome' \in [Write -> {"none", "ok", "denied"}]
    BY <2>1, <2>4 DEF TypeOK
  <2> QED
    BY <2>1, <2>2, <2>3, <2>6, <2>7 DEF Receive, TypeOK
<1>8. CASE ServerListens
  <2>1. toServer' \in Seq(Request)
    BY <1>8, <1>a, TailType DEF ServerListens
  <2>2. PICK s \in Statuses :
          /\ watching' = (s = "ok")
          /\ toClient' = toClient
               \o (IF s = "ok" THEN <<[type |-> "data", points |-> server]>> ELSE <<>>)
               \o <<[type |-> "listen", status |-> s]>>
    BY <1>8 DEF ServerListens
  <2> DEFINE data == IF s = "ok" THEN <<[type |-> "data", points |-> server]>> ELSE <<>>
             answer == <<[type |-> "listen", status |-> s]>>
  <2>3. data \in Seq(Message) /\ answer \in Seq(Message)
    BY <1>a, <1>c, MessageType
  <2>4. toClient' \in Seq(Message)
    BY <2>2, <2>3, <1>a, ConcatProperties
  <2> QED
    BY <1>8, <2>1, <2>2, <2>4 DEF ServerListens, TypeOK, client, history
<1>9. CASE ServerAccepts
  <2>1. Head(toServer) \in Write /\ toServer' \in Seq(Request)
    BY <1>9, <1>a, TailType DEF ServerAccepts
  <2>2. server' \in SUBSET Points
    BY <1>9, <1>a, <2>1, StoredType DEF ServerAccepts
  <2>3. Push(server') \in Seq(Message)
    BY <2>2, PushType
  <2>4. <<[type |-> "put", write |-> Head(toServer), status |-> "ok"]>> \in Seq(Message)
    BY <2>1, MessageType, StatusesAssumption
  <2>5. toClient' \in Seq(Message)
    BY <1>9, <1>a, <2>3, <2>4, ConcatProperties DEF ServerAccepts
  <2> QED
    BY <1>9, <2>1, <2>2, <2>5 DEF ServerAccepts, TypeOK, client, history
<1>10. CASE ServerRefuses
  <2>1. Head(toServer) \in Write /\ toServer' \in Seq(Request)
    BY <1>10, <1>a, TailType DEF ServerRefuses
  <2>2. [type |-> "put", write |-> Head(toServer), status |-> "denied"] \in Message
    BY <1>10, <2>1, MessageType DEF ServerRefuses
  <2>3. toClient' \in Seq(Message)
    BY <1>10, <1>a, <2>2, AppendProperties DEF ServerRefuses
  <2> QED
    BY <1>10, <2>1, <2>3 DEF ServerRefuses, TypeOK, client, history
<1>11. CASE OtherDeviceWrites
  <2>1. PICK w \in Elsewhere :
          /\ Issue(w)
          /\ server' = Stored(w, server)
          /\ toClient' = toClient \o Push(server')
          /\ UNCHANGED <<client, connection, toServer, watching, losses, deaths, mainQ>>
    BY <1>11 DEF OtherDeviceWrites
  <2>2. server' \in SUBSET Points
    BY <2>1, <1>a, IssueType, StoredType
  <2>3. toClient' \in Seq(Message)
    BY <2>1, <2>2, <1>a, PushType, ConcatProperties
  <2> QED
    BY <2>1, <2>2, <2>3, IssueType DEF TypeOK, client
<1>12. CASE AppWrites
  <2>1. PICK w \in Write : CallWrite(w)
    BY <1>12 DEF AppWrites
  <2>2. calls' \in Seq(Request)
    BY <2>1, <1>a, <1>b, AppendProperties DEF CallWrite
  <2>3. Issue(w)
    BY <2>1 DEF CallWrite
  <2> QED
    BY <1>12, <2>2, <2>3, IssueType DEF AppWrites, TypeOK, wire
<1>13. CASE AppRunsBlock
  <2>1. mainQ' \in Seq(MainBlock)
    BY <1>13, <1>a, TailType DEF AppRunsBlock, TakeBlock
  <2> QED
    BY <1>13, <2>1 DEF AppRunsBlock, TypeOK, client, wire, history
<1>14. CASE Relaunch
  <2>1. deaths' \in 0..MaxDeaths
    BY <1>14, <1>a, BoundsAssumption DEF Relaunch
  <2> QED
    BY <1>14, <1>b, <1>c, <2>1 DEF Relaunch, TypeOK, history
<1>15. CASE UNCHANGED dbVars
  BY <1>15 DEF TypeOK, dbVars, client, wire, history
<1>16. CASE ReceiveAuthAnswer
  <2>1. toClient' \in Seq(Message)
    BY <1>16, <1>a, TailType DEF ReceiveAuthAnswer, Receive
  <2>2. Restored \in Seq(Request)
    BY <1>b, <1>c, ConcatProperties DEF Restored, Listens
  <2>3. toServer' \in Seq(Request)
    BY <1>16, <1>a, <2>2, ConcatProperties DEF ReceiveAuthAnswer
  <2> QED
    BY <1>16, <2>1, <2>3 DEF ReceiveAuthAnswer, Receive, TypeOK, history
<1>17. CASE ServerAuthenticates
  <2>1. toServer' \in Seq(Request)
    BY <1>17, <1>a, TailType DEF ServerAuthenticates
  <2>2. toClient' \in Seq(Message)
    BY <1>17, <1>a, AppendProperties DEF ServerAuthenticates, Message
  <2> QED
    BY <1>17, <2>1, <2>2 DEF ServerAuthenticates, TypeOK, client, history
<1> QED
  BY <1>1, <1>2, <1>3, <1>4, <1>5, <1>6, <1>7, <1>8, <1>9, <1>10, <1>11, <1>12,
     <1>13, <1>14, <1>15, <1>16, <1>17
  DEF Next, Service, ClientRuns, ClientReceives, ServerServes

(* Every variable of the database client keeps its type in every           *)
(* behaviour.                                                              *)
THEOREM TypeCorrect == Spec => []TypeOK
<1> QED
  BY InitType, TypeStep, PTL DEF Spec

-----------------------------------------------------------------------------
(***************************************************************************)
(* The elements of queues that grow at one end and shrink anywhere.        *)
(***************************************************************************)

(* Taking the head of a queue without repetitions takes its only           *)
(* occurrence.                                                             *)
LEMMA TailElements ==
  ASSUME NEW S, NEW s \in Seq(S), s # <<>>
  PROVE  /\ Head(s) \in ToSet(s)
         /\ ToSet(Tail(s)) \subseteq ToSet(s)
         /\ IsInjective(s) => IsInjective(Tail(s)) /\ Head(s) \notin ToSet(Tail(s))
<1>1. /\ Len(s) \in Nat \ {0} /\ DOMAIN s = 1..Len(s) /\ Head(s) = s[1]
      /\ DOMAIN Tail(s) = 1..(Len(s) - 1)
      /\ \A i \in 1..(Len(s) - 1) : Tail(s)[i] = s[i + 1]
  BY EmptySeq, LenProperties, HeadTailProperties
<1>2. \A i \in DOMAIN Tail(s) : i + 1 \in DOMAIN s /\ i + 1 # 1 /\ 1 \in DOMAIN s
  BY <1>1
<1>3. Head(s) \in ToSet(s) /\ ToSet(Tail(s)) \subseteq ToSet(s)
  BY <1>1, <1>2 DEF ToSet
<1>4. ASSUME IsInjective(s)
      PROVE  IsInjective(Tail(s)) /\ Head(s) \notin ToSet(Tail(s))
  <2>1. \A i, j \in DOMAIN Tail(s) : Tail(s)[i] = Tail(s)[j] => i + 1 = j + 1
    BY <1>1, <1>2, <1>4 DEF IsInjective
  <2>2. IsInjective(Tail(s))
    BY <1>1, <2>1 DEF IsInjective
  <2>3. \A i \in DOMAIN Tail(s) : Tail(s)[i] # Head(s)
    BY <1>1, <1>2, <1>4 DEF IsInjective
  <2> QED
    BY <2>2, <2>3 DEF ToSet
<1> QED
  BY <1>3, <1>4

(* Appending adds one element, and no repetition if it is new.             *)
LEMMA AppendElements ==
  ASSUME NEW S, NEW s \in Seq(S), NEW e \in S
  PROVE  /\ ToSet(Append(s, e)) = ToSet(s) \cup {e}
         /\ IsInjective(s) /\ e \notin ToSet(s) => IsInjective(Append(s, e))
<1>1. /\ Len(s) \in Nat /\ DOMAIN s = 1..Len(s)
      /\ DOMAIN Append(s, e) = 1..(Len(s) + 1)
      /\ \A i \in 1..Len(s) : Append(s, e)[i] = s[i]
      /\ Append(s, e)[Len(s) + 1] = e
  BY LenProperties, AppendProperties
<1>2. ToSet(Append(s, e)) = ToSet(s) \cup {e}
  BY <1>1 DEF ToSet
<1>3. ASSUME IsInjective(s), e \notin ToSet(s)
      PROVE  IsInjective(Append(s, e))
  BY <1>1, <1>3 DEF IsInjective, ToSet
<1> QED
  BY <1>2, <1>3

(* Removing one occurrence of a sequence without repetitions removes that  *)
(* element and nothing else.                                               *)
LEMMA RemoveAtElements ==
  ASSUME NEW S, NEW s \in Seq(S), NEW i \in DOMAIN s
  PROVE  /\ ToSet(RemoveAt(s, i)) \subseteq ToSet(s)
         /\ IsInjective(s) =>
              IsInjective(RemoveAt(s, i)) /\ s[i] \notin ToSet(RemoveAt(s, i))
<1> DEFINE r == RemoveAt(s, i)
           pre == SubSeq(s, 1, i - 1)
           post == SubSeq(s, i + 1, Len(s))
           at(k) == IF k < i THEN k ELSE k + 1
<1>1. Len(s) \in Nat /\ DOMAIN s = 1..Len(s) /\ i \in 1..Len(s)
  BY LenProperties
<1>2. /\ pre \in Seq(S) /\ Len(pre) = i - 1
      /\ \A k \in 1..(i - 1) : pre[k] = s[k]
  BY <1>1, SubSeqProperties
<1>3. /\ post \in Seq(S) /\ Len(post) = Len(s) - i
      /\ \A k \in 1..(Len(s) - i) : post[k] = s[i + k]
  <2>1. \A k \in (i + 1)..Len(s) : s[k] \in S
    BY <1>1, ElementOfSeq
  <2>2. /\ post \in Seq(S)
        /\ Len(post) = IF i + 1 <= Len(s) THEN Len(s) - (i + 1) + 1 ELSE 0
        /\ \A k \in 1..(Len(s) - (i + 1) + 1) : post[k] = s[(i + 1) + k - 1]
    BY <1>1, <2>1, SubSeqProperties
  <2> QED
    BY <1>1, <2>2
<1>4. DOMAIN r = 1..(Len(s) - 1) /\ \A k \in 1..(Len(s) - 1) : r[k] = s[at(k)]
  <2>1. /\ r \in Seq(S) /\ Len(r) = Len(pre) + Len(post)
        /\ \A k \in 1..(Len(pre) + Len(post)) :
             r[k] = IF k <= Len(pre) THEN pre[k] ELSE post[k - Len(pre)]
    BY <1>2, <1>3, ConcatProperties DEF RemoveAt
  <2>2. Len(r) = Len(s) - 1 /\ DOMAIN r = 1..Len(r)
    BY <1>1, <1>2, <1>3, <2>1, LenProperties
  <2>3. ASSUME NEW k \in 1..(Len(s) - 1) PROVE r[k] = s[at(k)]
    <3>1. CASE k < i
      BY <1>1, <1>2, <1>3, <2>1, <3>1
    <3>2. CASE ~(k < i)
      <4> DEFINE lpre == Len(pre)
                 lpost == Len(post)
      <4>a. lpre = i - 1 /\ lpost = Len(s) - i
        BY <1>2, <1>3
      <4>b. r[k] = IF k <= lpre THEN pre[k] ELSE post[k - lpre]
        <5>1. k \in 1..(lpre + lpost)
          BY ONLY <1>1, <4>a, k \in 1..(Len(s) - 1) DEF lpre, lpost
        <5> QED
          BY <5>1, <2>1
      <4> HIDE DEF lpre, lpost, r, pre, post
      <4>c. ~(k <= lpre) /\ k - lpre = k - (i - 1)
        BY <1>1, <3>2, <4>a
      <4>d. k - (i - 1) \in 1..(Len(s) - i)
        BY <1>1, <3>2
      <4>1. r[k] = post[k - (i - 1)] /\ k - (i - 1) \in 1..(Len(s) - i)
        BY <4>b, <4>c, <4>d
      <4>2. i + (k - (i - 1)) = k + 1
        BY <1>1
      <4> QED
        BY <1>3, <3>2, <4>1, <4>2
    <3> QED
      BY <3>1, <3>2
  <2> QED
    BY <2>2, <2>3
<1>5. \A k \in 1..(Len(s) - 1) : at(k) \in DOMAIN s /\ at(k) # i
  BY <1>1
<1>6. \A k, l \in 1..(Len(s) - 1) : at(k) = at(l) => k = l
  BY <1>1
<1> HIDE DEF r, at
<1>7. ToSet(r) \subseteq ToSet(s)
  BY <1>4, <1>5 DEF ToSet
<1>8. ASSUME IsInjective(s) PROVE IsInjective(r) /\ s[i] \notin ToSet(r)
  BY <1>4, <1>5, <1>6, <1>8 DEF IsInjective, ToSet
<1> QED
  BY <1>7, <1>8 DEF r

-----------------------------------------------------------------------------
(* A write waits in one place only, and only until it is answered: the     *)
(* app's call, the pending write and the answer never coexist.             *)
LEMMA WaitInit == Init => WritesWaitOnce
<1> SUFFICES ASSUME Init PROVE WritesWaitOnce
  OBVIOUS
<1>1. ToSet(calls) = {"observe"} /\ ToSet(pending) = {}
  BY DEF Init, ToSet
<1>2. IsInjective(calls) /\ IsInjective(pending)
  BY DEF Init, IsInjective
<1>3. "observe" \notin Write
  BY WritesAssumption DEF Write
<1> QED
  BY <1>1, <1>2, <1>3 DEF Init, WritesWaitOnce

LEMMA WaitStep ==
  ASSUME TypeOK, WritesWaitOnce, [Next]_dbVars
  PROVE  WritesWaitOnce'
<1>a. calls \in Seq(Request) /\ pending \in Seq(Write) /\ outcome \in [Write -> {"none", "ok", "denied"}]
  BY DEF TypeOK
<1>1. CASE RunObserve
  <2>1. /\ calls' = Tail(calls) /\ calls # <<>>
        /\ UNCHANGED <<pending, taken, outcome>>
    BY <1>1 DEF RunObserve, history
  <2> QED
    BY <1>a, <2>1, TailElements DEF WritesWaitOnce
<1>2. CASE RunWrite
  <2> DEFINE w == Head(calls)
  <2>1. /\ calls' = Tail(calls) /\ calls # <<>> /\ w \in Write
        /\ pending' = Append(pending, w)
        /\ UNCHANGED <<taken, outcome>>
    BY <1>2 DEF RunWrite, history
  <2>2. /\ w \in ToSet(calls) /\ ToSet(calls') \subseteq ToSet(calls)
        /\ IsInjective(calls') /\ w \notin ToSet(calls')
    BY <1>a, <2>1, TailElements DEF WritesWaitOnce
  <2>3. ToSet(pending') = ToSet(pending) \cup {w} /\ IsInjective(pending')
    BY <1>a, <2>1, <2>2, AppendElements DEF WritesWaitOnce
  <2> QED
    BY <2>1, <2>2, <2>3 DEF WritesWaitOnce
<1>3. CASE ReceivePutAnswer
  <2>1. PICK i \in DOMAIN pending, s \in Statuses :
          /\ calls' = calls /\ taken' = taken
          /\ pending' = RemoveAt(pending, i)
          /\ outcome' = [outcome EXCEPT ![pending[i]] = s]
    BY <1>3 DEF ReceivePutAnswer, Receive, Answered
  <2>2. /\ ToSet(pending') \subseteq ToSet(pending) /\ IsInjective(pending')
        /\ pending[i] \notin ToSet(pending') /\ pending[i] \in ToSet(pending)
    BY <1>a, <2>1, RemoveAtElements DEF WritesWaitOnce, ToSet
  <2>3. pending[i] \in Write /\ pending[i] \in taken /\ pending[i] \notin ToSet(calls)
    BY <1>a, <2>2, LenProperties, ElementOfSeq DEF WritesWaitOnce
  <2>4. \A w \in Write : w # pending[i] => outcome'[w] = outcome[w]
    BY <1>a, <2>1
  <2> QED
    BY <2>1, <2>2, <2>3, <2>4 DEF WritesWaitOnce
<1>4. ASSUME NEW w, Issue(w), calls' = calls \/ calls' = Append(calls, w), pending' = pending
      PROVE  WritesWaitOnce'
  <2>1. w \in Write /\ w \notin taken /\ taken' = taken \cup {w} /\ outcome' = outcome
    BY <1>4 DEF Issue
  <2>2. w \notin ToSet(calls) /\ w \notin ToSet(pending) /\ outcome[w] = "none"
    BY <2>1 DEF WritesWaitOnce
  <2>3. CASE calls' = calls
    BY <1>4, <2>1, <2>2, <2>3 DEF WritesWaitOnce
  <2>4. CASE calls' = Append(calls, w)
    <3>1. w \in Request
      BY <2>1 DEF Request
    <3>2. ToSet(calls') = ToSet(calls) \cup {w} /\ IsInjective(calls')
      BY <1>a, <2>2, <2>4, <3>1, AppendElements DEF WritesWaitOnce
    <3> QED
      BY <1>4, <2>1, <2>2, <3>2 DEF WritesWaitOnce
  <2> QED
    BY <1>4, <2>3, <2>4
<1>5. CASE AppWrites
  <2>1. PICK w \in Write : CallWrite(w) /\ pending' = pending
    BY <1>5 DEF AppWrites
  <2> QED
    BY <2>1, <1>4 DEF CallWrite
<1>6. CASE OtherDeviceWrites
  <2>1. PICK w \in Elsewhere : Issue(w) /\ calls' = calls /\ pending' = pending
    BY <1>6 DEF OtherDeviceWrites, client
  <2> QED
    BY <2>1, <1>4
<1>7. CASE Relaunch
  <2>1. calls' = <<"observe">> /\ pending' = <<>> /\ UNCHANGED <<taken, outcome>>
    BY <1>7 DEF Relaunch, history
  <2>2. ToSet(calls') = {"observe"} /\ ToSet(pending') = {}
    BY <2>1 DEF ToSet
  <2>3. IsInjective(calls') /\ IsInjective(pending')
    BY <2>1 DEF IsInjective
  <2>4. "observe" \notin Write
    BY WritesAssumption DEF Write
  <2> QED
    BY <2>1, <2>2, <2>3, <2>4 DEF WritesWaitOnce
<1>8. CASE UNCHANGED <<calls, pending, taken, outcome>>
  BY <1>8 DEF WritesWaitOnce
<1>9. \/ Connect \/ Disconnect \/ ReceiveAuthAnswer \/ ReceiveData \/ ReceiveListenAnswer
      \/ ServerAuthenticates \/ ServerListens \/ ServerAccepts \/ ServerRefuses \/ AppRunsBlock
      \/ UNCHANGED dbVars
      => UNCHANGED <<calls, pending, taken, outcome>>
  BY DEF Connect, Disconnect, ReceiveAuthAnswer, ReceiveData, ReceiveListenAnswer,
     Receive, ServerAuthenticates, ServerListens, ServerAccepts, ServerRefuses, AppRunsBlock, client, history, dbVars
<1> QED
  BY <1>1, <1>2, <1>3, <1>5, <1>6, <1>7, <1>8, <1>9
  DEF Next, Service, ClientRuns, ClientReceives, ServerServes

(* A write is either waiting or answered, never both, in every behaviour.  *)
THEOREM WaitingOnce == Spec => []WritesWaitOnce
<1>1. WritesWaitOnce /\ TypeOK /\ [Next]_dbVars => WritesWaitOnce'
  BY WaitStep
<1> QED
  BY <1>1, TypeCorrect, WaitInit, PTL DEF Spec

(* The completion block of a write is called at most once, however often   *)
(* reconnections make the client send the write.                           *)
THEOREM AnswersAreFinal == Spec => AnsweredOnce
<1> DEFINE Once == \A w \in Write : outcome[w] # "none" => outcome'[w] = outcome[w]
<1>1. ASSUME TypeOK, WritesWaitOnce, [Next]_dbVars
      PROVE  Once
  <2>1. CASE ReceivePutAnswer
    <3>1. PICK i \in DOMAIN pending, s \in Statuses :
            outcome' = [outcome EXCEPT ![pending[i]] = s]
      BY <2>1 DEF ReceivePutAnswer
    <3>2. pending[i] \in Write /\ pending[i] \in ToSet(pending)
      BY <1>1, LenProperties, ElementOfSeq DEF TypeOK, ToSet
    <3>3. outcome[pending[i]] = "none"
      BY <1>1, <3>2 DEF WritesWaitOnce
    <3> QED
      BY <1>1, <3>1, <3>3 DEF TypeOK
  <2>2. CASE outcome' = outcome
    BY <2>2
  <2>3. ~ReceivePutAnswer => outcome' = outcome
    BY <1>1 DEF Next, Service, ClientRuns, ClientReceives, ServerServes, RunObserve,
       RunWrite, Connect, Disconnect, ReceiveAuthAnswer, ReceiveData,
       ReceiveListenAnswer, ServerAuthenticates, ServerListens, ServerAccepts, ServerRefuses,
       OtherDeviceWrites, AppWrites, CallWrite, Issue, AppRunsBlock, Relaunch,
       history, dbVars
  <2> QED
    BY <2>1, <2>2, <2>3
<1>2. TypeOK /\ WritesWaitOnce /\ [Next]_dbVars => [Once]_dbVars
  BY <1>1
<1> QED
  BY <1>2, TypeCorrect, WaitingOnce, PTL DEF Spec, AnsweredOnce

-----------------------------------------------------------------------------
(***************************************************************************)
(* The main queue.                                                         *)
(***************************************************************************)

(* What Raise leaves on the main queue: the blocks that were there, then   *)
(* one childAdded event for each child that appeared, then the completion  *)
(* block.                                                                  *)
LEMMA RaisedBlocks ==
  ASSUME mainQ \in Seq(MainBlock),
         EventCache' \in SUBSET Points,
         NEW answers \in Seq(MainBlock),
         Raise(answers)
  PROVE  \E n \in Nat : \E f \in Bijection(1..n, EventCache' \ EventCache) :
           /\ mainQ' \in Seq(MainBlock)
           /\ DOMAIN mainQ' = 1..(Len(mainQ) + n + Len(answers))
           /\ \A k \in 1..Len(mainQ) : mainQ'[k] = mainQ[k]
           /\ \A k \in 1..n : mainQ'[Len(mainQ) + k] = ChildAdded(f[k])
           /\ \A k \in 1..Len(answers) : mainQ'[Len(mainQ) + n + k] = answers[k]
<1> DEFINE New == EventCache' \ EventCache
<1>1. PICK added \in SetToSeqs(New) :
        mainQ' = mainQ \o [i \in 1..Len(added) |-> ChildAdded(added[i])] \o answers
  BY DEF Raise
<1>2. IsFiniteSet(New)
  BY FinitePointsAssumption, FS_Subset
<1> DEFINE n == Cardinality(New)
<1>3. /\ added \in [1..n -> New] /\ n \in Nat
      /\ \A i, j \in 1..n : i # j => added[i] # added[j]
  BY <1>2, FS_CardinalityType DEF SetToSeqs
<1> HIDE DEF n
<1>4. added \in Bijection(1..n, New)
  <2>1. added \in Injection(1..n, New)
    BY <1>3 DEF Injection, IsInjective
  <2>2. IsFiniteSet(1..n) /\ Cardinality(1..n) = n
    BY <1>3, FS_Interval
  <2>3. Cardinality(1..n) = Cardinality(New)
    BY <2>2 DEF n
  <2>4. added \in Surjection(1..n, New)
    BY <1>2, <2>1, <2>3, FS_Injection
  <2> QED
    BY <2>1, <2>4 DEF Bijection
<1>5. added \in Seq(Points) /\ Len(added) = n
  <2>1. added \in [1..n -> Points]
    BY <1>3
  <2> QED
    BY <1>3, <2>1, SeqDef
<1> DEFINE events == [i \in 1..n |-> ChildAdded(added[i])]
           before == mainQ \o events
<1>6. \A i \in 1..n : ChildAdded(added[i]) \in MainBlock
  BY <1>3, <1>5, ElementOfSeq DEF ChildAdded, MainBlock
<1>7. /\ events \in Seq(MainBlock) /\ Len(events) = n
      /\ \A i \in 1..n : events[i] = ChildAdded(added[i])
  BY <1>3, <1>6, IsASeq
<1>8. mainQ' = before \o answers
  BY <1>1, <1>5
<1> HIDE DEF events
<1>9. /\ before \in Seq(MainBlock) /\ Len(before) = Len(mainQ) + n
      /\ \A k \in 1..(Len(mainQ) + n) :
           before[k] = IF k <= Len(mainQ) THEN mainQ[k] ELSE events[k - Len(mainQ)]
  BY <1>7, ConcatProperties
<1> HIDE DEF before
<1>10. /\ mainQ' \in Seq(MainBlock) /\ Len(mainQ') = Len(before) + Len(answers)
       /\ \A k \in 1..(Len(before) + Len(answers)) :
            mainQ'[k] = IF k <= Len(before) THEN before[k] ELSE answers[k - Len(before)]
  <2> DEFINE all == before \o answers
  <2>1. /\ all \in Seq(MainBlock) /\ Len(all) = Len(before) + Len(answers)
        /\ \A k \in 1..(Len(before) + Len(answers)) :
             all[k] = IF k <= Len(before) THEN before[k] ELSE answers[k - Len(before)]
    BY <1>9, ConcatProperties
  <2>2. mainQ' = all
    BY <1>8
  <2> HIDE DEF all
  <2> QED
    BY <2>1, <2>2
<1>11. Len(mainQ) \in Nat /\ Len(answers) \in Nat /\ n \in Nat
  BY <1>3, LenProperties
<1>12. DOMAIN mainQ' = 1..(Len(mainQ) + n + Len(answers))
  BY <1>9, <1>10, LenProperties
<1>13. ASSUME NEW k \in 1..Len(mainQ) PROVE mainQ'[k] = mainQ[k]
  BY <1>9, <1>10, <1>11
<1>14. ASSUME NEW k \in 1..n PROVE mainQ'[Len(mainQ) + k] = ChildAdded(added[k])
  <2>1. Len(mainQ) + k \in 1..(Len(mainQ) + n) /\ ~(Len(mainQ) + k <= Len(mainQ))
        /\ (Len(mainQ) + k) - Len(mainQ) = k
    BY <1>11
  <2>2. before[Len(mainQ) + k] = events[k]
    BY <1>9, <2>1
  <2>3. Len(mainQ) + k \in 1..(Len(before) + Len(answers)) /\ Len(mainQ) + k <= Len(before)
    BY <1>9, <1>11
  <2> QED
    BY <1>7, <1>10, <2>2, <2>3
<1>15. ASSUME NEW k \in 1..Len(answers) PROVE mainQ'[Len(mainQ) + n + k] = answers[k]
  <2>1. /\ Len(mainQ) + n + k \in 1..(Len(before) + Len(answers))
        /\ ~(Len(mainQ) + n + k <= Len(before)) /\ (Len(mainQ) + n + k) - Len(before) = k
    BY <1>9, <1>11
  <2> QED
    BY <1>10, <2>1
<1> QED
  BY <1>4, <1>10, <1>11, <1>12, <1>13, <1>14, <1>15

(* Events alone add no answer.                                             *)
LEMMA RaisedEvents ==
  ASSUME TypeOK, Raise(<<>>)
  PROVE  /\ AnswerBlocks' = AnswerBlocks
         /\ \A k \in AnswerBlocks : mainQ'[k] = mainQ[k]
<1>1. PICK n \in Nat :
        /\ n >= Len(mainQ) /\ DOMAIN mainQ' = 1..n
        /\ \A k \in 1..Len(mainQ) : mainQ'[k] = mainQ[k]
        /\ \A k \in (Len(mainQ) + 1)..n : mainQ'[k].block = "childAdded"
  <2>1. <<>> \in Seq(MainBlock) /\ Len(<<>>) = 0 /\ mainQ \in Seq(MainBlock)
    BY EmptySeq DEF TypeOK
  <2> DEFINE none == <<>>
  <2>2. none \in Seq(MainBlock) /\ Len(none) = 0 /\ Raise(none)
    BY <2>1
  <2> HIDE DEF none
  <2>3a. PICK e \in Nat : \E f \in Bijection(1..e, EventCache' \ EventCache) :
          /\ DOMAIN mainQ' = 1..(Len(mainQ) + e + Len(none))
          /\ \A k \in 1..Len(mainQ) : mainQ'[k] = mainQ[k]
          /\ \A k \in 1..e : mainQ'[Len(mainQ) + k] = ChildAdded(f[k])
    BY <2>1, <2>2, EventCachePrimeType, RaisedBlocks
  <2>3. PICK f \in Bijection(1..e, EventCache' \ EventCache) :
          /\ DOMAIN mainQ' = 1..(Len(mainQ) + e + Len(none))
          /\ \A k \in 1..Len(mainQ) : mainQ'[k] = mainQ[k]
          /\ \A k \in 1..e : mainQ'[Len(mainQ) + k] = ChildAdded(f[k])
    BY <2>3a
  <2>4. Len(mainQ) \in Nat /\ Len(mainQ) + e + Len(none) = Len(mainQ) + e
    BY <2>1, <2>2, LenProperties
  <2>5. ASSUME NEW k \in (Len(mainQ) + 1)..(Len(mainQ) + e) PROVE mainQ'[k].block = "childAdded"
    <3>1. k - Len(mainQ) \in 1..e /\ k = Len(mainQ) + (k - Len(mainQ))
      BY <2>4
    <3>2. mainQ'[Len(mainQ) + (k - Len(mainQ))] = ChildAdded(f[k - Len(mainQ)])
      BY <2>3, <3>1
    <3> QED
      BY <3>1, <3>2 DEF ChildAdded
  <2> DEFINE n == Len(mainQ) + e
  <2>6. n \in Nat /\ n >= Len(mainQ) /\ DOMAIN mainQ' = 1..n
    BY <2>3, <2>4
  <2> QED
    BY <2>3, <2>5, <2>6
<1>2. DOMAIN mainQ = 1..Len(mainQ) /\ Len(mainQ) \in Nat
  BY LenProperties DEF TypeOK
<1>3. \A k \in 1..n : k \in 1..Len(mainQ) \/ k \in (Len(mainQ) + 1)..n
  BY <1>2
<1>4. 1..Len(mainQ) \subseteq 1..n
  BY <1>1, <1>2
<1> QED
  BY <1>1, <1>2, <1>3, <1>4 DEF AnswerBlocks

(* The answer to a put adds one.                                           *)
LEMMA RaisedAnswer ==
  ASSUME TypeOK, NEW b \in MainBlock, b.block = "answer", Raise(<<b>>)
  PROVE  \E k \in DOMAIN mainQ' :
           /\ k \notin AnswerBlocks
           /\ AnswerBlocks' = AnswerBlocks \cup {k}
           /\ mainQ'[k] = b
           /\ \A i \in AnswerBlocks : mainQ'[i] = mainQ[i]
<1>1. PICK n \in Nat :
        /\ n >= Len(mainQ) /\ DOMAIN mainQ' = 1..(n + 1)
        /\ \A k \in 1..Len(mainQ) : mainQ'[k] = mainQ[k]
        /\ \A k \in (Len(mainQ) + 1)..n : mainQ'[k].block = "childAdded"
        /\ mainQ'[n + 1] = b
  <2>1. <<b>> \in Seq(MainBlock) /\ Len(<<b>>) = 1 /\ mainQ \in Seq(MainBlock)
    BY DEF TypeOK
  <2>2. <<b>>[1] = b /\ 1 \in 1..1
    OBVIOUS
  <2> DEFINE one == <<b>>
  <2>3. one \in Seq(MainBlock) /\ Len(one) = 1 /\ one[1] = b /\ Raise(one)
    BY <2>1
  <2> HIDE DEF one
  <2>4a. PICK e \in Nat : \E f \in Bijection(1..e, EventCache' \ EventCache) :
          /\ DOMAIN mainQ' = 1..(Len(mainQ) + e + Len(one))
          /\ \A k \in 1..Len(mainQ) : mainQ'[k] = mainQ[k]
          /\ \A k \in 1..e : mainQ'[Len(mainQ) + k] = ChildAdded(f[k])
          /\ \A k \in 1..Len(one) : mainQ'[Len(mainQ) + e + k] = one[k]
    BY <2>1, <2>3, EventCachePrimeType, RaisedBlocks
  <2>4. PICK f \in Bijection(1..e, EventCache' \ EventCache) :
          /\ DOMAIN mainQ' = 1..(Len(mainQ) + e + Len(one))
          /\ \A k \in 1..Len(mainQ) : mainQ'[k] = mainQ[k]
          /\ \A k \in 1..e : mainQ'[Len(mainQ) + k] = ChildAdded(f[k])
          /\ \A k \in 1..Len(one) : mainQ'[Len(mainQ) + e + k] = one[k]
    BY <2>4a
  <2>5. Len(mainQ) \in Nat /\ mainQ'[Len(mainQ) + e + 1] = b
    BY <2>1, <2>2, <2>3, <2>4, LenProperties
  <2>6. ASSUME NEW k \in (Len(mainQ) + 1)..(Len(mainQ) + e) PROVE mainQ'[k].block = "childAdded"
    <3>1. k - Len(mainQ) \in 1..e /\ k = Len(mainQ) + (k - Len(mainQ))
      BY <2>5
    <3>2. mainQ'[Len(mainQ) + (k - Len(mainQ))] = ChildAdded(f[k - Len(mainQ)])
      BY <2>4, <3>1
    <3> QED
      BY <3>1, <3>2 DEF ChildAdded
  <2> DEFINE n == Len(mainQ) + e
  <2>7. n \in Nat /\ n >= Len(mainQ) /\ DOMAIN mainQ' = 1..(n + 1) /\ mainQ'[n + 1] = b
    BY <2>3, <2>4, <2>5
  <2> HIDE DEF n
  <2>8. \A k \in (Len(mainQ) + 1)..n : mainQ'[k].block = "childAdded"
    BY <2>6 DEF n
  <2> QED
    BY <2>4, <2>7, <2>8
<1>2. DOMAIN mainQ = 1..Len(mainQ) /\ Len(mainQ) \in Nat
  BY LenProperties DEF TypeOK
<1>3. \A k \in 1..(n + 1) : k \in 1..Len(mainQ) \/ k \in (Len(mainQ) + 1)..n \/ k = n + 1
  BY <1>2
<1>4. 1..Len(mainQ) \subseteq 1..(n + 1) /\ n + 1 \in 1..(n + 1) /\ n + 1 \notin 1..Len(mainQ)
  BY <1>1, <1>2
<1>5. n + 1 \notin AnswerBlocks /\ AnswerBlocks' = AnswerBlocks \cup {n + 1}
  BY <1>1, <1>2, <1>3, <1>4 DEF AnswerBlocks
<1> QED
  BY <1>1, <1>2, <1>4, <1>5 DEF AnswerBlocks

(* Running the head block removes at most one.                             *)
LEMMA TakenBlock ==
  ASSUME TypeOK, TakeBlock
  PROVE  /\ 1 \in DOMAIN mainQ /\ Head(mainQ) = mainQ[1]
         /\ \A i \in AnswerBlocks' : i + 1 \in AnswerBlocks /\ mainQ'[i] = mainQ[i + 1]
         /\ \A i, j \in AnswerBlocks' : i + 1 = j + 1 => i = j
         /\ \A i \in AnswerBlocks' : i + 1 # 1
<1>1. mainQ \in Seq(MainBlock) /\ mainQ # <<>> /\ mainQ' = Tail(mainQ)
  BY DEF TypeOK, TakeBlock
<1>2. /\ Len(mainQ) \in Nat \ {0} /\ DOMAIN mainQ = 1..Len(mainQ) /\ Head(mainQ) = mainQ[1]
      /\ DOMAIN mainQ' = 1..(Len(mainQ) - 1)
      /\ \A i \in 1..(Len(mainQ) - 1) : mainQ'[i] = mainQ[i + 1]
  BY <1>1, EmptySeq, LenProperties, HeadTailProperties
<1> QED
  BY <1>2 DEF AnswerBlocks

(* What a step may do to the answers that wait: add the one of a write     *)
(* that had none, take the first block, drop them all, or leave them.      *)
AnswerArrives ==
  \E w \in Write, s \in Statuses :
    /\ outcome[w] = "none" /\ outcome' = [outcome EXCEPT ![w] = s]
    /\ \E k \in DOMAIN mainQ' :
         /\ k \notin AnswerBlocks
         /\ AnswerBlocks' = AnswerBlocks \cup {k}
         /\ mainQ'[k] = [block |-> "answer", write |-> w, status |-> s]
         /\ \A i \in AnswerBlocks : mainQ'[i] = mainQ[i]
AnswersWait ==
  /\ outcome' = outcome
  /\ AnswerBlocks' = AnswerBlocks
  /\ \A i \in AnswerBlocks : mainQ'[i] = mainQ[i]

LEMMA AnswersMove ==
  ASSUME TypeOK, WritesWaitOnce, [Next]_dbVars
  PROVE  \/ AnswerArrives
         \/ AnswersWait
         \/ TakeBlock /\ outcome' = outcome
         \/ AnswerBlocks' = {} /\ outcome' = outcome
<1>1. CASE ReceivePutAnswer
  <2>1. PICK i \in DOMAIN pending, s \in Statuses :
          /\ outcome' = [outcome EXCEPT ![pending[i]] = s]
          /\ Raise(<<[block |-> "answer", write |-> pending[i], status |-> s]>>)
    BY <1>1 DEF ReceivePutAnswer
  <2> DEFINE w == pending[i]
             b == [block |-> "answer", write |-> w, status |-> s]
  <2>2. w \in Write /\ w \in ToSet(pending)
    BY LenProperties, ElementOfSeq DEF TypeOK, ToSet
  <2>3. outcome[w] = "none"
    BY <2>2 DEF WritesWaitOnce
  <2>4. b \in MainBlock /\ b.block = "answer"
    BY <2>2, StatusesAssumption DEF MainBlock
  <2>5. Raise(<<b>>)
    BY <2>1
  <2>6. \E k \in DOMAIN mainQ' :
           /\ k \notin AnswerBlocks
           /\ AnswerBlocks' = AnswerBlocks \cup {k}
           /\ mainQ'[k] = b
           /\ \A j \in AnswerBlocks : mainQ'[j] = mainQ[j]
    <3> HIDE DEF b
    <3> QED
      BY <2>4, <2>5, RaisedAnswer
  <2> QED
    BY <2>1, <2>2, <2>3, <2>6 DEF AnswerArrives
<1>2. CASE RunObserve \/ RunWrite \/ ReceiveData \/ ReceiveListenAnswer
  <2>1. Raise(<<>>) /\ outcome' = outcome
    BY <1>2 DEF RunObserve, RunWrite, ReceiveData, ReceiveListenAnswer, history
  <2> QED
    BY <2>1, RaisedEvents DEF AnswersWait
<1>3. CASE AppRunsBlock
  BY <1>3 DEF AppRunsBlock, history
<1>4. CASE Relaunch
  BY <1>4 DEF Relaunch, history, AnswerBlocks
<1>5. CASE UNCHANGED <<mainQ, outcome>>
  BY <1>5 DEF AnswersWait, AnswerBlocks
<1>6. \/ Connect \/ Disconnect \/ ReceiveAuthAnswer
      \/ ServerAuthenticates \/ ServerListens \/ ServerAccepts \/ ServerRefuses
      \/ OtherDeviceWrites \/ AppWrites \/ UNCHANGED dbVars
      => UNCHANGED <<mainQ, outcome>>
  BY DEF Connect, Disconnect, ReceiveAuthAnswer, ServerAuthenticates, ServerListens, ServerAccepts, ServerRefuses,
     OtherDeviceWrites, AppWrites, CallWrite, Issue, history, dbVars
<1> QED
  BY <1>1, <1>2, <1>3, <1>4, <1>5, <1>6 DEF Next, Service, ClientRuns, ClientReceives, ServerServes

LEMMA HeardStep ==
  ASSUME TypeOK, WritesWaitOnce, HeardOnce, [Next]_dbVars
  PROVE  HeardOnce'
<1>1. CASE AnswerArrives
  <2>1. PICK w \in Write, s \in Statuses :
          /\ outcome[w] = "none" /\ outcome' = [outcome EXCEPT ![w] = s]
          /\ \E k \in DOMAIN mainQ' :
               /\ k \notin AnswerBlocks
               /\ AnswerBlocks' = AnswerBlocks \cup {k}
               /\ mainQ'[k] = [block |-> "answer", write |-> w, status |-> s]
               /\ \A i \in AnswerBlocks : mainQ'[i] = mainQ[i]
    BY <1>1 DEF AnswerArrives
  <2>2. PICK k \in DOMAIN mainQ' :
          /\ k \notin AnswerBlocks
          /\ AnswerBlocks' = AnswerBlocks \cup {k}
          /\ mainQ'[k] = [block |-> "answer", write |-> w, status |-> s]
          /\ \A i \in AnswerBlocks : mainQ'[i] = mainQ[i]
    BY <2>1
  <2>3. \A i \in AnswerBlocks : mainQ[i].status # "none" /\ mainQ[i].write \in Write
    <3>1. \A i \in AnswerBlocks : mainQ[i] \in MainBlock /\ mainQ[i].block = "answer"
      BY LenProperties, ElementOfSeq DEF TypeOK, AnswerBlocks
    <3> QED
      BY <3>1 DEF MainBlock
  <2>4. \A i \in AnswerBlocks : mainQ[i].write # w
    BY <2>1, <2>3 DEF HeardOnce
  <2>5. mainQ'[k].write = w /\ mainQ'[k].status = s /\ outcome'[w] = s
    BY <2>1, <2>2 DEF TypeOK
  <2>6. \A i \in AnswerBlocks :
          mainQ'[i].write # w /\ mainQ'[i].status = outcome'[mainQ'[i].write]
    BY <2>1, <2>2, <2>3, <2>4 DEF TypeOK, HeardOnce
  <2> QED
    BY <2>2, <2>5, <2>6 DEF HeardOnce
<1>2. CASE AnswersWait
  BY <1>2 DEF AnswersWait, HeardOnce
<1>3. CASE TakeBlock /\ outcome' = outcome
  BY <1>3, TakenBlock DEF HeardOnce
<1>4. CASE AnswerBlocks' = {}
  BY <1>4 DEF HeardOnce
<1> QED
  BY <1>1, <1>2, <1>3, <1>4, AnswersMove

(* The completion blocks that wait on the main queue carry the one answer  *)
(* of their writes, one block for each write.                              *)
THEOREM BlocksAreHeardOnce == Spec => []HeardOnce
<1>1. Init => HeardOnce
  BY DEF Init, HeardOnce, AnswerBlocks
<1>2. TypeOK /\ WritesWaitOnce /\ HeardOnce /\ [Next]_dbVars => HeardOnce'
  BY HeardStep
<1> QED
  BY <1>1, <1>2, TypeCorrect, WaitingOnce, PTL DEF Spec

-----------------------------------------------------------------------------
(***************************************************************************)
(* What the client knows of the server: its cache follows the server, no   *)
(* write is lost or overtaken on the wire, and what was confirmed holds.   *)
(***************************************************************************)

IsData(m) == m.type = "data"

(* The wire q brings a cache c to S: its last push says S, or there is no  *)
(* push and the cache says it already.                                     *)
Brings(q, c, S) ==
  \/ c = S /\ \A i \in DOMAIN q : ~IsData(q[i])
  \/ \E i \in DOMAIN q :
       /\ IsData(q[i]) /\ q[i].points = S
       /\ \A j \in DOMAIN q : j > i => ~IsData(q[j])

(* The observer's call is the first, and until it ran nobody listens.      *)
NotYetObserved ==
  \A i \in DOMAIN calls : calls[i] = "observe" =>
    /\ i = 1
    /\ listen = "off" /\ ~watching
    /\ \A j \in DOMAIN toServer : toServer[j] # "observe"

(* While the server pushes, what the wire will bring is what it stores.    *)
Followed == watching /\ listen # "off" => Brings(toClient, serverCache, server)

Tracked == TypeOK /\ NotYetObserved /\ Followed

-----------------------------------------------------------------------------
(* The wire.                                                               *)

(* Reading a message: a push becomes the cache.                            *)
LEMMA Read ==
  ASSUME NEW q \in Seq(Message), q # <<>>, NEW c, NEW S, Brings(q, c, S)
  PROVE  Brings(Tail(q), IF IsData(Head(q)) THEN Head(q).points ELSE c, S)
<1> DEFINE t == Tail(q)
           d == IF IsData(Head(q)) THEN Head(q).points ELSE c
<1>1. /\ DOMAIN q = 1..Len(q) /\ Len(q) \in Nat /\ Len(q) > 0 /\ Head(q) = q[1]
      /\ DOMAIN t = 1..Len(q) - 1 /\ \A i \in DOMAIN t : t[i] = q[i + 1]
  OBVIOUS
<1>2. CASE c = S /\ \A i \in DOMAIN q : ~IsData(q[i])
  BY <1>1, <1>2 DEF Brings
<1>3. ASSUME NEW i \in DOMAIN q, IsData(q[i]), q[i].points = S,
             \A j \in DOMAIN q : j > i => ~IsData(q[j])
      PROVE  Brings(t, d, S)
  <2>1. CASE i = 1
    <3>1. \A j \in DOMAIN t : ~IsData(t[j])
      BY <1>1, <1>3, <2>1
    <3> QED
      BY <1>1, <1>3, <2>1, <3>1 DEF Brings
  <2>2. CASE i # 1
    <3>1. i - 1 \in DOMAIN t /\ t[i - 1] = q[i]
      BY <1>1, <2>2
    <3>2. \A j \in DOMAIN t : j > i - 1 => ~IsData(t[j])
      BY <1>1, <1>3
    <3> QED
      BY <1>3, <3>1, <3>2 DEF Brings
  <2> QED
    BY <2>1, <2>2
<1> QED
  BY <1>2, <1>3 DEF Brings

(* A message that is no push changes nothing of it.                        *)
LEMMA Sent ==
  ASSUME NEW q \in Seq(Message), NEW m \in Message, ~IsData(m), NEW c, NEW S, Brings(q, c, S)
  PROVE  Brings(Append(q, m), c, S)
<1> DEFINE a == Append(q, m)
<1>1. /\ DOMAIN q = 1..Len(q) /\ Len(q) \in Nat /\ DOMAIN a = 1..Len(q) + 1
      /\ \A i \in DOMAIN q : i \in DOMAIN a /\ a[i] = q[i]
      /\ \A i \in DOMAIN a : i \in DOMAIN q \/ a[i] = m
  OBVIOUS
<1>2. CASE c = S /\ \A i \in DOMAIN q : ~IsData(q[i])
  BY <1>1, <1>2 DEF Brings
<1>3. ASSUME NEW i \in DOMAIN q, IsData(q[i]), q[i].points = S,
             \A j \in DOMAIN q : j > i => ~IsData(q[j])
      PROVE  Brings(a, c, S)
  BY <1>1, <1>3 DEF Brings
<1> QED
  BY <1>2, <1>3 DEF Brings

(* A push brings what it says.                                             *)
LEMMA Pushed ==
  ASSUME NEW q \in Seq(Message), NEW S \in SUBSET Points, NEW c
  PROVE  Brings(Append(q, [type |-> "data", points |-> S]), c, S)
<1> DEFINE d == [type |-> "data", points |-> S]
           a == Append(q, d)
<1>1. Len(q) + 1 \in DOMAIN a /\ a[Len(q) + 1] = d /\ \A j \in DOMAIN a : ~(j > Len(q) + 1)
  OBVIOUS
<1> QED
  BY <1>1 DEF Brings, IsData

(* Appending one message is what the server's handlers do.                 *)
LEMMA OneMore ==
  ASSUME NEW q \in Seq(Message), NEW m \in Message
  PROVE  q \o <<m>> = Append(q, m) /\ Append(q, m) \in Seq(Message)
OBVIOUS

(* A queue that loses its head has nothing new.                            *)
LEMMA TailHas ==
  ASSUME NEW T, NEW q \in Seq(T), q # <<>>
  PROVE  \A i \in DOMAIN Tail(q) : i + 1 \in DOMAIN q /\ Tail(q)[i] = q[i + 1] /\ i + 1 # 1
OBVIOUS

-----------------------------------------------------------------------------
(* NotYetObserved.                                                         *)

(* Steps that leave the calls alone.                                       *)
LEMMA CallsKept ==
  ASSUME NotYetObserved, UNCHANGED calls,
         listen = "off" => listen' = "off",
         ~watching /\ (\A j \in DOMAIN toServer : toServer[j] # "observe")
           /\ listen = "off" =>
           ~watching' /\ \A j \in DOMAIN toServer' : toServer'[j] # "observe"
  PROVE  NotYetObserved'
BY DEF NotYetObserved

LEMMA ObservedStep ==
  ASSUME TypeOK, NotYetObserved, [Next]_dbVars
  PROVE  NotYetObserved'
<1>a. /\ calls \in Seq(Request) /\ pending \in Seq(Write)
      /\ toServer \in Seq(Request) /\ toClient \in Seq(Message)
      /\ "observe" \notin Write
  BY WritesAssumption DEF TypeOK, Write
<1>1. CASE RunObserve
  <2>1. \A i \in DOMAIN calls' : calls'[i] # "observe"
    BY <1>1, <1>a, TailHas DEF RunObserve, NotYetObserved
  <2> QED
    BY <2>1 DEF NotYetObserved
<1>2. CASE RunWrite
  <2>1. calls[1] # "observe"
    BY <1>2, <1>a DEF RunWrite
  <2>2. \A i \in DOMAIN calls' : calls'[i] # "observe"
    BY <1>2, <1>a, <2>1, TailHas DEF RunWrite, NotYetObserved
  <2> QED
    BY <2>2 DEF NotYetObserved
<1>3. CASE Connect
  <2>1. \A j \in DOMAIN toServer' : toServer'[j] # "observe"
    BY <1>3 DEF Connect
  <2> QED
    BY <1>3, <2>1, CallsKept DEF Connect, client
<1>4. CASE Disconnect
  <2>1. \A j \in DOMAIN toServer' : toServer'[j] # "observe"
    BY <1>4 DEF Disconnect
  <2> QED
    BY <1>4, <2>1, CallsKept DEF Disconnect
<1>5. CASE ReceiveAuthAnswer
  <2>1. ASSUME listen = "off", \A j \in DOMAIN toServer : toServer[j] # "observe"
        PROVE  \A j \in DOMAIN toServer' : toServer'[j] # "observe"
    <3>1. toServer' = toServer \o pending
      BY <1>5, <1>a, <2>1 DEF ReceiveAuthAnswer, Restored, Listens
    <3>2. \A j \in DOMAIN pending : pending[j] # "observe"
      BY <1>a
    <3>3. \A j \in DOMAIN toServer' : \/ j \in DOMAIN toServer /\ toServer'[j] = toServer[j]
                                      \/ \E k \in DOMAIN pending : toServer'[j] = pending[k]
      BY <1>a, <3>1, ConcatProperties
    <3> QED
      BY <2>1, <3>2, <3>3
  <2> QED
    BY <1>5, <2>1, CallsKept DEF ReceiveAuthAnswer, Receive
<1>6. CASE ReceiveData \/ ReceivePutAnswer
  <2>1. UNCHANGED <<calls, listen, watching, toServer>>
    BY <1>6 DEF ReceiveData, ReceivePutAnswer, Receive
  <2> QED
    BY <2>1, CallsKept
<1>7. CASE ReceiveListenAnswer
  BY <1>7, CallsKept DEF ReceiveListenAnswer, Receive
<1>8. CASE ServerAuthenticates \/ ServerAccepts \/ ServerRefuses
  <2>1. toServer # <<>> /\ toServer' = Tail(toServer)
    BY <1>8 DEF ServerAuthenticates, ServerAccepts, ServerRefuses
  <2>2. (\A j \in DOMAIN toServer : toServer[j] # "observe")
          => \A j \in DOMAIN toServer' : toServer'[j] # "observe"
    BY <1>a, <2>1, TailHas
  <2> QED
    BY <1>8, <2>2, CallsKept DEF ServerAuthenticates, ServerAccepts, ServerRefuses, client
<1>9. CASE ServerListens
  <2>1. 1 \in DOMAIN toServer /\ toServer[1] = "observe"
    BY <1>9, <1>a DEF ServerListens
  <2> QED
    BY <1>9, <2>1, CallsKept DEF ServerListens, client
<1>10. CASE OtherDeviceWrites \/ AppRunsBlock \/ UNCHANGED dbVars
  BY <1>10, CallsKept DEF OtherDeviceWrites, AppRunsBlock, dbVars, client, wire
<1>11. CASE AppWrites
  <2>1. PICK w \in Write : calls' = Append(calls, w)
    BY <1>11 DEF AppWrites, CallWrite
  <2>2. \A i \in DOMAIN calls' : calls'[i] = "observe" => i \in DOMAIN calls /\ calls[i] = "observe"
    BY <1>a, <2>1
  <2> QED
    BY <1>11, <2>2 DEF AppWrites, NotYetObserved, wire
<1>12. CASE Relaunch
  <2>1. DOMAIN calls' = {1} /\ DOMAIN toServer' = {}
    BY <1>12 DEF Relaunch
  <2> QED
    BY <1>12, <2>1 DEF Relaunch, NotYetObserved
<1> QED
  BY <1>1, <1>2, <1>3, <1>4, <1>5, <1>6, <1>7, <1>8, <1>9, <1>10, <1>11, <1>12
  DEF Next, Service, ClientRuns, ClientReceives, ServerServes

-----------------------------------------------------------------------------
(* Followed.                                                               *)

(* What is stored is pushed, if somebody listens and it is new, before any *)
(* answer.                                                                 *)
LEMMA StoredIsPushed ==
  ASSUME TypeOK, Followed, NEW S \in SUBSET Points, watching, listen # "off"
  PROVE  Brings(toClient \o Push(S), serverCache, S) /\ toClient \o Push(S) \in Seq(Message)
<1>1. toClient \in Seq(Message) /\ [type |-> "data", points |-> S] \in Message
  BY MessageType DEF TypeOK
<1>2. CASE S = server
  <2>1. toClient \o Push(S) = toClient
    BY <1>1, <1>2 DEF Push
  <2> QED
    BY <1>1, <1>2, <2>1 DEF Followed
<1>3. CASE S # server
  <2>1. toClient \o Push(S) = Append(toClient, [type |-> "data", points |-> S])
    BY <1>1, <1>3, OneMore DEF Push
  <2> QED
    BY <1>1, <2>1, OneMore, Pushed
<1> QED
  BY <1>2, <1>3

LEMMA FollowedStep ==
  ASSUME Tracked, [Next]_dbVars
  PROVE  Followed'
<1>a. /\ calls \in Seq(Request) /\ toServer \in Seq(Request) /\ toClient \in Seq(Message)
      /\ server \in SUBSET Points
      /\ TypeOK /\ Followed /\ NotYetObserved
  BY DEF Tracked, TypeOK
<1> SUFFICES ASSUME watching', listen' # "off"
             PROVE  Brings(toClient, serverCache, server)'
  BY DEF Followed
<1>b. ASSUME UNCHANGED <<watching, toClient, serverCache, server>>, listen' # "off" => listen # "off"
      PROVE  Brings(toClient, serverCache, server)'
  BY <1>a, <1>b DEF Followed
<1>c. ASSUME watching, listen # "off", toClient # <<>>, toClient' = Tail(toClient),
             UNCHANGED server,
             serverCache' = IF IsData(Head(toClient)) THEN Head(toClient).points ELSE serverCache
      PROVE  Brings(toClient, serverCache, server)'
  BY <1>a, <1>c, Read DEF Followed
<1>d. ASSUME watching, listen # "off", NEW m \in Message, ~IsData(m),
             toClient' = Append(toClient, m), UNCHANGED <<serverCache, server>>
      PROVE  Brings(toClient, serverCache, server)'
  BY <1>a, <1>d, Sent DEF Followed
<1>1. CASE RunObserve
  <2>1. 1 \in DOMAIN calls /\ calls[1] = "observe"
    BY <1>1, <1>a DEF RunObserve
  <2> QED
    BY <1>1, <1>a, <2>1 DEF RunObserve, NotYetObserved
<1>2. CASE RunWrite \/ Connect \/ AppWrites \/ AppRunsBlock \/ UNCHANGED dbVars
  BY <1>2, <1>b DEF RunWrite, Connect, AppWrites, AppRunsBlock, dbVars, client, wire
<1>3. CASE Disconnect \/ Relaunch
  BY <1>3 DEF Disconnect, Relaunch
<1>4. CASE ReceiveAuthAnswer
  <2>1. ~IsData(Head(toClient))
    BY <1>4 DEF ReceiveAuthAnswer, Receive, IsData
  <2> QED
    BY <1>4, <1>c, <2>1 DEF ReceiveAuthAnswer, Receive
<1>5. CASE ReceiveData
  <2>1. PICK S \in SUBSET Points :
          /\ Receive([type |-> "data", points |-> S])
          /\ serverCache' = WithData(S) /\ UNCHANGED listen
    BY <1>5 DEF ReceiveData
  <2>2. IsData(Head(toClient)) /\ Head(toClient).points = S
    BY <2>1 DEF Receive, IsData
  <2> QED
    BY <1>c, <2>1, <2>2 DEF Receive, WithData
<1>6. CASE ReceiveListenAnswer
  <2>1. PICK s \in Statuses :
          /\ Receive([type |-> "listen", status |-> s])
          /\ listen' = IF s = "ok" /\ listen # "off" THEN "acked" ELSE "off"
          /\ serverCache' = IF s = "ok" THEN serverCache ELSE {}
    BY <1>6 DEF ReceiveListenAnswer
  <2>2. ~IsData(Head(toClient))
    BY <2>1 DEF Receive, IsData
  <2> QED
    BY <1>c, <2>1, <2>2 DEF Receive
<1>7. CASE ReceivePutAnswer
  <2>1. ~IsData(Head(toClient))
    BY <1>7 DEF ReceivePutAnswer, Receive, IsData
  <2> QED
    BY <1>7, <1>c, <2>1 DEF ReceivePutAnswer, Receive
<1>8. CASE ServerAuthenticates
  <2>1. [type |-> "auth"] \in Message /\ ~IsData([type |-> "auth"])
    BY DEF Message, IsData
  <2> QED
    BY <1>8, <1>d, <2>1 DEF ServerAuthenticates, client
<1>9. CASE ServerRefuses
  <2> DEFINE m == [type |-> "put", write |-> Head(toServer), status |-> "denied"]
  <2>1. m \in Message /\ ~IsData(m)
    BY <1>9, MessageType DEF ServerRefuses, IsData
  <2> QED
    BY <1>9, <1>d, <2>1 DEF ServerRefuses, client
<1>10. CASE ServerListens
  <2> DEFINE data == [type |-> "data", points |-> server]
             answer == [type |-> "listen", status |-> "ok"]
  <2>1. toClient' = toClient \o <<data>> \o <<answer>>
    BY <1>10 DEF ServerListens
  <2>2. data \in Message /\ answer \in Message /\ ~IsData(answer)
    BY <1>a, MessageType, StatusesAssumption DEF IsData
  <2>3. toClient' = Append(Append(toClient, data), answer) /\ Append(toClient, data) \in Seq(Message)
    BY <1>a, <2>1, <2>2, OneMore
  <2>4. Brings(Append(toClient, data), serverCache, server)
    BY <1>a, Pushed
  <2> QED
    BY <1>10, <2>2, <2>3, <2>4, Sent DEF ServerListens, client
<1>11. CASE ServerAccepts
  <2> DEFINE m == [type |-> "put", write |-> Head(toServer), status |-> "ok"]
             pushed == toClient \o Push(server')
  <2>1. watching /\ listen # "off" /\ toClient' = pushed \o <<m>> /\ UNCHANGED serverCache
    BY <1>11 DEF ServerAccepts, client
  <2>2. m \in Message /\ ~IsData(m)
    BY <1>11, MessageType, StatusesAssumption DEF ServerAccepts, IsData
  <2>3. server' \in SUBSET Points
    BY <1>a, <1>11, StoredType DEF ServerAccepts
  <2>4. Brings(pushed, serverCache, server') /\ pushed \in Seq(Message)
    BY <1>a, <2>1, <2>3, StoredIsPushed
  <2> HIDE DEF m, pushed
  <2>5. toClient' = Append(pushed, m)
    BY <2>1, <2>2, <2>4, OneMore
  <2> QED
    BY <2>1, <2>2, <2>4, <2>5, Sent
<1>12. CASE OtherDeviceWrites
  <2>1. PICK w \in Elsewhere :
          /\ Issue(w)
          /\ server' = Stored(w, server)
          /\ toClient' = toClient \o Push(server')
          /\ UNCHANGED <<client, watching>>
    BY <1>12 DEF OtherDeviceWrites
  <2>2. server' \in SUBSET Points
    BY <1>a, <2>1, IssueType, StoredType
  <2> QED
    BY <1>a, <2>1, <2>2, StoredIsPushed DEF client
<1> QED
  BY <1>1, <1>2, <1>3, <1>4, <1>5, <1>6, <1>7, <1>8, <1>9, <1>10, <1>11, <1>12
  DEF Next, Service, ClientRuns, ClientReceives, ServerServes

-----------------------------------------------------------------------------

(* Brings, said with the last push on the wire.                            *)
LEMMA BringsLastData ==
  ASSUME TypeOK, NEW S, Brings(toClient, serverCache, S)
  PROVE  LastData = S
<1>0. DOMAIN toClient \subseteq Nat
  BY DEF TypeOK
<1>1. CASE serverCache = S /\ \A i \in DOMAIN toClient : ~IsData(toClient[i])
  BY <1>1 DEF LastData, DataMessages, IsData
<1>2. ASSUME NEW i \in DOMAIN toClient, IsData(toClient[i]), toClient[i].points = S,
             \A j \in DOMAIN toClient : j > i => ~IsData(toClient[j])
      PROVE  LastData = S
  <2>1. i \in DataMessages /\ DataMessages \subseteq Nat /\ \A j \in DataMessages : i >= j
    BY <1>0, <1>2 DEF DataMessages, IsData
  <2>2. Max(DataMessages) = i
    <3>1. \A x \in DataMessages : (\A y \in DataMessages : x >= y) => x = i
      BY <2>1
    <3> QED
      BY <2>1, <3>1 DEF Max
  <2> QED
    BY <1>2, <2>1, <2>2 DEF LastData
<1> QED
  BY <1>1, <1>2 DEF Brings

LEMMA InitTracked == Init => Tracked
<1> SUFFICES ASSUME Init PROVE Tracked
  OBVIOUS
<1>1. DOMAIN calls = {1} /\ DOMAIN toServer = {}
  BY DEF Init
<1> QED
  BY <1>1, InitType DEF Init, Tracked, NotYetObserved, Followed

LEMMA StepTracked == Tracked /\ [Next]_dbVars => Tracked'
BY TypeStep, ObservedStep, FollowedStep DEF Tracked

(* While the server pushes changes, the client's cache and the pushes in   *)
(* flight are what the server stores, however often the connection is lost *)
(* or the process dies (FPersistentConnection, FSyncTree).                 *)
THEOREM CacheFollowsServer == Spec => []CacheTracksServer
<1>1. Tracked => CacheTracksServer
  BY BringsLastData DEF Tracked, Followed, CacheTracksServer
<1> QED
  BY <1>1, InitTracked, StepTracked, PTL DEF Spec

-----------------------------------------------------------------------------
(***************************************************************************)
(* The order of queues.                                                    *)
(***************************************************************************)

LEMMA BeforeAppend ==
  ASSUME NEW S, NEW q \in Seq(S), NEW e \in S
  PROVE  /\ Append(q, e) \in Seq(S) /\ ToSet(Append(q, e)) = ToSet(q) \cup {e}
         /\ \A a, b : Before(Append(q, e), a, b) <=> Before(q, a, b) \/ (a \in ToSet(q) /\ b = e)
<1> DEFINE r == Append(q, e)
<1>1. /\ r \in Seq(S) /\ Len(q) \in Nat /\ DOMAIN q = 1..Len(q) /\ DOMAIN r = 1..Len(q) + 1
      /\ \A i \in DOMAIN q : r[i] = q[i]
      /\ r[Len(q) + 1] = e
  OBVIOUS
<1> HIDE DEF r
<1>2. ToSet(r) = ToSet(q) \cup {e}
  BY <1>1 DEF ToSet
<1>3. ASSUME NEW a, NEW b
      PROVE  Before(r, a, b) <=> Before(q, a, b) \/ (a \in ToSet(q) /\ b = e)
  <2>1. \A i, j \in DOMAIN r : i < j => i \in DOMAIN q /\ (j \in DOMAIN q \/ j = Len(q) + 1)
    BY <1>1
  <2>2. \A i \in DOMAIN q : i \in DOMAIN r /\ i < Len(q) + 1 /\ Len(q) + 1 \in DOMAIN r
    BY <1>1
  <2> QED
    BY <1>1, <2>1, <2>2 DEF Before, ToSet
<1> QED
  BY <1>1, <1>2, <1>3 DEF r

LEMMA BeforeConcat ==
  ASSUME NEW S, NEW q \in Seq(S), NEW r \in Seq(S)
  PROVE  /\ q \o r \in Seq(S) /\ ToSet(q \o r) = ToSet(q) \cup ToSet(r)
         /\ \A a, b : Before(q \o r, a, b) <=>
           Before(q, a, b) \/ Before(r, a, b) \/ (a \in ToSet(q) /\ b \in ToSet(r))
<1> DEFINE t == q \o r
           m == Len(q)
           n == Len(r)
<1>1. /\ t \in Seq(S) /\ m \in Nat /\ n \in Nat
      /\ DOMAIN q = 1..m /\ DOMAIN r = 1..n /\ DOMAIN t = 1..m + n
      /\ \A i \in 1..m : t[i] = q[i]
      /\ \A i \in 1..n : t[m + i] = r[i]
  OBVIOUS
<1> HIDE DEF t, m, n
<1>2. /\ \A i \in 1..m : i \in DOMAIN t
      /\ \A i \in 1..n : m + i \in DOMAIN t
      /\ \A i \in DOMAIN t : i \in 1..m \/ \E k \in 1..n : i = m + k
  <2>1. ASSUME NEW i \in DOMAIN t, i \notin 1..m PROVE \E k \in 1..n : i = m + k
    <3>1. i - m \in 1..n /\ i = m + (i - m)
      BY <1>1, <2>1
    <3> QED
      BY <3>1
  <2>2. \A i \in 1..m : i \in DOMAIN t
    BY <1>1
  <2>3. \A i \in 1..n : m + i \in DOMAIN t
    BY <1>1
  <2> QED
    BY <2>1, <2>2, <2>3
<1>3. ToSet(t) = ToSet(q) \cup ToSet(r)
  <2>1. \A e : e \in ToSet(t) => e \in ToSet(q) \/ e \in ToSet(r)
    <3>1. \A i \in DOMAIN t : \/ i \in DOMAIN q /\ t[i] = q[i]
                             \/ \E k \in DOMAIN r : t[i] = r[k]
      BY <1>1, <1>2
    <3> QED
      BY <3>1 DEF ToSet
  <2>2. \A e : e \in ToSet(q) => e \in ToSet(t)
    BY <1>1, <1>2 DEF ToSet
  <2>3. \A e : e \in ToSet(r) => e \in ToSet(t)
    <3>1. \A i \in DOMAIN r : r[i] = t[m + i] /\ m + i \in DOMAIN t
      BY <1>1, <1>2
    <3> QED
      BY <3>1 DEF ToSet
  <2> QED
    BY <2>1, <2>2, <2>3
<1>4. ASSUME NEW a, NEW b
      PROVE  Before(t, a, b) <=>
           Before(q, a, b) \/ Before(r, a, b) \/ (a \in ToSet(q) /\ b \in ToSet(r))
  <2>1. ASSUME Before(q, a, b) PROVE Before(t, a, b)
    BY <1>1, <1>2, <2>1 DEF Before
  <2>2. ASSUME Before(r, a, b) PROVE Before(t, a, b)
    <3>1. PICK i \in 1..n, j \in 1..n : i < j /\ r[i] = a /\ r[j] = b
      BY <1>1, <2>2 DEF Before
    <3>2. m + i < m + j /\ t[m + i] = a /\ t[m + j] = b
      BY <1>1, <3>1
    <3> QED
      BY <1>2, <3>2 DEF Before
  <2>3. ASSUME a \in ToSet(q), b \in ToSet(r) PROVE Before(t, a, b)
    <3>1. PICK i \in 1..m, j \in 1..n : q[i] = a /\ r[j] = b
      BY <1>1, <2>3 DEF ToSet
    <3>2. i < m + j /\ t[i] = a /\ t[m + j] = b
      BY <1>1, <3>1
    <3> QED
      BY <1>2, <3>2 DEF Before
  <2>4. ASSUME Before(t, a, b)
        PROVE  Before(q, a, b) \/ Before(r, a, b) \/ (a \in ToSet(q) /\ b \in ToSet(r))
    <3>1. PICK i \in DOMAIN t, j \in DOMAIN t : i < j /\ t[i] = a /\ t[j] = b
      BY <2>4 DEF Before
    <3>2. CASE i \in 1..m /\ j \in 1..m
      BY <1>1, <3>1, <3>2 DEF Before
    <3>3. CASE i \in 1..m /\ j \notin 1..m
      BY <1>1, <1>2, <3>1, <3>3 DEF ToSet
    <3>4. CASE i \notin 1..m
      <4>1. PICK k \in 1..n, l \in 1..n : i = m + k /\ j = m + l
        <5>1. j \notin 1..m
          BY <1>1, <3>1, <3>4
        <5> QED
          BY <1>2, <3>4, <5>1
      <4>2. k < l /\ r[k] = a /\ r[l] = b
        BY <1>1, <3>1, <4>1
      <4> QED
        BY <1>1, <4>2 DEF Before
    <3> QED
      BY <3>2, <3>3, <3>4
  <2> QED
    BY <2>1, <2>2, <2>3, <2>4
<1>5. \A a, b : Before(t, a, b) <=>
           Before(q, a, b) \/ Before(r, a, b) \/ (a \in ToSet(q) /\ b \in ToSet(r))
  BY <1>4
<1> QED
  BY <1>1, <1>3, <1>5 DEF t

LEMMA BeforeTail ==
  ASSUME NEW S, NEW q \in Seq(S), q # <<>>
  PROVE  /\ Tail(q) \in Seq(S) /\ Head(q) \in S /\ ToSet(q) = {Head(q)} \cup ToSet(Tail(q))
         /\ \A a, b : Before(q, a, b) <=>
           Before(Tail(q), a, b) \/ (a = Head(q) /\ b \in ToSet(Tail(q)))
<1> DEFINE t == Tail(q)
           n == Len(q)
<1>1. /\ t \in Seq(S) /\ n \in Nat /\ n > 0 /\ Head(q) = q[1] /\ Head(q) \in S
      /\ DOMAIN q = 1..n /\ DOMAIN t = 1..n - 1
      /\ \A i \in 1..n - 1 : t[i] = q[i + 1]
  OBVIOUS
<1> HIDE DEF t, n
<1>2. /\ \A i \in DOMAIN t : i + 1 \in DOMAIN q
      /\ \A i \in DOMAIN q : i = 1 \/ \E k \in DOMAIN t : i = k + 1
  <2>1. ASSUME NEW i \in DOMAIN q, i # 1 PROVE i - 1 \in DOMAIN t /\ i = (i - 1) + 1
    BY <1>1, <2>1
  <2> QED
    BY <1>1, <2>1
<1>3. ToSet(q) = {Head(q)} \cup ToSet(t)
  BY <1>1, <1>2 DEF ToSet
<1>4. ASSUME NEW a, NEW b
      PROVE  Before(q, a, b) <=> Before(t, a, b) \/ (a = Head(q) /\ b \in ToSet(t))
  <2>1. ASSUME Before(t, a, b) PROVE Before(q, a, b)
    <3>1. PICK i \in DOMAIN t, j \in DOMAIN t : i < j /\ t[i] = a /\ t[j] = b
      BY <2>1 DEF Before
    <3>2. i + 1 < j + 1 /\ q[i + 1] = a /\ q[j + 1] = b
      BY <1>1, <3>1
    <3> QED
      BY <1>2, <3>2 DEF Before
  <2>2. ASSUME a = Head(q), b \in ToSet(t) PROVE Before(q, a, b)
    <3>1. PICK j \in DOMAIN t : t[j] = b
      BY <2>2 DEF ToSet
    <3>2. 1 < j + 1 /\ q[1] = a /\ q[j + 1] = b
      BY <1>1, <2>2, <3>1
    <3> QED
      BY <1>1, <1>2, <3>2 DEF Before
  <2>3. ASSUME Before(q, a, b) PROVE Before(t, a, b) \/ (a = Head(q) /\ b \in ToSet(t))
    <3>1. PICK i \in DOMAIN q, j \in DOMAIN q : i < j /\ q[i] = a /\ q[j] = b
      BY <2>3 DEF Before
    <3>2. PICK l \in DOMAIN t : j = l + 1
      <4>1. j - 1 \in DOMAIN t /\ j = (j - 1) + 1
        BY <1>1, <3>1
      <4> QED
        BY <4>1
    <3>3. b \in ToSet(t)
      BY <1>1, <3>1, <3>2 DEF ToSet
    <3>4. CASE i = 1
      BY <1>1, <3>1, <3>3, <3>4
    <3>5. CASE i # 1
      <4>1. PICK k \in DOMAIN t : i = k + 1
        BY <1>2, <3>5
      <4>2. k < l /\ t[k] = a /\ t[l] = b
        BY <1>1, <3>1, <3>2, <4>1
      <4> QED
        BY <4>2 DEF Before
    <3> QED
      BY <3>4, <3>5
  <2> QED
    BY <2>1, <2>2, <2>3
<1> QED
  BY <1>1, <1>3, <1>4 DEF t

(* Two elements have an order, and without repetitions only one.           *)
LEMMA BeforeOrders ==
  ASSUME NEW S, NEW q \in Seq(S)
  PROVE  /\ \A a, b : Before(q, a, b) => a \in ToSet(q) /\ b \in ToSet(q)
         /\ \A a, b \in ToSet(q) : a # b => Before(q, a, b) \/ Before(q, b, a)
         /\ IsInjective(q) => \A a, b : Before(q, a, b) => ~Before(q, b, a)
<1>1. DOMAIN q \subseteq Nat
  OBVIOUS
<1>2. \A i, j \in DOMAIN q : i < j \/ j < i \/ i = j
  BY <1>1
<1>3. \A a, b \in ToSet(q) : a # b => Before(q, a, b) \/ Before(q, b, a)
  BY <1>2 DEF Before, ToSet
<1>4. ASSUME IsInjective(q), NEW a, NEW b, Before(q, a, b), Before(q, b, a) PROVE FALSE
  <2>1. PICK i \in DOMAIN q, j \in DOMAIN q : i < j /\ q[i] = a /\ q[j] = b
    BY <1>4 DEF Before
  <2>2. PICK k \in DOMAIN q, l \in DOMAIN q : k < l /\ q[k] = b /\ q[l] = a
    BY <1>4 DEF Before
  <2>3. i = l /\ j = k
    BY <1>4, <2>1, <2>2 DEF IsInjective
  <2> QED
    BY <1>1, <2>1, <2>2, <2>3
<1> QED
  BY <1>3, <1>4 DEF Before, ToSet

LEMMA BeforeNothing == ToSet(<<>>) = {} /\ \A a, b : ~Before(<<>>, a, b)
BY DEF ToSet, Before

LEMMA BeforeSingle ==
  ASSUME NEW e PROVE ToSet(<<e>>) = {e} /\ \A a, b : ~Before(<<e>>, a, b)
<1>1. DOMAIN <<e>> = {1} /\ <<e>>[1] = e
  OBVIOUS
<1> QED
  BY <1>1 DEF ToSet, Before

LEMMA RemovesHead ==
  ASSUME NEW S, NEW q \in Seq(S), q # <<>>
  PROVE  RemoveAt(q, 1) = Tail(q)
BY DEF RemoveAt

-----------------------------------------------------------------------------
(***************************************************************************)
(* The wire as one queue, from the oldest answer to the newest request.    *)
(***************************************************************************)
Symbol == Request \cup {"data"}

BackOf(q) == [i \in DOMAIN q |-> Carries(q[i])]
Trip(q, r) == BackOf(q) \o r

(* Two queues that carry the same, but for the pushes.                     *)
SameTrip(s, t) ==
  \A a, b \in Request :
    /\ a \in ToSet(s) <=> a \in ToSet(t)
    /\ Before(s, a, b) <=> Before(t, a, b)

LEMMA Carried ==
  ASSUME NEW m \in Message
  PROVE  /\ Carries(m) \in Symbol
         /\ m.type = "put" => Carries(m) = m.write /\ m.write \in Write
         /\ m.type = "data" => Carries(m) = "data"
         /\ m.type = "listen" => Carries(m) = "observe"
         /\ m.type = "auth" => Carries(m) = "auth"
         /\ m.type \in {"put", "data", "listen", "auth"}
<1>1. CASE m.type = "put"
  BY <1>1 DEF Message, Carries, Symbol, Request
<1>2. CASE m.type = "listen"
  BY <1>2 DEF Message, Carries, Symbol, Request
<1>3. CASE m.type = "data"
  BY <1>3 DEF Message, Carries, Symbol, Request
<1>4. CASE m.type = "auth"
  BY <1>4 DEF Message, Carries, Symbol, Request
<1>5. m.type \in {"put", "data", "listen", "auth"}
  BY DEF Message
<1> QED
  BY <1>1, <1>2, <1>3, <1>4, <1>5

LEMMA Symbols ==
  /\ "observe" \notin Write /\ "auth" \notin Write /\ "data" \notin Write
  /\ "data" \notin Request /\ Write \subseteq Request
  /\ "auth" \in Request /\ "observe" \in Request
BY WritesAssumption DEF Write, Request

LEMMA BackAppend ==
  ASSUME NEW q \in Seq(Message), NEW m \in Message
  PROVE  /\ BackOf(q) \in Seq(Symbol)
         /\ BackOf(Append(q, m)) = Append(BackOf(q), Carries(m))
<1>1. \A i \in DOMAIN q : q[i] \in Message
  OBVIOUS
<1>2. BackOf(q) \in Seq(Symbol)
  BY <1>1, Carried DEF BackOf
<1>3. /\ Append(q, m) \in Seq(Message) /\ DOMAIN q = 1..Len(q) /\ Len(q) \in Nat
      /\ DOMAIN Append(q, m) = 1..Len(q) + 1
      /\ \A i \in 1..Len(q) + 1 : Append(q, m)[i] = IF i = Len(q) + 1 THEN m ELSE q[i]
  OBVIOUS
<1>4. Len(BackOf(q)) = Len(q) /\ Append(BackOf(q), Carries(m)) =
        [i \in 1..Len(q) + 1 |-> IF i = Len(q) + 1 THEN Carries(m) ELSE Carries(q[i])]
  BY <1>2, <1>3 DEF BackOf
<1>5. BackOf(Append(q, m)) = [i \in 1..Len(q) + 1 |-> Carries(Append(q, m)[i])]
  BY <1>3 DEF BackOf
<1> QED
  BY <1>2, <1>3, <1>4, <1>5

LEMMA BackType ==
  ASSUME NEW q \in Seq(Message) PROVE BackOf(q) \in Seq(Symbol)
<1>1. \A i \in DOMAIN q : q[i] \in Message
  OBVIOUS
<1> QED
  BY <1>1, Carried DEF BackOf

LEMMA BackTail ==
  ASSUME NEW q \in Seq(Message), q # <<>>
  PROVE  /\ BackOf(q) \in Seq(Symbol) /\ BackOf(q) # <<>>
         /\ Tail(q) \in Seq(Message) /\ Head(q) \in Message /\ Head(BackOf(q)) = Carries(Head(q))
         /\ BackOf(Tail(q)) = Tail(BackOf(q))
<1>1. \A i \in DOMAIN q : q[i] \in Message
  OBVIOUS
<1>2. BackOf(q) \in Seq(Symbol)
  BY <1>1, Carried DEF BackOf
<1>3. /\ DOMAIN q = 1..Len(q) /\ Len(q) \in Nat /\ Len(q) > 0 /\ Head(q) = q[1]
      /\ Tail(q) \in Seq(Message) /\ DOMAIN Tail(q) = 1..Len(q) - 1 /\ Len(Tail(q)) = Len(q) - 1
      /\ \A i \in 1..Len(q) - 1 : Tail(q)[i] = q[i + 1] /\ i + 1 \in DOMAIN q
  OBVIOUS
<1>4. Len(BackOf(q)) = Len(q) /\ BackOf(q)[1] = Carries(q[1])
  BY <1>2, <1>3 DEF BackOf
<1>5. /\ BackOf(q) # <<>> /\ Head(BackOf(q)) = BackOf(q)[1]
      /\ Tail(BackOf(q)) \in Seq(Symbol) /\ Len(Tail(BackOf(q))) = Len(q) - 1
      /\ \A i \in 1..Len(q) - 1 : Tail(BackOf(q))[i] = BackOf(q)[i + 1]
  BY <1>2, <1>3, <1>4
<1>6. BackOf(Tail(q)) \in Seq(Symbol) /\ Len(BackOf(Tail(q))) = Len(q) - 1
  <2>1. BackOf(Tail(q)) \in Seq(Symbol)
    BY <1>3, BackType
  <2>2. DOMAIN BackOf(Tail(q)) = 1..Len(q) - 1
    BY <1>3 DEF BackOf
  <2>3. DOMAIN BackOf(Tail(q)) = 1..Len(BackOf(Tail(q))) /\ Len(BackOf(Tail(q))) \in Nat
    BY <2>1, LenProperties
  <2>4. Len(q) - 1 \in Nat
    BY <1>3
  <2>5. \A m, n \in Nat : 1..m = 1..n => m = n
    <3> SUFFICES ASSUME NEW m \in Nat, NEW n \in Nat, 1..m = 1..n, m # n PROVE FALSE
      OBVIOUS
    <3>1. CASE m < n
      <4>1. n \in 1..n /\ n \notin 1..m
        BY <3>1
      <4> QED
        BY <4>1
    <3>2. CASE n < m
      <4>1. m \in 1..m /\ m \notin 1..n
        BY <3>2
      <4> QED
        BY <4>1
    <3> QED
      BY <3>1, <3>2
  <2> QED
    BY <2>1, <2>2, <2>3, <2>4, <2>5
<1>7. \A i \in 1..Len(q) - 1 : BackOf(Tail(q))[i] = Tail(BackOf(q))[i]
  BY <1>3, <1>5 DEF BackOf
<1>8. BackOf(Tail(q)) = Tail(BackOf(q))
  BY <1>5, <1>6, <1>7, SeqEqual
<1> QED
  BY <1>1, <1>2, <1>3, <1>4, <1>5, <1>8

LEMMA TripIs ==
  ASSUME NEW q \in Seq(Message), NEW r \in Seq(Request)
  PROVE  /\ Trip(q, r) \in Seq(Symbol)
         /\ ToSet(Trip(q, r)) = ToSet(BackOf(q)) \cup ToSet(r)
         /\ \A a, b : Before(Trip(q, r), a, b) <=>
              \/ Before(BackOf(q), a, b) \/ Before(r, a, b)
              \/ (a \in ToSet(BackOf(q)) /\ b \in ToSet(r))
<1>1. BackOf(q) \in Seq(Symbol) /\ r \in Seq(Symbol)
  BY BackType DEF Symbol
<1> QED
  BY <1>1, BeforeConcat DEF Trip

(* A request is sent behind everything.                                    *)
LEMMA TripSends ==
  ASSUME NEW q \in Seq(Message), NEW r \in Seq(Request), NEW x \in Request
  PROVE  /\ ToSet(Trip(q, Append(r, x))) = ToSet(Trip(q, r)) \cup {x}
         /\ \A a, b : Before(Trip(q, Append(r, x)), a, b) <=>
              Before(Trip(q, r), a, b) \/ (a \in ToSet(Trip(q, r)) /\ b = x)
<1>1. /\ Append(r, x) \in Seq(Request) /\ ToSet(Append(r, x)) = ToSet(r) \cup {x}
      /\ \A a, b : Before(Append(r, x), a, b) <=> Before(r, a, b) \/ (a \in ToSet(r) /\ b = x)
  BY BeforeAppend
<1>2. ToSet(Trip(q, Append(r, x))) = ToSet(Trip(q, r)) \cup {x}
  <2>1. ToSet(Trip(q, Append(r, x))) = ToSet(BackOf(q)) \cup ToSet(Append(r, x))
    BY <1>1, TripIs
  <2>2. ToSet(Trip(q, r)) = ToSet(BackOf(q)) \cup ToSet(r)
    BY TripIs
  <2> QED
    BY <1>1, <2>1, <2>2
<1>3. ASSUME NEW a, NEW b
      PROVE  Before(Trip(q, Append(r, x)), a, b) <=>
               Before(Trip(q, r), a, b) \/ (a \in ToSet(Trip(q, r)) /\ b = x)
  <2>1. Before(Trip(q, Append(r, x)), a, b) <=>
              \/ Before(BackOf(q), a, b) \/ Before(Append(r, x), a, b)
              \/ (a \in ToSet(BackOf(q)) /\ b \in ToSet(Append(r, x)))
    BY <1>1, TripIs
  <2>2. /\ ToSet(Trip(q, r)) = ToSet(BackOf(q)) \cup ToSet(r)
        /\ Before(Trip(q, r), a, b) <=>
              \/ Before(BackOf(q), a, b) \/ Before(r, a, b)
              \/ (a \in ToSet(BackOf(q)) /\ b \in ToSet(r))
    BY TripIs
  <2> QED
    BY <1>1, <2>1, <2>2
<1> QED
  BY <1>2, <1>3

(* What comes back is read from the other end.                             *)
LEMMA TripReads ==
  ASSUME NEW q \in Seq(Message), q # <<>>, NEW r \in Seq(Request)
  PROVE  /\ ToSet(Trip(q, r)) = {Carries(Head(q))} \cup ToSet(Trip(Tail(q), r))
         /\ \A a, b : Before(Trip(q, r), a, b) <=>
              \/ Before(Trip(Tail(q), r), a, b)
              \/ (a = Carries(Head(q)) /\ b \in ToSet(Trip(Tail(q), r)))
<1>1. /\ Tail(q) \in Seq(Message) /\ BackOf(q) \in Seq(Symbol)
      /\ BackOf(q) # <<>> /\ Head(BackOf(q)) = Carries(Head(q))
      /\ BackOf(Tail(q)) = Tail(BackOf(q))
  BY BackTail
<1>2. ToSet(BackOf(q)) = {Carries(Head(q))} \cup ToSet(BackOf(Tail(q)))
  BY <1>1, BeforeTail
<1>3. /\ ToSet(Trip(q, r)) = ToSet(BackOf(q)) \cup ToSet(r)
      /\ ToSet(Trip(Tail(q), r)) = ToSet(BackOf(Tail(q))) \cup ToSet(r)
  BY <1>1, TripIs
<1>4. ASSUME NEW a, NEW b
      PROVE  Before(Trip(q, r), a, b) <=>
              \/ Before(Trip(Tail(q), r), a, b)
              \/ (a = Carries(Head(q)) /\ b \in ToSet(Trip(Tail(q), r)))
  <2>1. Before(BackOf(q), a, b) <=> \/ Before(BackOf(Tail(q)), a, b)
                              \/ (a = Carries(Head(q)) /\ b \in ToSet(BackOf(Tail(q))))
    <3>1. Before(BackOf(q), a, b) <=> \/ Before(Tail(BackOf(q)), a, b)
                              \/ (a = Head(BackOf(q)) /\ b \in ToSet(Tail(BackOf(q))))
      BY <1>1, BeforeTail
    <3> QED
      BY <1>1, <3>1
  <2>2. Before(Trip(q, r), a, b) <=>
              \/ Before(BackOf(q), a, b) \/ Before(r, a, b)
              \/ (a \in ToSet(BackOf(q)) /\ b \in ToSet(r))
    BY TripIs
  <2>3. Before(Trip(Tail(q), r), a, b) <=>
              \/ Before(BackOf(Tail(q)), a, b) \/ Before(r, a, b)
              \/ (a \in ToSet(BackOf(Tail(q))) /\ b \in ToSet(r))
    BY <1>1, TripIs
  <2> QED
    BY <1>2, <1>3, <2>1, <2>2, <2>3
<1> QED
  BY <1>2, <1>3, <1>4

(* The server pushes.                                                      *)
LEMMA TripPushes ==
  ASSUME NEW q \in Seq(Message), NEW r \in Seq(Request), NEW m \in Message, m.type = "data"
  PROVE  Append(q, m) \in Seq(Message) /\ SameTrip(Trip(Append(q, m), r), Trip(q, r))
<1>1. /\ BackOf(q) \in Seq(Symbol) /\ BackOf(Append(q, m)) = Append(BackOf(q), "data")
      /\ Append(q, m) \in Seq(Message) /\ "data" \in Symbol
  BY BackAppend, Carried
<1>2. /\ ToSet(BackOf(Append(q, m))) = ToSet(BackOf(q)) \cup {"data"}
      /\ \A a, b : Before(BackOf(Append(q, m)), a, b) <=>
           Before(BackOf(q), a, b) \/ (a \in ToSet(BackOf(q)) /\ b = "data")
  BY <1>1, BeforeAppend
<1>3. "data" \notin Request
  BY Symbols
<1>4. /\ ToSet(Trip(q, r)) = ToSet(BackOf(q)) \cup ToSet(r)
      /\ ToSet(Trip(Append(q, m), r)) = ToSet(BackOf(Append(q, m))) \cup ToSet(r)
  BY <1>1, TripIs
<1>5. ASSUME NEW a \in Request, NEW b \in Request
      PROVE  Before(Trip(Append(q, m), r), a, b) <=> Before(Trip(q, r), a, b)
  <2>1. Before(Trip(q, r), a, b) <=>
              \/ Before(BackOf(q), a, b) \/ Before(r, a, b)
              \/ (a \in ToSet(BackOf(q)) /\ b \in ToSet(r))
    BY TripIs
  <2>2. Before(Trip(Append(q, m), r), a, b) <=>
              \/ Before(BackOf(Append(q, m)), a, b) \/ Before(r, a, b)
              \/ (a \in ToSet(BackOf(Append(q, m))) /\ b \in ToSet(r))
    BY <1>1, TripIs
  <2> QED
    BY <1>2, <1>3, <2>1, <2>2
<1> QED
  BY <1>1, <1>2, <1>3, <1>4, <1>5 DEF SameTrip

(* The server answers the request it took.                                 *)
LEMMA TripAnswers ==
  ASSUME NEW q \in Seq(Message), NEW r \in Seq(Request), r # <<>>,
         NEW m \in Message, Carries(m) = Head(r)
  PROVE  /\ Append(q, m) \in Seq(Message) /\ Tail(r) \in Seq(Request)
         /\ SameTrip(Trip(Append(q, m), Tail(r)), Trip(q, r))
<1>1. /\ BackOf(q) \in Seq(Symbol) /\ BackOf(Append(q, m)) = Append(BackOf(q), Head(r))
      /\ Append(q, m) \in Seq(Message) /\ Head(r) \in Symbol
  BY BackAppend, Carried
<1>2. /\ ToSet(BackOf(Append(q, m))) = ToSet(BackOf(q)) \cup {Head(r)}
      /\ \A a, b : Before(BackOf(Append(q, m)), a, b) <=>
           Before(BackOf(q), a, b) \/ (a \in ToSet(BackOf(q)) /\ b = Head(r))
  BY <1>1, BeforeAppend
<1>3. /\ Tail(r) \in Seq(Request) /\ ToSet(r) = {Head(r)} \cup ToSet(Tail(r))
      /\ \A a, b : Before(r, a, b) <=> Before(Tail(r), a, b) \/ (a = Head(r) /\ b \in ToSet(Tail(r)))
  BY BeforeTail
<1>4. /\ ToSet(Trip(Append(q, m), Tail(r))) = ToSet(BackOf(Append(q, m))) \cup ToSet(Tail(r))
      /\ \A a, b : Before(Trip(Append(q, m), Tail(r)), a, b) <=>
              \/ Before(BackOf(Append(q, m)), a, b) \/ Before(Tail(r), a, b)
              \/ (a \in ToSet(BackOf(Append(q, m))) /\ b \in ToSet(Tail(r)))
  BY <1>1, <1>3, TripIs
<1>5. /\ ToSet(Trip(q, r)) = ToSet(BackOf(q)) \cup ToSet(r)
      /\ \A a, b : Before(Trip(q, r), a, b) <=>
              \/ Before(BackOf(q), a, b) \/ Before(r, a, b)
              \/ (a \in ToSet(BackOf(q)) /\ b \in ToSet(r))
  BY TripIs
<1>6. ToSet(Trip(Append(q, m), Tail(r))) = ToSet(Trip(q, r))
  BY <1>2, <1>3, <1>4, <1>5
<1>7. ASSUME NEW a, NEW b
      PROVE  Before(Trip(Append(q, m), Tail(r)), a, b) <=> Before(Trip(q, r), a, b)
  BY <1>2, <1>3, <1>4, <1>5
<1> QED
  BY <1>1, <1>3, <1>6, <1>7 DEF SameTrip

-----------------------------------------------------------------------------
(***************************************************************************)
(* The order of the wire.                                                  *)
(***************************************************************************)

(* NothingForgotten, said of all writes.                                   *)
InStep ==
  connection = "on" =>
    /\ ToSet(pending) = ToSet(OnWire) \cap Write
    /\ \A v, w \in Write : Before(OnWire, v, w) => Before(pending, v, w)

(* It is not inductive: what restoreState sends must be the first on its   *)
(* connection, so no write is on the wire before the answer to "auth", of  *)
(* which there is one; and a listen never comes after a put.               *)
WireOrder ==
  /\ connection = "off" => toServer = <<>> /\ toClient = <<>> /\ ~watching
  /\ connection # "on" => \A w \in Write : w \notin ToSet(OnWire)
  /\ ~Before(OnWire, "auth", "auth")
  /\ connection # "authenticating" => "auth" \notin ToSet(OnWire)
  /\ \A w \in Write : ~Before(OnWire, w, "observe")
  /\ InStep

(* Nothing is pending before the chart observes.                           *)
ObservesFirst == \A i \in DOMAIN calls : calls[i] = "observe" => pending = <<>>

Ordered == TypeOK /\ WritesWaitOnce /\ NotYetObserved /\ ObservesFirst /\ WireOrder

LEMMA WireIs == OnWire = Trip(toClient, toServer) /\ OnWire' = Trip(toClient', toServer')
BY DEF OnWire, Trip, BackOf

LEMMA WireTypes ==
  ASSUME TypeOK
  PROVE  /\ calls \in Seq(Request) /\ pending \in Seq(Write) /\ pending \in Seq(Symbol)
         /\ toServer \in Seq(Request) /\ toClient \in Seq(Message)
         /\ OnWire \in Seq(Symbol)
<1>1. Write \subseteq Symbol
  BY DEF Symbol, Request
<1> QED
  BY <1>1, WireIs, TripIs DEF TypeOK

LEMMA SameWire ==
  ASSUME WireOrder, UNCHANGED <<connection, pending>>, SameTrip(OnWire', OnWire),
         connection # "off" \/ UNCHANGED <<toServer, toClient, watching>>
  PROVE  WireOrder'
BY Symbols DEF WireOrder, SameTrip, InStep

LEMMA ObservesFirstStep ==
  ASSUME TypeOK, NotYetObserved, ObservesFirst, [Next]_dbVars
  PROVE  ObservesFirst'
<1>a. /\ calls \in Seq(Request) /\ pending \in Seq(Write) /\ "observe" \notin Write
  BY WritesAssumption DEF TypeOK, Write
<1>1. CASE RunObserve \/ RunWrite
  <2>1. calls # <<>> /\ calls' = Tail(calls) /\ (RunWrite => calls[1] # "observe")
    BY <1>1, <1>a DEF RunObserve, RunWrite
  <2>2. \A i \in DOMAIN calls' : calls'[i] # "observe"
    BY <1>a, <2>1, TailHas DEF NotYetObserved
  <2> QED
    BY <2>2 DEF ObservesFirst
<1>2. CASE AppWrites
  <2>1. PICK w \in Write : calls' = Append(calls, w)
    BY <1>2 DEF AppWrites, CallWrite
  <2>2. \A i \in DOMAIN calls' : calls'[i] = "observe" => i \in DOMAIN calls /\ calls[i] = "observe"
    BY <1>a, <2>1
  <2> QED
    BY <1>2, <2>2 DEF AppWrites, ObservesFirst
<1>3. CASE ReceivePutAnswer
  <2>1. UNCHANGED calls /\ pending # <<>>
    BY <1>3, <1>a DEF ReceivePutAnswer, Receive
  <2> QED
    BY <2>1 DEF ObservesFirst
<1>4. CASE Relaunch
  BY <1>4 DEF Relaunch, ObservesFirst
<1>5. CASE UNCHANGED <<calls, pending>>
  BY <1>5 DEF ObservesFirst
<1> QED
  BY <1>1, <1>2, <1>3, <1>4, <1>5 DEF Next, Service, ClientRuns, Connect, Disconnect,
     ClientReceives, ReceiveAuthAnswer, ReceiveData, ReceiveListenAnswer, Receive,
     ServerServes, ServerAuthenticates, ServerListens, ServerAccepts, ServerRefuses,
     OtherDeviceWrites, AppRunsBlock, dbVars, client

(* The oldest put on the wire is that of the oldest pending write.         *)
LEMMA OldestFirst ==
  ASSUME Ordered, NEW w \in Write, connection = "on",
         \A a \in ToSet(OnWire) : a = w \/ Before(OnWire, w, a),
         w \in ToSet(OnWire)
  PROVE  pending # <<>> /\ Head(pending) = w
<1>1. /\ w \in ToSet(pending) /\ ToSet(pending) = ToSet(OnWire) \cap Write
      /\ \A v, x \in Write : Before(OnWire, v, x) => Before(pending, v, x)
      /\ IsInjective(pending) /\ pending \in Seq(Write)
  BY DEF Ordered, WireOrder, InStep, WritesWaitOnce, TypeOK
<1>2. pending # <<>>
  BY <1>1, BeforeNothing
<1>3. /\ Head(pending) \in Write /\ ToSet(pending) = {Head(pending)} \cup ToSet(Tail(pending))
      /\ \A a, b : Before(pending, a, b) <=>
           Before(Tail(pending), a, b) \/ (a = Head(pending) /\ b \in ToSet(Tail(pending)))
  BY <1>1, <1>2, BeforeTail
<1>4. CASE Head(pending) # w
  <2>1. Before(pending, w, Head(pending))
    BY <1>1, <1>3, <1>4
  <2>2. w \in ToSet(Tail(pending))
    BY <1>1, <1>3, <1>4
  <2>3. Before(pending, Head(pending), w)
    BY <1>3, <2>2
  <2> QED
    BY <1>1, <2>1, <2>3, BeforeOrders
<1> QED
  BY <1>2, <1>4

(* restoreState, on the connection that has just been authenticated.       *)
LEMMA Restores ==
  ASSUME Ordered, ReceiveAuthAnswer
  PROVE  WireOrder'
<1>1. /\ toClient # <<>> /\ toClient' = Tail(toClient) /\ Head(toClient) = [type |-> "auth"]
      /\ connection' = "on" /\ pending' = pending
      /\ toServer' = toServer \o (Listens \o pending)
  BY DEF ReceiveAuthAnswer, Receive, Restored
<1>2. /\ pending \in Seq(Request) /\ pending \in Seq(Write) /\ Listens \in Seq(Request)
      /\ toServer \in Seq(Request) /\ toClient \in Seq(Message)
      /\ ToSet(Listens) \subseteq {"observe"} /\ \A a, b : ~Before(Listens, a, b)
  <2>1. Listens \in {<<>>, <<"observe">>}
    BY DEF Listens
  <2>2. ToSet(Listens) \subseteq {"observe"} /\ \A a, b : ~Before(Listens, a, b)
    BY <2>1, BeforeNothing, BeforeSingle
  <2>3. Listens \in Seq(Request)
    <3>1. <<>> \in Seq(Request) /\ <<"observe">> \in Seq(Request)
      BY Symbols
    <3> QED
      BY <2>1, <3>1
  <2>4. pending \in Seq(Request)
    BY DEF Ordered, TypeOK, Request
  <2> QED
    BY <2>2, <2>3, <2>4 DEF Ordered, TypeOK
<1>3. /\ ToSet(OnWire) = {"auth"} \cup ToSet(Trip(Tail(toClient), toServer))
      /\ \A a, b : Before(OnWire, a, b) <=>
           \/ Before(Trip(Tail(toClient), toServer), a, b)
           \/ (a = "auth" /\ b \in ToSet(Trip(Tail(toClient), toServer)))
  <2>1. Carries([type |-> "auth"]) = "auth"
    BY DEF Carries
  <2> QED
    BY <1>1, <1>2, <2>1, TripReads, WireIs
<1>4. /\ connection = "authenticating"
      /\ "auth" \notin ToSet(Trip(Tail(toClient), toServer))
      /\ \A w \in Write : w \notin ToSet(Trip(Tail(toClient), toServer))
      /\ \A a, b : Before(Trip(Tail(toClient), toServer), a, b) => a # "auth" /\ b # "auth"
  <2>1. connection = "authenticating"
    BY <1>3 DEF Ordered, WireOrder, TypeOK
  <2>2. "auth" \notin ToSet(Trip(Tail(toClient), toServer))
    BY <1>3 DEF Ordered, WireOrder
  <2>3. Trip(Tail(toClient), toServer) \in Seq(Symbol)
    BY <1>1, <1>2, BackTail, TripIs
  <2> QED
    BY <1>3, <2>1, <2>2, <2>3, BeforeOrders DEF Ordered, WireOrder
<1> DEFINE rest == Trip(Tail(toClient), toServer)
           more == Listens \o pending
<1>5. /\ more \in Seq(Request) /\ ToSet(more) = ToSet(Listens) \cup ToSet(pending)
      /\ \A a, b : Before(more, a, b) <=>
           Before(Listens, a, b) \/ Before(pending, a, b) \/ (a \in ToSet(Listens) /\ b \in ToSet(pending))
  BY <1>2, BeforeConcat
<1>6. /\ ToSet(OnWire') = ToSet(rest) \cup ToSet(more)
      /\ \A a, b : Before(OnWire', a, b) <=>
           Before(rest, a, b) \/ Before(more, a, b) \/ (a \in ToSet(rest) /\ b \in ToSet(more))
  <2>1. /\ Tail(toClient) \in Seq(Message)
        /\ BackOf(Tail(toClient)) \in Seq(Symbol) /\ toServer \in Seq(Symbol) /\ more \in Seq(Symbol)
    <3>1. \A r \in Seq(Request) : r \in Seq(Symbol)
      BY DEF Symbol
    <3>2. Tail(toClient) \in Seq(Message)
      BY <1>1, <1>2, BackTail
    <3> QED
      BY <1>2, <1>5, <3>1, <3>2, BackType
  <2>2. OnWire' = (BackOf(Tail(toClient)) \o toServer) \o more
    <3>1. OnWire' = BackOf(Tail(toClient)) \o (toServer \o more)
      BY <1>1, WireIs DEF Trip
    <3> HIDE DEF more
    <3> QED
      BY <2>1, <3>1, ConcatAssociative
  <2>3. rest \in Seq(Symbol) /\ OnWire' = rest \o more
    BY <2>1, <2>2, BeforeConcat DEF Trip
  <2> HIDE DEF rest, more
  <2> QED
    BY <2>1, <2>3, BeforeConcat
<1>7. \A a \in ToSet(pending) : a \in Write
  BY <1>2 DEF ToSet
<1> HIDE DEF rest, more
<1>8. InStep'
  <2>1. ToSet(pending) = ToSet(OnWire') \cap Write
    BY <1>2, <1>4, <1>5, <1>6, <1>7, Symbols DEF rest
  <2>2. ASSUME NEW v \in Write, NEW w \in Write, Before(OnWire', v, w)
        PROVE  Before(pending, v, w)
    <3>1. v # "observe" /\ v \notin ToSet(rest) /\ v \notin ToSet(Listens)
      BY <1>2, <1>4, Symbols DEF rest
    <3>2. ~Before(rest, v, w)
      <4>1. rest \in Seq(Symbol)
        BY <1>1, <1>2, BackTail, TripIs DEF rest
      <4> QED
        BY <3>1, <4>1, BeforeOrders
    <3> QED
      BY <1>2, <1>5, <1>6, <2>2, <3>1, <3>2
  <2> QED
    BY <1>1, <2>1, <2>2 DEF InStep
<1>9. "auth" \notin ToSet(OnWire')
  BY <1>2, <1>4, <1>5, <1>6, <1>7, Symbols DEF rest
<1>10. OnWire' \in Seq(Symbol)
  <2>1. Tail(toClient) \in Seq(Message) /\ toServer' \in Seq(Request)
    BY <1>1, <1>2, <1>5, BackTail, ConcatProperties DEF more
  <2> QED
    BY <1>1, <2>1, TripIs, WireIs
<1>11. ASSUME NEW w \in Write PROVE ~Before(OnWire', w, "observe")
  <2>1. w \notin ToSet(rest) /\ w \notin ToSet(Listens) /\ "observe" \notin ToSet(pending)
    BY <1>2, <1>4, <1>7, Symbols DEF rest
  <2>2. rest \in Seq(Symbol) /\ pending \in Seq(Symbol)
    BY <1>1, <1>2, BackTail, TripIs, WireTypes DEF rest, Ordered
  <2>3. ~Before(rest, w, "observe") /\ ~Before(pending, w, "observe")
    BY <2>1, <2>2, BeforeOrders
  <2> QED
    BY <1>2, <1>5, <1>6, <2>1, <2>3
<1> QED
  BY <1>1, <1>8, <1>9, <1>10, <1>11, BeforeOrders DEF WireOrder

(* A message that is read.                                                 *)
LEMMA WireReads ==
  ASSUME TypeOK, toClient # <<>>, toClient' = Tail(toClient), UNCHANGED toServer
  PROVE  /\ Head(toClient) \in Message
         /\ ToSet(OnWire) = {Carries(Head(toClient))} \cup ToSet(OnWire')
         /\ \A a, b : Before(OnWire, a, b) <=>
              \/ Before(OnWire', a, b)
              \/ (a = Carries(Head(toClient)) /\ b \in ToSet(OnWire'))
BY WireIs, WireTypes, TripReads, BackTail

(* A message that is neither a put nor the answer to "auth".               *)
LEMMA ReadOther ==
  ASSUME Ordered, toClient # <<>>, toClient' = Tail(toClient),
         UNCHANGED <<toServer, connection, pending>>,
         Carries(Head(toClient)) \in {"data", "observe"}
  PROVE  WireOrder'
<1>1. /\ ToSet(OnWire) = {Carries(Head(toClient))} \cup ToSet(OnWire')
      /\ \A a, b : Before(OnWire, a, b) <=>
           \/ Before(OnWire', a, b)
           \/ (a = Carries(Head(toClient)) /\ b \in ToSet(OnWire'))
  BY WireReads DEF Ordered
<1>2. Carries(Head(toClient)) \notin Write /\ Carries(Head(toClient)) # "auth"
  BY Symbols
<1>3. connection # "off"
  BY DEF Ordered, WireOrder
<1>4. InStep'
  BY <1>1, <1>2 DEF Ordered, WireOrder, InStep
<1> QED
  BY <1>1, <1>3, <1>4 DEF Ordered, WireOrder

LEMMA ReadPut ==
  ASSUME Ordered, ReceivePutAnswer
  PROVE  /\ connection = "on" /\ pending # <<>> /\ pending' = Tail(pending)
         /\ \E s \in Statuses :
              /\ Head(toClient) = [type |-> "put", write |-> Head(pending), status |-> s]
              /\ outcome' = [outcome EXCEPT ![Head(pending)] = s]
         /\ WireOrder'
<1>1. PICK i \in DOMAIN pending, s \in Statuses :
        /\ toClient # <<>> /\ toClient' = Tail(toClient)
        /\ Head(toClient) = [type |-> "put", write |-> pending[i], status |-> s]
        /\ pending' = RemoveAt(pending, i)
        /\ outcome' = [outcome EXCEPT ![pending[i]] = s]
        /\ UNCHANGED <<toServer, connection>>
  BY DEF ReceivePutAnswer, Receive, Answered
<1>2. pending \in Seq(Write) /\ IsInjective(pending) /\ pending[i] \in Write /\ TypeOK
  BY DEF Ordered, TypeOK, WritesWaitOnce
<1>3. /\ Carries(Head(toClient)) = pending[i]
      /\ ToSet(OnWire) = {pending[i]} \cup ToSet(OnWire')
      /\ \A a, b : Before(OnWire, a, b) <=>
           Before(OnWire', a, b) \/ (a = pending[i] /\ b \in ToSet(OnWire'))
  <2>1. Carries(Head(toClient)) = pending[i]
    BY <1>1 DEF Carries
  <2> QED
    BY <1>1, <1>2, <2>1, WireReads
<1>4. connection = "on"
  BY <1>2, <1>3 DEF Ordered, WireOrder
<1>5. pending # <<>> /\ Head(pending) = pending[i]
  BY <1>2, <1>3, <1>4, OldestFirst
<1>6. i = 1
  <2>1. 1 \in DOMAIN pending /\ pending[1] = Head(pending)
    BY <1>2, <1>5
  <2> QED
    BY <1>2, <1>5, <2>1 DEF IsInjective
<1>7. pending' = Tail(pending)
  BY <1>1, <1>2, <1>5, <1>6, RemovesHead
<1>8. /\ ToSet(pending) = {pending[i]} \cup ToSet(Tail(pending))
      /\ pending[i] \notin ToSet(Tail(pending))
      /\ \A a, b : Before(pending, a, b) <=>
           Before(Tail(pending), a, b) \/ (a = pending[i] /\ b \in ToSet(Tail(pending)))
  BY <1>2, <1>5, BeforeTail, TailElements
<1>9. pending[i] \notin ToSet(OnWire')
  <2>1. ASSUME pending[i] \in ToSet(OnWire') PROVE FALSE
    <3>1. Before(pending, pending[i], pending[i])
      BY <1>2, <1>3, <1>4, <2>1 DEF Ordered, WireOrder, InStep
    <3> QED
      BY <1>2, <3>1, BeforeOrders
  <2> QED
    BY <2>1
<1>10. InStep'
  <2>1. ToSet(pending') = ToSet(OnWire') \cap Write
    BY <1>2, <1>3, <1>4, <1>7, <1>8, <1>9 DEF Ordered, WireOrder, InStep
  <2>2. ASSUME NEW v \in Write, NEW w \in Write, Before(OnWire', v, w) PROVE Before(pending', v, w)
    <3>1. Before(pending, v, w)
      BY <1>3, <1>4, <2>2 DEF Ordered, WireOrder, InStep
    <3>2. v # pending[i]
      <4>1. OnWire' \in Seq(Symbol)
        BY <1>1, WireTypes, BackTail, TripIs, WireIs, <1>2
      <4> QED
        BY <1>9, <2>2, <4>1, BeforeOrders
    <3> QED
      BY <1>7, <1>8, <3>1, <3>2
  <2> QED
    BY <2>1, <2>2 DEF InStep
<1>11. WireOrder'
  BY <1>1, <1>3, <1>4, <1>10 DEF Ordered, WireOrder
<1> QED
  BY <1>1, <1>4, <1>5, <1>7, <1>11

(* The server takes a request and answers it, with a push before it or     *)
(* none.                                                                   *)
LEMMA Serves ==
  ASSUME Ordered, toServer # <<>>, toServer' = Tail(toServer),
         NEW m \in Message, Carries(m) = Head(toServer),
         \/ toClient' = Append(toClient, m)
         \/ \E d \in Message : d.type = "data" /\ toClient' = Append(Append(toClient, d), m),
         UNCHANGED <<connection, pending>>
  PROVE  WireOrder'
<1>1. toServer \in Seq(Request) /\ toClient \in Seq(Message)
  BY DEF Ordered, TypeOK
<1>2. SameTrip(OnWire', OnWire)
  <2>1. CASE toClient' = Append(toClient, m)
    BY <1>1, <2>1, TripAnswers, WireIs
  <2>2. ASSUME NEW d \in Message, d.type = "data", toClient' = Append(Append(toClient, d), m)
        PROVE  SameTrip(OnWire', OnWire)
    <3>1. /\ Append(toClient, d) \in Seq(Message)
          /\ SameTrip(Trip(Append(toClient, d), toServer), OnWire)
      BY <1>1, <2>2, TripPushes, WireIs
    <3>2. SameTrip(OnWire', Trip(Append(toClient, d), toServer))
      BY <1>1, <2>2, <3>1, TripAnswers, WireIs
    <3> QED
      BY <3>1, <3>2 DEF SameTrip
  <2> QED
    BY <2>1, <2>2
<1>3. connection # "off"
  BY DEF Ordered, WireOrder
<1> QED
  BY <1>2, <1>3, SameWire DEF Ordered

LEMMA WireStep ==
  ASSUME Ordered, [Next]_dbVars
  PROVE  WireOrder'
<1>a. /\ calls \in Seq(Request) /\ pending \in Seq(Write) /\ pending \in Seq(Symbol)
      /\ toServer \in Seq(Request) /\ toClient \in Seq(Message)
      /\ OnWire \in Seq(Symbol) /\ WireOrder /\ TypeOK
  BY WireTypes DEF Ordered
<1>b. "ok" \in {"ok", "denied"} /\ "denied" \in {"ok", "denied"} /\ Statuses \subseteq {"ok", "denied"}
  BY StatusesAssumption
<1>c. ASSUME NEW x \in Request, toServer' = Append(toServer, x), UNCHANGED toClient
      PROVE  /\ ToSet(OnWire') = ToSet(OnWire) \cup {x}
             /\ \A a, b : Before(OnWire', a, b) <=>
                  Before(OnWire, a, b) \/ (a \in ToSet(OnWire) /\ b = x)
  BY <1>a, <1>c, TripSends, WireIs
<1>d. ASSUME UNCHANGED <<connection, pending, toServer, toClient, watching>> PROVE WireOrder'
  BY <1>a, <1>d, WireIs, SameWire DEF SameTrip
<1>1. CASE RunObserve
  <2>1. pending = <<>>
    <3>1. 1 \in DOMAIN calls /\ calls[1] = "observe"
      BY <1>1, <1>a DEF RunObserve
    <3> QED
      BY <3>1 DEF Ordered, ObservesFirst
  <2>2. CASE connection = "off"
    BY <1>1, <2>2, <1>d DEF RunObserve
  <2>3. CASE connection # "off"
    <3>1. \A w \in Write : w \notin ToSet(OnWire)
      BY <1>a, <2>1, BeforeNothing DEF WireOrder, InStep
    <3>2. /\ ToSet(OnWire') = ToSet(OnWire) \cup {"observe"}
          /\ \A a, b : Before(OnWire', a, b) <=>
               Before(OnWire, a, b) \/ (a \in ToSet(OnWire) /\ b = "observe")
      BY <1>1, <2>3, <1>c, Symbols DEF RunObserve
    <3> QED
      BY <1>1, <1>a, <2>1, <2>3, <3>1, <3>2, Symbols DEF RunObserve, WireOrder, InStep
  <2> QED
    BY <2>2, <2>3
<1>2. CASE RunWrite
  <2> DEFINE h == Head(calls)
  <2>1. /\ h \in Write /\ pending' = Append(pending, h) /\ UNCHANGED <<connection, toClient, watching>>
        /\ toServer' = IF connection = "on" THEN Append(toServer, h) ELSE toServer
    BY <1>2 DEF RunWrite
  <2> HIDE DEF h
  <2>2. CASE connection # "on"
    <3>1. UNCHANGED OnWire
      BY <2>1, <2>2, WireIs
    <3> QED
      BY <1>a, <2>1, <2>2, <3>1 DEF WireOrder, InStep
  <2>3. CASE connection = "on"
    <3>1. /\ ToSet(OnWire') = ToSet(OnWire) \cup {h}
          /\ \A a, b : Before(OnWire', a, b) <=>
               Before(OnWire, a, b) \/ (a \in ToSet(OnWire) /\ b = h)
      BY <2>1, <2>3, <1>c, Symbols
    <3>2. /\ ToSet(pending') = ToSet(pending) \cup {h}
          /\ \A a, b : Before(pending', a, b) <=>
               Before(pending, a, b) \/ (a \in ToSet(pending) /\ b = h)
      BY <1>a, <2>1, BeforeAppend
    <3>3. InStep'
      BY <1>a, <2>1, <2>3, <3>1, <3>2 DEF WireOrder, InStep
    <3> QED
      BY <1>a, <2>1, <2>3, <3>1, <3>3, Symbols DEF WireOrder
  <2> QED
    BY <2>2, <2>3
<1>3. CASE Connect
  <2>1. connection = "off" /\ toClient = <<>> /\ toClient' = <<>> /\ toServer' = <<"auth">>
        /\ connection' = "authenticating"
    BY <1>3, <1>a DEF Connect, WireOrder
  <2>2. OnWire' = <<"auth">>
    <3>1. BackOf(<<>>) = <<>>
      BY DEF BackOf
    <3>2. <<>> \o <<"auth">> = <<"auth">>
      <4>1. <<"auth">> \in Seq({"auth"})
        OBVIOUS
      <4> QED
        BY <4>1, ConcatEmptySeq
    <3> QED
      BY <2>1, <3>1, <3>2, WireIs DEF Trip
  <2> QED
    BY <2>1, <2>2, BeforeSingle, Symbols DEF WireOrder, InStep
<1>4. CASE Disconnect \/ Relaunch
  <2>1. connection' = "off" /\ toClient' = <<>> /\ toServer' = <<>> /\ ~watching'
    BY <1>4 DEF Disconnect, Relaunch
  <2>2. OnWire' = <<>>
    <3>1. BackOf(<<>>) = <<>>
      BY DEF BackOf
    <3> QED
      BY <2>1, <3>1, WireIs DEF Trip
  <2> QED
    BY <2>1, <2>2, BeforeNothing DEF WireOrder, InStep
<1>5. CASE ReceiveAuthAnswer
  BY <1>5, Restores
<1>6. CASE ReceiveData
  <2>1. Carries(Head(toClient)) = "data"
    BY <1>6 DEF ReceiveData, Receive, Carries
  <2> QED
    BY <1>6, <2>1, ReadOther DEF ReceiveData, Receive
<1>7. CASE ReceiveListenAnswer
  <2>1. Carries(Head(toClient)) = "observe"
    BY <1>7 DEF ReceiveListenAnswer, Receive, Carries
  <2> QED
    BY <1>7, <2>1, ReadOther DEF ReceiveListenAnswer, Receive
<1>8. CASE ReceivePutAnswer
  BY <1>8, ReadPut
<1>9. CASE ServerAuthenticates
  <2>1. [type |-> "auth"] \in Message /\ Carries([type |-> "auth"]) = "auth"
    BY DEF Message, Carries
  <2> QED
    BY <1>9, <2>1, Serves DEF ServerAuthenticates, client
<1>10. CASE ServerListens
  <2>1. PICK s \in Statuses :
          toClient' = toClient
            \o (IF s = "ok" THEN <<[type |-> "data", points |-> server]>> ELSE <<>>)
            \o <<[type |-> "listen", status |-> s]>>
    BY <1>10 DEF ServerListens
  <2> DEFINE d == [type |-> "data", points |-> server]
             m == [type |-> "listen", status |-> s]
  <2>2. /\ d \in Message /\ d.type = "data" /\ m \in Message /\ Carries(m) = "observe"
    <3>1. server \in SUBSET Points
      BY <1>a DEF TypeOK
    <3> QED
      BY <1>b, <3>1, MessageType DEF Carries
  <2>3. toClient' = Append(toClient, m) \/ toClient' = Append(Append(toClient, d), m)
    <3> HIDE DEF d, m
    <3>1. toClient \o <<>> = toClient
      BY <1>a
    <3>2. Append(toClient, d) \in Seq(Message)
      BY <1>a, <2>2, OneMore
    <3> QED
      BY <1>a, <2>1, <2>2, <3>1, <3>2, OneMore DEF d, m
  <2> HIDE DEF d, m
  <2> QED
    BY <1>10, <2>2, <2>3, Serves DEF ServerListens, client
<1>11. CASE ServerAccepts
  <2> DEFINE m == [type |-> "put", write |-> Head(toServer), status |-> "ok"]
             d == [type |-> "data", points |-> server']
  <2>1. /\ toServer # <<>> /\ Head(toServer) \in Write
        /\ toClient' = toClient \o Push(server') \o <<m>>
        /\ server' = Stored(Head(toServer), server)
    BY <1>11 DEF ServerAccepts
  <2>2. m \in Message /\ Carries(m) = Head(toServer)
    BY <2>1, StatusesAssumption, MessageType DEF Carries
  <2>3. d \in Message /\ d.type = "data"
    <3>1. server' \in SUBSET Points
      BY <1>a, <2>1, StoredType DEF TypeOK
    <3> QED
      BY <3>1, MessageType
  <2>4. Push(server') \in {<<>>, <<d>>}
    BY DEF Push
  <2> HIDE DEF d, m
  <2>5. toClient' = Append(toClient, m) \/ toClient' = Append(Append(toClient, d), m)
    <3>1. toClient \o <<>> = toClient
      BY <1>a
    <3>2. Append(toClient, d) \in Seq(Message)
      BY <1>a, <2>3, OneMore
    <3> QED
      BY <1>a, <2>1, <2>2, <2>3, <2>4, <3>1, <3>2, OneMore
  <2> QED
    BY <1>11, <2>2, <2>3, <2>5, Serves DEF ServerAccepts, client
<1>12. CASE ServerRefuses
  <2> DEFINE m == [type |-> "put", write |-> Head(toServer), status |-> "denied"]
  <2>1. Head(toServer) \in Write /\ "denied" \in Statuses
    BY <1>12 DEF ServerRefuses
  <2>2. m \in Message
    BY <2>1, MessageType
  <2>3. Carries(m) = Head(toServer)
    BY DEF Carries
  <2> QED
    BY <1>12, <2>2, <2>3, Serves DEF ServerRefuses, client
<1>13. CASE OtherDeviceWrites
  <2>1. PICK w \in Elsewhere :
          /\ Issue(w) /\ server' = Stored(w, server)
          /\ toClient' = toClient \o Push(server')
          /\ UNCHANGED <<client, connection, toServer, watching>>
    BY <1>13 DEF OtherDeviceWrites
  <2>2. CASE Push(server') = <<>>
    <3>1. toClient' = toClient
      BY <1>a, <2>1, <2>2
    <3> QED
      BY <1>d, <2>1, <3>1 DEF client
  <2>3. CASE Push(server') # <<>>
    <3> DEFINE d == [type |-> "data", points |-> server']
    <3>1. d \in Message /\ d.type = "data"
      <4>1. server' \in SUBSET Points
        BY <1>a, <2>1, IssueType, StoredType DEF TypeOK
      <4> QED
        BY <4>1, MessageType
    <3>2. watching /\ toClient' = toClient \o <<d>>
      BY <2>1, <2>3 DEF Push
    <3> HIDE DEF d
    <3>3. toClient' = Append(toClient, d)
      BY <1>a, <3>1, <3>2, OneMore
    <3>4. SameTrip(OnWire', OnWire)
      BY <1>a, <2>1, <3>1, <3>3, TripPushes, WireIs
    <3> QED
      BY <1>a, <2>1, <3>2, <3>4, SameWire DEF client, WireOrder
  <2> QED
    BY <2>2, <2>3
<1>14. CASE AppWrites \/ AppRunsBlock \/ UNCHANGED dbVars
  BY <1>14, <1>d DEF AppWrites, AppRunsBlock, dbVars, client, wire
<1> QED
  BY <1>1, <1>2, <1>3, <1>4, <1>5, <1>6, <1>7, <1>8, <1>9, <1>10, <1>11, <1>12, <1>13, <1>14
  DEF Next, Service, ClientRuns, ClientReceives, ServerServes

LEMMA OrderedInit == Init => Ordered
<1> SUFFICES ASSUME Init PROVE Ordered
  OBVIOUS
<1>1. OnWire = <<>> /\ pending = <<>> /\ connection = "off" /\ toServer = <<>> /\ toClient = <<>> /\ ~watching
  <2>1. BackOf(<<>>) = <<>>
    BY DEF BackOf
  <2> QED
    BY <2>1, WireIs DEF Init, Trip
<1>2. WireOrder
  BY <1>1, BeforeNothing DEF WireOrder, InStep
<1> QED
  BY <1>1, <1>2, InitTracked, WaitInit DEF Ordered, Tracked, ObservesFirst

LEMMA OrderedStep == Ordered /\ [Next]_dbVars => Ordered'
BY TypeStep, WaitStep, ObservedStep, ObservesFirstStep, WireStep DEF Ordered

LEMMA AlwaysOrdered == Spec => []Ordered
BY OrderedInit, OrderedStep, PTL DEF Spec

(* Once connected, each pending write is under way or its answer is, once  *)
(* and in the order of the writes, however often the connection was lost   *)
(* (sendPut:, restoreState).                                               *)
THEOREM NothingIsForgotten == Spec => []NothingForgotten
<1>1. Ordered => NothingForgotten
  BY DEF Ordered, TypeOK, WireOrder, InStep, NothingForgotten, ToSet
<1> QED
  BY <1>1, AlwaysOrdered, PTL

(* A put is never answered before a listen, so that the client never has   *)
(* to defer an acknowledgement (putsToAck).                                *)
THEOREM NothingIsDeferred == Spec => []NoDeferredAnswer
<1>1. ASSUME Ordered PROVE NoDeferredAnswer
  <2>1. toClient \in Seq(Message) /\ toServer \in Seq(Request)
    BY <1>1 DEF Ordered, TypeOK
  <2>2. ASSUME NEW i \in DOMAIN toClient, toClient[i].type = "put"
        PROVE  /\ "observe" \notin ToSet(toServer)
               /\ \A j \in DOMAIN toClient : j > i => toClient[j].type # "listen"
    <3>1. toClient[i] \in Message
      BY <2>1
    <3>2. toClient[i].write \in Write /\ Carries(toClient[i]) = toClient[i].write
      BY <2>2, <3>1, Carried
    <3>3. /\ DOMAIN BackOf(toClient) = DOMAIN toClient
          /\ \A j \in DOMAIN toClient : BackOf(toClient)[j] = Carries(toClient[j])
      BY DEF BackOf
    <3>4. ~Before(OnWire, toClient[i].write, "observe")
      BY <1>1, <3>2 DEF Ordered, WireOrder
    <3>5. /\ ~Before(BackOf(toClient), toClient[i].write, "observe")
          /\ ~(toClient[i].write \in ToSet(BackOf(toClient)) /\ "observe" \in ToSet(toServer))
      BY <2>1, <3>4, TripIs, WireIs
    <3>6. toClient[i].write \in ToSet(BackOf(toClient))
      BY <3>2, <3>3 DEF ToSet
    <3>7. ASSUME NEW j \in DOMAIN toClient, j > i, toClient[j].type = "listen" PROVE FALSE
      <4>1. Carries(toClient[j]) = "observe"
        BY <3>7 DEF Carries
      <4>2. i < j
        BY <2>1, <3>7
      <4> QED
        BY <3>2, <3>3, <3>5, <4>1, <4>2 DEF Before
    <3> QED
      BY <3>5, <3>6, <3>7
  <2> QED
    BY <2>2 DEF NoDeferredAnswer
<1> QED
  BY <1>1, AlwaysOrdered, PTL

-----------------------------------------------------------------------------
(***************************************************************************)
(* The writes of this device, in the order in which they were issued.      *)
(***************************************************************************)

(* Those that are pending, and those the client has not seen.              *)
Line == pending \o calls

Own ==
  /\ \A w \in Write \cap ToSet(Line) : w \notin Elsewhere
  /\ \A w \in Elsewhere : outcome[w] = "none"

(* A clear covers the points in front of it, none of those behind it, and  *)
(* what was issued after a clear that still waits is waiting behind it.    *)
Behind(c, p) ==
  /\ Before(Line, c, p) => p \notin covers[c]
  /\ Before(Line, p, c) => p \in covers[c]
  /\ c \in ToSet(Line) /\ p \in taken \ (Elsewhere \cup covers[c]) => p \in ToSet(Line)

LineOrder ==
  /\ \A c \in Clears : covers[c] \subseteq taken
  /\ \A c \in Clears, p \in Points : Behind(c, p)

LEMMA LineIs ==
  ASSUME TypeOK
  PROVE  /\ Line \in Seq(Request) /\ ToSet(Line) = ToSet(pending) \cup ToSet(calls)
         /\ \A a, b : Before(Line, a, b) <=>
              Before(pending, a, b) \/ Before(calls, a, b) \/ (a \in ToSet(pending) /\ b \in ToSet(calls))
<1>1. pending \in Seq(Request) /\ calls \in Seq(Request)
  BY DEF TypeOK, Request
<1> QED
  BY <1>1, BeforeConcat DEF Line

LEMMA SameLine ==
  ASSUME Own, LineOrder, UNCHANGED <<taken, covers, outcome>>,
         \A w \in Write : w \in ToSet(Line') <=> w \in ToSet(Line),
         \A v, w \in Write : Before(Line', v, w) <=> Before(Line, v, w)
  PROVE  Own' /\ LineOrder'
<1>1. Own'
  BY DEF Own
<1>2. Points \subseteq Write /\ Clears \subseteq Write
  BY DEF Write
<1>3. LineOrder'
  BY <1>2 DEF LineOrder, Behind
<1> QED
  BY <1>1, <1>3

LEMMA Issued ==
  ASSUME TypeOK, NEW w, Issue(w)
  PROVE  /\ w \in Write \ taken /\ taken' = taken \cup {w} /\ outcome' = outcome
         /\ \A c \in Clears : covers'[c] = IF c = w THEN taken \cap Points ELSE covers[c]
BY DEF TypeOK, Issue

LEMMA LineStep ==
  ASSUME Ordered, Own, LineOrder, [Next]_dbVars
  PROVE  Own' /\ LineOrder'
<1>a. /\ TypeOK /\ calls \in Seq(Request) /\ pending \in Seq(Write) /\ pending \in Seq(Request)
      /\ Points \subseteq Write /\ Clears \subseteq Write /\ Write \subseteq Request
  BY DEF Ordered, TypeOK, Write, Request
<1>b. /\ ToSet(Line) = ToSet(pending) \cup ToSet(calls) /\ Line \in Seq(Request)
      /\ \A x, b : Before(Line, x, b) <=> \/ Before(pending, x, b) \/ Before(calls, x, b)
                                         \/ (x \in ToSet(pending) /\ b \in ToSet(calls))
  BY <1>a, LineIs
<1>c. TypeOK'
  BY <1>a, TypeStep
<1>d. /\ ToSet(Line') = ToSet(pending') \cup ToSet(calls')
      /\ \A x, b : Before(Line', x, b) <=> \/ Before(pending', x, b) \/ Before(calls', x, b)
                                         \/ (x \in ToSet(pending') /\ b \in ToSet(calls'))
  <2>1. pending' \in Seq(Request) /\ calls' \in Seq(Request)
    BY <1>c DEF TypeOK, Request
  <2> QED
    BY <2>1, BeforeConcat DEF Line
<1>1. CASE RunObserve \/ RunWrite
  <2>1. /\ calls # <<>> /\ calls' = Tail(calls) /\ UNCHANGED <<taken, covers, outcome>>
        /\ \/ Head(calls) = "observe" /\ pending' = pending
           \/ Head(calls) \in Write /\ pending' = Append(pending, Head(calls))
    BY <1>1 DEF RunObserve, RunWrite, history
  <2>2. /\ ToSet(calls) = {Head(calls)} \cup ToSet(calls')
        /\ \A x, b : Before(calls, x, b) <=> Before(calls', x, b) \/ (x = Head(calls) /\ b \in ToSet(calls'))
    BY <1>a, <2>1, BeforeTail
  <2>3. CASE Head(calls) = "observe" /\ pending' = pending
    BY <1>b, <1>d, <2>1, <2>2, <2>3, Symbols, SameLine
  <2>4. CASE Head(calls) \in Write /\ pending' = Append(pending, Head(calls))
    <3>1. /\ ToSet(pending') = ToSet(pending) \cup {Head(calls)}
          /\ \A x, b : Before(pending', x, b) <=>
               Before(pending, x, b) \/ (x \in ToSet(pending) /\ b = Head(calls))
      BY <1>a, <2>4, BeforeAppend
    <3>2. \A x : x \in ToSet(Line') <=> x \in ToSet(Line)
      BY <1>b, <1>d, <2>2, <3>1
    <3>3. \A x, b : Before(Line', x, b) <=> Before(Line, x, b)
      BY <1>b, <1>d, <2>2, <3>1
    <3> QED
      BY <2>1, <3>2, <3>3, SameLine
  <2> QED
    BY <2>1, <2>3, <2>4
<1>2. CASE AppWrites
  <2>1. PICK w \in Write \ Elsewhere :
          Issue(w) /\ calls' = Append(calls, w) /\ UNCHANGED pending
    BY <1>2 DEF AppWrites, CallWrite
  <2>2. /\ w \notin taken /\ taken' = taken \cup {w} /\ outcome' = outcome
        /\ \A c \in Clears : covers'[c] = IF c = w THEN taken \cap Points ELSE covers[c]
    BY <1>a, <2>1, Issued
  <2>3. /\ ToSet(calls') = ToSet(calls) \cup {w}
        /\ \A x, b : Before(calls', x, b) <=> Before(calls, x, b) \/ (x \in ToSet(calls) /\ b = w)
    BY <1>a, <2>1, BeforeAppend
  <2>4. /\ ToSet(Line') = ToSet(Line) \cup {w}
        /\ \A x, b : Before(Line', x, b) <=> Before(Line, x, b) \/ (x \in ToSet(Line) /\ b = w)
    <3>1. ToSet(Line') = ToSet(Line) \cup {w}
      BY <1>b, <1>d, <2>1, <2>3
    <3>2. \A x, b : Before(Line', x, b) <=> Before(Line, x, b) \/ (x \in ToSet(Line) /\ b = w)
      BY <1>b, <1>d, <2>1, <2>3
    <3> QED
      BY <3>1, <3>2
  <2>5. \A x \in Write \cap ToSet(Line) : x \in taken
    BY <1>b DEF Ordered, WritesWaitOnce
  <2>6. Own'
    BY <2>1, <2>2, <2>4 DEF Own
  <2>7. \A c \in Clears : covers'[c] \subseteq taken'
    BY <2>2 DEF LineOrder
  <2>8. ASSUME NEW c \in Clears, NEW p \in Points PROVE Behind(c, p)'
    <3>0. Behind(c, p) /\ covers[c] \subseteq taken /\ c # p
      BY WritesAssumption DEF LineOrder
    <3>1. CASE c = w
      <4>1. covers'[c] = taken \cap Points /\ c \notin ToSet(Line)
        BY <1>a, <2>2, <2>5, <3>1
      <4>2. /\ ~Before(Line, c, p)
        BY <1>b, <4>1, BeforeOrders
      <4>3. ~Before(Line', c, p)
        BY <2>4, <3>0, <3>1, <4>2
      <4>4. Before(Line', p, c) => p \in covers'[c]
        <5>1. Before(Line', p, c) => p \in ToSet(Line)
          BY <1>b, <2>4, BeforeOrders
        <5> QED
          BY <1>a, <2>5, <4>1, <5>1
      <4>5. p \in taken' \ covers'[c] => p = c
        BY <2>2, <3>1, <4>1
      <4> QED
        BY <3>0, <4>3, <4>4, <4>5 DEF Behind
    <3>2. CASE c # w
      <4>1. covers'[c] = covers[c]
        BY <2>2, <3>2
      <4>2. Before(Line', p, c) => Before(Line, p, c)
        BY <2>4, <3>2
      <4>3. Before(Line', c, p) => p \notin covers[c]
        BY <2>2, <2>4, <3>0 DEF Behind
      <4>4. c \in ToSet(Line') => c \in ToSet(Line)
        BY <2>4, <3>2
      <4> QED
        BY <2>2, <2>4, <3>0, <4>1, <4>2, <4>3, <4>4 DEF Behind
    <3> QED
      BY <3>1, <3>2
  <2> QED
    BY <2>6, <2>7, <2>8 DEF LineOrder
<1>3. CASE ReceivePutAnswer
  <2>1. /\ pending # <<>> /\ pending' = Tail(pending) /\ UNCHANGED <<calls, taken, covers>>
        /\ \E s \in Statuses : outcome' = [outcome EXCEPT ![Head(pending)] = s]
    BY <1>3, ReadPut DEF ReceivePutAnswer, Receive
  <2> DEFINE w == Head(pending)
  <2>2. /\ w \in Write /\ ToSet(pending) = {w} \cup ToSet(pending')
        /\ \A x, b : Before(pending, x, b) <=> Before(pending', x, b) \/ (x = w /\ b \in ToSet(pending'))
    BY <1>a, <2>1, BeforeTail
  <2>3. w \notin Elsewhere
    BY <1>b, <2>2 DEF Own
  <2>4. \A x \in Elsewhere : outcome'[x] = "none"
    BY <2>1, <2>3, WritesAssumption DEF Own
  <2> HIDE DEF w
  <2>5. ToSet(Line) = {w} \cup ToSet(Line')
    BY <1>b, <1>d, <2>1, <2>2
  <2>6. \A x, b : Before(Line, x, b) <=> Before(Line', x, b) \/ (x = w /\ b \in ToSet(Line'))
    BY <1>b, <1>d, <2>1, <2>2
  <2>7. ASSUME NEW c \in Clears, NEW p \in Points PROVE Behind(c, p)'
    <3>0. Behind(c, p) /\ c # p
      BY WritesAssumption DEF LineOrder
    <3>1. ASSUME c \in ToSet(Line'), p \in taken \ (Elsewhere \cup covers[c]) PROVE p \in ToSet(Line')
      <4>1. p \in ToSet(Line)
        BY <2>5, <3>0, <3>1 DEF Behind
      <4>2. CASE p = w
        BY <2>6, <3>0, <3>1, <4>2 DEF Behind
      <4> QED
        BY <2>5, <4>1, <4>2
    <3> QED
      BY <2>1, <2>6, <3>0, <3>1 DEF Behind
  <2> QED
    BY <2>1, <2>4, <2>5, <2>7 DEF Own, LineOrder
<1>4. CASE OtherDeviceWrites
  <2>1. PICK w \in Elsewhere : Issue(w) /\ UNCHANGED <<pending, calls>>
    BY <1>4 DEF OtherDeviceWrites, client
  <2>2. /\ w \in Write \ taken /\ taken' = taken \cup {w} /\ outcome' = outcome
        /\ \A c \in Clears : covers'[c] = IF c = w THEN taken \cap Points ELSE covers[c]
    BY <1>a, <2>1, Issued
  <2>3. Line' = Line /\ w \notin ToSet(Line)
    BY <2>1, <2>2 DEF Line, Own
  <2>4. \A c \in Clears : covers'[c] \subseteq taken'
    BY <2>2 DEF LineOrder
  <2>5. ASSUME NEW c \in Clears, NEW p \in Points PROVE Behind(c, p)'
    <3>1. Behind(c, p)
      BY DEF LineOrder
    <3>2. CASE c = w
      <4>1. ~Before(Line', c, p) /\ ~Before(Line', p, c)
        BY <1>b, <2>3, <3>2, BeforeOrders
      <4> QED
        BY <2>3, <3>2, <4>1 DEF Behind
    <3>3. CASE c # w
      BY <2>1, <2>2, <2>3, <3>1, <3>3 DEF Behind
    <3> QED
      BY <3>2, <3>3
  <2> QED
    BY <2>2, <2>3, <2>4, <2>5 DEF Own, LineOrder
<1>5. CASE Relaunch
  <2>1. pending' = <<>> /\ calls' = <<"observe">> /\ UNCHANGED <<taken, covers, outcome>>
    BY <1>5 DEF Relaunch, history
  <2>2. ToSet(Line') = {"observe"} /\ \A x, b : ~Before(Line', x, b)
    BY <1>d, <2>1, BeforeNothing, BeforeSingle
  <2>3. \A w \in Write : w \notin ToSet(Line')
    BY <2>2, Symbols
  <2> QED
    BY <1>a, <2>1, <2>2, <2>3 DEF Own, LineOrder, Behind
<1>6. CASE UNCHANGED <<pending, calls, history>>
  <2>1. Line' = Line /\ UNCHANGED <<taken, covers, outcome>>
    BY <1>6 DEF Line, history
  <2> QED
    BY <2>1, SameLine
<1> QED
  BY <1>1, <1>2, <1>3, <1>4, <1>5, <1>6 DEF Next, Service, ClientRuns, Connect, Disconnect,
     ClientReceives, ReceiveAuthAnswer, ReceiveData, ReceiveListenAnswer, Receive,
     ServerServes, ServerAuthenticates, ServerListens, ServerAccepts, ServerRefuses,
     AppRunsBlock, dbVars, client

-----------------------------------------------------------------------------
(***************************************************************************)
(* What a confirmation means.                                              *)
(***************************************************************************)

IsPutOk(m, w) == m = [type |-> "put", write |-> w, status |-> "ok"]
IsRefusal(m) == m.type = "listen" /\ m.status = "denied"

(* The server has stored w, and the client knows or is being told.         *)
Accepted(w) == outcome[w] = "ok" \/ \E i \in DOMAIN toClient : IsPutOk(toClient[i], w)

(* No push behind the confirmation of c has a point of S.                  *)
Purged(q, c, status, S) ==
  \A i \in DOMAIN q :
    IsData(q[i]) /\ (status = "ok" \/ \E k \in DOMAIN q : k < i /\ IsPutOk(q[k], c))
      => q[i].points \cap S = {}

(* When the client comes to the i-th message its cache has no point of S.  *)
FreeAt(q, cache, i, S) ==
  \/ cache \cap S = {} /\ \A j \in DOMAIN q : j < i => ~IsData(q[j])
  \/ \E j \in DOMAIN q :
       /\ j < i /\ IsData(q[j]) /\ q[j].points \cap S = {}
       /\ \A k \in DOMAIN q : j < k /\ k < i => ~IsData(q[k])
  \/ \E j \in DOMAIN q : j < i /\ IsRefusal(q[j])

FreeWhenConfirmed(q, c, cache, S) ==
  \A i \in DOMAIN q : IsPutOk(q[i], c) => FreeAt(q, cache, i, S)

LEMMA TailIs ==
  ASSUME NEW T, NEW q \in Seq(T), q # <<>>
  PROVE  /\ 1 \in DOMAIN q /\ q[1] = Head(q) /\ DOMAIN q \subseteq Nat /\ DOMAIN Tail(q) \subseteq Nat
         /\ \A i \in DOMAIN Tail(q) : i + 1 \in DOMAIN q /\ Tail(q)[i] = q[i + 1] /\ i + 1 # 1 /\ 1 < i + 1
         /\ \A i \in DOMAIN q : i # 1 => \E k \in DOMAIN Tail(q) : i = k + 1 /\ Tail(q)[k] = q[i]
<1> DEFINE t == Tail(q)
<1>1. /\ DOMAIN q = 1..Len(q) /\ Len(q) \in Nat /\ Len(q) > 0 /\ Head(q) = q[1]
      /\ DOMAIN t = 1..Len(q) - 1 /\ \A i \in 1..Len(q) - 1 : t[i] = q[i + 1]
  OBVIOUS
<1> HIDE DEF t
<1>2. ASSUME NEW i \in DOMAIN q, i # 1 PROVE \E k \in DOMAIN t : i = k + 1 /\ t[k] = q[i]
  <2>1. i - 1 \in DOMAIN t /\ i = (i - 1) + 1
    BY <1>1, <1>2
  <2>2. t[i - 1] = q[(i - 1) + 1]
    BY <1>1, <2>1
  <2> QED
    BY <2>1, <2>2
<1> QED
  BY <1>1, <1>2 DEF t

LEMMA AppendIs ==
  ASSUME NEW T, NEW q \in Seq(T), NEW m \in T
  PROVE  /\ DOMAIN q \subseteq Nat /\ DOMAIN Append(q, m) \subseteq Nat
         /\ DOMAIN Append(q, m) = DOMAIN q \cup {Len(q) + 1} /\ Append(q, m)[Len(q) + 1] = m
         /\ \A i \in DOMAIN q : Append(q, m)[i] = q[i] /\ i < Len(q) + 1
OBVIOUS

LEMMA PurgedTail ==
  ASSUME NEW q \in Seq(Message), q # <<>>, NEW c, NEW s, NEW s2, NEW S, Purged(q, c, s, S),
         s2 = "ok" => s = "ok" \/ IsPutOk(Head(q), c)
  PROVE  Purged(Tail(q), c, s2, S)
<1> DEFINE t == Tail(q)
<1>1. /\ 1 \in DOMAIN q /\ q[1] = Head(q) /\ DOMAIN q \subseteq Nat /\ DOMAIN t \subseteq Nat
      /\ \A i \in DOMAIN t : i + 1 \in DOMAIN q /\ t[i] = q[i + 1] /\ 1 < i + 1
  BY TailIs
<1> HIDE DEF t
<1> SUFFICES ASSUME NEW i \in DOMAIN t, IsData(t[i]),
                    s2 = "ok" \/ \E k \in DOMAIN t : k < i /\ IsPutOk(t[k], c)
             PROVE  t[i].points \cap S = {}
  BY DEF Purged, t
<1>2. i + 1 \in DOMAIN q /\ t[i] = q[i + 1] /\ 1 < i + 1
  BY <1>1
<1>3. CASE s2 = "ok"
  BY <1>1, <1>2, <1>3 DEF Purged
<1>4. ASSUME NEW k \in DOMAIN t, k < i, IsPutOk(t[k], c) PROVE t[i].points \cap S = {}
  <2>1. k + 1 \in DOMAIN q /\ q[k + 1] = t[k] /\ k + 1 < i + 1
    BY <1>1, <1>4
  <2> QED
    BY <1>2, <1>4, <2>1 DEF Purged
<1> QED
  BY <1>3, <1>4

LEMMA PurgedAppend ==
  ASSUME NEW q \in Seq(Message), NEW m \in Message, NEW c, NEW s, NEW S, Purged(q, c, s, S),
         IsData(m) /\ (s = "ok" \/ \E k \in DOMAIN q : IsPutOk(q[k], c)) => m.points \cap S = {}
  PROVE  Purged(Append(q, m), c, s, S)
<1> DEFINE t == Append(q, m)
           n == Len(q) + 1
<1>1. /\ DOMAIN q \subseteq Nat /\ DOMAIN t = DOMAIN q \cup {n} /\ t[n] = m /\ DOMAIN t \subseteq Nat
      /\ \A i \in DOMAIN q : t[i] = q[i] /\ i < n
  BY AppendIs
<1> HIDE DEF t, n
<1>2. \A i, k \in DOMAIN t : k < i => k \in DOMAIN q
  BY <1>1
<1> QED
  BY <1>1, <1>2 DEF Purged, t

LEMMA FreeTail ==
  ASSUME NEW q \in Seq(Message), q # <<>>, ~IsRefusal(Head(q)), NEW c, NEW cache, NEW S,
         FreeWhenConfirmed(q, c, cache, S)
  PROVE  FreeWhenConfirmed(Tail(q), c, IF IsData(Head(q)) THEN Head(q).points ELSE cache, S)
<1> DEFINE t == Tail(q)
           d == IF IsData(Head(q)) THEN Head(q).points ELSE cache
<1>1. /\ 1 \in DOMAIN q /\ q[1] = Head(q) /\ DOMAIN q \subseteq Nat /\ DOMAIN t \subseteq Nat
      /\ \A i \in DOMAIN t : i + 1 \in DOMAIN q /\ t[i] = q[i + 1] /\ 1 < i + 1
      /\ \A i \in DOMAIN q : i # 1 => \E k \in DOMAIN t : i = k + 1 /\ t[k] = q[i]
  BY TailIs
<1> HIDE DEF t
<1> SUFFICES ASSUME NEW i \in DOMAIN t, IsPutOk(t[i], c)
             PROVE  FreeAt(t, d, i, S)
  BY DEF FreeWhenConfirmed, t
<1>2. FreeAt(q, cache, i + 1, S)
  BY <1>1 DEF FreeWhenConfirmed
<1>3. CASE cache \cap S = {} /\ \A j \in DOMAIN q : j < i + 1 => ~IsData(q[j])
  <2>1. d = cache
    BY <1>1, <1>3
  <2>2. ASSUME NEW j \in DOMAIN t, j < i PROVE ~IsData(t[j])
    <3>1. j + 1 \in DOMAIN q /\ j + 1 < i + 1 /\ t[j] = q[j + 1]
      BY <1>1, <2>2
    <3> QED
      BY <1>3, <3>1
  <2> QED
    BY <1>3, <2>1, <2>2 DEF FreeAt
<1>4. ASSUME NEW j \in DOMAIN q, j < i + 1, IsData(q[j]), q[j].points \cap S = {},
             \A k \in DOMAIN q : j < k /\ k < i + 1 => ~IsData(q[k])
      PROVE  FreeAt(t, d, i, S)
  <2>0. ASSUME NEW k \in DOMAIN t, k < i, j < k + 1 PROVE ~IsData(t[k])
    <3>1. k + 1 \in DOMAIN q /\ k + 1 < i + 1 /\ t[k] = q[k + 1]
      BY <1>1, <2>0
    <3> QED
      BY <1>4, <2>0, <3>1
  <2>1. CASE j = 1
    <3>1. d \cap S = {}
      BY <1>1, <1>4, <2>1
    <3>2. \A k \in DOMAIN t : k < i => ~IsData(t[k])
      BY <1>1, <2>0, <2>1
    <3> HIDE DEF d
    <3> QED
      BY <3>1, <3>2 DEF FreeAt
  <2>2. CASE j # 1
    <3>1. PICK l \in DOMAIN t : j = l + 1 /\ t[l] = q[j]
      BY <1>1, <2>2
    <3>2. l < i
      BY <1>1, <1>4, <3>1
    <3>3. \A k \in DOMAIN t : l < k /\ k < i => ~IsData(t[k])
      BY <1>1, <2>0, <3>1
    <3> HIDE DEF d
    <3> QED
      BY <1>4, <3>1, <3>2, <3>3 DEF FreeAt
  <2> QED
    BY <2>1, <2>2
<1>5. ASSUME NEW j \in DOMAIN q, j < i + 1, IsRefusal(q[j]) PROVE FreeAt(t, d, i, S)
  <2>1. j # 1
    BY <1>1, <1>5
  <2>2. PICK l \in DOMAIN t : j = l + 1 /\ t[l] = q[j]
    BY <1>1, <2>1
  <2>3. l < i
    BY <1>1, <1>5, <2>2
  <2> HIDE DEF d
  <2> QED
    BY <1>5, <2>2, <2>3 DEF FreeAt
<1> QED
  BY <1>2, <1>3, <1>4, <1>5 DEF FreeAt

LEMMA FreeHead ==
  ASSUME NEW q \in Seq(Message), q # <<>>, NEW c, IsPutOk(Head(q), c), NEW cache, NEW S,
         FreeWhenConfirmed(q, c, cache, S)
  PROVE  cache \cap S = {}
<1>1. 1 \in DOMAIN q /\ q[1] = Head(q) /\ DOMAIN q = 1..Len(q) /\ Len(q) \in Nat
  OBVIOUS
<1>2. FreeAt(q, cache, 1, S)
  BY <1>1 DEF FreeWhenConfirmed
<1> QED
  BY <1>1, <1>2 DEF FreeAt

LEMMA FreeAppend ==
  ASSUME NEW q \in Seq(Message), NEW m \in Message, NEW c, NEW cache, NEW S,
         FreeWhenConfirmed(q, c, cache, S),
         IsPutOk(m, c) => \/ \E T : Brings(q, cache, T) /\ T \cap S = {}
                          \/ \E i \in DOMAIN q : IsRefusal(q[i])
  PROVE  FreeWhenConfirmed(Append(q, m), c, cache, S)
<1> DEFINE t == Append(q, m)
           n == Len(q) + 1
<1>1. /\ DOMAIN q \subseteq Nat /\ DOMAIN t = DOMAIN q \cup {n} /\ t[n] = m /\ DOMAIN t \subseteq Nat
      /\ \A i \in DOMAIN q : t[i] = q[i] /\ i < n
      /\ n \in Nat
  BY AppendIs
<1> HIDE DEF t, n
<1>2. ASSUME NEW i \in DOMAIN q, IsPutOk(q[i], c) PROVE FreeAt(t, cache, i, S)
  <2>1. FreeAt(q, cache, i, S)
    BY <1>2 DEF FreeWhenConfirmed
  <2>2. \A j \in DOMAIN t : j < i => j \in DOMAIN q
    BY <1>1
  <2> QED
    BY <1>1, <2>1, <2>2 DEF FreeAt
<1>3. ASSUME IsPutOk(m, c) PROVE FreeAt(t, cache, n, S)
  <2>0. \A j \in DOMAIN t : j < n => j \in DOMAIN q /\ t[j] = q[j]
    BY <1>1
  <2>1. ASSUME NEW T, Brings(q, cache, T), T \cap S = {} PROVE FreeAt(t, cache, n, S)
    <3>1. CASE cache = T /\ \A i \in DOMAIN q : ~IsData(q[i])
      BY <2>0, <2>1, <3>1 DEF FreeAt
    <3>2. ASSUME NEW i \in DOMAIN q, IsData(q[i]), q[i].points = T,
                 \A j \in DOMAIN q : j > i => ~IsData(q[j])
          PROVE  FreeAt(t, cache, n, S)
      <4>1. i \in DOMAIN t /\ i < n /\ t[i] = q[i]
        BY <1>1
      <4>2. \A k \in DOMAIN t : i < k /\ k < n => ~IsData(t[k])
        BY <1>1, <2>0, <3>2
      <4> QED
        BY <2>1, <3>2, <4>1, <4>2 DEF FreeAt
    <3> QED
      BY <2>1, <3>1, <3>2 DEF Brings
  <2>2. ASSUME NEW i \in DOMAIN q, IsRefusal(q[i]) PROVE FreeAt(t, cache, n, S)
    BY <1>1, <2>2 DEF FreeAt
  <2> QED
    BY <1>3, <2>1, <2>2
<1> QED
  BY <1>1, <1>2, <1>3 DEF FreeWhenConfirmed, t

(* Without a view nothing is cached.                                       *)
Viewless == listen = "off" => serverCache = {}

(* On a restored connection the server pushes, or is asked to, or refused. *)
Pushing ==
  connection = "on" /\ listen # "off" /\ ~watching =>
    "observe" \in ToSet(toServer) \/ \E i \in DOMAIN toClient : IsRefusal(toClient[i])

LEMMA ViewlessStep == ASSUME Viewless, [Next]_dbVars PROVE Viewless'
<1>1. CASE ReceiveData
  BY <1>1 DEF ReceiveData, Viewless, WithData
<1>2. CASE ReceiveListenAnswer
  BY <1>2 DEF ReceiveListenAnswer, Viewless
<1>3. CASE Relaunch \/ RunObserve \/ Disconnect
  BY <1>3 DEF Relaunch, RunObserve, Disconnect, Viewless
<1>4. CASE UNCHANGED <<listen, serverCache>>
  BY <1>4 DEF Viewless
<1> QED
  BY <1>1, <1>2, <1>3, <1>4 DEF Next, Service, ClientRuns, RunWrite, Connect,
     ClientReceives, ReceiveAuthAnswer, ReceivePutAnswer,
     ServerServes, ServerAuthenticates, ServerListens, ServerAccepts, ServerRefuses,
     OtherDeviceWrites, AppWrites, AppRunsBlock, dbVars, client

LEMMA PushingStep == ASSUME TypeOK, NotYetObserved, Pushing, [Next]_dbVars PROVE Pushing'
<1>a. /\ calls \in Seq(Request) /\ toServer \in Seq(Request) /\ toClient \in Seq(Message)
      /\ pending \in Seq(Request) /\ "observe" \in Request
  BY Symbols DEF TypeOK, Request
<1> DEFINE Asked == "observe" \in ToSet(toServer)
           Refused == \E i \in DOMAIN toClient : IsRefusal(toClient[i])
<1> SUFFICES ASSUME connection' = "on", listen' # "off", ~watching' PROVE Asked' \/ Refused'
  BY DEF Pushing
<1>b. ASSUME toClient # <<>>, toClient' = Tail(toClient), ~IsRefusal(Head(toClient)), Refused
      PROVE  Refused'
  <2>1. /\ toClient[1] = Head(toClient)
        /\ \A i \in DOMAIN toClient : i # 1 =>
             \E k \in DOMAIN Tail(toClient) : i = k + 1 /\ Tail(toClient)[k] = toClient[i]
    BY <1>a, <1>b, TailIs
  <2> QED
    BY <1>b, <2>1
<1>c. ASSUME NEW m \in Message, NEW q \in Seq(Message),
             \A i \in DOMAIN toClient : i \in DOMAIN q /\ q[i] = toClient[i],
             toClient' = q \/ toClient' = Append(q, m), Refused
      PROVE  Refused'
  <2>1. \A i \in DOMAIN q : i \in DOMAIN Append(q, m) /\ Append(q, m)[i] = q[i]
    BY <1>c, AppendIs
  <2> QED
    BY <1>c, <2>1
<1>d. ASSUME toServer # <<>>, Head(toServer) # "observe", toServer' = Tail(toServer), Asked
      PROVE  Asked'
  BY <1>a, <1>d, BeforeTail
<1>e. Pushing => (connection = "on" /\ listen # "off" /\ ~watching => Asked \/ Refused)
  BY DEF Pushing
<1> HIDE DEF Asked, Refused
<1>1. CASE RunObserve
  <2>1. connection = "on" /\ toServer' = Append(toServer, "observe")
    BY <1>1 DEF RunObserve
  <2> QED
    BY <1>a, <2>1, BeforeAppend DEF Asked
<1>2. CASE RunWrite
  <2>1. /\ connection = "on" /\ listen # "off" /\ ~watching /\ toClient' = toClient
        /\ Head(calls) \in Request /\ toServer' = Append(toServer, Head(calls))
    BY <1>2 DEF RunWrite, Request
  <2>2. Asked => Asked'
    BY <1>a, <2>1, BeforeAppend DEF Asked
  <2>3. Refused => Refused'
    BY <2>1 DEF Refused
  <2> QED
    BY <1>e, <2>1, <2>2, <2>3
<1>3. CASE Connect \/ Disconnect \/ Relaunch
  BY <1>3 DEF Connect, Disconnect, Relaunch
<1>4. CASE ReceiveAuthAnswer
  <2>1. toServer' = toServer \o (<<"observe">> \o pending)
    BY <1>4 DEF ReceiveAuthAnswer, Restored, Listens
  <2>2. <<"observe">> \in Seq(Request) /\ ToSet(<<"observe">>) = {"observe"}
    BY <1>a, BeforeSingle
  <2>3. <<"observe">> \o pending \in Seq(Request) /\ "observe" \in ToSet(<<"observe">> \o pending)
    BY <1>a, <2>2, BeforeConcat
  <2>4. PICK r \in Seq(Request) : toServer' = toServer \o r /\ "observe" \in ToSet(r)
    BY <2>1, <2>3
  <2>5. ToSet(toServer \o r) = ToSet(toServer) \cup ToSet(r)
    BY <1>a, BeforeConcat
  <2> QED
    BY <2>4, <2>5 DEF Asked
<1>5. CASE ReceiveData
  <2>1. ~IsRefusal(Head(toClient)) /\ toClient # <<>> /\ toClient' = Tail(toClient)
        /\ UNCHANGED <<connection, listen, watching, toServer>>
    BY <1>5 DEF ReceiveData, Receive, IsRefusal
  <2> QED
    BY <1>b, <1>e, <2>1 DEF Asked
<1>6. CASE ReceiveListenAnswer
  <2>1. /\ Head(toClient).status = "ok" /\ toClient # <<>> /\ toClient' = Tail(toClient)
        /\ listen # "off" /\ UNCHANGED <<connection, watching, toServer>>
    BY <1>6 DEF ReceiveListenAnswer, Receive
  <2>2. ~IsRefusal(Head(toClient))
    BY <2>1 DEF IsRefusal
  <2> QED
    BY <1>b, <1>e, <2>1, <2>2 DEF Asked
<1>7. CASE ReceivePutAnswer
  <2>1. ~IsRefusal(Head(toClient)) /\ toClient # <<>> /\ toClient' = Tail(toClient)
        /\ UNCHANGED <<connection, listen, watching, toServer>>
    BY <1>7 DEF ReceivePutAnswer, Receive, IsRefusal
  <2> QED
    BY <1>b, <1>e, <2>1 DEF Asked
<1>8. CASE ServerAuthenticates
  <2>1. /\ toServer # <<>> /\ Head(toServer) # "observe" /\ toServer' = Tail(toServer)
        /\ [type |-> "auth"] \in Message /\ toClient' = Append(toClient, [type |-> "auth"])
        /\ UNCHANGED <<connection, listen, watching>>
    BY <1>8 DEF ServerAuthenticates, client, Message
  <2> QED
    BY <1>a, <1>c, <1>d, <1>e, <2>1
<1>9. CASE ServerListens
  <2>1. PICK s \in Statuses :
          /\ watching' = (s = "ok")
          /\ toClient' = toClient
               \o (IF s = "ok" THEN <<[type |-> "data", points |-> server]>> ELSE <<>>)
               \o <<[type |-> "listen", status |-> s]>>
    BY <1>9 DEF ServerListens
  <2> DEFINE m == [type |-> "listen", status |-> s]
  <2>2. s # "ok" /\ m \in Message /\ m.status = s /\ m.type = "listen" /\ s = "denied"
    BY <2>1, MessageType, StatusesAssumption
  <2>3. toClient' = Append(toClient, m)
    BY <1>a, <2>1, <2>2, OneMore
  <2> HIDE DEF m
  <2>4. Len(toClient) + 1 \in DOMAIN toClient' /\ toClient'[Len(toClient) + 1] = m
    BY <1>a, <2>2, <2>3, AppendIs
  <2> QED
    BY <2>2, <2>4 DEF Refused, IsRefusal
<1>10. CASE ServerAccepts
  <2> DEFINE q == toClient \o Push(server')
             m == [type |-> "put", write |-> Head(toServer), status |-> "ok"]
  <2>1. /\ toServer # <<>> /\ Head(toServer) \in Write /\ toServer' = Tail(toServer)
        /\ toClient' = q \o <<m>> /\ UNCHANGED <<connection, listen, watching>>
    BY <1>10 DEF ServerAccepts, client
  <2>2. q = toClient
    BY <1>a, <2>1 DEF Push
  <2>3. m \in Message
    BY <2>1, StatusesAssumption, MessageType
  <2> HIDE DEF m
  <2>4. toClient' = Append(toClient, m)
    BY <1>a, <2>1, <2>2, <2>3, OneMore
  <2> HIDE DEF q
  <2> QED
    BY <1>a, <1>c, <1>d, <1>e, <2>1, <2>3, <2>4, Symbols
<1>11. CASE ServerRefuses
  <2> DEFINE m == [type |-> "put", write |-> Head(toServer), status |-> "denied"]
  <2>1. /\ toServer # <<>> /\ Head(toServer) \in Write /\ toServer' = Tail(toServer)
        /\ toClient' = Append(toClient, m) /\ UNCHANGED <<connection, listen, watching>>
        /\ "denied" \in Statuses
    BY <1>11 DEF ServerRefuses, client
  <2>3. m \in Message
    BY <2>1, MessageType
  <2> HIDE DEF m
  <2> QED
    BY <1>a, <1>c, <1>d, <1>e, <2>1, <2>3, Symbols
<1>12. CASE OtherDeviceWrites
  <2>1. UNCHANGED <<connection, listen, watching, toServer>> /\ toClient' = toClient \o Push(server')
    BY <1>12 DEF OtherDeviceWrites, client
  <2>2. toClient' = toClient
    BY <1>a, <2>1 DEF Push
  <2> QED
    BY <1>e, <2>1, <2>2 DEF Asked, Refused
<1>13. CASE AppWrites \/ AppRunsBlock \/ UNCHANGED dbVars
  BY <1>13, <1>e DEF AppWrites, AppRunsBlock, dbVars, client, wire, Asked, Refused
<1> QED
  BY <1>1, <1>2, <1>3, <1>4, <1>5, <1>6, <1>7, <1>8, <1>9, <1>10, <1>11, <1>12, <1>13
  DEF Next, Service, ClientRuns, ClientReceives, ServerServes

(* What the client has accepted to be cleared is nowhere any more.         *)
ClearHolds(c) ==
  /\ Accepted(c) => covers[c] \cap server = {}
  /\ outcome[c] = "ok" => covers[c] \cap serverCache = {} /\ covers[c] \cap ToSet(Line) = {}
  /\ Purged(toClient, c, outcome[c], covers[c])
  /\ listen # "off" => FreeWhenConfirmed(toClient, c, serverCache, covers[c])

Uncleared(p) == \A c \in Clears \cap taken : p \notin covers[c]
SaveHolds(p) == Accepted(p) /\ Uncleared(p) => p \in server

Known == Ordered /\ Followed /\ Own /\ LineOrder /\ Viewless /\ Pushing

Confirmed ==
  /\ \A c \in Clears : ClearHolds(c)
  /\ \A p \in Points : SaveHolds(p)

LEMMA KnownStep == Known /\ [Next]_dbVars => Known'
BY OrderedStep, LineStep, ViewlessStep, PushingStep, StepTracked DEF Known, Tracked, Ordered

(* A confirmation on its way back is for a write that is pending.          *)
LEMMA OnTheWay ==
  ASSUME Known, NEW w \in Write, NEW i \in DOMAIN toClient, IsPutOk(toClient[i], w)
  PROVE  /\ connection = "on" /\ w \in ToSet(BackOf(toClient)) /\ w \in ToSet(OnWire)
         /\ w \in ToSet(pending) /\ w \in ToSet(Line) /\ w \in taken \ Elsewhere /\ outcome[w] = "none"
<1>1. TypeOK /\ WireOrder /\ WritesWaitOnce /\ Own /\ toClient \in Seq(Message) /\ toServer \in Seq(Request)
  BY DEF Known, Ordered, TypeOK
<1>2. Carries(toClient[i]) = w
  BY DEF Carries, IsPutOk
<1>3. w \in ToSet(BackOf(toClient))
  BY <1>2 DEF BackOf, ToSet
<1>4. w \in ToSet(OnWire)
  BY <1>1, <1>3, TripIs, WireIs
<1>5. connection = "on" /\ w \in ToSet(pending)
  BY <1>1, <1>4 DEF WireOrder, InStep
<1>6. w \in ToSet(Line)
  BY <1>1, <1>5, LineIs
<1> QED
  BY <1>1, <1>3, <1>4, <1>5, <1>6 DEF WritesWaitOnce, Own

(* What the server takes is pending, too, and behind what it confirmed.    *)
LEMMA Taken ==
  ASSUME Known, toServer # <<>>, Head(toServer) \in Write
  PROVE  /\ connection = "on" /\ Head(toServer) \in ToSet(Line)
         /\ Head(toServer) \in taken \ Elsewhere /\ outcome[Head(toServer)] = "none"
         /\ "observe" \notin ToSet(toServer)
         /\ \A w \in Write : w \in ToSet(BackOf(toClient)) => Before(Line, w, Head(toServer))
<1> DEFINE h == Head(toServer)
<1>1. TypeOK /\ WireOrder /\ WritesWaitOnce /\ Own /\ toClient \in Seq(Message) /\ toServer \in Seq(Request)
  BY DEF Known, Ordered, TypeOK
<1>2. /\ h \in Write /\ ToSet(toServer) = {h} \cup ToSet(Tail(toServer))
      /\ \A a, b : Before(toServer, a, b) <=> Before(Tail(toServer), a, b) \/ (a = h /\ b \in ToSet(Tail(toServer)))
  BY <1>1, BeforeTail
<1> HIDE DEF h
<1>3. /\ ToSet(OnWire) = ToSet(BackOf(toClient)) \cup ToSet(toServer)
      /\ \A a, b : Before(OnWire, a, b) <=>
              \/ Before(BackOf(toClient), a, b) \/ Before(toServer, a, b)
              \/ (a \in ToSet(BackOf(toClient)) /\ b \in ToSet(toServer))
  BY <1>1, TripIs, WireIs
<1>4. connection = "on" /\ h \in ToSet(pending)
  BY <1>1, <1>2, <1>3 DEF WireOrder, InStep
<1>5. h \in ToSet(Line)
  BY <1>1, <1>4, LineIs
<1>6. ~Before(toServer, h, "observe")
  BY <1>1, <1>2, <1>3 DEF WireOrder
<1>7. "observe" \notin ToSet(toServer)
  BY <1>2, <1>6, Symbols
<1>8. ASSUME NEW w \in Write, w \in ToSet(BackOf(toClient)) PROVE Before(Line, w, h)
  <2>1. Before(OnWire, w, h)
    BY <1>2, <1>3, <1>8
  <2>2. Before(pending, w, h)
    BY <1>1, <1>2, <1>4, <2>1 DEF WireOrder, InStep
  <2> QED
    BY <1>1, <2>2, LineIs
<1> QED
  BY <1>1, <1>2, <1>4, <1>5, <1>7, <1>8 DEF WritesWaitOnce, Own, h

(* A clear that is not accepted owes nothing.                              *)
LEMMA NotAccepted ==
  ASSUME NEW c, ~Accepted(c) PROVE ClearHolds(c)
BY DEF Accepted, ClearHolds, Purged, FreeWhenConfirmed

LEMMA NotAcceptedNext ==
  ASSUME NEW c, ~Accepted(c)' PROVE ClearHolds(c)'
<1>1. (~Accepted(c))'
  OBVIOUS
<1> QED
  BY <1>1 DEF Accepted, ClearHolds, Purged, FreeWhenConfirmed

(* The server sends: perhaps what it now stores, then perhaps an answer.   *)
LEMMA ClearSends ==
  ASSUME Known, NEW c \in Clears, ClearHolds(c),
         server' \in SUBSET Points,
         NEW q, q = toClient \/ q = Append(toClient, [type |-> "data", points |-> server']),
         NEW m \in Message, ~IsData(m),
         toClient' = q \/ toClient' = Append(q, m),
         Accepted(c) => covers[c] \cap server' = {},
         IsPutOk(m, c) =>
           /\ server' = {}
           /\ listen # "off" => Brings(q, serverCache, {}) \/ \E i \in DOMAIN q : IsRefusal(q[i]),
         UNCHANGED <<listen, serverCache, outcome, pending, calls>>, covers'[c] = covers[c]
  PROVE  ClearHolds(c)'
<1> DEFINE d == [type |-> "data", points |-> server']
           S == covers[c]
           Sent0 == \E i \in DOMAIN toClient : IsPutOk(toClient[i], c)
<1>1. toClient \in Seq(Message) /\ d \in Message /\ IsData(d) /\ d.points = server' /\ ~IsPutOk(d, c)
  BY MessageType DEF Known, Ordered, TypeOK, IsData, IsPutOk
<1> HIDE DEF d, S
<1>2. Purged(toClient, c, outcome[c], S)
  BY DEF ClearHolds, S
<1>3. outcome[c] = "ok" \/ Sent0 => server' \cap S = {}
  BY DEF Accepted, S
<1>4. q \in Seq(Message) /\ Purged(q, c, outcome[c], S)
  <2>1. Append(toClient, d) \in Seq(Message)
    BY <1>1, OneMore
  <2>2. Purged(Append(toClient, d), c, outcome[c], S)
    BY <1>1, <1>2, <1>3, PurgedAppend
  <2> QED
    BY <1>1, <1>2, <2>1, <2>2 DEF d
<1>5. listen # "off" => FreeWhenConfirmed(q, c, serverCache, S)
  <2>1. ASSUME listen # "off" PROVE FreeWhenConfirmed(Append(toClient, d), c, serverCache, S)
    BY <1>1, <2>1, FreeAppend DEF ClearHolds, S
  <2> QED
    BY <2>1 DEF ClearHolds, S, d
<1>6. \A i \in DOMAIN q : IsPutOk(q[i], c) => Sent0
  <2>1. \A i \in DOMAIN Append(toClient, d) : IsPutOk(Append(toClient, d)[i], c) => Sent0
    BY <1>1, AppendIs
  <2> QED
    BY <2>1 DEF d
<1>7. Purged(toClient', c, outcome[c], S)
  <2>1. Purged(Append(q, m), c, outcome[c], S)
    BY <1>4, PurgedAppend
  <2> QED
    BY <1>4, <2>1
<1>8. ASSUME listen # "off" PROVE FreeWhenConfirmed(toClient', c, serverCache, S)
  <2>1. IsPutOk(m, c) => \/ \E T : Brings(q, serverCache, T) /\ T \cap S = {}
                         \/ \E i \in DOMAIN q : IsRefusal(q[i])
    <3>1. {} \cap S = {}
      OBVIOUS
    <3> QED
      BY <1>8, <3>1
  <2>2. FreeWhenConfirmed(Append(q, m), c, serverCache, S)
    BY <1>4, <1>5, <1>8, <2>1, FreeAppend
  <2> QED
    BY <1>5, <1>8, <2>2
<1>9. Accepted(c)' => S \cap server' = {}
  <2>1. \A i \in DOMAIN Append(q, m) : IsPutOk(Append(q, m)[i], c) => Sent0 \/ IsPutOk(m, c)
    BY <1>4, <1>6, AppendIs
  <2>2. Accepted(c)' => outcome[c] = "ok" \/ Sent0 \/ IsPutOk(m, c)
    BY <1>6, <2>1 DEF Accepted
  <2>3. IsPutOk(m, c) => S \cap server' = {}
    OBVIOUS
  <2> QED
    BY <1>3, <2>2, <2>3
<1>10. Line' = Line
  BY DEF Line
<1> QED
  BY <1>7, <1>8, <1>9, <1>10 DEF ClearHolds, S

(* The client reads a message.                                             *)
LEMMA ClearReads ==
  ASSUME Known, NEW c \in Clears, ClearHolds(c),
         toClient # <<>>, toClient' = Tail(toClient), ~IsRefusal(Head(toClient)),
         serverCache' = IF IsData(Head(toClient)) /\ listen # "off"
                        THEN Head(toClient).points ELSE serverCache,
         listen' # "off" => listen # "off",
         outcome'[c] # outcome[c] => IsPutOk(Head(toClient), c) \/ outcome'[c] # "ok",
         outcome[c] = "ok" => outcome'[c] = "ok",
         \A x \in Points : x \in ToSet(Line') => x \in ToSet(Line),
         IsPutOk(Head(toClient), c) => covers[c] \cap ToSet(Line') = {},
         UNCHANGED <<server, covers>>
  PROVE  ClearHolds(c)'
<1> DEFINE S == covers[c]
<1>1. toClient \in Seq(Message) /\ S \subseteq Points /\ Points \subseteq Write
  BY DEF Known, Ordered, TypeOK, Write
<1> HIDE DEF S
<1>2. /\ 1 \in DOMAIN toClient /\ toClient[1] = Head(toClient)
      /\ \A i \in DOMAIN toClient' : i + 1 \in DOMAIN toClient /\ toClient'[i] = toClient[i + 1]
  BY <1>1, TailIs
<1>3. Accepted(c)' => Accepted(c)
  BY <1>2 DEF Accepted
<1>4. Purged(toClient', c, outcome'[c], S)
  BY <1>1, PurgedTail DEF ClearHolds, S
<1>5. ASSUME listen # "off" PROVE FreeWhenConfirmed(toClient', c, serverCache', S)
  BY <1>1, <1>5, FreeTail DEF ClearHolds, S
<1>6. ASSUME outcome'[c] = "ok" PROVE S \cap serverCache' = {}
  <2>1. CASE outcome[c] = "ok"
    <3>1. IsData(Head(toClient)) => Head(toClient).points \cap S = {}
      BY <1>2, <2>1 DEF ClearHolds, Purged, S
    <3> QED
      BY <2>1, <3>1 DEF ClearHolds, S
  <2>2. CASE outcome[c] # "ok"
    <3>1. IsPutOk(Head(toClient), c)
      BY <1>6, <2>2
    <3>2. ~IsData(Head(toClient))
      BY <3>1 DEF IsPutOk, IsData
    <3>3. listen # "off" => serverCache \cap S = {}
      BY <1>1, <3>1, FreeHead DEF ClearHolds, S
    <3> QED
      BY <3>2, <3>3 DEF Known, Viewless
  <2> QED
    BY <2>1, <2>2
<1>7. ASSUME outcome'[c] = "ok" PROVE S \cap ToSet(Line') = {}
  BY <1>1, <1>7 DEF ClearHolds, S
<1> QED
  BY <1>3, <1>4, <1>5, <1>6, <1>7 DEF ClearHolds, S

(* Steps that neither read nor send.                                       *)
LEMMA ClearKept ==
  ASSUME Known, NEW c \in Clears, ClearHolds(c),
         UNCHANGED <<toClient, server, serverCache, outcome>>, covers'[c] = covers[c],
         listen' # "off" => listen # "off" \/ \A i \in DOMAIN toClient : ~IsPutOk(toClient[i], c),
         \A x \in covers[c] : x \in ToSet(Line') => x \in ToSet(Line)
  PROVE  ClearHolds(c)'
<1>1. Accepted(c)' => Accepted(c)
  BY DEF Accepted
<1>2. listen' # "off" => FreeWhenConfirmed(toClient, c, serverCache, covers[c])
  BY DEF ClearHolds, FreeWhenConfirmed
<1>3. covers[c] \cap ToSet(Line) = {} => covers[c] \cap ToSet(Line') = {}
  OBVIOUS
<1> QED
  BY <1>1, <1>2, <1>3 DEF ClearHolds

LEMMA SaveKept ==
  ASSUME NEW p \in Points, SaveHolds(p), Accepted(p)' => Accepted(p),
         Uncleared(p)' => Uncleared(p), Uncleared(p)' /\ p \in server => p \in server'
  PROVE  SaveHolds(p)'
BY DEF SaveHolds

(* The client's own steps.                                                 *)
LEMMA ClientConfirms ==
  ASSUME Known, Confirmed,
         RunObserve \/ RunWrite \/ Connect \/ Disconnect \/ AppRunsBlock \/ Relaunch \/ UNCHANGED dbVars
  PROVE  Confirmed'
<1>a. /\ TypeOK /\ calls \in Seq(Request) /\ pending \in Seq(Write) /\ ToSet(Line) = ToSet(pending) \cup ToSet(calls)
      /\ calls' \in Seq(Request) /\ pending' \in Seq(Request)
      /\ UNCHANGED <<server, outcome, covers, taken>>
      /\ Points \subseteq Write
  <2>1. TypeOK /\ TypeOK'
    BY TypeStep DEF Known, Ordered, Next, Service, ClientRuns
  <2>2. calls' \in Seq(Request) /\ pending' \in Seq(Request)
    BY <2>1 DEF TypeOK, Request
  <2> QED
    BY <2>1, <2>2, LineIs DEF TypeOK, Write, RunObserve, RunWrite, Connect, Disconnect, AppRunsBlock, Relaunch,
       dbVars, client, history
<1>b. ToSet(Line') = ToSet(pending') \cup ToSet(calls')
  BY <1>a, BeforeConcat DEF Line
<1>c. \A x \in Points : x \in ToSet(Line') => x \in ToSet(Line)
  <2>1. CASE RunObserve \/ RunWrite
    <3>1. /\ calls # <<>> /\ calls' = Tail(calls)
          /\ \/ pending' = pending
             \/ Head(calls) \in Write /\ pending' = Append(pending, Head(calls))
      BY <2>1 DEF RunObserve, RunWrite
    <3>2. ToSet(calls) = {Head(calls)} \cup ToSet(calls')
      BY <1>a, <3>1, BeforeTail
    <3>3. Head(calls) \in Write => ToSet(Append(pending, Head(calls))) = ToSet(pending) \cup {Head(calls)}
      BY <1>a, BeforeAppend
    <3> QED
      BY <1>a, <1>b, <3>1, <3>2, <3>3
  <2>2. CASE Relaunch
    <3>1. ToSet(Line') = {"observe"}
      BY <1>b, <2>2, BeforeNothing, BeforeSingle DEF Relaunch
    <3> QED
      BY <1>a, <3>1, Symbols
  <2>3. CASE UNCHANGED <<pending, calls>>
    BY <2>3 DEF Line
  <2> QED
    BY <2>1, <2>2, <2>3 DEF Connect, Disconnect, AppRunsBlock, dbVars, client
<1>d. \A c \in Clears : covers[c] \subseteq Points
  BY <1>a DEF TypeOK
<1>e. ASSUME NEW p \in Points, toClient' = toClient \/ toClient' = <<>> PROVE SaveHolds(p)'
  <2>1. Accepted(p)' => Accepted(p)
    BY <1>a, <1>e DEF Accepted
  <2>2. Uncleared(p)' => Uncleared(p)
    BY <1>a DEF Uncleared
  <2> QED
    BY <1>a, <2>1, <2>2, SaveKept DEF Confirmed
<1>1. CASE RunObserve \/ RunWrite \/ Connect \/ AppRunsBlock \/ UNCHANGED dbVars
  <2>1. UNCHANGED <<toClient, serverCache>>
    BY <1>1 DEF RunObserve, RunWrite, Connect, AppRunsBlock, dbVars, client, wire
  <2>2. ASSUME NEW c \in Clears PROVE ClearHolds(c)'
    <3>1. ASSUME RunObserve PROVE \A i \in DOMAIN toClient : ~IsPutOk(toClient[i], c)
      <4>1. pending = <<>>
        <5>1. 1 \in DOMAIN calls /\ calls[1] = "observe"
          BY <1>a, <3>1 DEF RunObserve
        <5> QED
          BY <5>1 DEF Known, Ordered, ObservesFirst
      <4>2. c \in Write /\ c \notin ToSet(pending)
        BY <4>1, BeforeNothing DEF Write
      <4> QED
        BY <4>2, OnTheWay
    <3>2. ~RunObserve => UNCHANGED listen
      BY <1>1 DEF RunWrite, Connect, AppRunsBlock, dbVars, client
    <3> QED
      BY <1>a, <1>c, <1>d, <2>1, <3>1, <3>2, ClearKept DEF Confirmed
  <2> QED
    BY <1>e, <2>1, <2>2 DEF Confirmed
<1>2. CASE Disconnect \/ Relaunch
  <2>1. toClient' = <<>> /\ (serverCache' = serverCache \/ serverCache' = {})
    BY <1>2 DEF Disconnect, Relaunch
  <2>2. ASSUME NEW c \in Clears PROVE ClearHolds(c)'
    <3>1. Accepted(c)' => outcome[c] = "ok"
      BY <1>a, <2>1 DEF Accepted
    <3>2. /\ Purged(<<>>, c, outcome[c], covers[c])
          /\ FreeWhenConfirmed(<<>>, c, serverCache', covers[c])
      BY DEF Purged, FreeWhenConfirmed
    <3>3. outcome[c] = "ok" => covers[c] \cap server = {} /\ covers[c] \cap serverCache' = {}
      BY <2>1 DEF Confirmed, ClearHolds, Accepted
    <3>4. outcome[c] = "ok" => covers[c] \cap ToSet(Line') = {}
      BY <1>c, <1>d DEF Confirmed, ClearHolds
    <3> QED
      BY <1>a, <2>1, <3>1, <3>2, <3>3, <3>4 DEF ClearHolds
  <2> QED
    BY <1>e, <2>1, <2>2 DEF Confirmed
<1> QED
  BY <1>1, <1>2

(* The client reads an answer or a push.                                   *)
LEMMA ReadingConfirms ==
  ASSUME Known, Confirmed, ClientReceives
  PROVE  Confirmed'
<1>a. /\ TypeOK /\ toClient # <<>> /\ toClient' = Tail(toClient) /\ toClient \in Seq(Message)
      /\ UNCHANGED <<calls, server, covers, taken>> /\ Points \subseteq Write /\ Clears \subseteq Write
  BY DEF ClientReceives, ReceiveAuthAnswer, ReceiveData, ReceiveListenAnswer, ReceivePutAnswer,
     Receive, Known, Ordered, TypeOK, history, Write
<1>b. /\ toClient[1] = Head(toClient) /\ 1 \in DOMAIN toClient
      /\ \A i \in DOMAIN toClient' : i + 1 \in DOMAIN toClient /\ toClient'[i] = toClient[i + 1]
  BY <1>a, TailIs
<1>c. ASSUME NEW p \in Points, outcome'[p] = "ok" => outcome[p] = "ok" \/ IsPutOk(Head(toClient), p)
      PROVE  SaveHolds(p)'
  <2>1. Accepted(p)' => Accepted(p)
    BY <1>b, <1>c DEF Accepted
  <2>2. Uncleared(p)' => Uncleared(p)
    BY <1>a DEF Uncleared
  <2> QED
    BY <1>a, <2>1, <2>2, SaveKept DEF Confirmed
<1>1. CASE ReceiveAuthAnswer \/ ReceiveData
  <2>1. /\ ~IsRefusal(Head(toClient)) /\ UNCHANGED <<listen, pending, outcome>>
        /\ \A c : ~IsPutOk(Head(toClient), c)
        /\ serverCache' = IF IsData(Head(toClient)) /\ listen # "off"
                          THEN Head(toClient).points ELSE serverCache
    BY <1>1 DEF ReceiveAuthAnswer, ReceiveData, Receive, IsRefusal, IsPutOk, IsData, WithData, history
  <2>2. Line' = Line
    BY <1>a, <2>1 DEF Line
  <2>3. \A c \in Clears : ClearHolds(c)'
    BY <1>a, <2>1, <2>2, ClearReads DEF Confirmed
  <2> QED
    BY <1>c, <2>1, <2>3 DEF Confirmed
<1>2. CASE ReceiveListenAnswer
  <2>1. PICK s \in Statuses :
          /\ Head(toClient) = [type |-> "listen", status |-> s]
          /\ listen' = IF s = "ok" /\ listen # "off" THEN "acked" ELSE "off"
          /\ serverCache' = IF s = "ok" THEN serverCache ELSE {}
          /\ UNCHANGED <<pending, outcome>>
    BY <1>2 DEF ReceiveListenAnswer, Receive, history
  <2>2. Line' = Line /\ ~IsData(Head(toClient)) /\ \A c : ~IsPutOk(Head(toClient), c)
    BY <1>a, <2>1 DEF Line, IsData, IsPutOk
  <2>3. ASSUME NEW c \in Clears PROVE ClearHolds(c)'
    <3>1. CASE s = "ok"
      <4>1. ~IsRefusal(Head(toClient))
        BY <2>1, <3>1 DEF IsRefusal
      <4> QED
        BY <1>a, <2>1, <2>2, <3>1, <4>1, ClearReads DEF Confirmed
    <3>2. CASE s # "ok"
      <4>1. listen' = "off" /\ serverCache' = {}
        BY <2>1, <3>2
      <4>2. Accepted(c)' => Accepted(c)
        BY <1>b, <2>1 DEF Accepted
      <4>3. Purged(toClient', c, outcome[c], covers[c])
        BY <1>a, PurgedTail DEF Confirmed, ClearHolds
      <4> QED
        BY <1>a, <2>1, <2>2, <4>1, <4>2, <4>3 DEF Confirmed, ClearHolds
    <3> QED
      BY <3>1, <3>2
  <2> QED
    BY <1>c, <2>1, <2>3 DEF Confirmed
<1>3. CASE ReceivePutAnswer
  <2>1. /\ pending # <<>> /\ pending' = Tail(pending)
        /\ UNCHANGED <<listen, serverCache>> /\ pending \in Seq(Write) /\ pending \in Seq(Request)
    <3>1. pending # <<>> /\ pending' = Tail(pending)
      BY <1>3, ReadPut DEF Known
    <3>2. UNCHANGED <<listen, serverCache>>
      BY <1>3 DEF ReceivePutAnswer
    <3>3. pending \in Seq(Write) /\ pending \in Seq(Request)
      BY <1>a DEF TypeOK, Request
    <3> QED
      BY <3>1, <3>2, <3>3
  <2>2. PICK s \in Statuses :
          /\ Head(toClient) = [type |-> "put", write |-> Head(pending), status |-> s]
          /\ outcome' = [outcome EXCEPT ![Head(pending)] = s]
    BY <1>3, ReadPut DEF Known
  <2> DEFINE w == Head(pending)
  <2>3. /\ w \in Write /\ Tail(pending) \in Seq(Request) /\ ToSet(pending) = {w} \cup ToSet(Tail(pending))
        /\ \A x, b : Before(pending, x, b) <=> Before(Tail(pending), x, b) \/ (x = w /\ b \in ToSet(Tail(pending)))
    BY <2>1, BeforeTail
  <2>4. ToSet(Line) = {w} \cup ToSet(Line') /\ \A x \in ToSet(Line') : Before(Line, w, x)
    <3>1. calls \in Seq(Request)
      BY <1>a DEF TypeOK
    <3>2. ToSet(Line') = ToSet(Tail(pending)) \cup ToSet(calls)
      BY <1>a, <2>1, <2>3, <3>1, BeforeConcat DEF Line
    <3>3. /\ ToSet(Line) = ToSet(pending) \cup ToSet(calls)
          /\ \A x, b : Before(Line, x, b) <=>
              Before(pending, x, b) \/ Before(calls, x, b) \/ (x \in ToSet(pending) /\ b \in ToSet(calls))
      BY <1>a, LineIs
    <3> QED
      BY <2>3, <3>2, <3>3
  <2>5. /\ ~IsRefusal(Head(toClient)) /\ ~IsData(Head(toClient))
        /\ \A x : IsPutOk(Head(toClient), x) => x = w
        /\ s = "ok" => IsPutOk(Head(toClient), w)
    BY <2>2 DEF IsRefusal, IsData, IsPutOk
  <2>6. outcome[w] = "none"
    <3>1. w \in ToSet(pending) /\ WritesWaitOnce
      BY <2>3 DEF Known, Ordered
    <3> QED
      BY <2>3, <3>1 DEF WritesWaitOnce
  <2>7. \A x \in Write : outcome'[x] = IF x = w THEN s ELSE outcome[x]
    BY <1>a, <2>2 DEF TypeOK
  <2> HIDE DEF w
  <2>8. ASSUME NEW c \in Clears PROVE ClearHolds(c)'
    <3>1. IsPutOk(Head(toClient), c) => covers[c] \cap ToSet(Line') = {}
      <4>1. ASSUME c = w, NEW x \in covers[c], x \in ToSet(Line') PROVE FALSE
        <5>1. Before(Line, c, x) /\ x \in Points
          BY <1>a, <2>4, <4>1 DEF TypeOK
        <5> QED
          BY <4>1, <5>1 DEF Known, LineOrder, Behind
      <4> QED
        BY <2>5, <4>1
    <3>2. outcome'[c] # outcome[c] => IsPutOk(Head(toClient), c) \/ outcome'[c] # "ok"
      BY <1>a, <2>5, <2>7
    <3>3. outcome[c] = "ok" => outcome'[c] = "ok"
      BY <1>a, <2>6, <2>7
    <3> QED
      BY <1>a, <2>1, <2>4, <2>5, <3>1, <3>2, <3>3, ClearReads DEF Confirmed
  <2>9. \A p \in Points : SaveHolds(p)'
    BY <1>a, <1>c, <2>5, <2>7
  <2> QED
    BY <2>8, <2>9 DEF Confirmed
<1> QED
  BY <1>1, <1>2, <1>3 DEF ClientReceives

(* What the server sends is a push, an answer, or both in this order.      *)
LEMMA Pushes ==
  ASSUME TypeOK, server' \in SUBSET Points
  PROVE  LET q == toClient \o Push(server')
         IN  /\ q = toClient \/ q = Append(toClient, [type |-> "data", points |-> server'])
             /\ q \in Seq(Message)
<1>1. toClient \in Seq(Message) /\ [type |-> "data", points |-> server'] \in Message
  BY MessageType DEF TypeOK
<1>2. CASE watching /\ server' # server
  BY <1>1, <1>2, OneMore DEF Push
<1>3. CASE ~(watching /\ server' # server)
  <2>1. Push(server') = <<>>
    BY <1>3 DEF Push
  <2>2. toClient \o <<>> = toClient
    BY <1>1
  <2> QED
    BY <1>1, <2>1, <2>2
<1> QED
  BY <1>2, <1>3

LEMMA AcceptedSends ==
  ASSUME TypeOK, server' \in SUBSET Points, NEW w,
         NEW q, q = toClient \/ q = Append(toClient, [type |-> "data", points |-> server']),
         NEW m \in Message, toClient' = q \/ toClient' = Append(q, m),
         UNCHANGED outcome
  PROVE  Accepted(w)' => Accepted(w) \/ IsPutOk(m, w)
<1> DEFINE d == [type |-> "data", points |-> server']
<1>1. toClient \in Seq(Message) /\ d \in Message /\ ~IsPutOk(d, w)
  BY MessageType DEF TypeOK, IsPutOk
<1>2. Append(toClient, d) \in Seq(Message)
  BY <1>1, OneMore
<1> HIDE DEF d
<1>3. \A i \in DOMAIN Append(toClient, d) :
        \/ i \in DOMAIN toClient /\ Append(toClient, d)[i] = toClient[i]
        \/ Append(toClient, d)[i] = d
  BY <1>1, AppendIs
<1>4. q \in Seq(Message) /\ \A i \in DOMAIN q : IsPutOk(q[i], w) => Accepted(w)
  BY <1>1, <1>2, <1>3 DEF Accepted, d
<1>5. \A i \in DOMAIN Append(q, m) : IsPutOk(Append(q, m)[i], w) => Accepted(w) \/ IsPutOk(m, w)
  BY <1>4, AppendIs
<1> QED
  BY <1>4, <1>5 DEF Accepted

(* The server answers without storing anything.                            *)
LEMMA AnsweringConfirms ==
  ASSUME Known, Confirmed, UNCHANGED <<server, covers, taken, client, outcome>>,
         NEW q, q = toClient \/ q = Append(toClient, [type |-> "data", points |-> server']),
         NEW m \in Message, ~IsData(m), \A w \in Write : ~IsPutOk(m, w),
         toClient' = q \/ toClient' = Append(q, m)
  PROVE  Confirmed'
<1>1. TypeOK /\ server' \in SUBSET Points /\ Points \subseteq Write /\ Clears \subseteq Write
  BY DEF Known, Ordered, TypeOK, Write
<1>2. ASSUME NEW c \in Clears PROVE ClearHolds(c)'
  <2>1. ClearHolds(c) /\ ~IsPutOk(m, c)
    BY <1>1 DEF Confirmed
  <2>2. Accepted(c) => covers[c] \cap server' = {}
    BY <2>1 DEF ClearHolds
  <2> QED
    BY <1>1, <2>1, <2>2, ClearSends DEF client
<1>3. ASSUME NEW p \in Points PROVE SaveHolds(p)'
  <2>1. Accepted(p)' => Accepted(p)
    BY <1>1, AcceptedSends
  <2>2. Uncleared(p)' => Uncleared(p)
    BY DEF Uncleared
  <2> QED
    BY <2>1, <2>2, SaveKept DEF Confirmed
<1> QED
  BY <1>2, <1>3 DEF Confirmed

(* The server stores a write of this device, and says so.                  *)
LEMMA AcceptingConfirms ==
  ASSUME Known, Confirmed, ServerAccepts
  PROVE  Confirmed'
<1> DEFINE h == Head(toServer)
           q == toClient \o Push(server')
           m == [type |-> "put", write |-> h, status |-> "ok"]
<1>1. /\ toServer # <<>> /\ h \in Write /\ server' = Stored(h, server) /\ toClient' = q \o <<m>>
      /\ UNCHANGED <<calls, pending, listen, serverCache, watching, taken, outcome, covers>>
  BY DEF ServerAccepts, client, history
<1>2. /\ TypeOK /\ Followed /\ Pushing /\ LineOrder /\ Own /\ WritesWaitOnce
      /\ toClient \in Seq(Message) /\ server \in SUBSET Points
      /\ Points \subseteq Write /\ Clears \subseteq Write /\ Points \cap Clears = {}
  BY WritesAssumption DEF Known, Ordered, TypeOK, Write
<1>3. /\ connection = "on" /\ h \in ToSet(Line) /\ h \in taken \ Elsewhere
      /\ "observe" \notin ToSet(toServer)
      /\ \A w \in Write : w \in ToSet(BackOf(toClient)) => Before(Line, w, h)
  BY <1>1, Taken
<1>4. server' \in SUBSET Points
  BY <1>1, <1>2, StoredType
<1>5. (q = toClient \/ q = Append(toClient, [type |-> "data", points |-> server'])) /\ q \in Seq(Message)
  BY <1>2, <1>4, Pushes
<1>6. m \in Message /\ ~IsData(m) /\ \A x : IsPutOk(m, x) => x = h
  BY <1>1, StatusesAssumption, MessageType DEF IsData, IsPutOk
<1>7. ~watching => q = toClient
  <2>1. ~watching => Push(server') = <<>>
    BY DEF Push
  <2>2. toClient \o <<>> = toClient
    BY <1>2
  <2> QED
    BY <2>1, <2>2
<1>8. h \in Clears /\ watching /\ listen # "off" => Brings(q, serverCache, {})
  <2>1. h \in Clears => server' = {}
    BY <1>1 DEF Stored
  <2>2. watching /\ listen # "off" => Brings(q, serverCache, server')
    BY <1>2, <1>4, StoredIsPushed
  <2> QED
    BY <2>1, <2>2
<1>x. m = [type |-> "put", write |-> h, status |-> "ok"]
  OBVIOUS
<1> HIDE DEF m, q
<1>9. toClient' = Append(q, m)
  BY <1>1, <1>5, <1>6, OneMore
<1> HIDE DEF h
<1>10. ASSUME NEW w \in Write, NEW i \in DOMAIN toClient, IsPutOk(toClient[i], w)
       PROVE  Before(Line, w, h)
  BY <1>3, <1>10, OnTheWay
<1>11. ASSUME NEW c \in Clears PROVE ClearHolds(c)'
  <2>1. ClearHolds(c)
    BY DEF Confirmed
  <2>2. Accepted(c) => covers[c] \cap server' = {}
    <3>1. CASE h \in Clears
      BY <1>1, <3>1 DEF Stored
    <3>2. ASSUME h \in Points, Accepted(c) PROVE covers[c] \cap server' = {}
      <4>1. server' = server \cup {h} /\ covers[c] \cap server = {}
        BY <1>1, <1>2, <2>1, <3>2 DEF Stored, ClearHolds
      <4>2. h \notin covers[c]
        <5>1. CASE outcome[c] = "ok"
          BY <1>3, <2>1, <5>1 DEF ClearHolds
        <5>2. ASSUME NEW i \in DOMAIN toClient, IsPutOk(toClient[i], c) PROVE h \notin covers[c]
          BY <1>2, <1>10, <3>2, <5>2 DEF LineOrder, Behind
        <5> QED
          BY <3>2, <5>1, <5>2 DEF Accepted
      <4> QED
        BY <4>1, <4>2
    <3> QED
      BY <1>1, <3>1, <3>2 DEF Write
  <2>3. ASSUME IsPutOk(m, c)
        PROVE  /\ server' = {}
               /\ listen # "off" => Brings(q, serverCache, {}) \/ \E i \in DOMAIN q : IsRefusal(q[i])
    <3>1. c = h /\ server' = {}
      BY <1>1, <1>6, <2>3 DEF Stored
    <3>2. ASSUME listen # "off", ~watching PROVE \E i \in DOMAIN q : IsRefusal(q[i])
      BY <1>2, <1>3, <1>7, <3>2 DEF Pushing
    <3> QED
      BY <1>8, <3>1, <3>2
  <2> QED
    BY <1>1, <1>4, <1>5, <1>6, <1>9, <2>1, <2>2, <2>3, ClearSends
<1>12. ASSUME NEW p \in Points PROVE SaveHolds(p)'
  <2>1. Accepted(p)' => Accepted(p) \/ IsPutOk(m, p)
    BY <1>1, <1>2, <1>4, <1>5, <1>6, <1>9, AcceptedSends
  <2>2. Uncleared(p)' => Uncleared(p)
    BY <1>1 DEF Uncleared
  <2>3. CASE h \in Points
    <3>1. server' = server \cup {h}
      BY <1>1, <1>2, <2>3 DEF Stored
    <3> QED
      BY <1>6, <2>1, <2>2, <3>1 DEF Confirmed, SaveHolds
  <2>4. CASE h \in Clears
    <3>1. ASSUME Accepted(p), Uncleared(p) PROVE FALSE
      <4>1. p \notin covers[h]
        BY <1>3, <2>4, <3>1 DEF Uncleared
      <4>2. CASE outcome[p] = "ok"
        <5>1. p \in taken /\ p \notin Elsewhere
          BY <1>2, <4>2 DEF WritesWaitOnce, Own
        <5>2. p \in ToSet(Line)
          BY <1>2, <1>3, <2>4, <4>1, <5>1 DEF LineOrder, Behind
        <5>3. p \in ToSet(calls) \cup ToSet(pending)
          BY <1>2, <5>2, LineIs
        <5> QED
          BY <1>2, <4>2, <5>3 DEF WritesWaitOnce
      <4>3. ASSUME NEW i \in DOMAIN toClient, IsPutOk(toClient[i], p) PROVE FALSE
        BY <1>2, <1>10, <2>4, <4>1, <4>3 DEF LineOrder, Behind
      <4> QED
        BY <3>1, <4>2, <4>3 DEF Accepted
    <3>2. ~IsPutOk(m, p)
      BY <1>2, <1>6, <2>4
    <3> QED
      BY <2>1, <2>2, <3>1, <3>2 DEF SaveHolds
  <2> QED
    BY <1>1, <2>3, <2>4 DEF Write
<1> QED
  BY <1>11, <1>12 DEF Confirmed

LEMMA ServingConfirms ==
  ASSUME Known, Confirmed, ServerServes
  PROVE  Confirmed'
<1>a. TypeOK /\ toClient \in Seq(Message) /\ server \in SUBSET Points
  BY DEF Known, Ordered, TypeOK
<1>1. CASE ServerAuthenticates
  <2>1. /\ [type |-> "auth"] \in Message /\ ~IsData([type |-> "auth"])
        /\ \A w \in Write : ~IsPutOk([type |-> "auth"], w)
    BY DEF Message, IsData, IsPutOk
  <2> QED
    BY <1>1, <2>1, AnsweringConfirms DEF ServerAuthenticates, history
<1>2. CASE ServerListens
  <2>1. PICK s \in Statuses :
           toClient' = toClient
            \o (IF s = "ok" THEN <<[type |-> "data", points |-> server]>> ELSE <<>>)
            \o <<[type |-> "listen", status |-> s]>>
    BY <1>2 DEF ServerListens
  <2>2. UNCHANGED <<server, covers, taken, client, outcome>>
    BY <1>2 DEF ServerListens, history
  <2> DEFINE m == [type |-> "listen", status |-> s]
             d == [type |-> "data", points |-> server]
  <2>3. m \in Message /\ ~IsData(m) /\ (\A w \in Write : ~IsPutOk(m, w)) /\ d \in Message
    BY <1>a, MessageType DEF IsData, IsPutOk
  <2>4. CASE s = "ok"
    <3>1. toClient \o <<d>> = Append(toClient, d) /\ Append(toClient, d) \in Seq(Message)
      BY <1>a, <2>3, OneMore
    <3>2. toClient' = Append(toClient, d) \o <<m>>
      BY <2>1, <2>4, <3>1
    <3>3. d = [type |-> "data", points |-> server']
      BY <2>2
    <3> HIDE DEF m, d
    <3>4. toClient' = Append(Append(toClient, d), m)
      BY <2>3, <3>1, <3>2, OneMore
    <3> QED
      BY <2>2, <2>3, <3>3, <3>4, AnsweringConfirms
  <2>5. CASE s # "ok"
    <3>1. toClient \o <<>> = toClient
      BY <1>a
    <3>2. toClient' = toClient \o <<m>>
      BY <2>1, <2>5, <3>1
    <3> HIDE DEF m, d
    <3>3. toClient' = Append(toClient, m)
      BY <1>a, <2>3, <3>2, OneMore
    <3> QED
      BY <2>2, <2>3, <3>3, AnsweringConfirms
  <2> QED
    BY <2>4, <2>5
<1>3. CASE ServerAccepts
  BY <1>3, AcceptingConfirms
<1>4. CASE ServerRefuses
  <2> DEFINE m == [type |-> "put", write |-> Head(toServer), status |-> "denied"]
  <2>1. m \in Message /\ ~IsData(m) /\ \A w \in Write : ~IsPutOk(m, w)
    BY <1>4, MessageType DEF ServerRefuses, IsData, IsPutOk
  <2>2. toClient' = Append(toClient, m) /\ UNCHANGED <<server, covers, taken, client, outcome>>
    BY <1>4 DEF ServerRefuses, history
  <2> HIDE DEF m
  <2> QED
    BY <2>1, <2>2, AnsweringConfirms
<1> QED
  BY <1>1, <1>2, <1>3, <1>4 DEF ServerServes

(* A write that is issued is not accepted yet, and no clear covers it.     *)
LEMMA FreshWrite ==
  ASSUME Known, NEW w, Issue(w)
  PROVE  /\ w \in Write \ taken /\ taken' = taken \cup {w} /\ outcome' = outcome
         /\ \A c \in Clears : covers'[c] = IF c = w THEN taken \cap Points ELSE covers[c]
         /\ \A c \in Clears : w \notin covers[c]
         /\ ~Accepted(w)
<1>1. TypeOK /\ WritesWaitOnce /\ LineOrder
  BY DEF Known, Ordered
<1>2. /\ w \in Write \ taken /\ taken' = taken \cup {w} /\ outcome' = outcome
      /\ \A c \in Clears : covers'[c] = IF c = w THEN taken \cap Points ELSE covers[c]
  BY <1>1, Issued
<1>3. ~Accepted(w)
  <2>1. outcome[w] = "none"
    BY <1>1, <1>2 DEF WritesWaitOnce
  <2>2. \A i \in DOMAIN toClient : ~IsPutOk(toClient[i], w)
    BY <1>2, OnTheWay
  <2> QED
    BY <2>1, <2>2 DEF Accepted
<1> QED
  BY <1>1, <1>2, <1>3 DEF LineOrder

LEMMA AppConfirms ==
  ASSUME Known, Confirmed, AppWrites
  PROVE  Confirmed'
<1>1. PICK w \in Write : CallWrite(w)
  BY DEF AppWrites
<1>2. /\ Issue(w) /\ calls' = Append(calls, w)
      /\ UNCHANGED <<pending, listen, serverCache, toClient, server>>
  BY <1>1 DEF AppWrites, CallWrite, wire
<1>3. /\ w \in Write \ taken /\ taken' = taken \cup {w} /\ outcome' = outcome
      /\ \A c \in Clears : covers'[c] = IF c = w THEN taken \cap Points ELSE covers[c]
      /\ \A c \in Clears : w \notin covers[c]
      /\ ~Accepted(w)
  BY <1>2, FreshWrite
<1>4. \A x : x \in ToSet(Line') => x = w \/ x \in ToSet(Line)
  <2>1. TypeOK /\ TypeOK'
    BY TypeStep DEF Known, Ordered, Next
  <2>2. calls \in Seq(Request) /\ calls' \in Seq(Request) /\ w \in Request /\ pending' \in Seq(Request)
    BY <2>1 DEF TypeOK, Request
  <2>3. ToSet(calls') = ToSet(calls) \cup {w}
    BY <1>2, <2>2, BeforeAppend
  <2>4. ToSet(Line') = ToSet(pending') \cup ToSet(calls')
    BY <2>2, BeforeConcat DEF Line
  <2>5. ToSet(Line) = ToSet(pending) \cup ToSet(calls)
    BY <2>1, LineIs
  <2> QED
    BY <1>2, <2>3, <2>4, <2>5
<1>5. ASSUME NEW c \in Clears PROVE ClearHolds(c)'
  <2>1. CASE c = w
    <3>1. ~Accepted(c)'
      BY <1>2, <1>3, <2>1 DEF Accepted
    <3> QED
      BY <3>1, NotAcceptedNext
  <2>2. CASE c # w
    <3>1. covers'[c] = covers[c] /\ \A x \in covers[c] : x \in ToSet(Line') => x \in ToSet(Line)
      BY <1>3, <1>4, <2>2
    <3> QED
      BY <1>2, <1>3, <3>1, ClearKept DEF Confirmed
  <2> QED
    BY <2>1, <2>2
<1>6. ASSUME NEW p \in Points PROVE SaveHolds(p)'
  <2>1. Accepted(p)' => Accepted(p)
    BY <1>2, <1>3 DEF Accepted
  <2>2. Uncleared(p)' => Uncleared(p)
    BY <1>3 DEF Uncleared
  <2> QED
    BY <1>2, <2>1, <2>2, SaveKept DEF Confirmed
<1> QED
  BY <1>5, <1>6 DEF Confirmed

LEMMA OthersConfirm ==
  ASSUME Known, Confirmed, OtherDeviceWrites
  PROVE  Confirmed'
<1>1. PICK w \in Elsewhere :
        /\ Issue(w) /\ server' = Stored(w, server) /\ toClient' = toClient \o Push(server')
        /\ UNCHANGED client
  BY DEF OtherDeviceWrites
<1> DEFINE q == toClient \o Push(server')
           m == [type |-> "auth"]
<1>2. /\ w \in Write \ taken /\ taken' = taken \cup {w} /\ outcome' = outcome
      /\ \A c \in Clears : covers'[c] = IF c = w THEN taken \cap Points ELSE covers[c]
      /\ \A c \in Clears : w \notin covers[c]
      /\ ~Accepted(w)
  BY <1>1, FreshWrite
<1>3. TypeOK /\ server \in SUBSET Points /\ server' \in SUBSET Points /\ Points \cap Clears = {}
  BY <1>1, <1>2, StoredType, WritesAssumption DEF Known, Ordered, TypeOK
<1>4. q = toClient \/ q = Append(toClient, [type |-> "data", points |-> server'])
  BY <1>3, Pushes
<1>5. m \in Message /\ ~IsData(m) /\ (\A x : ~IsPutOk(m, x)) /\ toClient' = q
  BY <1>1 DEF Message, IsData, IsPutOk
<1> HIDE DEF m, q
<1>6. ASSUME NEW x PROVE Accepted(x)' => Accepted(x)
  BY <1>2, <1>3, <1>4, <1>5, AcceptedSends
<1>7. ASSUME NEW c \in Clears PROVE ClearHolds(c)'
  <2>1. CASE c = w
    <3>1. ~Accepted(c)'
      BY <1>2, <1>6, <2>1
    <3> QED
      BY <3>1, NotAcceptedNext
  <2>2. CASE c # w
    <3>1. ClearHolds(c) /\ covers'[c] = covers[c] /\ w \notin covers[c]
      BY <1>2, <2>2 DEF Confirmed
    <3>2. Accepted(c) => covers[c] \cap server' = {}
      BY <1>1, <3>1 DEF Stored, ClearHolds
    <3> QED
      BY <1>1, <1>2, <1>3, <1>4, <1>5, <3>1, <3>2, ClearSends DEF client
  <2> QED
    BY <2>1, <2>2
<1>8. ASSUME NEW p \in Points PROVE SaveHolds(p)'
  <2>1. CASE w \in Clears
    <3>1. Accepted(p) => p \in taken
      <4>1. p \in Write /\ WritesWaitOnce
        BY DEF Known, Ordered, Write
      <4> QED
        BY <4>1, OnTheWay DEF Accepted, WritesWaitOnce
    <3>2. Accepted(p)' => ~Uncleared(p)'
      BY <1>2, <1>6, <2>1, <3>1 DEF Uncleared
    <3> QED
      BY <3>2 DEF SaveHolds
  <2>2. CASE w \notin Clears
    <3>1. Uncleared(p)' => Uncleared(p)
      BY <1>2, <2>2 DEF Uncleared
    <3>2. p \in server => p \in server'
      BY <1>1, <2>2 DEF Stored
    <3> QED
      BY <1>6, <3>1, <3>2, SaveKept DEF Confirmed
  <2> QED
    BY <2>1, <2>2
<1> QED
  BY <1>7, <1>8 DEF Confirmed

LEMMA ConfirmedStep == Known /\ Confirmed /\ [Next]_dbVars => Confirmed'
BY ClientConfirms, ReadingConfirms, ServingConfirms, AppConfirms, OthersConfirm
DEF Next, Service, ClientRuns

LEMMA KnownInit == Init => Known /\ Confirmed
<1> SUFFICES ASSUME Init PROVE Known /\ Confirmed
  OBVIOUS
<1>1. Ordered /\ Tracked
  BY OrderedInit, InitTracked
<1>2. /\ pending = <<>> /\ calls = <<"observe">> /\ listen = "off" /\ serverCache = {}
      /\ toClient = <<>> /\ server \in SUBSET Points /\ taken = server
      /\ outcome = [w \in Write |-> "none"] /\ covers = [c \in Clears |-> {}]
  BY DEF Init
<1>3. Line = <<"observe">>
  BY <1>2 DEF Line
<1>4. ToSet(Line) = {"observe"} /\ \A a, b : ~Before(Line, a, b)
  BY <1>3, BeforeSingle
<1>5. \A w \in Write : w \notin ToSet(Line)
  BY <1>4, Symbols
<1>6. Own /\ LineOrder
  BY <1>2, <1>4, <1>5, WritesAssumption DEF Own, LineOrder, Behind, Write
<1>7. Viewless /\ Pushing
  BY <1>2 DEF Viewless, Pushing
<1>8. \A w \in Write : ~Accepted(w)
  BY <1>2 DEF Accepted
<1>9. Confirmed
  BY <1>8, NotAccepted DEF Confirmed, SaveHolds, Write
<1> QED
  BY <1>1, <1>6, <1>7, <1>9 DEF Known, Tracked

LEMMA AlwaysConfirmed == Spec => [](Known /\ Confirmed)
BY KnownInit, KnownStep, ConfirmedStep, PTL DEF Spec

-----------------------------------------------------------------------------
(* A clear that was confirmed is final: what was issued before it is not   *)
(* on the server, not on its way there and not visible to the observer.    *)
THEOREM ClearsAreFinal == Spec => []ConfirmedClearIsFinal
<1>1. ASSUME Known, Confirmed PROVE ConfirmedClearIsFinal
  <2> SUFFICES ASSUME NEW c \in Clears, outcome[c] = "ok", NEW x \in covers[c],
                      x \in server \cup EventCache \cup ToSet(pending) \cup ToSet(toServer)
               PROVE  FALSE
    BY DEF ConfirmedClearIsFinal
  <2>1. TypeOK /\ WireOrder /\ x \in Points /\ x \in Write /\ toClient \in Seq(Message) /\ toServer \in Seq(Request)
    BY <1>1 DEF Known, Ordered, TypeOK, Write
  <2>2. x \notin server /\ x \notin serverCache /\ x \notin ToSet(Line)
    BY <1>1 DEF Confirmed, ClearHolds, Accepted
  <2>3. x \notin ToSet(pending)
    BY <2>1, <2>2, LineIs
  <2>4. x \notin ToSet(toServer)
    <3>1. x \notin ToSet(OnWire)
      BY <2>1, <2>3 DEF WireOrder, InStep
    <3> QED
      BY <2>1, <3>1, WireIs, TripIs
  <2>5. x \notin EventCache
    BY <2>2, <2>3 DEF EventCache, Overlay, ToSet
  <2> QED
    BY <2>2, <2>3, <2>4, <2>5
<1> QED
  BY <1>1, AlwaysConfirmed, PTL

(* A point whose save was confirmed stays stored until a clear that was    *)
(* issued after it: resending an earlier clear does not erase it.          *)
THEOREM SavesAreStored == Spec => []ConfirmedSaveIsStored
<1>1. Confirmed => ConfirmedSaveIsStored
  BY DEF Confirmed, SaveHolds, Uncleared, Accepted, ConfirmedSaveIsStored
<1> QED
  BY <1>1, AlwaysConfirmed, PTL

(* When nothing is under way, the observer sees what the server stores.    *)
THEOREM SettledViewIsRight == Spec => []SettledViewIsServer
<1>1. ASSUME Known, Settled PROVE EventCache = server
  <2>1. /\ connection = "on" /\ listen # "off" /\ toServer = <<>> /\ toClient = <<>> /\ TypeOK
    BY <1>1 DEF Settled, Known, Ordered
  <2>2. ToSet(toServer) = {} /\ ToSet(OnWire) = {}
    <3>1. OnWire = <<>>
      BY <2>1 DEF OnWire
    <3> QED
      BY <2>1, <3>1, BeforeNothing
  <2>3. watching
    BY <1>1, <2>1, <2>2 DEF Known, Pushing
  <2>4. serverCache = server
    BY <1>1, <2>1, <2>3 DEF Known, Followed, Brings
  <2>5. ToSet(pending) = {}
    BY <1>1, <2>1, <2>2 DEF Known, Ordered, WireOrder, InStep
  <2>6. DOMAIN pending = {}
    BY <2>5 DEF ToSet
  <2> QED
    BY <2>1, <2>4, <2>6 DEF EventCache, Overlay, TypeOK
<1> QED
  BY <1>1, AlwaysConfirmed, PTL DEF SettledViewIsServer


-----------------------------------------------------------------------------
(***************************************************************************)
(* Every step of the app is a step of the database client or leaves it     *)
(* alone, so that what is proved of the client under any app holds here.   *)
(***************************************************************************)
LEMMA DatabaseStep == [AppNext]_appVars => [Next]_dbVars
<1> SUFFICES ASSUME [AppNext]_appVars PROVE [Next]_dbVars
  OBVIOUS
<1>1. CASE User
  <2>1. ASSUME NEW w \in Write, Writes(w) PROVE AppWrites
    BY <2>1 DEF Writes, AppWrites
  <2>2. CASE ClearPointsTapped
    BY <2>1, <2>2 DEF ClearPointsTapped, Write, Next
  <2>3. CASE SaveTapped
    BY <2>1, <2>3 DEF SaveTapped, Write, Next
  <2>4. CASE ~ClearPointsTapped /\ ~SaveTapped
    BY <1>1, <2>4 DEF User, Touch, CancelTouch, AddNewPointTapped, SheetSwiped
  <2> QED
    BY <2>2, <2>3, <2>4
<1>2. CASE MainQueue
  <2>1. ASSUME NEW b, RunBlock(b) PROVE AppRunsBlock
    BY <2>1 DEF RunBlock, AppRunsBlock
  <2> QED
    BY <1>2, <2>1 DEF MainQueue, EntryPointAdded, EntryPointSaved, SaveUnheeded,
       ClearAnswered, Next
<1>3. CASE HudExpires \/ HudFades \/ SheetGone
  BY <1>3 DEF HudExpires, HudFades, SheetGone
<1>4. CASE Service \/ AppRelaunch
  BY <1>4 DEF AppRelaunch, Next
<1>5. CASE UNCHANGED appVars
  BY <1>5 DEF appVars
<1> QED
  BY <1>1, <1>2, <1>3, <1>4, <1>5 DEF AppNext

LEMMA UsesTheDatabase == AppSpec => Spec
<1>1. AppInit => Init
  BY DEF AppInit
<1> QED
  BY <1>1, DatabaseStep, PTL DEF AppSpec, Spec

-----------------------------------------------------------------------------
(***************************************************************************)
(* Types.                                                                  *)
(***************************************************************************)

LEMMA HudTypes ==
  ASSUME NEW h \in HudState, NEW what \in Contents
  PROVE  /\ Show(h, what) \in HudState /\ Flash(h, what) \in HudState
         /\ ShowProgress(h) \in HudState
         /\ Expire(h) \in HudState /\ FadeOut(h) \in HudState
         /\ Cover(h) \in HudState /\ Uncover(h) \in HudState
  BY DEF HudState, Contents, Show, Flash, ShowProgress, Expire, FadeOut, Cover, Uncover

(* What the app adds to the types of the database.                         *)
ScreensOK ==
  /\ entryPoints \in Seq(Points)
  /\ shouldHideData \in BOOLEAN
  /\ drawn \in Seq(Points)
  /\ sheet \in {"none", "up", "leaving"}
  /\ savers \in SUBSET Points
  /\ touches \in SUBSET (ChartControls \cup SheetControls)
  /\ hud \in HudState
  /\ rows \in Seq(Points)

LEMMA EmptyScreens == <<>> \in Seq(Points) /\ HiddenHud \in HudState
<1>1. <<>> \in Seq(Points)
  BY EmptySeq
<1>2. HiddenHud \in HudState
  BY DEF HiddenHud, HudState, Contents
<1> QED
  BY <1>1, <1>2

LEMMA ScreensInit == AppInit => ScreensOK
  BY EmptyScreens DEF AppInit, ScreensOK

LEMMA ScreensStep ==
  ASSUME ScreensOK, [AppNext]_appVars
  PROVE  ScreensOK'
<1> USE DEF ScreensOK
<1>1. ASSUME NEW what \in Contents
      PROVE  /\ Show(hud, what) \in HudState /\ Flash(hud, what) \in HudState
             /\ ShowProgress(hud) \in HudState
             /\ Expire(hud) \in HudState /\ FadeOut(hud) \in HudState
             /\ Cover(hud) \in HudState /\ Uncover(hud) \in HudState
  BY HudTypes
<1>2. {"none", "progress", "success", "error"} \subseteq Contents
  BY DEF Contents
<1>3. CASE \E c \in ChartControls \cup SheetControls : Touch(c) \/ CancelTouch(c)
  BY <1>3 DEF Touch, CancelTouch, Lift, chart
<1>4. CASE ClearPointsTapped
  BY <1>1, <1>2, <1>4, EmptyScreens DEF ClearPointsTapped, Lift, UpdateChartData, RunSql
<1>5. CASE AddNewPointTapped
  BY <1>1, <1>2, <1>5 DEF AddNewPointTapped, Lift, chart
<1>6. CASE SaveTapped
  BY <1>1, <1>2, <1>6 DEF SaveTapped, Lift, chart
<1>7. CASE SheetSwiped
  BY <1>7 DEF SheetSwiped, Leave, chart
<1>8. CASE EntryPointAdded
  <2>1. PICK p \in Points : /\ entryPoints' = Append(entryPoints, p)
                            /\ shouldHideData' = FALSE
                            /\ UpdateChartData
                            /\ UNCHANGED <<screen, rows>>
    BY <1>8 DEF EntryPointAdded, WithPoint
  <2>2. entryPoints' \in Seq(Points)
    BY <2>1, AppendProperties
  <2> QED
    BY <2>1, <2>2 DEF UpdateChartData, screen
<1>9. CASE EntryPointSaved
  <2>1. PICK p \in savers : /\ savers' = savers \ {p}
                            /\ RunSql(Append(rows, p))
                            /\ hud' = Flash(hud, "success")
                            /\ Leave
                            /\ UNCHANGED chart
    BY <1>9 DEF EntryPointSaved
  <2>2. rows' \in Seq(Points)
    BY <2>1, AppendProperties DEF RunSql
  <2> QED
    BY <1>1, <1>2, <2>1, <2>2 DEF Leave, chart
<1>10. CASE SaveUnheeded
  BY <1>10 DEF SaveUnheeded, chart
<1>11. CASE ClearAnswered
  <2>1. \A s \in Statuses : (IF Succeeded(s) THEN hud ELSE Flash(hud, "error")) \in HudState
    BY <1>1, <1>2
  <2>2. hud' \in HudState
    BY <1>11, <1>2, <2>1, HudTypes DEF ClearAnswered
  <2> QED
    BY <1>11, <2>2 DEF ClearAnswered, chart
<1>12. CASE HudExpires \/ HudFades \/ SheetGone
  BY <1>1, <1>2, <1>12 DEF HudExpires, HudFades, SheetGone, chart
<1>13. CASE Service /\ UNCHANGED <<chart, screen, rows>>
  BY <1>13 DEF chart, screen
<1>14. CASE AppRelaunch
  BY <1>14, EmptyScreens DEF AppRelaunch
<1>15. CASE UNCHANGED appVars
  BY <1>15 DEF appVars, chart, screen
<1> QED
  BY <1>3, <1>4, <1>5, <1>6, <1>7, <1>8, <1>9, <1>10, <1>11, <1>12, <1>13, <1>14,
     <1>15 DEF AppNext, User, MainQueue

(* Every variable of the app and of the database keeps its type.           *)
THEOREM AppTypeCorrect == AppSpec => []AppTypeOK
<1>1. AppSpec => []ScreensOK
  BY ScreensInit, ScreensStep, PTL DEF AppSpec
<1>2. AppSpec => []TypeOK
  BY UsesTheDatabase, TypeCorrect
<1>3. TypeOK /\ ScreensOK => AppTypeOK
  BY DEF ScreensOK, AppTypeOK
<1> QED
  BY <1>1, <1>2, <1>3, PTL

-----------------------------------------------------------------------------
(***************************************************************************)
(* The SQLite table.                                                       *)
(***************************************************************************)

(* RowsAreConfirmed is not inductive: an answer that is still to be run    *)
(* must not be for a point that already has its row.                       *)
RowsInv ==
  /\ RowsAreConfirmed
  /\ \A i \in AnswerBlocks : mainQ[i].write \notin ToSet(rows)

(* A step that leaves the table alone.                                     *)
LEMMA RowsKept ==
  ASSUME TypeOK, WritesWaitOnce, RowsInv, [Next]_dbVars, ToSet(rows') \subseteq ToSet(rows),
         IsInjective(rows) => IsInjective(rows')
  PROVE  RowsInv'
<1>1. CASE AnswerArrives
  <2>1. PICK w \in Write, s \in Statuses :
          /\ outcome[w] = "none" /\ outcome' = [outcome EXCEPT ![w] = s]
          /\ \E k \in DOMAIN mainQ' :
               /\ k \notin AnswerBlocks
               /\ AnswerBlocks' = AnswerBlocks \cup {k}
               /\ mainQ'[k] = [block |-> "answer", write |-> w, status |-> s]
               /\ \A i \in AnswerBlocks : mainQ'[i] = mainQ[i]
    BY <1>1 DEF AnswerArrives
  <2>2. w \notin ToSet(rows)
    BY <2>1 DEF RowsInv, RowsAreConfirmed
  <2>3. \A i \in AnswerBlocks' : mainQ'[i].write \notin ToSet(rows')
    BY <2>1, <2>2 DEF RowsInv
  <2>4. \A p \in ToSet(rows') : outcome'[p] = "ok"
    BY <2>1, <2>2 DEF TypeOK, RowsInv, RowsAreConfirmed
  <2> QED
    BY <2>3, <2>4 DEF RowsInv, RowsAreConfirmed
<1>2. CASE AnswersWait
  BY <1>2 DEF AnswersWait, RowsInv, RowsAreConfirmed
<1>3. CASE TakeBlock /\ outcome' = outcome
  BY <1>3, TakenBlock DEF RowsInv, RowsAreConfirmed
<1>4. CASE AnswerBlocks' = {} /\ outcome' = outcome
  BY <1>4 DEF RowsInv, RowsAreConfirmed
<1> QED
  BY <1>1, <1>2, <1>3, <1>4, AnswersMove

LEMMA RowsStep ==
  ASSUME TypeOK, ScreensOK, WritesWaitOnce, HeardOnce, RowsInv, [AppNext]_appVars
  PROVE  RowsInv'
<1>1. CASE EntryPointSaved
  <2>1. PICK p \in savers, s \in Statuses :
          /\ s = "ok"
          /\ TakeBlock /\ Head(mainQ) = Answer(p, s)
          /\ RunSql(Append(rows, p))
          /\ UNCHANGED history
    BY <1>1 DEF EntryPointSaved, RunBlock, Succeeded
  <2>2. /\ p \in Points /\ rows \in Seq(Points) /\ mainQ[1] = Answer(p, s)
        /\ 1 \in AnswerBlocks
    <3>1. p \in Points /\ rows \in Seq(Points)
      BY DEF ScreensOK
    <3>2. 1 \in DOMAIN mainQ /\ mainQ[1] = Answer(p, s)
      BY <2>1, TakenBlock
    <3> QED
      BY <3>1, <3>2 DEF AnswerBlocks, Answer
  <2>3. outcome[p] = "ok" /\ p \notin ToSet(rows) /\ outcome' = outcome
    BY <2>1, <2>2 DEF HeardOnce, RowsInv, Answer, history
  <2>4. /\ ToSet(rows') \subseteq ToSet(rows) \cup {p} /\ IsInjective(rows')
    <3>1. IsInjective(rows)
      BY DEF RowsInv, RowsAreConfirmed
    <3>2. /\ ToSet(Append(rows, p)) = ToSet(rows) \cup {p}
          /\ IsInjective(Append(rows, p))
      BY <2>2, <2>3, <3>1, AppendElements
    <3>3. rows' = Append(rows, p) \/ rows' = rows
      BY <2>1 DEF RunSql
    <3> QED
      BY <3>1, <3>2, <3>3
  <2>5. \A i \in AnswerBlocks' : mainQ'[i].write # p /\ mainQ'[i].write \notin ToSet(rows)
    <3> SUFFICES ASSUME NEW i \in AnswerBlocks'
                 PROVE  mainQ'[i].write # p /\ mainQ'[i].write \notin ToSet(rows)
      OBVIOUS
    <3>1. i + 1 \in AnswerBlocks /\ i + 1 # 1 /\ mainQ'[i] = mainQ[i + 1]
      BY <2>1, TakenBlock
    <3>2. mainQ[i + 1].write # mainQ[1].write
      BY <2>2, <3>1 DEF HeardOnce
    <3> QED
      BY <2>2, <3>1, <3>2 DEF RowsInv, Answer
  <2> QED
    BY <2>3, <2>4, <2>5 DEF RowsInv, RowsAreConfirmed
<1>2. CASE ClearPointsTapped
  <2>1. rows' = <<>> \/ rows' = rows
    BY <1>2 DEF ClearPointsTapped, RunSql
  <2>2. ToSet(<<>>) = {} /\ IsInjective(<<>>)
    BY DEF ToSet, IsInjective
  <2> QED
    BY <2>1, <2>2, DatabaseStep, RowsKept
<1>3. CASE rows' = rows
  BY <1>3, DatabaseStep, RowsKept
<1>4. EntryPointSaved \/ ClearPointsTapped \/ rows' = rows
  BY DEF AppNext, User, MainQueue, Touch, CancelTouch, AddNewPointTapped,
     SaveTapped, SheetSwiped, EntryPointAdded, SaveUnheeded, ClearAnswered,
     HudExpires, HudFades, SheetGone, AppRelaunch, appVars
<1> QED
  BY <1>1, <1>2, <1>3, <1>4

LEMMA AlwaysRows == AppSpec => []RowsInv
<1>1. AppSpec => [](TypeOK /\ WritesWaitOnce /\ HeardOnce)
  BY UsesTheDatabase, TypeCorrect, WaitingOnce, BlocksAreHeardOnce, PTL
<1>2. AppSpec => []ScreensOK
  BY ScreensInit, ScreensStep, PTL DEF AppSpec
<1>3. AppInit => RowsInv
  <2>1. ToSet(<<>>) = {} /\ IsInjective(<<>>)
    BY DEF ToSet, IsInjective
  <2> QED
    BY <2>1 DEF AppInit, Init, RowsInv, RowsAreConfirmed, AnswerBlocks
<1> QED
  BY <1>1, <1>2, <1>3, RowsStep, PTL DEF AppSpec

(* Every row of the table is a point whose save the server confirmed, and  *)
(* no point has two rows: whatever the user touches, whichever statements  *)
(* fail, however often the connection is lost or the process dies.         *)
THEOREM RowsAreAlwaysConfirmed == AppSpec => []RowsAreConfirmed
<1>1. RowsInv => RowsAreConfirmed
  BY DEF RowsInv
<1> QED
  BY <1>1, AlwaysRows, PTL

-----------------------------------------------------------------------------
(***************************************************************************)
(* The events.                                                             *)
(***************************************************************************)

(* What Raise leaves on the main queue.                                    *)
LEMMA RaisedSet ==
  ASSUME TypeOK, NEW answers \in Seq(MainBlock), Raise(answers)
  PROVE  /\ ToSet(mainQ) \subseteq ToSet(mainQ') /\ ToSet(answers) \subseteq ToSet(mainQ')
         /\ \A p \in EventCache' \ EventCache : ChildAdded(p) \in ToSet(mainQ')
         /\ \A b \in ToSet(mainQ') : \/ b \in ToSet(mainQ) \/ b \in ToSet(answers)
                                     \/ \E p \in EventCache' \ EventCache : b = ChildAdded(p)
<1> DEFINE New == EventCache' \ EventCache
           L == Len(mainQ)
<1>1. PICK n \in Nat : \E f \in Bijection(1..n, New) :
           /\ DOMAIN mainQ' = 1..(L + n + Len(answers))
           /\ \A k \in 1..L : mainQ'[k] = mainQ[k]
           /\ \A k \in 1..n : mainQ'[L + k] = ChildAdded(f[k])
           /\ \A k \in 1..Len(answers) : mainQ'[L + n + k] = answers[k]
  BY EventCachePrimeType, RaisedBlocks DEF TypeOK
<1>2. PICK f \in Bijection(1..n, New) :
           /\ DOMAIN mainQ' = 1..(L + n + Len(answers))
           /\ \A k \in 1..L : mainQ'[k] = mainQ[k]
           /\ \A k \in 1..n : mainQ'[L + k] = ChildAdded(f[k])
           /\ \A k \in 1..Len(answers) : mainQ'[L + n + k] = answers[k]
  BY <1>1
<1> HIDE DEF New, L
<1>3. /\ f \in [1..n -> New] /\ \A p \in New : \E k \in 1..n : f[k] = p
  BY <1>2 DEF Bijection, Injection, Surjection
<1>4. /\ L \in Nat /\ Len(answers) \in Nat /\ DOMAIN mainQ = 1..L /\ DOMAIN answers = 1..Len(answers)
  BY LenProperties DEF TypeOK, L
<1>5. /\ \A k \in 1..L : k \in DOMAIN mainQ'
      /\ \A k \in 1..n : L + k \in DOMAIN mainQ'
      /\ \A k \in 1..Len(answers) : L + n + k \in DOMAIN mainQ'
  BY <1>2, <1>4
<1>6. ASSUME NEW i \in DOMAIN mainQ'
      PROVE  \/ i \in 1..L
             \/ \E k \in 1..n : i = L + k
             \/ \E k \in 1..Len(answers) : i = L + n + k
  <2>1. CASE i <= L
    BY <1>2, <1>4, <1>6, <2>1
  <2>2. CASE i > L /\ i <= L + n
    <3>1. i - L \in 1..n /\ i = L + (i - L)
      BY <1>2, <1>4, <1>6, <2>2
    <3> QED
      BY <3>1
  <2>3. CASE i > L + n
    <3>1. i - (L + n) \in 1..Len(answers) /\ i = L + n + (i - (L + n))
      BY <1>2, <1>4, <1>6, <2>3
    <3> QED
      BY <3>1
  <2> QED
    BY <1>2, <1>4, <1>6, <2>1, <2>2, <2>3
<1>7. ToSet(mainQ) \subseteq ToSet(mainQ') /\ ToSet(answers) \subseteq ToSet(mainQ')
  BY <1>2, <1>4, <1>5 DEF ToSet
<1>8. \A p \in New : ChildAdded(p) \in ToSet(mainQ')
  BY <1>2, <1>3, <1>5 DEF ToSet
<1>9. ASSUME NEW b \in ToSet(mainQ')
      PROVE  b \in ToSet(mainQ) \/ b \in ToSet(answers) \/ \E p \in New : b = ChildAdded(p)
  <2>1. PICK i \in DOMAIN mainQ' : b = mainQ'[i]
    BY <1>9 DEF ToSet
  <2>2. CASE i \in 1..L
    BY <1>2, <1>4, <2>1, <2>2 DEF ToSet
  <2>3. CASE \E k \in 1..n : i = L + k
    BY <1>2, <1>3, <2>1, <2>3
  <2>4. CASE \E k \in 1..Len(answers) : i = L + n + k
    BY <1>2, <1>4, <2>1, <2>4 DEF ToSet
  <2> QED
    BY <1>6, <2>2, <2>3, <2>4
<1> QED
  BY <1>7, <1>8, <1>9 DEF New

(* The steps that raise events, and those after which the observer sees    *)
(* what it saw.                                                            *)
Raises ==
  \/ Raise(<<>>)
  \/ \E w \in Write, s \in Statuses : Raise(<<[block |-> "answer", write |-> w, status |-> s]>>)

LEMMA RaisesSet ==
  ASSUME TypeOK, Raises
  PROVE  \E A : /\ \A b \in A : b.block = "answer"
                /\ A \cup ToSet(mainQ) \subseteq ToSet(mainQ')
                /\ \A p \in EventCache' \ EventCache : ChildAdded(p) \in ToSet(mainQ')
                /\ \A b \in ToSet(mainQ') : \/ b \in ToSet(mainQ) \cup A
                                            \/ \E p \in EventCache' \ EventCache : b = ChildAdded(p)
<1>1. \E a \in Seq(MainBlock) : Raise(a) /\ \A b \in ToSet(a) : b.block = "answer"
  <2>1. CASE Raise(<<>>)
    <3>1. <<>> \in Seq(MainBlock) /\ ToSet(<<>>) = {}
      BY BeforeNothing
    <3> QED
      BY <2>1, <3>1
  <2>2. ASSUME NEW w \in Write, NEW s \in Statuses, Raise(<<[block |-> "answer", write |-> w, status |-> s]>>)
        PROVE  \E a \in Seq(MainBlock) : Raise(a) /\ \A b \in ToSet(a) : b.block = "answer"
    <3> DEFINE b0 == [block |-> "answer", write |-> w, status |-> s]
    <3>1. b0 \in MainBlock /\ b0.block = "answer"
      BY StatusesAssumption DEF MainBlock
    <3>2. Raise(<<b0>>)
      BY <2>2
    <3> HIDE DEF b0
    <3>3. <<b0>> \in Seq(MainBlock) /\ ToSet(<<b0>>) = {b0}
      BY <3>1, BeforeSingle
    <3> QED
      BY <3>1, <3>2, <3>3
  <2> QED
    BY <2>1, <2>2 DEF Raises
<1>2. PICK a \in Seq(MainBlock) : Raise(a) /\ \A b \in ToSet(a) : b.block = "answer"
  BY <1>1
<1> QED
  BY <1>2, RaisedSet

LEMMA SeenOrRaised ==
  ASSUME TypeOK, [Next]_dbVars
  PROVE  \/ Raises
         \/ EventCache' = EventCache /\ (mainQ' = mainQ \/ TakeBlock)
         \/ Relaunch
<1>1. CASE RunObserve \/ RunWrite \/ ReceiveData \/ ReceiveListenAnswer
  BY <1>1 DEF RunObserve, RunWrite, ReceiveData, ReceiveListenAnswer, Raises
<1>2. CASE ReceivePutAnswer
  <2>1. \A i \in DOMAIN pending : pending[i] \in Write
    BY DEF TypeOK
  <2> QED
    BY <1>2, <2>1 DEF ReceivePutAnswer, Raises
<1>3. CASE Disconnect
  BY <1>3 DEF Disconnect, EventCache, TypeOK
<1>4. CASE AppRunsBlock
  BY <1>4 DEF AppRunsBlock, EventCache, client
<1>5. CASE UNCHANGED <<listen, serverCache, pending, mainQ>>
  BY <1>5 DEF EventCache
<1> QED
  BY <1>1, <1>2, <1>3, <1>4, <1>5 DEF Next, Service, ClientRuns, Connect,
     ClientReceives, ReceiveAuthAnswer, Receive, ServerServes, ServerAuthenticates, ServerListens,
     ServerAccepts, ServerRefuses, OtherDeviceWrites, AppWrites, AppRunsBlock, dbVars, client

LEMMA BlockTaken ==
  ASSUME TypeOK, TakeBlock
  PROVE  ToSet(mainQ) = {Head(mainQ)} \cup ToSet(mainQ') /\ Head(mainQ) \in MainBlock
<1>1. mainQ \in Seq(MainBlock) /\ mainQ # <<>> /\ mainQ' = Tail(mainQ)
  BY DEF TypeOK, TakeBlock
<1> QED
  BY <1>1, BeforeTail

(* What a step of the app does to the chart.                               *)
LEMMA ChartSteps ==
  ASSUME [AppNext]_appVars
  PROVE  \/ Service /\ UNCHANGED chart
         \/ ClearPointsTapped
         \/ EntryPointAdded
         \/ AppRelaunch
         \/ /\ UNCHANGED chart /\ (\E w \in Points : Writes(w)) /\ SaveTapped
         \/ /\ UNCHANGED chart /\ UNCHANGED client
            /\ TakeBlock /\ UNCHANGED <<client, wire, server, history>> /\ \A p : Head(mainQ) # ChildAdded(p)
         \/ UNCHANGED chart /\ UNCHANGED dbVars
<1>1. CASE EntryPointSaved \/ SaveUnheeded \/ ClearAnswered
  BY <1>1 DEF EntryPointSaved, SaveUnheeded, ClearAnswered, RunBlock, Answer, ChildAdded
<1>2. CASE SaveTapped
  BY <1>2 DEF SaveTapped
<1> QED
  BY <1>1, <1>2 DEF AppNext, User, MainQueue, Touch, CancelTouch, AddNewPointTapped, SheetSwiped,
     HudExpires, HudFades, SheetGone, appVars

LEMMA CallAppended ==
  ASSUME TypeOK, NEW w \in Write, calls' = Append(calls, w)
  PROVE  ToSet(calls') = ToSet(calls) \cup {w}
<1>1. calls \in Seq(Request) /\ w \in Request
  BY DEF TypeOK, Request
<1> QED
  BY <1>1, BeforeAppend

LEMMA ServiceRaises ==
  ASSUME TypeOK, Service PROVE Raises \/ mainQ' = mainQ
<1>1. CASE RunObserve \/ RunWrite \/ ReceiveData \/ ReceiveListenAnswer
  BY <1>1 DEF RunObserve, RunWrite, ReceiveData, ReceiveListenAnswer, Raises
<1>2. CASE ReceivePutAnswer
  <2>1. \A i \in DOMAIN pending : pending[i] \in Write
    BY DEF TypeOK
  <2> QED
    BY <1>2, <2>1 DEF ReceivePutAnswer, Raises
<1> QED
  BY <1>1, <1>2 DEF Service, ClientRuns, Connect, Disconnect, ClientReceives, ReceiveAuthAnswer,
     ServerServes, ServerAuthenticates, ServerListens, ServerAccepts, ServerRefuses, OtherDeviceWrites

(* A call leaves the app's calls when the client runs it.                  *)
LEMMA ClearsWaitOrHide ==
  ASSUME TypeOK, [Next]_dbVars, ~Relaunch, NEW c \in Clears, c \in ToSet(calls), c \notin ToSet(calls')
  PROVE  EventCache' = {}
<1>1. RunObserve \/ RunWrite
  <2>1. ASSUME AppWrites PROVE ToSet(calls) \subseteq ToSet(calls')
    <3>1. PICK w \in Write : calls' = Append(calls, w)
      BY <2>1 DEF AppWrites, CallWrite
    <3> QED
      BY <3>1, CallAppended
  <2> QED
    BY <2>1 DEF Next, Service, ClientRuns, Connect, Disconnect, ClientReceives, ReceiveAuthAnswer,
     ReceiveData, ReceiveListenAnswer, ReceivePutAnswer, Receive, ServerServes, ServerAuthenticates,
     ServerListens, ServerAccepts, ServerRefuses, OtherDeviceWrites, AppRunsBlock, dbVars, client
<1>2. calls # <<>> /\ calls' = Tail(calls) /\ calls \in Seq(Request) /\ pending \in Seq(Write)
  BY <1>1 DEF RunObserve, RunWrite, TypeOK
<1>3. c = Head(calls)
  BY <1>2, BeforeTail
<1>4. c # "observe" /\ c \in Write
  BY WritesAssumption DEF Write
<1>5. pending' = Append(pending, c)
  BY <1>1, <1>3, <1>4 DEF RunObserve, RunWrite
<1>6. /\ Len(pending) + 1 \in DOMAIN pending' /\ pending'[Len(pending) + 1] = c
      /\ \A i \in DOMAIN pending' : i # Len(pending) + 1 => Len(pending) + 1 > i
  BY <1>2, <1>4, <1>5
<1>7. ASSUME NEW p \in Points PROVE p \notin Overlay(serverCache', pending')
  <2>1. p # c
    BY WritesAssumption
  <2>2. ~(\A i \in DOMAIN pending' : pending'[i] \notin Clears)
    BY <1>6
  <2>3. ASSUME NEW i \in DOMAIN pending', pending'[i] = p PROVE \E j \in DOMAIN pending' : j > i /\ pending'[j] \in Clears
    BY <1>6, <2>1, <2>3
  <2> QED
    BY <2>2, <2>3 DEF Overlay
<1>8. EventCache' \subseteq Points
  BY EventCachePrimeType
<1> QED
  BY <1>7, <1>8 DEF EventCache

(* The list of points, and what the chart shows, miss nothing the client   *)
(* holds.                                                                  *)
ListMissesNothing ==
  \A p \in EventCache :
    \/ p \in ToSet(entryPoints)
    \/ Queued(p)
    \/ \E c \in Clears : c \in ToSet(calls)

ListIsDrawn == drawn = entryPoints

LEMMA AlwaysDrawn == AppSpec => []ListIsDrawn
<1>1. AppInit => ListIsDrawn
  BY DEF AppInit, ListIsDrawn
<1>2. ListIsDrawn /\ [AppNext]_appVars => ListIsDrawn'
  <2> SUFFICES ASSUME ListIsDrawn, [AppNext]_appVars PROVE ListIsDrawn'
    OBVIOUS
  <2>1. CASE ClearPointsTapped \/ EntryPointAdded
    BY <2>1 DEF ClearPointsTapped, EntryPointAdded, UpdateChartData, ListIsDrawn
  <2>2. CASE AppRelaunch
    BY <2>2 DEF AppRelaunch, ListIsDrawn
  <2>3. CASE UNCHANGED chart
    BY <2>3 DEF chart, ListIsDrawn
  <2>4. \/ ClearPointsTapped \/ EntryPointAdded \/ AppRelaunch
        \/ UNCHANGED chart
    BY DEF AppNext, User, MainQueue, Touch, CancelTouch, AddNewPointTapped,
       SaveTapped, SheetSwiped, EntryPointSaved, SaveUnheeded, ClearAnswered,
       HudExpires, HudFades, SheetGone, appVars
  <2> QED
    BY <2>1, <2>2, <2>3, <2>4
<1> QED
  BY <1>1, <1>2, PTL DEF AppSpec

-----------------------------------------------------------------------------
LEMMA MissesNothingStep ==
  ASSUME TypeOK, ScreensOK, ListMissesNothing, [AppNext]_appVars
  PROVE  ListMissesNothing'
<1>a. [Next]_dbVars
  BY DatabaseStep
<1> SUFFICES ASSUME NEW p \in EventCache'
             PROVE  \/ p \in ToSet(entryPoints') \/ ChildAdded(p) \in ToSet(mainQ')
                    \/ \E c \in Clears : c \in ToSet(calls')
  BY DEF ListMissesNothing, Queued
<1>b. ASSUME p \in EventCache, UNCHANGED calls, ToSet(entryPoints) \subseteq ToSet(entryPoints'),
             Queued(p) => ChildAdded(p) \in ToSet(mainQ') \/ p \in ToSet(entryPoints')
      PROVE  \/ p \in ToSet(entryPoints') \/ ChildAdded(p) \in ToSet(mainQ')
             \/ \E c \in Clears : c \in ToSet(calls')
  BY <1>b DEF ListMissesNothing
<1>1. CASE Service /\ UNCHANGED chart
  <2>1. CASE p \notin EventCache
    <3>1. Raises \/ Relaunch
      BY <1>a, <2>1, SeenOrRaised
    <3>2. ~Relaunch
      BY DEF Relaunch, EventCache
    <3> QED
      BY <2>1, <3>1, <3>2, RaisesSet
  <2>2. CASE p \in EventCache
    <3>1. ToSet(mainQ) \subseteq ToSet(mainQ')
      BY <1>1, ServiceRaises, RaisesSet
    <3>2. ~Relaunch
      BY DEF Relaunch, EventCache
    <3>3. \A c \in Clears : c \in ToSet(calls) => c \in ToSet(calls')
      BY <1>a, <3>2, ClearsWaitOrHide
    <3> QED
      BY <1>1, <2>2, <3>1, <3>3 DEF ListMissesNothing, Queued, chart
  <2> QED
    BY <2>1, <2>2
<1>2. CASE ClearPointsTapped
  <2>1. PICK c \in Clears : calls' = Append(calls, c)
    BY <1>2 DEF ClearPointsTapped, Writes, CallWrite
  <2>2. c \in ToSet(calls')
    BY <2>1, CallAppended DEF Write
  <2> QED
    BY <2>2
<1>3. CASE EntryPointAdded
  <2>1. PICK x \in Points : /\ TakeBlock /\ Head(mainQ) = ChildAdded(x) /\ UNCHANGED client
                            /\ entryPoints' = Append(entryPoints, x)
    BY <1>3 DEF EntryPointAdded, RunBlock, WithPoint
  <2>2. ToSet(mainQ) = {ChildAdded(x)} \cup ToSet(mainQ')
    BY <2>1, BlockTaken
  <2>3. ToSet(entryPoints') = ToSet(entryPoints) \cup {x}
    BY <2>1, BeforeAppend DEF ScreensOK
  <2>4. ChildAdded(p) = ChildAdded(x) => p = x
    BY DEF ChildAdded
  <2>5. p \in EventCache /\ UNCHANGED calls
    BY <2>1 DEF EventCache, client
  <2> QED
    BY <1>b, <2>2, <2>3, <2>4, <2>5 DEF Queued
<1>4. CASE AppRelaunch
  BY <1>4 DEF AppRelaunch, Relaunch, EventCache
<1>5. CASE UNCHANGED chart /\ (\E w \in Points : Writes(w)) /\ SaveTapped
  <2>1. PICK w \in Points : calls' = Append(calls, w) /\ UNCHANGED <<pending, listen, serverCache, mainQ>>
    BY <1>5 DEF Writes, CallWrite
  <2>2. ToSet(calls) \subseteq ToSet(calls')
    BY <2>1, CallAppended DEF Write
  <2>3. p \in EventCache
    BY <2>1 DEF EventCache
  <2> QED
    BY <1>5, <2>1, <2>2, <2>3 DEF ListMissesNothing, Queued, chart
<1>6. CASE /\ UNCHANGED chart /\ UNCHANGED client
           /\ TakeBlock /\ UNCHANGED <<client, wire, server, history>> /\ \A x : Head(mainQ) # ChildAdded(x)
  <2>1. ToSet(mainQ) = {Head(mainQ)} \cup ToSet(mainQ')
    BY <1>6, BlockTaken
  <2>2. p \in EventCache /\ UNCHANGED calls
    BY <1>6 DEF EventCache, client
  <2> QED
    BY <1>6, <1>b, <2>1, <2>2 DEF Queued, chart
<1>7. CASE UNCHANGED chart /\ UNCHANGED dbVars
  BY <1>7, <1>b DEF EventCache, dbVars, client, chart, Queued
<1> QED
  BY <1>1, <1>2, <1>3, <1>4, <1>5, <1>6, <1>7, ChartSteps

(* Every point the client holds is drawn, or its event waits, or a clear   *)
(* that the chart has already applied is about to hide it: no child is     *)
(* lost between FSyncTree and the screen.                                  *)
THEOREM NothingIsMissed == AppSpec => []ChartMissesNothing
<1>1. AppInit => ListMissesNothing
  BY DEF AppInit, Init, ListMissesNothing, EventCache
<1>2. AppSpec => [](TypeOK /\ ScreensOK)
  BY UsesTheDatabase, TypeCorrect, ScreensInit, ScreensStep, PTL DEF AppSpec
<1>3. AppSpec => []ListMissesNothing
  BY <1>1, <1>2, MissesNothingStep, PTL DEF AppSpec
<1>4. ListMissesNothing /\ ListIsDrawn => ChartMissesNothing
  BY DEF ListMissesNothing, ListIsDrawn, ChartMissesNothing
<1> QED
  BY <1>3, <1>4, AlwaysDrawn, PTL
-----------------------------------------------------------------------------
(***************************************************************************)
(* The operations of this device the app has not heard the end of.         *)
(***************************************************************************)

Waits(w) == w \in ToSet(calls) \cup ToSet(pending)
HasAnswer(w) == \E s \in Statuses : Answer(w, s) \in ToSet(mainQ)

LEMMA OutstandingIs ==
  /\ Outstanding = {w \in Write \ Elsewhere : Waits(w) \/ HasAnswer(w)}
  /\ Outstanding' = {w \in Write \ Elsewhere : Waits(w)' \/ HasAnswer(w)'}
BY DEF Outstanding, Waits, HasAnswer

(* Events are no answers.                                                  *)
LEMMA EventsAnswerNothing ==
  ASSUME TypeOK, Raise(<<>>)
  PROVE  \A w : HasAnswer(w)' <=> HasAnswer(w)
<1>1. <<>> \in Seq(MainBlock) /\ ToSet(<<>>) = {}
  BY BeforeNothing
<1>2. \A w, s, p : Answer(w, s) # ChildAdded(p)
  BY DEF Answer, ChildAdded
<1> QED
  BY <1>1, <1>2, RaisedSet DEF HasAnswer

(* The client, the wire and the server move a write from the app's calls   *)
(* to the pending writes and from there to the main queue, and lose none.  *)
LEMMA ServiceKeeps ==
  ASSUME Ordered, Service
  PROVE  Outstanding' = Outstanding
<1>1. TypeOK /\ calls \in Seq(Request) /\ pending \in Seq(Write)
  BY DEF Ordered, TypeOK
<1> SUFFICES ASSUME NEW w \in Write
             PROVE  Waits(w)' \/ HasAnswer(w)' <=> Waits(w) \/ HasAnswer(w)
  BY OutstandingIs
<1>2. CASE RunObserve
  <2>1. calls # <<>> /\ Head(calls) = "observe" /\ calls' = Tail(calls) /\ Raise(<<>>) /\ pending' = pending
    BY <1>2 DEF RunObserve
  <2>2. ToSet(calls) = {"observe"} \cup ToSet(calls')
    BY <1>1, <2>1, BeforeTail
  <2> QED
    BY <1>1, <2>1, <2>2, EventsAnswerNothing, Symbols DEF Waits
<1>3. CASE RunWrite
  <2>1. /\ calls # <<>> /\ Head(calls) \in Write /\ calls' = Tail(calls) /\ Raise(<<>>)
        /\ pending' = Append(pending, Head(calls))
    BY <1>3 DEF RunWrite
  <2>2. ToSet(calls) = {Head(calls)} \cup ToSet(calls') /\ ToSet(pending') = ToSet(pending) \cup {Head(calls)}
    BY <1>1, <2>1, BeforeTail, BeforeAppend
  <2> QED
    BY <1>1, <2>1, <2>2, EventsAnswerNothing DEF Waits
<1>4. CASE ReceiveData \/ ReceiveListenAnswer
  <2>1. Raise(<<>>) /\ pending' = pending /\ calls' = calls
    BY <1>4 DEF ReceiveData, ReceiveListenAnswer, Receive
  <2> QED
    BY <1>1, <2>1, EventsAnswerNothing DEF Waits
<1>5. CASE ReceivePutAnswer
  <2>1. pending # <<>> /\ pending' = Tail(pending) /\ calls' = calls
    BY <1>5, ReadPut DEF ReceivePutAnswer, Receive
  <2>2. ToSet(pending) = {Head(pending)} \cup ToSet(pending') /\ Head(pending) \in Write
    BY <1>1, <2>1, BeforeTail
  <2>3. PICK i \in DOMAIN pending, s \in Statuses :
          /\ pending[i] \in Write /\ Head(toClient) = [type |-> "put", write |-> pending[i], status |-> s]
          /\ Raise(<<[block |-> "answer", write |-> pending[i], status |-> s]>>)
    BY <1>1, <1>5 DEF ReceivePutAnswer, Receive
  <2>4. pending[i] = Head(pending)
    BY <1>5, <2>3, ReadPut
  <2>5. PICK h \in Write : h = Head(pending)
    BY <2>2
  <2>6. PICK b : b = Answer(h, s)
    OBVIOUS
  <2>7. /\ b \in MainBlock /\ Raise(<<b>>) /\ \A v, t : Answer(v, t) = b => v = h
        /\ \A v, t, p : Answer(v, t) # ChildAdded(p)
    BY <2>3, <2>4, <2>5, <2>6, StatusesAssumption DEF MainBlock, Answer, ChildAdded
  <2>8. PICK a \in Seq(MainBlock) : Raise(a) /\ ToSet(a) = {b}
    <3>1. <<b>> \in Seq(MainBlock) /\ ToSet(<<b>>) = {b}
      BY <2>7, BeforeSingle
    <3> QED
      BY <2>7, <3>1
  <2>9. /\ ToSet(mainQ) \subseteq ToSet(mainQ') /\ b \in ToSet(mainQ')
        /\ \A v, t : Answer(v, t) \in ToSet(mainQ') => Answer(v, t) \in ToSet(mainQ) \/ Answer(v, t) = b
    BY <1>1, <2>7, <2>8, RaisedSet
  <2>10. HasAnswer(h)' /\ (\A v : HasAnswer(v) => HasAnswer(v)') /\ \A v : HasAnswer(v)' => HasAnswer(v) \/ v = h
    BY <2>3, <2>6, <2>7, <2>9 DEF HasAnswer
  <2>11. Waits(w) <=> Waits(w)' \/ w = h
    BY <2>1, <2>2, <2>5 DEF Waits
  <2> QED
    BY <2>10, <2>11
<1>6. CASE UNCHANGED <<calls, pending, mainQ>>
  BY <1>6 DEF Waits, HasAnswer
<1> QED
  BY <1>2, <1>3, <1>4, <1>5, <1>6 DEF Service, ClientRuns, Connect, Disconnect, ClientReceives,
     ReceiveAuthAnswer, Receive, ServerServes, ServerAuthenticates, ServerListens, ServerAccepts,
     ServerRefuses, OtherDeviceWrites, client

(* The app's own steps.                                                    *)
LEMMA WriteIsOutstanding ==
  ASSUME TypeOK, NEW w, Writes(w)
  PROVE  w \in Write \ Elsewhere /\ w \notin taken /\ Outstanding' = Outstanding \cup {w}
<1>1. /\ w \in Write \ Elsewhere /\ w \notin taken /\ calls' = Append(calls, w)
      /\ pending' = pending /\ mainQ' = mainQ
  BY DEF Writes, CallWrite, Issue
<1>2. ToSet(calls') = ToSet(calls) \cup {w}
  BY <1>1, CallAppended
<1>3. \A v : HasAnswer(v)' <=> HasAnswer(v)
  BY <1>1 DEF HasAnswer
<1>4. \A v : Waits(v)' <=> Waits(v) \/ v = w
  BY <1>1, <1>2 DEF Waits
<1> QED
  BY <1>1, <1>3, <1>4, OutstandingIs

LEMMA EventIsNoAnswer ==
  ASSUME TypeOK, NEW p, RunBlock(ChildAdded(p))
  PROVE  Outstanding' = Outstanding
<1>1. TakeBlock /\ Head(mainQ) = ChildAdded(p) /\ UNCHANGED <<calls, pending>>
  BY DEF RunBlock, client
<1>2. ToSet(mainQ) = {ChildAdded(p)} \cup ToSet(mainQ')
  BY <1>1, BlockTaken
<1>3. \A v, s : Answer(v, s) # ChildAdded(p)
  BY DEF Answer, ChildAdded
<1>4. \A v : (HasAnswer(v)' <=> HasAnswer(v)) /\ (Waits(v)' <=> Waits(v))
  BY <1>1, <1>2, <1>3 DEF HasAnswer, Waits
<1> QED
  BY <1>4, OutstandingIs

(* A completion block is the last that is heard of its write.              *)
LEMMA AnswerIsTheEnd ==
  ASSUME TypeOK, WritesWaitOnce, HeardOnce, Own, NEW w \in Write, NEW s \in Statuses, RunBlock(Answer(w, s))
  PROVE  /\ w \in Outstanding /\ Outstanding' = Outstanding \ {w} /\ outcome[w] = s
<1>1. TakeBlock /\ Head(mainQ) = Answer(w, s) /\ UNCHANGED <<calls, pending, history>>
  BY DEF RunBlock, client
<1>2. ToSet(mainQ) = {Answer(w, s)} \cup ToSet(mainQ')
  BY <1>1, BlockTaken
<1>3. 1 \in DOMAIN mainQ /\ mainQ[1] = Answer(w, s) /\ 1 \in AnswerBlocks
  BY <1>1, TakenBlock DEF AnswerBlocks, Answer
<1>4. outcome[w] = s /\ s # "none"
  BY <1>3, StatusesAssumption DEF HeardOnce, Answer
<1>5. w \notin Elsewhere
  BY <1>4 DEF Own
<1>6. ~Waits(w)' /\ HasAnswer(w)
  BY <1>1, <1>2, <1>4 DEF Waits, WritesWaitOnce, HasAnswer
<1>7. ASSUME NEW t \in Statuses, Answer(w, t) \in ToSet(mainQ') PROVE FALSE
  <2>1. PICK i \in DOMAIN mainQ' : mainQ'[i] = Answer(w, t)
    BY <1>7 DEF ToSet
  <2>2. i \in AnswerBlocks'
    BY <2>1 DEF AnswerBlocks, Answer
  <2>3. i + 1 \in AnswerBlocks /\ i + 1 # 1 /\ mainQ[i + 1] = Answer(w, t)
    BY <1>1, <2>1, <2>2, TakenBlock
  <2> QED
    BY <1>3, <2>3 DEF HeardOnce, Answer
<1>8. ~HasAnswer(w)'
  BY <1>7 DEF HasAnswer
<1>9. ASSUME NEW v, v # w PROVE (HasAnswer(v)' <=> HasAnswer(v)) /\ (Waits(v)' <=> Waits(v))
  <2>1. \A t : Answer(v, t) # Answer(w, s)
    BY <1>9 DEF Answer
  <2> QED
    BY <1>1, <1>2, <2>1 DEF HasAnswer, Waits
<1> QED
  BY <1>4, <1>5, <1>6, <1>8, <1>9, OutstandingIs

LEMMA NothingOutstanding ==
  ASSUME Relaunch PROVE Outstanding' = {}
<1>1. calls' = <<"observe">> /\ pending' = <<>> /\ mainQ' = <<>>
  BY DEF Relaunch
<1>2. ToSet(calls') = {"observe"} /\ ToSet(pending') = {} /\ ToSet(mainQ') = {}
  BY <1>1, BeforeNothing, BeforeSingle
<1>3. \A w \in Write : ~Waits(w)' /\ ~HasAnswer(w)'
  BY <1>2, Symbols DEF Waits, HasAnswer
<1> QED
  BY <1>3, OutstandingIs

-----------------------------------------------------------------------------
(***************************************************************************)
(* The HUD with one finger.                                                *)
(***************************************************************************)

(* HudSerialises is not inductive: a touch must not outlive the arrival of *)
(* the HUD, the HUD must not be covered by the sheet, and a message that   *)
(* is about to go must be the last of its operation.                       *)
OneTouch == \A a, b \in touches : a = b
HudInv ==
  /\ OneTouch /\ (touches # {} => ~hud.shown)
  /\ "save" \in touches => sheet = "up"
  /\ hud.timer \/ hud.fading => hud.shown
  /\ ~(hud.timer /\ hud.fading) /\ ~hud.covered
  /\ Outstanding # {} =>
       /\ hud.shown /\ hud.content = "progress" /\ ~hud.timer /\ ~hud.fading
       /\ \A v, w \in Outstanding : v = w

LEMMA LiftedOne ==
  ASSUME OneTouch, NEW c, Lift(c) PROVE c \in touches /\ touches' = {}
BY DEF OneTouch, Lift

(* What the operations of the HUD do to its fields.                        *)
LEMMA HudFields ==
  ASSUME NEW h \in HudState, NEW what \in Contents
  PROVE  /\ Flash(h, what).shown /\ Flash(h, what).timer /\ Flash(h, what).fading = h.fading
         /\ Flash(h, what).covered = (h.shown /\ h.covered)
         /\ ShowProgress(h).shown /\ ShowProgress(h).content = "progress"
         /\ ShowProgress(h).timer = h.timer /\ ShowProgress(h).fading = h.fading
         /\ ShowProgress(h).covered = (h.shown /\ h.covered)
         /\ Expire(h).shown = h.shown /\ ~Expire(h).timer /\ Expire(h).fading = h.shown
         /\ Expire(h).covered = h.covered
         /\ ~FadeOut(h).shown /\ ~FadeOut(h).fading /\ ~FadeOut(h).covered /\ FadeOut(h).timer = h.timer
         /\ Cover(h).shown = h.shown /\ Cover(h).timer = h.timer /\ Cover(h).fading = h.fading
         /\ Cover(h).covered = h.shown /\ Cover(h).content = h.content
         /\ Uncover(h).shown = h.shown /\ Uncover(h).timer = h.timer /\ Uncover(h).fading = h.fading
         /\ ~Uncover(h).covered /\ Uncover(h).content = h.content
BY DEF HudState, Contents, Show, Flash, ShowProgress, Expire, FadeOut, Cover, Uncover

LEMMA HudStep ==
  ASSUME Fingers = 1, Known, HeardOnce, ScreensOK, HudInv, [AppNext]_appVars
  PROVE  HudInv'
<1>1. /\ TypeOK /\ WritesWaitOnce /\ Own /\ hud \in HudState /\ Ordered
      /\ {"none", "progress", "success", "error"} \subseteq Contents
  BY DEF Known, Ordered, ScreensOK, Contents
<1>2. ASSUME NEW c \in ChartControls \cup SheetControls, Touch(c) PROVE HudInv'
  <2>1. IsFiniteSet(touches) /\ Cardinality(touches) \in Nat
    <3>1. touches \in SUBSET {"clear", "add", "save", "swipe"}
      BY DEF ScreensOK, ChartControls, SheetControls
    <3>2. IsFiniteSet({"clear", "add", "save", "swipe"})
      <4>1. /\ IsFiniteSet({"clear"}) /\ IsFiniteSet({"add"})
            /\ IsFiniteSet({"save"}) /\ IsFiniteSet({"swipe"})
        BY FS_Singleton
      <4>2. IsFiniteSet({"clear"} \cup {"add"}) /\ IsFiniteSet({"save"} \cup {"swipe"})
        BY <4>1, FS_Union
      <4>3. IsFiniteSet(({"clear"} \cup {"add"}) \cup ({"save"} \cup {"swipe"}))
        BY <4>2, FS_Union
      <4>4. {"clear", "add", "save", "swipe"} = ({"clear"} \cup {"add"}) \cup ({"save"} \cup {"swipe"})
        OBVIOUS
      <4> QED
        BY <4>3, <4>4
    <3> QED
      BY <3>1, <3>2, FS_Subset, FS_CardinalityType
  <2>2. touches = {}
    BY <1>2, <2>1, FS_EmptySet DEF Touch
  <2>3. touches' = {c} /\ ~hud.shown /\ UNCHANGED <<sheet, hud>> /\ (c = "save" => sheet = "up")
    BY <1>2, <2>2 DEF Touch, HudInv, Blocks, ChartControls, SheetControls
  <2>4. Outstanding' = Outstanding
    BY <1>2 DEF Touch, Outstanding, dbVars, client
  <2> QED
    BY <2>3, <2>4 DEF HudInv, OneTouch
<1>3. ASSUME NEW c, CancelTouch(c) PROVE HudInv'
  <2>1. touches' = {} /\ UNCHANGED <<sheet, hud>> /\ Outstanding' = Outstanding
    BY <1>3, LiftedOne DEF CancelTouch, Outstanding, dbVars, client, HudInv
  <2> QED
    BY <2>1 DEF HudInv, OneTouch
<1>4. ASSUME NEW c, NEW w, Lift(c), Writes(w), hud' = ShowProgress(hud) PROVE HudInv'
  <2>1. touches' = {} /\ ~hud.shown
    BY <1>4, LiftedOne DEF HudInv
  <2>2. Outstanding = {} /\ ~hud.timer /\ ~hud.fading
    BY <2>1 DEF HudInv
  <2>3. Outstanding' = {w}
    BY <1>1, <1>4, <2>2, WriteIsOutstanding
  <2> QED
    BY <1>1, <1>4, <2>1, <2>2, <2>3, HudFields DEF HudInv, OneTouch
<1>5. CASE AddNewPointTapped
  <2>1. touches' = {} /\ ~hud.shown
    BY <1>5, LiftedOne DEF HudInv, AddNewPointTapped
  <2>2. Outstanding' = Outstanding
    BY <1>5 DEF AddNewPointTapped, Outstanding, dbVars, client
  <2>3. hud' = Cover(hud) \/ hud' = hud
    BY <1>5 DEF AddNewPointTapped
  <2> QED
    BY <1>1, <2>1, <2>2, <2>3, HudFields DEF HudInv, OneTouch
<1>6. CASE SheetSwiped
  <2>1. touches' = {} /\ hud' = hud
    BY <1>6 DEF SheetSwiped, Leave, HudInv, OneTouch, SheetControls
  <2>2. Outstanding' = Outstanding
    BY <1>6 DEF SheetSwiped, Outstanding, dbVars, client
  <2> QED
    BY <2>1, <2>2 DEF HudInv, OneTouch
<1>7. CASE EntryPointAdded
  <2>1. Outstanding' = Outstanding
    BY <1>1, <1>7, EventIsNoAnswer DEF EntryPointAdded
  <2> QED
    BY <1>7, <2>1 DEF EntryPointAdded, screen, HudInv, OneTouch
<1>8. ASSUME NEW w \in Write, NEW s \in Statuses, RunBlock(Answer(w, s)),
             touches' \subseteq touches,
             \/ UNCHANGED <<hud, sheet>>
             \/ \E h \in HudState : h.fading = hud.fading /\ ~h.covered /\ hud' = Flash(h, "success")
      PROVE  HudInv'
  <2>1. w \in Outstanding /\ Outstanding' = Outstanding \ {w}
    BY <1>1, <1>8, AnswerIsTheEnd
  <2>2. Outstanding = {w} /\ hud.shown /\ ~hud.timer /\ ~hud.fading /\ touches = {}
    BY <2>1 DEF HudInv
  <2>a. Outstanding' = {} /\ touches' = {}
    BY <1>8, <2>1, <2>2
  <2>3. CASE UNCHANGED <<hud, sheet>>
    BY <2>a, <2>3 DEF HudInv, OneTouch
  <2>4. ASSUME NEW h \in HudState, h.fading = hud.fading, ~h.covered, hud' = Flash(h, "success") PROVE HudInv'
    <3>1. "success" \in Contents
      BY <1>1
    <3>2. /\ Flash(h, "success").shown /\ Flash(h, "success").timer
          /\ Flash(h, "success").fading = h.fading
          /\ Flash(h, "success").covered = (h.shown /\ h.covered)
      BY <2>4, <3>1, HudFields
    <3> QED
      BY <2>2, <2>a, <2>4, <3>2 DEF HudInv, OneTouch
  <2> QED
    BY <1>8, <2>3, <2>4
<1>9. CASE EntryPointSaved
  <2>1. PICK p \in savers, s \in Statuses : RunBlock(Answer(p, s)) /\ hud' = Flash(hud, "success") /\ Leave
    BY <1>9 DEF EntryPointSaved
  <2>2. p \in Write /\ touches' \subseteq touches
    BY <2>1 DEF ScreensOK, Write, Leave
  <2> QED
    BY <1>1, <1>8, <2>1, <2>2 DEF HudInv
<1>10. CASE SaveUnheeded
  <2>1. PICK p \in Points, s \in Statuses : RunBlock(Answer(p, s)) /\ UNCHANGED <<touches, hud, sheet>>
    BY <1>10 DEF SaveUnheeded
  <2> QED
    BY <1>8, <2>1 DEF Write
<1>11. CASE ClearAnswered
  <2>1. PICK c \in Clears, s \in Statuses :
          /\ RunBlock(Answer(c, s)) /\ UNCHANGED <<sheet, touches>>
          /\ hud' = Flash(IF Succeeded(s) THEN hud ELSE Flash(hud, "error"), "success")
    BY <1>11 DEF ClearAnswered
  <2>2. PICK h : h = IF Succeeded(s) THEN hud ELSE Flash(hud, "error")
    OBVIOUS
  <2>3. h \in HudState /\ h.fading = hud.fading /\ ~h.covered /\ hud' = Flash(h, "success")
    <3>1. "error" \in Contents
      BY <1>1
    <3>2. /\ Flash(hud, "error").fading = hud.fading
          /\ Flash(hud, "error").covered = (hud.shown /\ hud.covered)
          /\ Flash(hud, "error") \in HudState
      BY <1>1, <3>1, HudFields, HudTypes
    <3>3. ~hud.covered
      BY DEF HudInv
    <3> QED
      BY <1>1, <2>1, <2>2, <3>2, <3>3
  <2> QED
    BY <1>8, <2>1, <2>3 DEF Write
<1>12. CASE HudExpires \/ HudFades \/ SheetGone
  <2>1. Outstanding' = Outstanding /\ touches' = touches
    BY <1>12 DEF HudExpires, HudFades, SheetGone, Outstanding, dbVars, client
  <2>2. CASE HudExpires
    BY <1>1, <2>1, <2>2, HudFields DEF HudExpires, MayExpire, HudInv, OneTouch
  <2>3. CASE HudFades
    BY <1>1, <2>1, <2>3, HudFields DEF HudFades, HudInv, OneTouch
  <2>4. CASE SheetGone
    BY <1>1, <2>1, <2>4, HudFields DEF SheetGone, HudInv, OneTouch
  <2> QED
    BY <1>12, <2>2, <2>3, <2>4
<1>13. CASE Service /\ UNCHANGED <<chart, screen, rows>>
  BY <1>1, <1>13, ServiceKeeps DEF screen, HudInv, OneTouch
<1>14. CASE AppRelaunch
  <2>1. Outstanding' = {} /\ touches' = {} /\ hud' = HiddenHud
    BY <1>14, NothingOutstanding DEF AppRelaunch
  <2> QED
    BY <2>1 DEF HudInv, OneTouch, HiddenHud
<1>15. CASE UNCHANGED appVars
  BY <1>15 DEF appVars, screen, dbVars, client, HudInv, OneTouch, Outstanding
<1>16. CASE ClearPointsTapped \/ SaveTapped
  BY <1>4, <1>16 DEF ClearPointsTapped, SaveTapped
<1> QED
  BY <1>2, <1>3, <1>5, <1>6, <1>7, <1>9, <1>10, <1>11, <1>12, <1>13, <1>14, <1>15, <1>16
  DEF AppNext, User, MainQueue

LEMMA HudInit == AppInit => HudInv
<1> SUFFICES ASSUME AppInit PROVE HudInv
  OBVIOUS
<1>1. touches = {} /\ hud = HiddenHud /\ calls = <<"observe">> /\ pending = <<>> /\ mainQ = <<>>
  BY DEF AppInit, Init
<1>2. ToSet(calls) = {"observe"} /\ ToSet(pending) = {} /\ ToSet(mainQ) = {}
  BY <1>1, BeforeNothing, BeforeSingle
<1>3. Outstanding = {}
  BY <1>2, Symbols DEF Outstanding
<1> QED
  BY <1>1, <1>3 DEF HudInv, OneTouch, HiddenHud

LEMMA AlwaysKnown == AppSpec => [](Known /\ Confirmed /\ HeardOnce /\ ScreensOK)
BY UsesTheDatabase, AlwaysConfirmed, BlocksAreHeardOnce, ScreensInit, ScreensStep, PTL
DEF AppSpec

LEMMA HudAlways == ASSUME Fingers = 1 PROVE AppSpec => []HudInv
<1>1. Known /\ HeardOnce /\ ScreensOK /\ HudInv /\ [AppNext]_appVars => HudInv'
  BY HudStep
<1> QED
  BY <1>1, HudInit, AlwaysKnown, PTL DEF AppSpec

(* With one finger the HUD is a lock: one operation of this device at a    *)
(* time, and the HUD stays up until the operation is answered.             *)
THEOREM TheHudIsALock == ASSUME Fingers = 1 PROVE AppSpec => []HudSerialises
<1>1. HudInv => HudSerialises
  <2> SUFFICES ASSUME HudInv, Outstanding # {} PROVE Cardinality(Outstanding) = 1
    BY DEF HudInv, HudSerialises, Blocks
  <2>1. PICK w : Outstanding = {w}
    BY DEF HudInv
  <2> QED
    BY <2>1, FS_Singleton
<1> QED
  BY <1>1, HudAlways, PTL

-----------------------------------------------------------------------------
(***************************************************************************)
(* The two stores with one finger, when the statements of SQLCommands do   *)
(* not fail.                                                               *)
(***************************************************************************)

OwnClears == (Clears \cap taken) \ Elsewhere

(* RowsFollowClears is not inductive: a save that is still on its way to   *)
(* its row must not have been cleared meanwhile, either.                   *)
FollowInv == \A c \in OwnClears : (ToSet(rows) \cup Outstanding) \cap covers[c] = {}

(* StoresAgree says what is left once nothing is under way; meanwhile, a   *)
(* save of this installation that was confirmed is still to be heard of,   *)
(* or has its row, or was cleared; what is to be heard of has its sheet.   *)
StoresInv ==
  /\ \A p \in Points \cap Outstanding : p \in savers /\ sheet = "up"
  /\ deaths = 0 => \A c \in OwnClears : outcome[c] = "none" => c \in Outstanding
  /\ deaths = 0 => \A p \in Points : outcome[p] = "ok" =>
       p \in Outstanding \cup ToSet(rows) \/ \E c \in OwnClears : p \in covers[c]

LEMMA FirstClear ==
  ASSUME Known, NEW c \in Clears, Writes(c)
  PROVE  /\ OwnClears' = OwnClears \cup {c}
         /\ covers'[c] = taken \cap Points
         /\ \A d \in OwnClears : covers'[d] = covers[d]
         /\ UNCHANGED <<outcome, deaths>>
<1>1. Issue(c) /\ c \notin Elsewhere /\ UNCHANGED deaths
  BY DEF Writes, CallWrite, wire
<1> QED
  BY <1>1, Issued DEF OwnClears, Known, Ordered

LEMMA FirstSave ==
  ASSUME Known, NEW p \in Points, Writes(p)
  PROVE  /\ OwnClears' = OwnClears /\ covers' = covers /\ UNCHANGED <<outcome, deaths>>
         /\ \A c \in Clears : p \notin covers[c]
<1>1. Issue(p) /\ p \notin taken /\ p \in Write /\ UNCHANGED deaths
  BY DEF Writes, CallWrite, Issue, wire
<1>2. p \notin Clears
  BY WritesAssumption
<1>3. covers' = covers /\ taken' = taken \cup {p} /\ outcome' = outcome
  BY <1>1, <1>2 DEF Issue
<1> QED
  BY <1>1, <1>2, <1>3 DEF OwnClears, Known, LineOrder

(* What the steps of the app do to the operations of this device and the   *)
(* table.                                                                  *)
LEMMA AppSteps ==
  ASSUME Known, HeardOnce, ScreensOK, [AppNext]_appVars
  PROVE  \/ ClearPointsTapped \/ SaveTapped \/ EntryPointSaved \/ SaveUnheeded \/ ClearAnswered
         \/ AppRelaunch
         \/ /\ Service /\ Outstanding' = Outstanding /\ UNCHANGED <<savers, sheet, rows>>
         \/ /\ UNCHANGED <<history, deaths>> /\ Outstanding' = Outstanding /\ rows' = rows
            /\ (sheet' = sheet /\ savers' = savers) \/ (sheet = "leaving" /\ SheetGone) \/ SheetSwiped
               \/ (sheet = "none" /\ savers' = savers)
<1>1. CASE Service /\ UNCHANGED <<chart, screen, rows>>
  BY <1>1, ServiceKeeps DEF Known, screen
<1>2. CASE EntryPointAdded
  <2>1. PICK p \in Points : RunBlock(ChildAdded(p)) /\ UNCHANGED <<screen, rows>>
    BY <1>2 DEF EntryPointAdded
  <2> QED
    BY <2>1, EventIsNoAnswer DEF Known, Ordered, RunBlock, screen, wire
<1>3. CASE UNCHANGED dbVars /\ ~SheetGone /\ ~SheetSwiped /\ ~AddNewPointTapped
  BY <1>3 DEF AppNext, User, Touch, CancelTouch, HudExpires, HudFades, ClearPointsTapped, SaveTapped,
     MainQueue, EntryPointAdded, EntryPointSaved, SaveUnheeded, ClearAnswered, AppRelaunch,
     Outstanding, dbVars, client, wire, history, screen, appVars
<1>4. CASE SheetGone \/ SheetSwiped \/ AddNewPointTapped
  BY <1>4 DEF SheetGone, SheetSwiped, AddNewPointTapped, Outstanding, dbVars, client, wire, history
<1>5. CASE UNCHANGED appVars
  BY <1>5 DEF appVars, screen, dbVars, client, wire, Outstanding
<1> QED
  BY <1>1, <1>2, <1>3, <1>4, <1>5 DEF AppNext, User, Touch, CancelTouch, MainQueue, HudExpires, HudFades

LEMMA FollowStep ==
  ASSUME SqlMayFail = FALSE, Known, HeardOnce, ScreensOK, HudInv, FollowInv, [AppNext]_appVars
  PROVE  FollowInv'
<1>a. [Next]_dbVars /\ TypeOK /\ WritesWaitOnce /\ Own
  BY DatabaseStep DEF Known, Ordered
<1>b. \A c \in Clears : covers[c] \subseteq Points
  BY <1>a DEF TypeOK
<1>k. ASSUME Outstanding' \subseteq Outstanding,  ToSet(rows') \subseteq ToSet(rows) \cup Outstanding,
             OwnClears' = OwnClears, \A c \in OwnClears : covers'[c] = covers[c]
      PROVE  FollowInv'
  BY <1>k DEF FollowInv
<1>1. CASE ClearPointsTapped
  <2>1. PICK c \in Clears : Writes(c) /\ rows' = <<>> /\ c \in Write
    BY <1>1 DEF ClearPointsTapped, RunSql, Write
  <2>2. Outstanding = {} /\ Outstanding' = {c}
    <3>1. touches # {}
      BY <1>1 DEF ClearPointsTapped, Lift
    <3> QED
      BY <1>a, <2>1, <3>1, WriteIsOutstanding DEF HudInv
  <2>3. ToSet(rows') = {}
    BY <2>1, BeforeNothing
  <2>4. /\ OwnClears' = OwnClears \cup {c} /\ covers'[c] = taken \cap Points
        /\ \A d \in OwnClears : covers'[d] = covers[d]
    BY <2>1, FirstClear
  <2>5. c \notin Points
    BY WritesAssumption
  <2> QED
    BY <1>b, <2>2, <2>3, <2>4, <2>5 DEF FollowInv, OwnClears
<1>2. CASE SaveTapped
  <2>1. PICK p \in Points : Writes(p) /\ rows' = rows
    BY <1>2 DEF SaveTapped
  <2>2. Outstanding' = Outstanding \cup {p}
    BY <1>a, <2>1, WriteIsOutstanding
  <2>3. OwnClears' = OwnClears /\ covers' = covers /\ \A c \in Clears : p \notin covers[c]
    BY <2>1, FirstSave
  <2> QED
    BY <2>1, <2>2, <2>3 DEF FollowInv, OwnClears
<1>3. ASSUME NEW w \in Write, NEW s \in Statuses, RunBlock(Answer(w, s)),
             ToSet(rows') \subseteq ToSet(rows) \cup {w}
      PROVE  FollowInv'
  <2>1. w \in Outstanding /\ Outstanding' = Outstanding \ {w}
    BY <1>a, <1>3, AnswerIsTheEnd DEF Known
  <2>2. UNCHANGED <<taken, covers>>
    BY <1>3 DEF RunBlock, history
  <2> QED
    BY <1>3, <1>k, <2>1, <2>2 DEF OwnClears
<1>4. CASE EntryPointSaved
  <2>1. PICK p \in savers, s \in Statuses : RunBlock(Answer(p, s)) /\ rows' = Append(rows, p)
    BY <1>4 DEF EntryPointSaved, RunSql
  <2>2. p \in Points /\ p \in Write /\ ToSet(rows') = ToSet(rows) \cup {p}
    BY <2>1, BeforeAppend DEF ScreensOK, Write
  <2> QED
    BY <1>3, <2>1, <2>2
<1>5. CASE SaveUnheeded \/ ClearAnswered
  <2>1. PICK w \in Write, s \in Statuses : RunBlock(Answer(w, s)) /\ rows' = rows
    BY <1>5 DEF SaveUnheeded, ClearAnswered, Write
  <2> QED
    BY <1>3, <2>1
<1>6. CASE AppRelaunch
  <2>1. Outstanding' = {} /\ rows' = rows /\ UNCHANGED <<taken, covers>>
    BY <1>6, NothingOutstanding DEF AppRelaunch, Relaunch, history
  <2> QED
    BY <1>k, <2>1 DEF OwnClears
<1>7. CASE Service /\ Outstanding' = Outstanding /\ UNCHANGED <<savers, sheet, rows>>
  <2>1. OwnClears' = OwnClears /\ \A c \in OwnClears : covers'[c] = covers[c]
    <3>1. CASE OtherDeviceWrites
      BY <3>1, <1>a, Issued DEF OtherDeviceWrites, OwnClears
    <3>2. CASE UNCHANGED <<taken, covers>>
      BY <3>2 DEF OwnClears
    <3> QED
      BY <1>7, <3>1, <3>2 DEF Service, ClientRuns, RunObserve, RunWrite, Connect, Disconnect,
         ClientReceives, ReceiveAuthAnswer, ReceiveData, ReceiveListenAnswer, ReceivePutAnswer,
         Receive, ServerServes, ServerAuthenticates, ServerListens, ServerAccepts, ServerRefuses, history
  <2> QED
    BY <1>7, <1>k, <2>1
<1>8. CASE UNCHANGED <<history, deaths>> /\ Outstanding' = Outstanding /\ rows' = rows
  BY <1>8, <1>k DEF history, OwnClears
<1> QED
  BY <1>1, <1>2, <1>4, <1>5, <1>6, <1>7, <1>8, AppSteps

LEMMA StoresStep ==
  ASSUME SqlMayFail = FALSE, Known, HeardOnce, ScreensOK, HudInv, RowsInv, StoresInv, [AppNext]_appVars
  PROVE  StoresInv'
<1>a. [Next]_dbVars /\ TypeOK /\ WritesWaitOnce /\ Own /\ deaths \in Nat
  BY DatabaseStep, BoundsAssumption DEF Known, Ordered, TypeOK
<1>b. \A p \in Points : outcome[p] = "ok" => p \in taken
  BY <1>a DEF WritesWaitOnce, Write
<1>1. CASE ClearPointsTapped
  <2>1. PICK c \in Clears : Writes(c) /\ c \in Write /\ c \notin Points
    BY <1>1, WritesAssumption DEF ClearPointsTapped, Write
  <2>2. Outstanding' = {c}
    <3>1. touches # {}
      BY <1>1 DEF ClearPointsTapped, Lift
    <3> QED
      BY <1>a, <2>1, <3>1, WriteIsOutstanding DEF HudInv
  <2>3. touches # {} => Outstanding = {}
    BY DEF HudInv
  <2>4. /\ OwnClears' = OwnClears \cup {c} /\ covers'[c] = taken \cap Points
        /\ UNCHANGED <<outcome, deaths>>
    BY <2>1, FirstClear
  <2>5. touches # {}
    BY <1>1 DEF ClearPointsTapped, Lift
  <2> QED
    BY <1>b, <2>1, <2>2, <2>3, <2>4, <2>5 DEF StoresInv
<1>2. CASE SaveTapped
  <2>1. PICK p \in Points : Writes(p) /\ savers' = savers \cup {p} /\ rows' = rows /\ sheet' = sheet
    BY <1>2 DEF SaveTapped
  <2>2. "save" \in touches /\ sheet = "up" /\ Outstanding = {}
    BY <1>2 DEF SaveTapped, Lift, HudInv
  <2>3. Outstanding' = {p}
    BY <1>a, <2>1, <2>2, WriteIsOutstanding
  <2>4. OwnClears' = OwnClears /\ covers' = covers /\ UNCHANGED <<outcome, deaths>>
    BY <2>1, FirstSave
  <2> QED
    BY <2>1, <2>2, <2>3, <2>4 DEF StoresInv
<1>3. ASSUME NEW w \in Write, NEW s \in Statuses, RunBlock(Answer(w, s)),
             ToSet(rows) \subseteq ToSet(rows'), s = "ok" /\ w \in Points => w \in ToSet(rows')
      PROVE  StoresInv'
  <2>1. w \in Outstanding /\ Outstanding' = Outstanding \ {w} /\ outcome[w] = s
    BY <1>a, <1>3, AnswerIsTheEnd
  <2>2. Outstanding' = {} /\ \A v \in Outstanding : v = w
    BY <2>1 DEF HudInv
  <2>3. UNCHANGED <<taken, covers, outcome, deaths>> /\ OwnClears' = OwnClears
    BY <1>3 DEF RunBlock, history, OwnClears, wire
  <2>4. s # "none"
    BY StatusesAssumption
  <2> QED
    BY <1>3, <2>1, <2>2, <2>3, <2>4 DEF StoresInv
<1>4. CASE EntryPointSaved
  <2>1. PICK p \in savers, s \in Statuses : RunBlock(Answer(p, s)) /\ rows' = Append(rows, p)
    BY <1>4 DEF EntryPointSaved, RunSql
  <2>2. p \in Points /\ p \in Write /\ ToSet(rows') = ToSet(rows) \cup {p}
    BY <2>1, BeforeAppend DEF ScreensOK, Write
  <2> QED
    BY <1>3, <2>1, <2>2
<1>5. CASE SaveUnheeded
  <2>1. PICK p \in Points, s \in Statuses : RunBlock(Answer(p, s)) /\ rows' = rows /\ (s # "ok" \/ p \notin savers)
    BY <1>5 DEF SaveUnheeded, Succeeded
  <2>2. p \in Write /\ p \in savers
    BY <1>a, <2>1, AnswerIsTheEnd DEF Write, StoresInv
  <2> QED
    BY <1>3, <2>1, <2>2
<1>6. CASE ClearAnswered
  <2>1. PICK c \in Clears, s \in Statuses : RunBlock(Answer(c, s)) /\ rows' = rows
    BY <1>6 DEF ClearAnswered
  <2>2. c \in Write /\ c \notin Points
    BY WritesAssumption DEF Write
  <2> QED
    BY <1>3, <2>1, <2>2
<1>7. CASE AppRelaunch
  <2>1. Outstanding' = {} /\ deaths' # 0
    <3>1. Relaunch /\ deaths' = deaths + 1
      BY <1>7 DEF AppRelaunch, Relaunch
    <3>2. deaths + 1 # 0
      BY <1>a
    <3> QED
      BY <3>1, <3>2, NothingOutstanding
  <2> QED
    BY <2>1 DEF StoresInv
<1>8. CASE Service /\ Outstanding' = Outstanding /\ UNCHANGED <<savers, sheet, rows>>
  <2>1. CASE OtherDeviceWrites
    <3>1. /\ OwnClears' = OwnClears /\ \A c \in OwnClears : covers'[c] = covers[c]
          /\ outcome' = outcome /\ deaths' = deaths
      BY <2>1, <1>a, Issued DEF OtherDeviceWrites, OwnClears
    <3> QED
      BY <1>8, <3>1 DEF StoresInv
  <2>2. CASE ReceivePutAnswer
    <3>1. PICK i \in DOMAIN pending, s \in Statuses :
            outcome' = [outcome EXCEPT ![pending[i]] = s] /\ UNCHANGED <<taken, covers, deaths>>
      BY <2>2 DEF ReceivePutAnswer, Receive
    <3>2. OwnClears' = OwnClears /\ s # "none"
      BY <3>1, StatusesAssumption DEF OwnClears
    <3>3. pending[i] \in Write /\ pending[i] \in ToSet(pending)
      BY <1>a DEF TypeOK, ToSet
    <3>4. pending[i] \notin Elsewhere
      BY <1>a, <3>3, LineIs DEF Own
    <3>5. pending[i] \in Outstanding
      BY <3>3, <3>4 DEF Outstanding
    <3>6. /\ \A w \in Write : outcome'[w] = "none" => outcome[w] = "none"
          /\ \A w \in Write : outcome'[w] = "ok" => outcome[w] = "ok" \/ w \in Outstanding
      BY <1>a, <3>1, <3>2, <3>5 DEF TypeOK
    <3> QED
      BY <1>8, <3>1, <3>2, <3>6 DEF StoresInv, OwnClears, Write
  <2>3. CASE UNCHANGED <<history, deaths>>
    BY <1>8, <2>3 DEF history, StoresInv, OwnClears
  <2> QED
    BY <1>8, <2>1, <2>2, <2>3 DEF Service, ClientRuns, RunObserve, RunWrite, Connect, Disconnect,
       ClientReceives, ReceiveAuthAnswer, ReceiveData, ReceiveListenAnswer,
       Receive, ServerServes, ServerAuthenticates, ServerListens, ServerAccepts, ServerRefuses
<1>9. CASE /\ UNCHANGED <<history, deaths>> /\ Outstanding' = Outstanding /\ rows' = rows
           /\ (sheet' = sheet /\ savers' = savers) \/ sheet \in {"none", "leaving"} \/ Outstanding = {}
  BY <1>9 DEF history, OwnClears, StoresInv
<1>10. SheetSwiped => Outstanding = {}
  BY DEF SheetSwiped, HudInv
<1> QED
  BY <1>1, <1>2, <1>4, <1>5, <1>6, <1>7, <1>8, <1>9, <1>10, AppSteps

LEMMA StoresInit == AppInit => FollowInv /\ StoresInv
<1> SUFFICES ASSUME AppInit PROVE FollowInv /\ StoresInv
  OBVIOUS
<1>1. /\ rows = <<>> /\ calls = <<"observe">> /\ pending = <<>> /\ mainQ = <<>>
      /\ taken = server /\ server \in SUBSET Points /\ outcome = [w \in Write |-> "none"]
  BY DEF AppInit, Init
<1>2. ToSet(calls) = {"observe"} /\ ToSet(pending) = {} /\ ToSet(mainQ) = {}
  BY <1>1, BeforeNothing, BeforeSingle
<1>3. Outstanding = {}
  BY <1>2, Symbols DEF Outstanding
<1>4. OwnClears = {} /\ \A p \in Points : outcome[p] # "ok"
  BY <1>1, WritesAssumption DEF OwnClears, Write
<1> QED
  BY <1>3, <1>4 DEF FollowInv, StoresInv

LEMMA StoresAlways ==
  ASSUME Fingers = 1, SqlMayFail = FALSE
  PROVE  AppSpec => [](FollowInv /\ StoresInv)
<1>1. Known /\ HeardOnce /\ ScreensOK /\ HudInv /\ FollowInv /\ [AppNext]_appVars => FollowInv'
  BY FollowStep
<1>2. Known /\ HeardOnce /\ ScreensOK /\ HudInv /\ RowsInv /\ StoresInv /\ [AppNext]_appVars => StoresInv'
  BY StoresStep
<1>3. AppSpec => []HudInv
  BY HudAlways
<1> QED
  BY <1>1, <1>2, <1>3, StoresInit, AlwaysKnown, AlwaysRows, PTL DEF AppSpec

(* With one finger, and statements that do not fail, no row survives, or   *)
(* arrives after, a clear of this device that was tapped after its save.   *)
THEOREM ClearsEmptyTheTable ==
  ASSUME Fingers = 1, SqlMayFail = FALSE
  PROVE  AppSpec => []RowsFollowClears
<1>1. FollowInv => RowsFollowClears
  BY DEF FollowInv, RowsFollowClears, OwnClears
<1> QED
  BY <1>1, StoresAlways, PTL

(* With one finger, and statements that do not fail, the rows of the table *)
(* and the children the server stores are the same saves once nothing is   *)
(* under way, unless a clear was refused, another device cleared, or the   *)
(* process died.                                                           *)
THEOREM TheStoresAgree ==
  ASSUME Fingers = 1, SqlMayFail = FALSE
  PROVE  AppSpec => []StoresAgree
<1>1. ASSUME Known, ScreensOK, RowsInv, FollowInv, StoresInv, ConfirmedClearIsFinal, ConfirmedSaveIsStored,
             AppSettled, deaths = 0, \A c \in Clears \cap taken : c \notin Elsewhere /\ outcome[c] # "denied"
      PROVE  ToSet(rows) = {p \in server : outcome[p] = "ok"}
  <2>1. TypeOK /\ WireOrder
    BY <1>1 DEF Known, Ordered
  <2>2. /\ connection = "on" /\ calls = <<>> /\ mainQ = <<>> /\ OnWire = <<>>
    BY <1>1 DEF AppSettled, Settled, OnWire
  <2>3. ToSet(calls) = {} /\ ToSet(mainQ) = {} /\ ToSet(pending) = {}
    BY <2>1, <2>2, BeforeNothing DEF WireOrder, InStep
  <2>4. Outstanding = {}
    BY <2>3 DEF Outstanding
  <2>5. OwnClears = Clears \cap taken /\ \A c \in OwnClears : c \in Write
    BY <1>1 DEF OwnClears, Write
  <2>6. \A c \in OwnClears : outcome[c] = "ok"
    BY <1>1, <2>1, <2>4, <2>5 DEF StoresInv, TypeOK
  <2>7. ASSUME NEW p \in ToSet(rows) PROVE p \in server /\ outcome[p] = "ok"
    <3>1. outcome[p] = "ok" /\ \A c \in Clears \cap taken : p \notin covers[c]
      BY <1>1, <2>5 DEF RowsInv, RowsAreConfirmed, FollowInv
    <3>2. p \in Points
      BY <1>1, <2>7 DEF ScreensOK, ToSet
    <3> QED
      BY <1>1, <3>1, <3>2 DEF ConfirmedSaveIsStored
  <2>8. ASSUME NEW p \in server, outcome[p] = "ok" PROVE p \in ToSet(rows)
    <3>1. p \in Points
      BY <2>1 DEF TypeOK
    <3>2. \A c \in OwnClears : p \notin covers[c]
      BY <1>1, <2>5, <2>6, <2>8 DEF ConfirmedClearIsFinal
    <3> QED
      BY <1>1, <2>4, <2>8, <3>1, <3>2 DEF StoresInv
  <2> QED
    BY <2>7, <2>8
<1>2. /\ Known /\ ScreensOK /\ RowsInv /\ FollowInv /\ StoresInv /\ ConfirmedClearIsFinal /\ ConfirmedSaveIsStored
      => StoresAgree
  BY <1>1 DEF StoresAgree
<1>3. AppSpec => [](ConfirmedClearIsFinal /\ ConfirmedSaveIsStored)
  BY UsesTheDatabase, ClearsAreFinal, SavesAreStored, PTL
<1> QED
  BY <1>2, <1>3, StoresAlways, AlwaysKnown, AlwaysRows, PTL

-----------------------------------------------------------------------------
(***************************************************************************)
(* What the client knew, will know, and the server stores: the stages of   *)
(* a queue q of messages are its cache c (0), the pushes in q (at their    *)
(* places), and the server's S (behind them).                              *)
(***************************************************************************)
Stages(q) == {i \in 0..Len(q) + 1 : i = 0 \/ i = Len(q) + 1 \/ (i \in DOMAIN q /\ IsData(q[i]))}
At(q, c, S, i) == IF i = 0 THEN c ELSE IF i = Len(q) + 1 THEN S ELSE q[i].points

(* i is the stage the n-th message finds, or a later one.                  *)
From(q, n, i) == \A k \in Stages(q) : i < k => n < k

(* A point is not lost again; it is lost for good; it comes and goes once. *)
Steady(p, q, c, S) ==
  \A i, j \in Stages(q) : i < j /\ p \in At(q, c, S, i) => p \in At(q, c, S, j)
Fading(n, p, q, c, S) ==
  \A i, j \in Stages(q) :
    i < j /\ n < j /\ From(q, n, i) /\ p \in At(q, c, S, j) => p \in At(q, c, S, i)
Convex(p, q, c, S) ==
  \A i, j, k \in Stages(q) :
    i < j /\ j < k /\ p \in At(q, c, S, i) /\ p \in At(q, c, S, k) => p \in At(q, c, S, j)

(* The point is there from the n-th message on.                            *)
There(n, p, q, c, S) == \A i \in Stages(q) : From(q, n, i) => p \in At(q, c, S, i)

LEMMA StagesAre ==
  ASSUME NEW q \in Seq(Message)
  PROVE  /\ Len(q) \in Nat /\ DOMAIN q = 1..Len(q)
         /\ Stages(q) \subseteq Nat /\ 0 \in Stages(q) /\ Len(q) + 1 \in Stages(q)
         /\ \A i \in Stages(q) : i <= Len(q) + 1
         /\ \A i \in Stages(q) : i = 0 \/ i = Len(q) + 1 \/ (i \in 1..Len(q) /\ IsData(q[i]))
         /\ \A i \in 1..Len(q) : IsData(q[i]) => i \in Stages(q)
BY DEF Stages

(* The point is at no stage.                                               *)
Nowhere(p, q, c, S) == \A i \in Stages(q) : p \notin At(q, c, S, i)

(* A queue whose stages are some of another's, in their order.             *)
Thins(f, q, c, S, r, d, T, p) ==
  /\ \A i \in Stages(r) : f[i] \in Stages(q) /\ (p \in At(r, d, T, i) <=> p \in At(q, c, S, f[i]))
  /\ \A i, j \in Stages(r) : i < j => f[i] <= f[j]
Finds(f, q, n, r, m) ==
  \A j \in Stages(r) : (m < j => n < f[j]) /\ (From(r, m, j) => From(q, n, f[j]))

LEMMA Thinned ==
  ASSUME NEW q \in Seq(Message), NEW r \in Seq(Message), NEW c, NEW d, NEW S, NEW T, NEW p, NEW f,
         Thins(f, q, c, S, r, d, T, p)
  PROVE  /\ Steady(p, q, c, S) => Steady(p, r, d, T)
         /\ Convex(p, q, c, S) => Convex(p, r, d, T)
         /\ Nowhere(p, q, c, S) => Nowhere(p, r, d, T)
<1>1. Stages(q) \subseteq Nat /\ Stages(r) \subseteq Nat
  BY StagesAre
<1>2. \A i, j \in Stages(r) : i < j => f[i] < f[j] \/ f[i] = f[j]
  BY <1>1 DEF Thins
<1>3. Steady(p, q, c, S) => Steady(p, r, d, T)
  BY <1>2 DEF Steady, Thins
<1>4. Convex(p, q, c, S) => Convex(p, r, d, T)
  BY <1>2 DEF Convex, Thins
<1>5. Nowhere(p, q, c, S) => Nowhere(p, r, d, T)
  BY DEF Nowhere, Thins
<1> QED
  BY <1>3, <1>4, <1>5

LEMMA ThinnedFrom ==
  ASSUME NEW q \in Seq(Message), NEW r \in Seq(Message), NEW c, NEW d, NEW S, NEW T, NEW p, NEW f,
         Thins(f, q, c, S, r, d, T, p),
         NEW n, NEW m, Finds(f, q, n, r, m)
  PROVE  /\ Fading(n, p, q, c, S) => Fading(m, p, r, d, T)
         /\ There(n, p, q, c, S) => There(m, p, r, d, T)
<1>1. Stages(q) \subseteq Nat /\ Stages(r) \subseteq Nat
  BY StagesAre
<1>2. \A i, j \in Stages(r) : i < j => f[i] < f[j] \/ f[i] = f[j]
  BY <1>1 DEF Thins
<1> QED
  BY <1>2 DEF Fading, There, Thins, Finds

(* The client reads a message.                                             *)
LEMMA StagesRead ==
  ASSUME NEW q \in Seq(Message), q # <<>>, NEW c, NEW d, NEW S, NEW p,
         d = IF IsData(Head(q)) THEN Head(q).points ELSE c
  PROVE  /\ Steady(p, q, c, S) => Steady(p, Tail(q), d, S)
         /\ Convex(p, q, c, S) => Convex(p, Tail(q), d, S)
         /\ Fading(0, p, q, c, S) => Fading(0, p, Tail(q), d, S)
         /\ \A n \in Nat : n > 0 \/ ~IsData(Head(q)) =>
              /\ Fading(n + 1, p, q, c, S) => Fading(n, p, Tail(q), d, S)
              /\ There(n + 1, p, q, c, S) => There(n, p, Tail(q), d, S)
<1>0. Tail(q) \in Seq(Message)
  BY TailType
<1>1. PICK r \in Seq(Message) : r = Tail(q)
  BY <1>0
<1>2. /\ Len(q) \in Nat /\ Len(q) > 0 /\ Len(r) = Len(q) - 1 /\ Head(q) = q[1]
      /\ DOMAIN q = 1..Len(q) /\ DOMAIN r = 1..Len(r)
      /\ \A i \in 1..Len(r) : r[i] = q[i + 1]
  BY <1>1
<1> DEFINE f == [i \in Stages(r) |-> IF i = 0 THEN IF IsData(q[1]) THEN 1 ELSE 0 ELSE i + 1]
<1>3. ASSUME NEW i \in Stages(r)
      PROVE  f[i] \in Stages(q) /\ (p \in At(r, d, S, i) <=> p \in At(q, c, S, f[i]))
  <2>1. CASE i = 0
    BY <1>2, <1>3, <2>1, StagesAre DEF At
  <2>2. CASE i = Len(r) + 1
    BY <1>2, <1>3, <2>2, StagesAre DEF At
  <2>3. CASE i \in 1..Len(r) /\ IsData(r[i])
    BY <1>2, <1>3, <2>3, StagesAre DEF At
  <2> QED
    BY <1>3, <2>1, <2>2, <2>3, StagesAre
<1>4. \A i, j \in Stages(r) : i < j => f[i] <= f[j]
  BY StagesAre
<1>5. ASSUME NEW n \in Nat, NEW m \in Nat, (n = 0 /\ m = 0) \/ n = m + 1, n = 1 => ~IsData(q[1]), NEW j \in Stages(r)
      PROVE  (m < j => n < f[j]) /\ (From(r, m, j) => From(q, n, f[j]))
  <2>1. m < j => n < f[j]
    BY <1>5, StagesAre
  <2>2. ASSUME From(r, m, j), NEW k \in Stages(q), f[j] < k PROVE n < k
    <3>1. k \in Nat /\ j \in Nat /\ f[j] \in Nat /\ k # 0 /\ k <= Len(q) + 1
      BY <2>2, StagesAre
    <3>2. CASE k = 1
      <4>1. j = 0 /\ ~IsData(q[1])
        BY <2>2, <3>1, <3>2, StagesAre
      <4>2. k \in 1..Len(q)
        BY <1>2, <3>2
      <4> QED
        BY <1>2, <3>2, <4>1, <4>2, StagesAre
    <3>3. CASE k > 1
      <4>1. k - 1 \in Stages(r)
        <5>1. CASE k = Len(q) + 1
          BY <1>2, <5>1, StagesAre
        <5>2. CASE k \in 1..Len(q) /\ IsData(q[k])
          <6>1. k - 1 \in 1..Len(r) /\ r[k - 1] = q[(k - 1) + 1] /\ (k - 1) + 1 = k
            BY <1>2, <3>3, <5>2
          <6> QED
            BY <5>2, <6>1, StagesAre
        <5> QED
          BY <3>1, <5>1, <5>2, StagesAre
      <4>2. j < k - 1
        BY <2>2, <3>1, <3>3
      <4>3. m < k - 1
        BY <2>2, <4>1, <4>2 DEF From
      <4> QED
        BY <1>5, <3>1, <3>3, <4>3
    <3> QED
      BY <3>1, <3>2, <3>3
  <2> QED
    BY <2>1, <2>2 DEF From
<1> HIDE DEF f
<1>9. Thins(f, q, c, S, r, d, S, p)
  BY <1>3, <1>4 DEF Thins
<1>6. /\ Steady(p, q, c, S) => Steady(p, r, d, S)
      /\ Convex(p, q, c, S) => Convex(p, r, d, S)
  BY <1>9, Thinned
<1>8. ASSUME NEW n \in Nat, NEW m \in Nat, (n = 0 /\ m = 0) \/ n = m + 1, n = 1 => ~IsData(q[1])
      PROVE  /\ Fading(n, p, q, c, S) => Fading(m, p, r, d, S)
             /\ There(n, p, q, c, S) => There(m, p, r, d, S)
  <2>1. Finds(f, q, n, r, m)
    BY <1>5, <1>8 DEF Finds
  <2> QED
    BY <1>9, <2>1, ThinnedFrom
<1>7. \A n \in Nat : n + 1 \in Nat /\ (n + 1 = 1 => n = 0)
  OBVIOUS
<1> QED
  BY <1>1, <1>2, <1>6, <1>7, <1>8

(* The server sends a message: what it stores, or no push.                 *)
LEMMA StagesSent ==
  ASSUME NEW q \in Seq(Message), NEW c, NEW S, NEW p, NEW x \in Message, IsData(x) => x.points = S
  PROVE  /\ Steady(p, q, c, S) => Steady(p, Append(q, x), c, S)
         /\ Convex(p, q, c, S) => Convex(p, Append(q, x), c, S)
         /\ Nowhere(p, q, c, S) => Nowhere(p, Append(q, x), c, S)
         /\ \A n \in 0..Len(q) :
              /\ Fading(n, p, q, c, S) => Fading(n, p, Append(q, x), c, S)
              /\ There(n, p, q, c, S) => There(n, p, Append(q, x), c, S)
<1>0. Append(q, x) \in Seq(Message)
  BY AppendProperties
<1>1. PICK r \in Seq(Message) : r = Append(q, x)
  BY <1>0
<1>2. /\ Len(q) \in Nat /\ Len(r) = Len(q) + 1
      /\ DOMAIN q = 1..Len(q) /\ DOMAIN r = 1..Len(r)
      /\ r[Len(q) + 1] = x /\ \A i \in 1..Len(q) : r[i] = q[i]
  BY <1>1
<1> DEFINE f == [i \in Stages(r) |-> IF i = Len(q) + 2 THEN Len(q) + 1 ELSE i]
<1>3. ASSUME NEW i \in Stages(r)
      PROVE  f[i] \in Stages(q) /\ (p \in At(r, c, S, i) <=> p \in At(q, c, S, f[i]))
  <2>1. CASE i = 0
    BY <1>2, <1>3, <2>1, StagesAre DEF At
  <2>2. CASE i = Len(r) + 1
    BY <1>2, <1>3, <2>2, StagesAre DEF At
  <2>3. CASE i \in 1..Len(q) /\ IsData(r[i])
    BY <1>2, <1>3, <2>3, StagesAre DEF At
  <2>4. CASE i = Len(q) + 1 /\ IsData(r[i])
    BY <1>2, <1>3, <2>4, StagesAre DEF At
  <2>5. i = 0 \/ i = Len(r) + 1 \/ (i \in 1..Len(r) /\ IsData(r[i]))
    BY <1>3, StagesAre
  <2> QED
    BY <1>2, <2>1, <2>2, <2>3, <2>4, <2>5
<1>4. \A i, j \in Stages(r) : i < j => f[i] <= f[j]
  BY <1>2, StagesAre
<1>5. ASSUME NEW n \in 0..Len(q), NEW j \in Stages(r)
      PROVE  (n < j => n < f[j]) /\ (From(r, n, j) => From(q, n, f[j]))
  <2>1. n < j => n < f[j]
    BY <1>2, <1>5, StagesAre
  <2>2. ASSUME From(r, n, j), NEW k \in Stages(q), f[j] < k PROVE n < k
    <3>1. k \in Nat /\ j \in Nat /\ k <= Len(q) + 1
      BY <1>2, StagesAre
    <3>2. CASE k = Len(q) + 1
      BY <1>2, <1>5, <3>2
    <3>3. CASE k # Len(q) + 1
      <4>1. k \in Stages(r) /\ j < k
        <5>1. k = 0 \/ (k \in 1..Len(q) /\ IsData(q[k]))
          BY <3>3, StagesAre
        <5>2. k \in Stages(r)
          BY <1>2, <5>1, StagesAre
        <5> QED
          BY <1>2, <2>2, <3>1, <3>3, <5>2
      <4> QED
        BY <2>2, <4>1 DEF From
    <3> QED
      BY <3>2, <3>3
  <2> QED
    BY <2>1, <2>2 DEF From
<1> HIDE DEF f
<1>6. /\ Steady(p, q, c, S) => Steady(p, r, c, S)
      /\ Convex(p, q, c, S) => Convex(p, r, c, S)
      /\ Nowhere(p, q, c, S) => Nowhere(p, r, c, S)
      /\ \A n \in 0..Len(q) :
           /\ Fading(n, p, q, c, S) => Fading(n, p, r, c, S)
           /\ There(n, p, q, c, S) => There(n, p, r, c, S)
  <2>1. Thins(f, q, c, S, r, c, S, p)
    BY <1>3, <1>4 DEF Thins
  <2>2. \A n \in 0..Len(q) : Finds(f, q, n, r, n)
    BY <1>5 DEF Finds
  <2> QED
    BY <2>1, <2>2, Thinned, ThinnedFrom
<1> QED
  BY <1>1, <1>6

(* The connection is lost, and the queue with it.                          *)
LEMMA StagesLost ==
  ASSUME NEW q \in Seq(Message), NEW c, NEW S, NEW p
  PROVE  /\ Steady(p, q, c, S) => Steady(p, <<>>, c, S)
         /\ Convex(p, q, c, S) => Convex(p, <<>>, c, S)
         /\ Nowhere(p, q, c, S) => Nowhere(p, <<>>, c, S)
         /\ Fading(0, p, q, c, S) => Fading(0, p, <<>>, c, S)
<1>1. PICK r \in Seq(Message) : r = <<>>
  BY EmptySeq
<1>2. Len(r) = 0 /\ Stages(r) = {0, 1}
  BY <1>1 DEF Stages
<1> DEFINE f == [i \in Stages(r) |-> IF i = 0 THEN 0 ELSE Len(q) + 1]
<1>3. \A i \in Stages(r) : f[i] \in Stages(q) /\ (p \in At(r, c, S, i) <=> p \in At(q, c, S, f[i]))
  BY <1>2, StagesAre DEF At
<1>4. \A i, j \in Stages(r) : i < j => f[i] <= f[j]
  BY <1>2, StagesAre
<1>5. \A j \in Stages(r) : (0 < j => 0 < f[j]) /\ (From(r, 0, j) => From(q, 0, f[j]))
  BY <1>2, StagesAre DEF From
<1> HIDE DEF f
<1>6. Thins(f, q, c, S, r, c, S, p) /\ Finds(f, q, 0, r, 0)
  BY <1>3, <1>4, <1>5 DEF Thins, Finds
<1> QED
  BY <1>1, <1>6, Thinned, ThinnedFrom

(* The server's points change.                                             *)
LEMMA StagesStored ==
  ASSUME NEW q \in Seq(Message), NEW c, NEW S, NEW T, NEW p
  PROVE  /\ p \in T /\ p \in S =>
              /\ Convex(p, q, c, S) => Convex(p, q, c, T)
              /\ Steady(p, q, c, S) => Steady(p, q, c, T)
              /\ \A n \in 0..Len(q) :
                   /\ Fading(n, p, q, c, S) => Fading(n, p, q, c, T)
                   /\ There(n, p, q, c, S) => There(n, p, q, c, T)
         /\ p \notin T =>
              /\ Convex(p, q, c, S) => Convex(p, q, c, T)
              /\ p \notin S /\ Steady(p, q, c, S) => Steady(p, q, c, T)
              /\ \A n \in 0..Len(q) : Fading(n, p, q, c, S) => Fading(n, p, q, c, T)
         /\ (\A i \in Stages(q) : p \notin At(q, c, S, i)) => Convex(p, q, c, T) /\ Steady(p, q, c, T)
<1>1. \A i \in Stages(q) : /\ i # Len(q) + 1 => At(q, c, T, i) = At(q, c, S, i) /\ i < Len(q) + 1
                           /\ i = Len(q) + 1 => At(q, c, T, i) = T /\ At(q, c, S, i) = S
                           /\ i \in Nat /\ i <= Len(q) + 1
  BY StagesAre DEF At
<1>2. Len(q) \in Nat /\ Len(q) + 1 \in Stages(q) /\ Stages(q) \subseteq Nat
  BY StagesAre
<1>3. ASSUME p \in T, p \in S
      PROVE  \A i \in Stages(q) : p \in At(q, c, T, i) <=> p \in At(q, c, S, i)
  BY <1>1, <1>3
<1>4. p \in T /\ p \in S =>
              /\ Convex(p, q, c, S) => Convex(p, q, c, T)
              /\ Steady(p, q, c, S) => Steady(p, q, c, T)
              /\ \A n \in 0..Len(q) :
                   /\ Fading(n, p, q, c, S) => Fading(n, p, q, c, T)
                   /\ There(n, p, q, c, S) => There(n, p, q, c, T)
  BY <1>3 DEF Convex, Steady, Fading, There
<1>5. ASSUME p \notin T, Convex(p, q, c, S) PROVE Convex(p, q, c, T)
  <2> SUFFICES ASSUME NEW i \in Stages(q), NEW j \in Stages(q), NEW k \in Stages(q),
                      i < j, j < k, p \in At(q, c, T, i), p \in At(q, c, T, k)
               PROVE  p \in At(q, c, T, j)
    BY DEF Convex
  <2>1. k # Len(q) + 1 /\ j # Len(q) + 1 /\ i # Len(q) + 1
    BY <1>1, <1>2, <1>5
  <2> QED
    BY <1>1, <1>5, <2>1 DEF Convex
<1>6. ASSUME p \notin T, p \notin S, Steady(p, q, c, S) PROVE Steady(p, q, c, T)
  <2>1. \A i \in Stages(q) : p \in At(q, c, T, i) <=> p \in At(q, c, S, i)
    BY <1>1, <1>6
  <2> QED
    BY <1>6, <2>1 DEF Steady
<1>7. ASSUME p \notin T, NEW n \in 0..Len(q), Fading(n, p, q, c, S) PROVE Fading(n, p, q, c, T)
  <2> SUFFICES ASSUME NEW i \in Stages(q), NEW j \in Stages(q),
                      i < j, n < j, From(q, n, i), p \in At(q, c, T, j)
               PROVE  p \in At(q, c, T, i)
    BY DEF Fading
  <2>1. j # Len(q) + 1 /\ i # Len(q) + 1
    BY <1>1, <1>2, <1>7
  <2> QED
    BY <1>1, <1>7, <2>1 DEF Fading
<1>8. ASSUME \A i \in Stages(q) : p \notin At(q, c, S, i)
      PROVE  Convex(p, q, c, T) /\ Steady(p, q, c, T)
  <2>1. \A i \in Stages(q) : p \in At(q, c, T, i) => i = Len(q) + 1
    BY <1>1, <1>8
  <2>2. \A i, j \in Stages(q) : i < j => i # Len(q) + 1
    BY <1>1
  <2> QED
    BY <2>1, <2>2 DEF Convex, Steady
<1> QED
  BY <1>4, <1>5, <1>6, <1>7, <1>8

(* What a new answer finds: the server's points, if the queue brings them. *)
LEMMA StagesAnswered ==
  ASSUME NEW q \in Seq(Message), NEW c, NEW S, NEW x \in Message, ~IsData(x), Brings(q, c, S)
  PROVE  \A i \in Stages(Append(q, x)) : From(Append(q, x), Len(q) + 1, i) => At(Append(q, x), c, S, i) = S
<1>0. Append(q, x) \in Seq(Message)
  BY AppendProperties
<1>1. PICK r \in Seq(Message) : r = Append(q, x)
  BY <1>0
<1>2. /\ Len(q) \in Nat /\ Len(r) = Len(q) + 1
      /\ DOMAIN q = 1..Len(q) /\ DOMAIN r = 1..Len(r)
      /\ r[Len(q) + 1] = x /\ \A i \in 1..Len(q) : r[i] = q[i]
  BY <1>1
<1>3. ASSUME NEW i \in Stages(r), From(r, Len(q) + 1, i), i # Len(r) + 1
      PROVE  At(r, c, S, i) = S
  <2>1. i = 0 \/ (i \in 1..Len(q) /\ IsData(q[i]))
    BY <1>2, <1>3, StagesAre
  <2>2. ASSUME NEW k \in 1..Len(q), IsData(q[k]), i < k PROVE FALSE
    <3>1. k \in Stages(r)
      BY <1>2, <2>2, StagesAre
    <3> QED
      BY <1>2, <1>3, <2>2, <3>1 DEF From
  <2>3. CASE c = S /\ \A k \in DOMAIN q : ~IsData(q[k])
    BY <1>2, <2>1, <2>3 DEF At
  <2>4. ASSUME NEW k \in DOMAIN q, IsData(q[k]), q[k].points = S, \A l \in DOMAIN q : l > k => ~IsData(q[l])
        PROVE  At(r, c, S, i) = S
    <3>1. i = k
      BY <1>2, <2>1, <2>2, <2>4
    <3> QED
      BY <1>2, <2>4, <3>1 DEF At
  <2> QED
    BY <2>3, <2>4 DEF Brings
<1>4. At(r, c, S, Len(r) + 1) = S
  BY <1>2 DEF At
<1> QED
  BY <1>1, <1>3, <1>4

-----------------------------------------------------------------------------
(***************************************************************************)
(* What the stages of the wire say of a point: one that waits nowhere is   *)
(* not lost without a reason, nor does it come back once it was shown, and *)
(* the answer to a put finds what it promises.                             *)
(***************************************************************************)

(* Points that may go without another word.                                *)
Excused ==
  {p \in Points : \/ outcome[p] = "denied"
                  \/ \E c \in Clears \cap taken : p \in covers[c] \cup Elsewhere}

IsPutOf(m, w) == m.type = "put" /\ m.write = w
Unrefused(q, n) == \A i \in DOMAIN q : i < n => ~IsRefusal(q[i])

Rests(p, X, Y, q, c, S) ==
  /\ Convex(p, q, c, S)
  /\ p \notin X => Steady(p, q, c, S)
  /\ p \in Y => Fading(0, p, q, c, S)

Answers(p, X, q, c, S) ==
  \A n \in DOMAIN q : IsPutOf(q[n], p) /\ Unrefused(q, n) =>
    /\ Fading(n, p, q, c, S)
    /\ q[n].status = "ok" /\ p \notin X => There(n, p, q, c, S)

LEMMA FadingIs ==
  ASSUME NEW q \in Seq(Message), NEW c, NEW S, NEW p
  PROVE  /\ Fading(0, p, q, c, S) => Convex(p, q, c, S)
         /\ There(0, p, q, c, S) => Steady(p, q, c, S) /\ p \in c
         /\ Convex(p, q, c, S) /\ p \in c => Fading(0, p, q, c, S)
<1>1. /\ Stages(q) \subseteq Nat /\ 0 \in Stages(q) /\ At(q, c, S, 0) = c
      /\ \A i \in Stages(q) : From(q, 0, i)
  BY StagesAre DEF At, From
<1>2. Fading(0, p, q, c, S) => Convex(p, q, c, S)
  BY <1>1 DEF Fading, Convex
<1>3. There(0, p, q, c, S) => Steady(p, q, c, S) /\ p \in c
  BY <1>1 DEF There, Steady
<1>4. ASSUME Convex(p, q, c, S), p \in c PROVE Fading(0, p, q, c, S)
  <2> SUFFICES ASSUME NEW i \in Stages(q), NEW j \in Stages(q), i < j, p \in At(q, c, S, j)
               PROVE  p \in At(q, c, S, i)
    BY DEF Fading
  <2>1. CASE i = 0
    BY <1>1, <1>4, <2>1
  <2>2. CASE i # 0
    <3>1. 0 < i
      BY <1>1, <2>2
    <3> QED
      BY <1>1, <1>4, <3>1 DEF Convex
  <2> QED
    BY <2>1, <2>2
<1> QED
  BY <1>2, <1>3, <1>4

LEMMA ReadKeeps ==
  ASSUME NEW q \in Seq(Message), q # <<>>, ~IsRefusal(Head(q)), NEW c, NEW d, NEW S, NEW p,
         d = (IF IsData(Head(q)) THEN Head(q).points ELSE c),
         NEW X, NEW Z, NEW Y, X \subseteq Z
  PROVE  /\ Answers(p, X, q, c, S) => Answers(p, Z, Tail(q), d, S)
         /\ Rests(p, X, Y, q, c, S) => Rests(p, Z, Y, Tail(q), d, S)
         /\ Answers(p, X, q, c, S) /\ IsPutOf(Head(q), p) /\ (Head(q).status = "ok" \/ p \in Z)
              => Rests(p, Z, Y, Tail(q), d, S)
<1>0. Tail(q) \in Seq(Message)
  BY TailType
<1>1. PICK r \in Seq(Message) : r = Tail(q)
  BY <1>0
<1>2. /\ Steady(p, q, c, S) => Steady(p, r, d, S)
      /\ Convex(p, q, c, S) => Convex(p, r, d, S)
      /\ Fading(0, p, q, c, S) => Fading(0, p, r, d, S)
      /\ \A n \in Nat : n > 0 \/ ~IsData(Head(q)) =>
           /\ Fading(n + 1, p, q, c, S) => Fading(n, p, r, d, S)
           /\ There(n + 1, p, q, c, S) => There(n, p, r, d, S)
  BY <1>1, StagesRead
<1>3. /\ 1 \in DOMAIN q /\ q[1] = Head(q) /\ DOMAIN q \subseteq Nat /\ DOMAIN r \subseteq Nat
      /\ \A i \in DOMAIN r : i + 1 \in DOMAIN q /\ r[i] = q[i + 1] /\ i + 1 # 1 /\ 1 < i + 1
      /\ \A i \in DOMAIN q : i # 1 => \E k \in DOMAIN r : i = k + 1 /\ r[k] = q[i]
  BY <1>1, TailIs
<1>4. ASSUME Answers(p, X, q, c, S) PROVE Answers(p, Z, r, d, S)
  <2> SUFFICES ASSUME NEW n \in DOMAIN r, IsPutOf(r[n], p), Unrefused(r, n)
               PROVE  /\ Fading(n, p, r, d, S)
                      /\ r[n].status = "ok" /\ p \notin Z => There(n, p, r, d, S)
    BY DEF Answers
  <2>1. n + 1 \in DOMAIN q /\ r[n] = q[n + 1] /\ n \in Nat /\ n > 0
    BY <1>3
  <2>2. Unrefused(q, n + 1)
    <3> SUFFICES ASSUME NEW i \in DOMAIN q, i < n + 1, IsRefusal(q[i]) PROVE FALSE
      BY DEF Unrefused
    <3>1. i # 1
      BY <1>3
    <3>2. PICK k \in DOMAIN r : i = k + 1 /\ r[k] = q[i]
      BY <1>3, <3>1
    <3>3. k < n
      BY <1>3, <3>2
    <3> QED
      BY <3>2, <3>3 DEF Unrefused
  <2>3. /\ Fading(n + 1, p, q, c, S)
        /\ q[n + 1].status = "ok" /\ p \notin X => There(n + 1, p, q, c, S)
    BY <1>4, <2>1, <2>2 DEF Answers
  <2> QED
    BY <1>2, <2>1, <2>3
<1>5. Rests(p, X, Y, q, c, S) => Rests(p, Z, Y, r, d, S)
  BY <1>2 DEF Rests
<1>6. ASSUME Answers(p, X, q, c, S), IsPutOf(Head(q), p), Head(q).status = "ok" \/ p \in Z
      PROVE  Rests(p, Z, Y, r, d, S)
  <2>1. Unrefused(q, 1) /\ ~IsData(Head(q))
    BY <1>3, <1>6 DEF Unrefused, IsPutOf, IsData
  <2>2. /\ Fading(1, p, q, c, S)
        /\ Head(q).status = "ok" /\ p \notin X => There(1, p, q, c, S)
    BY <1>3, <1>6, <2>1 DEF Answers
  <2>3. 0 \in Nat /\ 0 + 1 = 1
    OBVIOUS
  <2>4. Fading(0, p, r, d, S) /\ (There(1, p, q, c, S) => There(0, p, r, d, S))
    BY <1>2, <2>1, <2>2, <2>3
  <2> QED
    BY <1>6, <2>2, <2>4, FadingIs DEF Rests
<1> QED
  BY <1>1, <1>4, <1>5, <1>6

LEMMA NowhereRead ==
  ASSUME NEW q \in Seq(Message), q # <<>>, NEW c, NEW d, NEW S, NEW p, Nowhere(p, q, c, S),
         d = c \/ d = {} \/ (IsData(Head(q)) /\ d = Head(q).points)
  PROVE  Nowhere(p, Tail(q), d, S)
<1>0. Tail(q) \in Seq(Message)
  BY TailType
<1>1. PICK r \in Seq(Message) : r = Tail(q)
  BY <1>0
<1>2. /\ Len(q) \in Nat /\ Len(q) > 0 /\ Len(r) = Len(q) - 1 /\ Head(q) = q[1]
      /\ DOMAIN q = 1..Len(q) /\ DOMAIN r = 1..Len(r)
      /\ \A i \in 1..Len(r) : r[i] = q[i + 1]
  BY <1>1
<1>3. p \notin c /\ p \notin S /\ \A i \in 1..Len(q) : IsData(q[i]) => p \notin q[i].points
  BY <1>2, StagesAre DEF Nowhere, At
<1>4. p \notin d
  BY <1>2, <1>3
<1>5. \A i \in 1..Len(r) : IsData(r[i]) => p \notin r[i].points
  BY <1>2, <1>3
<1>6. \A i \in Stages(r) : p \notin At(r, d, S, i)
  BY <1>3, <1>4, <1>5, StagesAre DEF At
<1> QED
  BY <1>1, <1>6 DEF Nowhere

(* What the server stores changes: for the point, in one of these ways.    *)
Settles(p, Z, S, T) == (p \in S /\ p \in T) \/ (p \notin T /\ (p \notin S \/ p \in Z))

LEMMA StoredKeeps ==
  ASSUME NEW q \in Seq(Message), NEW c, NEW S, NEW T, NEW p, NEW X, NEW Z, NEW Y, X \subseteq Z
  PROVE  /\ Rests(p, X, Y, q, c, S) /\ Settles(p, Z, S, T) => Rests(p, Z, Y, q, c, T)
         /\ Answers(p, X, q, c, S) /\ Settles(p, Z, S, T) => Answers(p, Z, q, c, T)
<1>1. DOMAIN q \subseteq 0..Len(q) /\ 0 \in 0..Len(q)
  OBVIOUS
<1>2. ASSUME NEW n \in 0..Len(q), p \notin S PROVE ~There(n, p, q, c, S)
  <2>1. Len(q) + 1 \in Stages(q) /\ From(q, n, Len(q) + 1) /\ At(q, c, S, Len(q) + 1) = S
    BY StagesAre DEF From, At
  <2> QED
    BY <1>2, <2>1 DEF There
<1>3. ASSUME Settles(p, Z, S, T)
      PROVE  /\ Convex(p, q, c, S) => Convex(p, q, c, T)
             /\ p \notin Z /\ Steady(p, q, c, S) => Steady(p, q, c, T)
             /\ \A n \in 0..Len(q) : /\ Fading(n, p, q, c, S) => Fading(n, p, q, c, T)
                                     /\ p \notin Z /\ There(n, p, q, c, S) => There(n, p, q, c, T)
  BY <1>2, <1>3, StagesStored DEF Settles
<1> QED
  BY <1>1, <1>3 DEF Rests, Answers

(* The server sends a push of what it stores, or an answer.                *)
LEMMA SentKeeps ==
  ASSUME NEW q \in Seq(Message), NEW c, NEW S, NEW p, NEW X, NEW Y,
         NEW x \in Message, IsData(x) => x.points = S,
         IsPutOf(x, p) => \/ \E i \in DOMAIN q : IsRefusal(q[i])
                          \/ Brings(q, c, S) /\ (x.status = "ok" => p \in S)
  PROVE  /\ Nowhere(p, q, c, S) => Nowhere(p, Append(q, x), c, S)
         /\ Rests(p, X, Y, q, c, S) => Rests(p, X, Y, Append(q, x), c, S)
         /\ Answers(p, X, q, c, S) => Answers(p, X, Append(q, x), c, S)
<1>0. Append(q, x) \in Seq(Message)
  BY AppendProperties
<1>1. PICK r \in Seq(Message) : r = Append(q, x)
  BY <1>0
<1>2. /\ Steady(p, q, c, S) => Steady(p, r, c, S)
      /\ Convex(p, q, c, S) => Convex(p, r, c, S)
      /\ Nowhere(p, q, c, S) => Nowhere(p, r, c, S)
      /\ \A n \in 0..Len(q) :
           /\ Fading(n, p, q, c, S) => Fading(n, p, r, c, S)
           /\ There(n, p, q, c, S) => There(n, p, r, c, S)
  BY <1>1, StagesSent
<1>3. /\ DOMAIN q \subseteq 0..Len(q) /\ 0 \in 0..Len(q)
      /\ DOMAIN r = DOMAIN q \cup {Len(q) + 1} /\ r[Len(q) + 1] = x
      /\ \A i \in DOMAIN q : r[i] = q[i] /\ i < Len(q) + 1
      /\ Len(q) \in Nat
  BY <1>1, AppendIs
<1>4. ASSUME Answers(p, X, q, c, S), NEW n \in DOMAIN r, IsPutOf(r[n], p), Unrefused(r, n)
      PROVE  /\ Fading(n, p, r, c, S)
             /\ r[n].status = "ok" /\ p \notin X => There(n, p, r, c, S)
  <2>1. CASE n \in DOMAIN q
    <3>1. Unrefused(q, n) /\ IsPutOf(q[n], p) /\ q[n] = r[n]
      BY <1>3, <1>4, <2>1 DEF Unrefused
    <3> QED
      BY <1>2, <1>3, <1>4, <2>1, <3>1 DEF Answers
  <2>2. CASE n = Len(q) + 1
    <3>1. IsPutOf(x, p) /\ ~IsData(x) /\ r[n] = x
      BY <1>3, <1>4, <2>2 DEF IsPutOf, IsData
    <3>2. Brings(q, c, S) /\ (x.status = "ok" => p \in S)
      <4>1. ~\E i \in DOMAIN q : IsRefusal(q[i])
        BY <1>3, <1>4, <2>2 DEF Unrefused
      <4> QED
        BY <3>1, <4>1
    <3>3. \A i \in Stages(r) : From(r, n, i) => At(r, c, S, i) = S
      BY <1>1, <2>2, <3>1, <3>2, StagesAnswered
    <3>4. \A j \in Stages(r) : n < j => At(r, c, S, j) = S
      <4> SUFFICES ASSUME NEW j \in Stages(r), n < j PROVE At(r, c, S, j) = S
        OBVIOUS
      <4>1. From(r, n, j)
        BY <1>3, <2>2, StagesAre DEF From
      <4> QED
        BY <3>3, <4>1
    <3> QED
      BY <3>1, <3>2, <3>3, <3>4 DEF Fading, There
  <2> QED
    BY <1>3, <2>1, <2>2
<1> QED
  BY <1>1, <1>2, <1>3, <1>4 DEF Rests, Answers

-----------------------------------------------------------------------------
(* Before the chart observes, nothing is pushed.                           *)
Silent == "observe" \in ToSet(calls) => \A i \in DOMAIN toClient : ~IsData(toClient[i])

(* When the client comes to the confirmation of a clear, its cache is empty. *)
Emptied == listen # "off" => \A c \in Clears : FreeWhenConfirmed(toClient, c, serverCache, Points)

(* The points Y of the chart were issued, and by a chart that observes.    *)
Older(p) == p \in taken \ ToSet(calls) /\ "observe" \notin ToSet(calls)

Holds(p, Y) ==
  /\ p \notin taken \/ p \in ToSet(calls) => Nowhere(p, toClient, serverCache, server)
  /\ listen # "off" =>
       /\ p \notin ToSet(Line) => Rests(p, Excused, Y, toClient, serverCache, server)
       /\ Answers(p, Excused, toClient, serverCache, server)
  /\ p \in Y => Older(p)

Chronicle(Y) == Silent /\ Emptied /\ \A p \in Points : Holds(p, Y)

LEMMA PutOnTheWay ==
  ASSUME Known, NEW w \in Write, NEW i \in DOMAIN toClient, IsPutOf(toClient[i], w)
  PROVE  /\ connection = "on" /\ w \in ToSet(BackOf(toClient)) /\ w \in ToSet(pending)
         /\ w \in ToSet(Line) /\ w \in taken \ (Elsewhere \cup ToSet(calls)) /\ outcome[w] = "none"
<1>1. TypeOK /\ WireOrder /\ WritesWaitOnce /\ Own /\ toClient \in Seq(Message) /\ toServer \in Seq(Request)
  BY DEF Known, Ordered, TypeOK
<1>2. Carries(toClient[i]) = w
  BY DEF Carries, IsPutOf
<1>3. w \in ToSet(BackOf(toClient))
  BY <1>2 DEF BackOf, ToSet
<1>4. w \in ToSet(OnWire)
  BY <1>1, <1>3, TripIs, WireIs
<1>5. connection = "on" /\ w \in ToSet(pending)
  BY <1>1, <1>4 DEF WireOrder, InStep
<1>6. w \in ToSet(Line)
  BY <1>1, <1>5, LineIs
<1> QED
  BY <1>1, <1>3, <1>5, <1>6 DEF WritesWaitOnce, Own

LEMMA HistoryGrows ==
  ASSUME Known, [Next]_dbVars
  PROVE  /\ taken \subseteq taken' /\ \A c \in Clears \cap taken : covers'[c] = covers[c]
         /\ \A w \in Write : outcome[w] # "none" => outcome'[w] = outcome[w]
         /\ Excused \subseteq Excused'
<1>a. TypeOK /\ WritesWaitOnce /\ Points \subseteq Write
  BY DEF Known, Ordered, Write
<1>1. /\ taken \subseteq taken' /\ \A c \in Clears \cap taken : covers'[c] = covers[c]
      /\ \A w \in Write : outcome[w] # "none" => outcome'[w] = outcome[w]
  <2>1. CASE AppWrites \/ OtherDeviceWrites
    <3>1. PICK w : Issue(w)
      BY <2>1 DEF AppWrites, CallWrite, OtherDeviceWrites
    <3> QED
      BY <1>a, <3>1, Issued
  <2>2. CASE ReceivePutAnswer
    <3>1. /\ pending # <<>> /\ UNCHANGED <<taken, covers>>
          /\ \E s \in Statuses : outcome' = [outcome EXCEPT ![Head(pending)] = s]
      BY <2>2, ReadPut DEF Known, ReceivePutAnswer
    <3>2. pending \in Seq(Write) /\ Head(pending) \in ToSet(pending) /\ Head(pending) \in Write
      BY <1>a, <3>1, BeforeTail DEF TypeOK
    <3>3. outcome[Head(pending)] = "none"
      BY <1>a, <3>2 DEF WritesWaitOnce
    <3> QED
      BY <1>a, <3>1, <3>3 DEF TypeOK
  <2>3. CASE UNCHANGED history
    BY <2>3 DEF history
  <2> QED
    BY <2>1, <2>2, <2>3 DEF Next, Service, ClientRuns, RunObserve, RunWrite, Connect, Disconnect,
       ClientReceives, ReceiveAuthAnswer, ReceiveData, ReceiveListenAnswer, ServerServes,
       ServerAuthenticates, ServerListens, ServerAccepts, ServerRefuses, AppRunsBlock, Relaunch, dbVars
<1> QED
  BY <1>a, <1>1 DEF Excused

LEMMA LineNext ==
  ASSUME TypeOK'
  PROVE  /\ ToSet(Line') = ToSet(pending') \cup ToSet(calls')
         /\ pending' \in Seq(Request) /\ calls' \in Seq(Request)
<1>1. pending' \in Seq(Request) /\ calls' \in Seq(Request)
  BY DEF TypeOK, Request
<1> QED
  BY <1>1, BeforeConcat DEF Line

(* A step that neither reads nor sends.                                    *)
LEMMA StillHolds ==
  ASSUME NEW p \in Points, NEW Y, Holds(p, Y), Excused \subseteq Excused',
         UNCHANGED <<toClient, serverCache, server>>, listen' # "off" => listen # "off",
         p \notin taken' \/ p \in ToSet(calls') => p \notin taken \/ p \in ToSet(calls),
         p \notin ToSet(Line') => p \notin ToSet(Line),
         "observe" \in ToSet(calls') => "observe" \in ToSet(calls)
  PROVE  Holds(p, Y)'
<1>1. ASSUME listen' # "off"
      PROVE  /\ p \notin ToSet(Line') => Rests(p, Excused', Y, toClient', serverCache', server')
             /\ Answers(p, Excused', toClient', serverCache', server')
  BY <1>1 DEF Holds, Rests, Answers
<1>2. p \in Y => Older(p)'
  BY DEF Holds, Older
<1> QED
  BY <1>1, <1>2 DEF Holds

(* The client's own steps.                                                 *)
LEMMA ClientHolds ==
  ASSUME Known, NEW Y, Chronicle(Y), NEW p \in Points,
         RunWrite \/ Connect \/ AppRunsBlock \/ AppWrites \/ UNCHANGED dbVars
  PROVE  Holds(p, Y)'
<1>a. /\ TypeOK /\ calls \in Seq(Request) /\ pending \in Seq(Write) /\ Holds(p, Y)
      /\ ToSet(Line) = ToSet(pending) \cup ToSet(calls) /\ p \in Write
  BY LineIs DEF Known, Ordered, TypeOK, Write, Chronicle
<1>b. Excused \subseteq Excused'
  BY HistoryGrows DEF Next, Service, ClientRuns
<1>c. TypeOK'
  BY <1>a, TypeStep DEF Next, Service, ClientRuns
<1>d. /\ ToSet(Line') = ToSet(pending') \cup ToSet(calls')
      /\ pending' \in Seq(Request) /\ calls' \in Seq(Request)
  BY <1>c, LineNext
<1>1. CASE RunWrite
  <2>1. /\ calls # <<>> /\ calls' = Tail(calls) /\ Head(calls) \in Write
        /\ pending' = Append(pending, Head(calls))
        /\ UNCHANGED <<toClient, serverCache, server, listen, taken>>
    BY <1>1 DEF RunWrite, history
  <2>2. ToSet(calls) = {Head(calls)} \cup ToSet(calls')
    BY <1>a, <2>1, BeforeTail
  <2>3. ToSet(pending') = ToSet(pending) \cup {Head(calls)}
    BY <1>a, <2>1, BeforeAppend
  <2> QED
    BY <1>a, <1>b, <1>d, <2>1, <2>2, <2>3, StillHolds
<1>2. CASE AppWrites
  <2>1. PICK w \in Write :
          /\ Issue(w) /\ calls' = Append(calls, w)
          /\ UNCHANGED <<pending, listen, serverCache, toClient, server>>
    BY <1>2 DEF AppWrites, CallWrite, wire
  <2>2. taken' = taken \cup {w} /\ w \notin taken
    BY <2>1 DEF Issue
  <2>3. ToSet(calls') = ToSet(calls) \cup {w}
    BY <1>a, <2>1, CallAppended
  <2> QED
    BY <1>a, <1>b, <1>d, <2>1, <2>2, <2>3, Symbols, StillHolds
<1>3. CASE Connect \/ AppRunsBlock \/ UNCHANGED dbVars
  <2>1. UNCHANGED <<toClient, serverCache, server, listen, taken, calls, pending>>
    BY <1>3 DEF Connect, AppRunsBlock, dbVars, client, wire, history
  <2> QED
    BY <1>a, <1>b, <1>d, <2>1, StillHolds
<1> QED
  BY <1>1, <1>2, <1>3

(* The chart observes: its view starts empty, with the server silent.      *)
LEMMA ObserveHolds ==
  ASSUME Known, NEW Y, Chronicle(Y), NEW p \in Points, RunObserve
  PROVE  Holds(p, Y)'
<1>1. /\ calls # <<>> /\ Head(calls) = "observe" /\ calls' = Tail(calls)
      /\ UNCHANGED <<pending, serverCache, toClient, server, taken>>
  BY DEF RunObserve, history
<1>2. /\ TypeOK /\ calls \in Seq(Request) /\ toClient \in Seq(Message) /\ p \in Write
      /\ ToSet(Line) = ToSet(pending) \cup ToSet(calls) /\ Holds(p, Y)
  BY LineIs DEF Known, Ordered, TypeOK, Write, Chronicle
<1>3. ToSet(calls) = {"observe"} \cup ToSet(calls')
  BY <1>1, <1>2, BeforeTail
<1>4. pending = <<>>
  <2>1. 1 \in DOMAIN calls /\ calls[1] = "observe"
    BY <1>1, <1>2
  <2> QED
    BY <2>1 DEF Known, Ordered, ObservesFirst
<1>5. serverCache = {} /\ \A i \in DOMAIN toClient : ~IsData(toClient[i])
  <2>1. listen = "off"
    BY <1>3 DEF Known, Ordered, NotYetObserved, ToSet
  <2> QED
    BY <1>3, <2>1 DEF Known, Viewless, Chronicle, Silent
<1>6. p \notin Y
  BY <1>2, <1>3 DEF Holds, Older
<1>7. \A i \in DOMAIN toClient : ~IsPutOf(toClient[i], p)
  BY <1>2, <1>4, PutOnTheWay, BeforeNothing
<1>8. \A i \in Stages(toClient) : i = 0 \/ i = Len(toClient) + 1
  BY <1>2, <1>5, StagesAre
<1>9. /\ Convex(p, toClient, serverCache, server) /\ Steady(p, toClient, serverCache, server)
  <2>1. \A i \in Stages(toClient) : p \in At(toClient, serverCache, server, i) => i = Len(toClient) + 1
    BY <1>5, <1>8 DEF At
  <2>2. \A i, j \in Stages(toClient) : i < j => i # Len(toClient) + 1
    BY <1>2, <1>8, StagesAre
  <2> QED
    BY <2>1, <2>2 DEF Convex, Steady
<1>10. Rests(p, Excused', Y, toClient, serverCache, server) /\ Answers(p, Excused', toClient, serverCache, server)
  BY <1>6, <1>7, <1>9 DEF Rests, Answers
<1>11. p \in ToSet(calls') => p \in ToSet(calls)
  BY <1>3
<1> QED
  BY <1>1, <1>2, <1>6, <1>10, <1>11 DEF Holds

LEMMA LostHolds ==
  ASSUME Known, NEW Y, Chronicle(Y), NEW p \in Points, Disconnect
  PROVE  Holds(p, Y)'
<1>1. /\ UNCHANGED <<calls, pending, serverCache, server, taken, outcome, covers>> /\ toClient' = <<>>
      /\ listen' # "off" => listen # "off"
      /\ TypeOK /\ toClient \in Seq(Message) /\ Holds(p, Y)
  BY DEF Disconnect, history, Known, Ordered, TypeOK, Chronicle
<1>2. Line' = Line /\ Excused' = Excused
  BY <1>1 DEF Line, Excused
<1>3. Rests(p, Excused, Y, toClient, serverCache, server) => Rests(p, Excused, Y, <<>>, serverCache, server)
  BY <1>1, StagesLost DEF Rests
<1>4. Nowhere(p, toClient, serverCache, server) => Nowhere(p, <<>>, serverCache, server)
  BY <1>1, StagesLost
<1>5. Answers(p, Excused, <<>>, serverCache, server)
  BY DEF Answers
<1> QED
  BY <1>1, <1>2, <1>3, <1>4, <1>5 DEF Holds, Older

(* The process dies.                                                       *)
LEMMA RelaunchHolds ==
  ASSUME Known, NEW Y, Chronicle(Y), NEW p \in Points, Relaunch
  PROVE  Holds(p, {})'
<1>1. /\ calls' = <<"observe">> /\ listen' = "off" /\ serverCache' = {} /\ toClient' = <<>>
      /\ UNCHANGED <<server, taken>> /\ TypeOK /\ toClient \in Seq(Message) /\ Holds(p, Y)
  BY DEF Relaunch, history, Known, Ordered, TypeOK, Chronicle
<1>2. p \notin ToSet(calls')
  <2>1. p \in Write
    BY DEF Write
  <2> QED
    BY <1>1, <2>1, BeforeSingle, Symbols
<1>3. ASSUME p \notin taken PROVE Nowhere(p, <<>>, {}, server)
  <2>1. Nowhere(p, <<>>, serverCache, server)
    BY <1>1, <1>3, StagesLost DEF Holds
  <2>2. Len(<<>>) = 0
    OBVIOUS
  <2> QED
    BY <2>1, <2>2 DEF Nowhere, At
<1> QED
  BY <1>1, <1>2, <1>3 DEF Holds

(* The client reads a message.                                             *)
LEMMA ReadsHold ==
  ASSUME Known, NEW Y, Chronicle(Y), NEW p \in Points, Excused \subseteq Excused',
         toClient # <<>>, toClient' = Tail(toClient), UNCHANGED <<calls, server, taken>>,
         serverCache' = serverCache \/ serverCache' = {}
           \/ (IsData(Head(toClient)) /\ serverCache' = Head(toClient).points),
         listen' # "off" =>
           /\ listen # "off" /\ ~IsRefusal(Head(toClient))
           /\ serverCache' = IF IsData(Head(toClient)) THEN Head(toClient).points ELSE serverCache,
         p \notin ToSet(Line') =>
           \/ p \notin ToSet(Line)
           \/ IsPutOf(Head(toClient), p) /\ (Head(toClient).status = "ok" \/ p \in Excused')
  PROVE  Holds(p, Y)'
<1>1. toClient \in Seq(Message) /\ Holds(p, Y)
  BY DEF Known, Ordered, TypeOK, Chronicle
<1>2. p \notin taken' \/ p \in ToSet(calls') => Nowhere(p, toClient', serverCache', server')
  BY <1>1, NowhereRead DEF Holds
<1>3. ASSUME listen' # "off"
      PROVE  /\ p \notin ToSet(Line') => Rests(p, Excused', Y, toClient', serverCache', server)
             /\ Answers(p, Excused', toClient', serverCache', server)
  <2>1. /\ Answers(p, Excused, toClient, serverCache, server)
        /\ p \notin ToSet(Line) => Rests(p, Excused, Y, toClient, serverCache, server)
    BY <1>1, <1>3 DEF Holds
  <2>2. /\ Answers(p, Excused, toClient, serverCache, server)
             => Answers(p, Excused', Tail(toClient), serverCache', server)
        /\ Rests(p, Excused, Y, toClient, serverCache, server)
             => Rests(p, Excused', Y, Tail(toClient), serverCache', server)
        /\ Answers(p, Excused, toClient, serverCache, server) /\ IsPutOf(Head(toClient), p)
             /\ (Head(toClient).status = "ok" \/ p \in Excused')
             => Rests(p, Excused', Y, Tail(toClient), serverCache', server)
    BY <1>1, <1>3, ReadKeeps
  <2> QED
    BY <2>1, <2>2
<1>4. p \in Y => Older(p)'
  BY <1>1 DEF Holds, Older
<1> QED
  BY <1>2, <1>3, <1>4 DEF Holds

LEMMA ReceivingHolds ==
  ASSUME Known, NEW Y, Chronicle(Y), NEW p \in Points, ClientReceives
  PROVE  Holds(p, Y)'
<1>a. /\ TypeOK /\ toClient # <<>> /\ toClient' = Tail(toClient) /\ toClient \in Seq(Message)
      /\ UNCHANGED <<calls, server, taken, covers>> /\ p \in Write
  BY DEF ClientReceives, ReceiveAuthAnswer, ReceiveData, ReceiveListenAnswer, ReceivePutAnswer,
     Receive, Known, Ordered, TypeOK, history, Write
<1>b. Excused \subseteq Excused'
  BY HistoryGrows DEF Next, Service
<1>1. CASE ReceiveAuthAnswer \/ ReceiveData
  <2>1. /\ ~IsRefusal(Head(toClient)) /\ UNCHANGED <<listen, pending>>
        /\ serverCache' = IF IsData(Head(toClient)) /\ listen # "off"
                          THEN Head(toClient).points ELSE serverCache
    BY <1>1 DEF ReceiveAuthAnswer, ReceiveData, Receive, IsRefusal, IsData, WithData
  <2>2. Line' = Line
    BY <1>a, <2>1 DEF Line
  <2> QED
    BY <1>a, <1>b, <2>1, <2>2, ReadsHold
<1>2. CASE ReceiveListenAnswer
  <2>1. PICK s \in Statuses :
          /\ Head(toClient) = [type |-> "listen", status |-> s]
          /\ listen' = IF s = "ok" /\ listen # "off" THEN "acked" ELSE "off"
          /\ serverCache' = IF s = "ok" THEN serverCache ELSE {}
          /\ UNCHANGED pending
    BY <1>2 DEF ReceiveListenAnswer, Receive
  <2>2. Line' = Line /\ ~IsData(Head(toClient)) /\ (s = "ok" => ~IsRefusal(Head(toClient)))
    BY <1>a, <2>1 DEF Line, IsData, IsRefusal
  <2> QED
    BY <1>a, <1>b, <2>1, <2>2, ReadsHold
<1>3. CASE ReceivePutAnswer
  <2>1. /\ pending # <<>> /\ pending' = Tail(pending) /\ UNCHANGED <<listen, serverCache>>
        /\ pending \in Seq(Write) /\ pending \in Seq(Request) /\ calls \in Seq(Request)
    <3>1. pending # <<>> /\ pending' = Tail(pending)
      BY <1>3, ReadPut DEF Known
    <3> QED
      BY <1>3, <1>a, <3>1 DEF ReceivePutAnswer, TypeOK, Request
  <2>2. PICK s \in Statuses :
          /\ Head(toClient) = [type |-> "put", write |-> Head(pending), status |-> s]
          /\ outcome' = [outcome EXCEPT ![Head(pending)] = s]
    BY <1>3, ReadPut DEF Known
  <2>3. /\ Tail(pending) \in Seq(Request) /\ ToSet(pending) = {Head(pending)} \cup ToSet(Tail(pending))
    BY <2>1, BeforeTail
  <2>4. p \in ToSet(Line) => p = Head(pending) \/ p \in ToSet(Line')
    <3>1. ToSet(Line') = ToSet(Tail(pending)) \cup ToSet(calls)
      BY <1>a, <2>1, <2>3, BeforeConcat DEF Line
    <3>2. ToSet(Line) = ToSet(pending) \cup ToSet(calls)
      BY <1>a, LineIs
    <3> QED
      BY <2>3, <3>1, <3>2
  <2>5. /\ ~IsRefusal(Head(toClient)) /\ ~IsData(Head(toClient))
        /\ p = Head(pending) => IsPutOf(Head(toClient), p)
        /\ Head(toClient).status = s
    BY <2>2 DEF IsRefusal, IsData, IsPutOf
  <2>6. p = Head(pending) => s = "ok" \/ p \in Excused'
    <3>1. ASSUME p = Head(pending), s # "ok" PROVE outcome'[p] = "denied"
      BY <1>a, <2>2, <3>1, StatusesAssumption DEF TypeOK
    <3> QED
      BY <3>1 DEF Excused
  <2> QED
    BY <1>a, <1>b, <2>1, <2>4, <2>5, <2>6, ReadsHold
<1> QED
  BY <1>1, <1>2, <1>3 DEF ClientReceives

(* The server stores, pushes what it stores, and answers.                  *)
LEMMA ServingHolds ==
  ASSUME Known, NEW Y, Chronicle(Y), NEW p \in Points, UNCHANGED client,
         Excused \subseteq Excused', taken \subseteq taken', server' \in SUBSET Points,
         NEW q, q = toClient \/ q = Append(toClient, [type |-> "data", points |-> server']),
         NEW m \in Message, ~IsData(m), toClient' = q \/ toClient' = Append(q, m),
         (p \notin taken' \/ p \in ToSet(calls)) /\ p \notin server => p \notin server',
         p \in taken /\ p \notin ToSet(Line) => Settles(p, Excused', server, server'),
         (\E i \in DOMAIN toClient : IsPutOf(toClient[i], p)) => Settles(p, Excused', server, server'),
         IsPutOf(m, p) /\ listen # "off" =>
           \/ \E i \in DOMAIN q : IsRefusal(q[i])
           \/ Brings(q, serverCache, server') /\ (m.status = "ok" => p \in server')
  PROVE  Holds(p, Y)'
<1>1. /\ toClient \in Seq(Message) /\ Holds(p, Y) /\ [type |-> "data", points |-> server'] \in Message
      /\ UNCHANGED <<calls, pending, listen, serverCache>> /\ Line' = Line
  BY MessageType DEF Known, Ordered, TypeOK, Chronicle, client, Line
<1> DEFINE d == [type |-> "data", points |-> server']
<1>2. IsData(d) /\ d.points = server' /\ ~IsPutOf(d, p)
  BY DEF IsData, IsPutOf
<1> HIDE DEF d
<1>3. PICK T : T = server'
  OBVIOUS
<1>4. PICK Z : Z = Excused'
  OBVIOUS
<1>5. PICK r \in Seq(Message) : r = q /\ (r = toClient \/ r = Append(toClient, d))
  <2>1. Append(toClient, d) \in Seq(Message)
    BY <1>1, OneMore DEF d
  <2> QED
    BY <1>1, <2>1 DEF d
<1>6. ASSUME p \notin taken' \/ p \in ToSet(calls') PROVE Nowhere(p, toClient', serverCache, T)
  <2>1. Nowhere(p, toClient, serverCache, server) /\ p \notin server
    <3>1. Nowhere(p, toClient, serverCache, server)
      BY <1>1, <1>6 DEF Holds
    <3>2. Len(toClient) + 1 \in Stages(toClient) /\ At(toClient, serverCache, server, Len(toClient) + 1) = server
      BY <1>1, StagesAre DEF At
    <3> QED
      BY <3>1, <3>2 DEF Nowhere
  <2>2. p \notin T
    BY <1>1, <1>3, <1>6, <2>1
  <2>3. Nowhere(p, toClient, serverCache, T)
    <3>1. \A i \in Stages(toClient) : i # Len(toClient) + 1 =>
            At(toClient, serverCache, T, i) = At(toClient, serverCache, server, i)
      BY DEF At
    <3>2. At(toClient, serverCache, T, Len(toClient) + 1) = T
      BY <1>1, StagesAre DEF At
    <3> QED
      BY <2>1, <2>2, <3>1, <3>2 DEF Nowhere
  <2>4. Nowhere(p, r, serverCache, T)
    BY <1>1, <1>2, <1>3, <1>5, <2>3, StagesSent DEF d
  <2>5. Nowhere(p, Append(r, m), serverCache, T)
    BY <2>4, StagesSent
  <2> QED
    BY <1>5, <2>4, <2>5
<1>7. ASSUME listen # "off"
      PROVE  /\ p \notin ToSet(Line) => Rests(p, Z, Y, toClient', serverCache, T)
             /\ Answers(p, Z, toClient', serverCache, T)
  <2>1. /\ p \notin ToSet(Line) => Rests(p, Excused, Y, toClient, serverCache, server)
        /\ Answers(p, Excused, toClient, serverCache, server)
    BY <1>1, <1>7 DEF Holds
  <2>2. ASSUME p \notin ToSet(Line) PROVE Rests(p, Z, Y, toClient, serverCache, T)
    <3>1. CASE p \in taken
      BY <1>1, <1>3, <1>4, <2>1, <2>2, <3>1, StoredKeeps
    <3>2. CASE p \notin taken
      <4>1. Nowhere(p, toClient, serverCache, server) /\ p \notin Y
        BY <1>1, <3>2 DEF Holds, Older
      <4> QED
        BY <1>1, <4>1, StagesStored DEF Rests, Nowhere
    <3> QED
      BY <3>1, <3>2
  <2>3. Answers(p, Z, toClient, serverCache, T)
    <3>1. CASE \E i \in DOMAIN toClient : IsPutOf(toClient[i], p)
      BY <1>1, <1>3, <1>4, <2>1, <3>1, StoredKeeps
    <3>2. CASE ~\E i \in DOMAIN toClient : IsPutOf(toClient[i], p)
      BY <3>2 DEF Answers
    <3> QED
      BY <3>1, <3>2
  <2>4. /\ p \notin ToSet(Line) => Rests(p, Z, Y, r, serverCache, T)
        /\ Answers(p, Z, r, serverCache, T)
    <3>1. d \in Message /\ (IsData(d) => d.points = T)
      BY <1>1, <1>2, <1>3 DEF d
    <3>2. /\ Rests(p, Z, Y, toClient, serverCache, T) => Rests(p, Z, Y, Append(toClient, d), serverCache, T)
          /\ Answers(p, Z, toClient, serverCache, T) => Answers(p, Z, Append(toClient, d), serverCache, T)
      BY <1>1, <1>2, <3>1, SentKeeps
    <3> QED
      BY <1>5, <2>2, <2>3, <3>2
  <2>5. /\ Rests(p, Z, Y, r, serverCache, T) => Rests(p, Z, Y, Append(r, m), serverCache, T)
        /\ Answers(p, Z, r, serverCache, T) => Answers(p, Z, Append(r, m), serverCache, T)
    <3>1. IsPutOf(m, p) => \/ \E i \in DOMAIN r : IsRefusal(r[i])
                           \/ Brings(r, serverCache, T) /\ (m.status = "ok" => p \in T)
      BY <1>3, <1>5, <1>7
    <3> QED
      BY <3>1, SentKeeps
  <2> QED
    BY <1>5, <2>4, <2>5
<1>8. p \in Y => Older(p)'
  BY <1>1 DEF Holds, Older
<1> QED
  BY <1>1, <1>3, <1>4, <1>6, <1>7, <1>8 DEF Holds

(* The server answers without storing anything.                            *)
LEMMA AnsweringHolds ==
  ASSUME Known, NEW Y, Chronicle(Y), NEW p \in Points, UNCHANGED <<client, server, history>>,
         NEW q, q = toClient \/ q = Append(toClient, [type |-> "data", points |-> server]),
         NEW m \in Message, ~IsData(m), toClient' = q \/ toClient' = Append(q, m),
         IsPutOf(m, p) /\ listen # "off" =>
           \/ \E i \in DOMAIN q : IsRefusal(q[i])
           \/ Brings(q, serverCache, server) /\ m.status # "ok"
  PROVE  Holds(p, Y)'
<1>1. Excused' = Excused /\ taken' = taken /\ server' = server /\ server \in SUBSET Points
  BY DEF history, Excused, Known, Ordered, TypeOK
<1>2. Settles(p, Excused', server, server')
  BY <1>1 DEF Settles
<1> QED
  BY <1>1, <1>2, ServingHolds

(* Nothing of this device is on the wire twice.                            *)
LEMMA TakenNext ==
  ASSUME Known, toServer # <<>>, Head(toServer) \in Write
  PROVE  /\ Head(toServer) \notin ToSet(calls)
         /\ \A p \in Points : (\E i \in DOMAIN toClient : IsPutOf(toClient[i], p)) =>
              p # Head(toServer) /\ Before(Line, p, Head(toServer)) /\ p \in taken
<1> DEFINE h == Head(toServer)
<1>1. /\ TypeOK /\ WireOrder /\ WritesWaitOnce /\ toClient \in Seq(Message) /\ toServer \in Seq(Request)
      /\ calls \in Seq(Request) /\ pending \in Seq(Write)
      /\ h \in Write /\ h \in ToSet(toServer)
  BY BeforeTail DEF Known, Ordered, TypeOK
<1>2. ToSet(OnWire) = ToSet(BackOf(toClient)) \cup ToSet(toServer)
  BY <1>1, TripIs, WireIs
<1>3. connection = "on" /\ h \in ToSet(pending)
  BY <1>1, <1>2 DEF WireOrder, InStep
<1>4. ~Before(Line, h, h)
  <2>1. ~Before(pending, h, h) /\ ~Before(calls, h, h)
    BY <1>1, BeforeOrders DEF WritesWaitOnce
  <2> QED
    BY <1>1, <1>3, <2>1, LineIs DEF WritesWaitOnce
<1>5. ASSUME NEW p \in Points, NEW i \in DOMAIN toClient, IsPutOf(toClient[i], p)
      PROVE  Before(Line, p, h) /\ p \in taken
  <2>1. p \in Write
    BY DEF Write
  <2> QED
    BY <1>5, <2>1, PutOnTheWay, Taken
<1> QED
  BY <1>1, <1>3, <1>4, <1>5 DEF WritesWaitOnce

(* What a write does to a point it is not.                                 *)
LEMMA StoresOther ==
  ASSUME NEW w \in Write, NEW p \in Points, NEW S, p # w, w \in Clears => p \in Excused' \/ p \notin S
  PROVE  Settles(p, Excused', S, Stored(w, S)) /\ (p \notin S => p \notin Stored(w, S))
BY DEF Settles, Stored

LEMMA AcceptingHolds ==
  ASSUME Known, NEW Y, Chronicle(Y), NEW p \in Points, ServerAccepts
  PROVE  Holds(p, Y)'
<1> DEFINE h == Head(toServer)
           q == toClient \o Push(server')
           m == [type |-> "put", write |-> h, status |-> "ok"]
<1>1. /\ toServer # <<>> /\ h \in Write /\ server' = Stored(h, server) /\ toClient' = q \o <<m>>
      /\ UNCHANGED <<client, taken, outcome, covers>>
  BY DEF ServerAccepts, history
<1>2. /\ TypeOK /\ Followed /\ Pushing /\ LineOrder /\ Own /\ WritesWaitOnce
      /\ toClient \in Seq(Message) /\ server \in SUBSET Points /\ Holds(p, Y)
      /\ Points \subseteq Write /\ Clears \subseteq Write /\ Points \cap Clears = {}
  BY WritesAssumption DEF Known, Ordered, TypeOK, Write, Chronicle
<1>3. /\ connection = "on" /\ h \in ToSet(Line) /\ h \in taken \ Elsewhere
      /\ "observe" \notin ToSet(toServer) /\ h \notin ToSet(calls)
      /\ (\E i \in DOMAIN toClient : IsPutOf(toClient[i], p)) => p # h /\ Before(Line, p, h) /\ p \in taken
  BY <1>1, Taken, TakenNext
<1>4. server' \in SUBSET Points /\ Excused' = Excused
  BY <1>1, <1>2, StoredType DEF Excused
<1>5. (q = toClient \/ q = Append(toClient, [type |-> "data", points |-> server'])) /\ q \in Seq(Message)
  BY <1>2, <1>4, Pushes
<1>6. m \in Message /\ ~IsData(m) /\ (IsPutOf(m, p) => p = h)
  BY <1>1, StatusesAssumption, MessageType DEF IsData, IsPutOf
<1>7. listen # "off" => Brings(q, serverCache, server') \/ \E i \in DOMAIN q : IsRefusal(q[i])
  <2>1. ~watching => q = toClient
    <3>1. ~watching => Push(server') = <<>>
      BY DEF Push
    <3>2. toClient \o <<>> = toClient
      BY <1>2
    <3> QED
      BY <3>1, <3>2
  <2>2. watching /\ listen # "off" => Brings(q, serverCache, server')
    BY <1>2, <1>4, StoredIsPushed
  <2> HIDE DEF q
  <2>3. ~watching /\ listen # "off" => \E i \in DOMAIN toClient : IsRefusal(toClient[i])
    BY <1>2, <1>3 DEF Pushing
  <2> QED
    BY <2>1, <2>2, <2>3
<1> HIDE DEF m, q
<1>8. toClient' = Append(q, m)
  BY <1>1, <1>5, <1>6, OneMore
<1> HIDE DEF h
<1>9. ASSUME h \in Clears, p \in server, p \in taken, p \notin ToSet(Line) \/ Before(Line, p, h)
      PROVE  p \in Excused'
  <2>1. p \in covers[h] \cup Elsewhere
    BY <1>2, <1>3, <1>9 DEF LineOrder, Behind
  <2> QED
    BY <1>3, <1>4, <1>9, <2>1 DEF Excused
<1>10. ASSUME p # h, p \in taken, p \notin ToSet(Line) \/ Before(Line, p, h)
       PROVE  Settles(p, Excused', server, server')
  BY <1>1, <1>9, <1>10, StoresOther
<1>11. (p \notin taken' \/ p \in ToSet(calls)) /\ p \notin server => p \notin server'
  <2>1. p \notin taken' \/ p \in ToSet(calls) => p # h
    BY <1>1, <1>3
  <2> QED
    BY <1>1, <2>1, StoresOther
<1>12. IsPutOf(m, p) => p \in server'
  BY <1>1, <1>2, <1>6 DEF Stored
<1> QED
  BY <1>1, <1>3, <1>4, <1>5, <1>6, <1>7, <1>8, <1>10, <1>11, <1>12, ServingHolds

LEMMA OthersHold ==
  ASSUME Known, NEW Y, Chronicle(Y), NEW p \in Points, OtherDeviceWrites
  PROVE  Holds(p, Y)'
<1>1. PICK w \in Elsewhere :
        /\ Issue(w) /\ server' = Stored(w, server) /\ toClient' = toClient \o Push(server')
        /\ UNCHANGED client
  BY DEF OtherDeviceWrites
<1> DEFINE q == toClient \o Push(server')
           m == [type |-> "auth"]
<1>2. /\ w \in Write \ taken /\ taken' = taken \cup {w} /\ outcome' = outcome
      /\ \A c \in Clears : covers'[c] = IF c = w THEN taken \cap Points ELSE covers[c]
  BY <1>1, FreshWrite
<1>3. /\ TypeOK /\ server \in SUBSET Points /\ server' \in SUBSET Points
      /\ Points \subseteq Write /\ WritesWaitOnce /\ Holds(p, Y) /\ calls' = calls
  BY <1>1, <1>2, StoredType DEF Known, Ordered, TypeOK, Write, Chronicle, client
<1>4. q = toClient \/ q = Append(toClient, [type |-> "data", points |-> server'])
  BY <1>3, Pushes
<1>5. m \in Message /\ ~IsData(m) /\ ~IsPutOf(m, p) /\ toClient' = q
  BY <1>1 DEF Message, IsData, IsPutOf
<1> HIDE DEF m, q
<1>6. Excused \subseteq Excused' /\ taken \subseteq taken'
  BY HistoryGrows DEF Next, Service
<1>7. ASSUME p \in taken PROVE Settles(p, Excused', server, server')
  <2>1. p # w
    BY <1>2, <1>7
  <2>2. ASSUME w \in Clears PROVE p \in Excused'
    <3>1. p \in covers'[w] /\ w \in Clears \cap taken'
      BY <1>2, <1>7, <2>2
    <3> QED
      BY <3>1 DEF Excused
  <2> QED
    BY <1>1, <1>2, <2>1, <2>2, StoresOther
<1>8. (\E i \in DOMAIN toClient : IsPutOf(toClient[i], p)) => p \in taken
  BY <1>3, PutOnTheWay
<1>9. (p \notin taken' \/ p \in ToSet(calls)) /\ p \notin server => p \notin server'
  <2>1. p \notin taken' \/ p \in ToSet(calls) => p # w
    BY <1>2, <1>3 DEF WritesWaitOnce
  <2> QED
    BY <1>1, <1>2, <2>1, StoresOther
<1> QED
  BY <1>1, <1>3, <1>4, <1>5, <1>6, <1>7, <1>8, <1>9, ServingHolds

LEMMA ServerHolds ==
  ASSUME Known, NEW Y, Chronicle(Y), NEW p \in Points, ServerServes
  PROVE  Holds(p, Y)'
<1>a. TypeOK /\ toClient \in Seq(Message) /\ server \in SUBSET Points /\ Followed /\ Pushing
  BY DEF Known, Ordered, TypeOK
<1>1. CASE ServerAuthenticates
  <2>1. /\ [type |-> "auth"] \in Message /\ ~IsData([type |-> "auth"]) /\ ~IsPutOf([type |-> "auth"], p)
    BY DEF Message, IsData, IsPutOf
  <2> QED
    BY <1>1, <2>1, AnsweringHolds DEF ServerAuthenticates
<1>2. CASE ServerListens
  <2>1. PICK s \in Statuses :
           toClient' = toClient
            \o (IF s = "ok" THEN <<[type |-> "data", points |-> server]>> ELSE <<>>)
            \o <<[type |-> "listen", status |-> s]>>
    BY <1>2 DEF ServerListens
  <2>2. UNCHANGED <<client, server, history>>
    BY <1>2 DEF ServerListens
  <2> DEFINE m == [type |-> "listen", status |-> s]
             d == [type |-> "data", points |-> server]
  <2>3. m \in Message /\ ~IsData(m) /\ ~IsPutOf(m, p) /\ d \in Message
    BY <1>a, MessageType DEF IsData, IsPutOf
  <2>4. CASE s = "ok"
    <3>1. toClient \o <<d>> = Append(toClient, d) /\ Append(toClient, d) \in Seq(Message)
      BY <1>a, <2>3, OneMore
    <3>2. toClient' = Append(toClient, d) \o <<m>>
      BY <2>1, <2>4, <3>1
    <3>3. d = [type |-> "data", points |-> server]
      OBVIOUS
    <3> HIDE DEF m, d
    <3>4. toClient' = Append(Append(toClient, d), m)
      BY <2>3, <3>1, <3>2, OneMore
    <3> QED
      BY <2>2, <2>3, <3>3, <3>4, AnsweringHolds
  <2>5. CASE s # "ok"
    <3>1. toClient \o <<>> = toClient
      BY <1>a
    <3>2. toClient' = toClient \o <<m>>
      BY <2>1, <2>5, <3>1
    <3> HIDE DEF m, d
    <3>3. toClient' = Append(toClient, m)
      BY <1>a, <2>3, <3>2, OneMore
    <3> QED
      BY <2>2, <2>3, <3>3, AnsweringHolds
  <2> QED
    BY <2>4, <2>5
<1>3. CASE ServerAccepts
  BY <1>3, AcceptingHolds
<1>4. CASE ServerRefuses
  <2> DEFINE m == [type |-> "put", write |-> Head(toServer), status |-> "denied"]
  <2>1. /\ m \in Message /\ ~IsData(m) /\ m.status # "ok"
        /\ connection = "on" /\ "observe" \notin ToSet(toServer)
    BY <1>4, MessageType, Taken DEF ServerRefuses, IsData
  <2>2. toClient' = Append(toClient, m) /\ UNCHANGED <<client, server, history>>
    BY <1>4 DEF ServerRefuses
  <2> HIDE DEF m
  <2>3. listen # "off" => Brings(toClient, serverCache, server) \/ \E i \in DOMAIN toClient : IsRefusal(toClient[i])
    BY <1>a, <2>1 DEF Followed, Pushing
  <2> QED
    BY <2>1, <2>2, <2>3, AnsweringHolds
<1> QED
  BY <1>1, <1>2, <1>3, <1>4 DEF ServerServes

(***************************************************************************)
(* Silent, Emptied, and the whole.                                         *)
(***************************************************************************)
LEMMA SilentStep ==
  ASSUME Known, Silent, [Next]_dbVars, ~Relaunch
  PROVE  Silent'
<1>a. /\ TypeOK /\ NotYetObserved /\ calls \in Seq(Request) /\ toClient \in Seq(Message) /\ toServer \in Seq(Request)
  BY DEF Known, Ordered, TypeOK
<1>b. ASSUME "observe" \in ToSet(calls) PROVE ~watching /\ "observe" \notin ToSet(toServer)
  BY <1>a, <1>b DEF NotYetObserved, ToSet
<1> SUFFICES ASSUME "observe" \in ToSet(calls') PROVE \A i \in DOMAIN toClient' : ~IsData(toClient'[i])
  BY DEF Silent
<1>c. "observe" \in ToSet(calls)
  <2>1. CASE AppWrites
    <3>1. PICK w \in Write : calls' = Append(calls, w)
      BY <2>1 DEF AppWrites, CallWrite
    <3> QED
      BY <1>a, <3>1, CallAppended, Symbols
  <2>2. CASE RunObserve \/ RunWrite
    <3>1. calls # <<>> /\ calls' = Tail(calls)
      BY <2>2 DEF RunObserve, RunWrite
    <3> QED
      BY <1>a, <3>1, BeforeTail
  <2>3. CASE UNCHANGED calls
    BY <2>3
  <2> QED
    BY <2>1, <2>2, <2>3 DEF Next, Service, ClientRuns, Connect, Disconnect, ClientReceives, ReceiveAuthAnswer,
       ReceiveData, ReceiveListenAnswer, ReceivePutAnswer, Receive, ServerServes, ServerAuthenticates,
       ServerListens, ServerAccepts, ServerRefuses, OtherDeviceWrites, AppRunsBlock, dbVars, client
<1>d. ~watching /\ "observe" \notin ToSet(toServer) /\ \A i \in DOMAIN toClient : ~IsData(toClient[i])
  BY <1>b, <1>c DEF Silent
<1>1. CASE ClientReceives
  <2>1. toClient # <<>> /\ toClient' = Tail(toClient)
    BY <1>1 DEF ClientReceives, ReceiveAuthAnswer, ReceiveData, ReceiveListenAnswer, ReceivePutAnswer, Receive
  <2> QED
    BY <1>a, <1>d, <2>1, TailIs
<1>2. ASSUME NEW m \in Message, ~IsData(m), toClient' = Append(toClient, m)
      PROVE  \A i \in DOMAIN toClient' : ~IsData(toClient'[i])
  BY <1>a, <1>d, <1>2, AppendIs
<1>3. CASE ServerAuthenticates
  <2>1. [type |-> "auth"] \in Message /\ ~IsData([type |-> "auth"])
    BY DEF Message, IsData
  <2> QED
    BY <1>2, <1>3, <2>1 DEF ServerAuthenticates
<1>4. CASE ServerListens
  <2>1. "observe" \in ToSet(toServer)
    BY <1>a, <1>4, BeforeTail DEF ServerListens
  <2> QED
    BY <1>d, <2>1
<1>5. CASE ServerAccepts \/ ServerRefuses
  <2>1. PICK s \in Statuses, w \in Write :
          \/ toClient' = Append(toClient, [type |-> "put", write |-> w, status |-> s])
          \/ toClient' = toClient \o Push(server') \o <<[type |-> "put", write |-> w, status |-> s]>>
    BY <1>5, StatusesAssumption DEF ServerAccepts, ServerRefuses
  <2>2. Push(server') = <<>> /\ toClient \o <<>> = toClient
    BY <1>a, <1>d DEF Push
  <2> DEFINE m == [type |-> "put", write |-> w, status |-> s]
  <2>3. m \in Message /\ ~IsData(m)
    BY MessageType DEF IsData
  <2>4. toClient' = Append(toClient, m) \/ toClient' = toClient \o <<m>>
    BY <2>1, <2>2
  <2> HIDE DEF m
  <2> QED
    BY <1>a, <1>2, <2>3, <2>4, OneMore
<1>6. CASE OtherDeviceWrites
  <2>1. toClient' = toClient
    <3>1. Push(server') = <<>> /\ toClient \o <<>> = toClient
      BY <1>a, <1>d DEF Push
    <3> QED
      BY <1>6, <3>1 DEF OtherDeviceWrites
  <2> QED
    BY <1>d, <2>1
<1>7. CASE Disconnect
  BY <1>7 DEF Disconnect
<1>8. CASE UNCHANGED toClient
  BY <1>8, <1>d
<1> QED
  BY <1>1, <1>3, <1>4, <1>5, <1>6, <1>7, <1>8 DEF Next, Service, ClientRuns, RunObserve, RunWrite, Connect,
     ServerServes, AppWrites, AppRunsBlock, dbVars, client, wire

LEMMA EmptiedSends ==
  ASSUME Known, Emptied, UNCHANGED client, server' \in SUBSET Points,
         NEW q, q = toClient \/ q = Append(toClient, [type |-> "data", points |-> server']),
         NEW m \in Message, toClient' = q \/ toClient' = Append(q, m),
         \A c \in Clears : IsPutOk(m, c) /\ listen # "off" =>
           Brings(q, serverCache, {}) \/ \E i \in DOMAIN q : IsRefusal(q[i])
  PROVE  Emptied'
<1> DEFINE d == [type |-> "data", points |-> server']
<1>1. /\ toClient \in Seq(Message) /\ d \in Message /\ \A c : ~IsPutOk(d, c)
      /\ UNCHANGED <<listen, serverCache>>
  BY MessageType DEF Known, Ordered, TypeOK, client, IsPutOk
<1> HIDE DEF d
<1> SUFFICES ASSUME listen # "off", NEW c \in Clears
             PROVE  FreeWhenConfirmed(toClient', c, serverCache, Points)
  BY <1>1 DEF Emptied
<1>2. FreeWhenConfirmed(toClient, c, serverCache, Points)
  BY DEF Emptied
<1>3. q \in Seq(Message) /\ FreeWhenConfirmed(q, c, serverCache, Points)
  <2>1. Append(toClient, d) \in Seq(Message)
    BY <1>1, OneMore
  <2>2. FreeWhenConfirmed(Append(toClient, d), c, serverCache, Points)
    BY <1>1, <1>2, FreeAppend
  <2> QED
    BY <1>1, <1>2, <2>1, <2>2 DEF d
<1>4. IsPutOk(m, c) => \/ \E T : Brings(q, serverCache, T) /\ T \cap Points = {}
                       \/ \E i \in DOMAIN q : IsRefusal(q[i])
  <2>1. {} \cap Points = {}
    OBVIOUS
  <2> QED
    BY <2>1
<1>5. FreeWhenConfirmed(Append(q, m), c, serverCache, Points)
  BY <1>3, <1>4, FreeAppend
<1> QED
  BY <1>3, <1>5

LEMMA EmptiedServes ==
  ASSUME Known, Emptied, ServerServes
  PROVE  Emptied'
<1>a. /\ TypeOK /\ toClient \in Seq(Message) /\ server \in SUBSET Points /\ Followed /\ Pushing
      /\ Clears \subseteq Write
  BY DEF Known, Ordered, TypeOK, Write
<1>b. ASSUME UNCHANGED client, NEW m \in Message, toClient' = Append(toClient, m),
             \A c \in Clears : ~IsPutOk(m, c), UNCHANGED server
      PROVE  Emptied'
  BY <1>a, <1>b, EmptiedSends
<1>1. CASE ServerAuthenticates
  <2>1. [type |-> "auth"] \in Message /\ \A c : ~IsPutOk([type |-> "auth"], c)
    BY DEF Message, IsPutOk
  <2> QED
    BY <1>b, <1>1, <2>1 DEF ServerAuthenticates
<1>2. CASE ServerListens
  <2>1. PICK s \in Statuses :
           toClient' = toClient
            \o (IF s = "ok" THEN <<[type |-> "data", points |-> server]>> ELSE <<>>)
            \o <<[type |-> "listen", status |-> s]>>
    BY <1>2 DEF ServerListens
  <2>2. UNCHANGED <<client, server>>
    BY <1>2 DEF ServerListens
  <2> DEFINE m == [type |-> "listen", status |-> s]
             d == [type |-> "data", points |-> server]
  <2>3. m \in Message /\ (\A c : ~IsPutOk(m, c)) /\ d \in Message
    BY <1>a, MessageType DEF IsPutOk
  <2>4. CASE s = "ok"
    <3>1. toClient \o <<d>> = Append(toClient, d) /\ Append(toClient, d) \in Seq(Message)
      BY <1>a, <2>3, OneMore
    <3>2. toClient' = Append(toClient, d) \o <<m>>
      BY <2>1, <2>4, <3>1
    <3>3. d = [type |-> "data", points |-> server]
      OBVIOUS
    <3> HIDE DEF m, d
    <3>4. toClient' = Append(Append(toClient, d), m)
      BY <2>3, <3>1, <3>2, OneMore
    <3> QED
      BY <1>a, <2>2, <2>3, <3>3, <3>4, EmptiedSends
  <2>5. CASE s # "ok"
    <3>1. toClient \o <<>> = toClient
      BY <1>a
    <3>2. toClient' = toClient \o <<m>>
      BY <2>1, <2>5, <3>1
    <3> HIDE DEF m, d
    <3>3. toClient' = Append(toClient, m)
      BY <1>a, <2>3, <3>2, OneMore
    <3> QED
      BY <1>b, <2>2, <2>3, <3>3
  <2> QED
    BY <2>4, <2>5
<1>3. CASE ServerAccepts
  <2> DEFINE h == Head(toServer)
             q == toClient \o Push(server')
             m == [type |-> "put", write |-> h, status |-> "ok"]
  <2>1. /\ toServer # <<>> /\ h \in Write /\ server' = Stored(h, server) /\ toClient' = q \o <<m>>
        /\ UNCHANGED client
    BY <1>3 DEF ServerAccepts
  <2>2. connection = "on" /\ "observe" \notin ToSet(toServer)
    BY <2>1, Taken
  <2>3. server' \in SUBSET Points
    BY <1>a, <2>1, StoredType
  <2>4. (q = toClient \/ q = Append(toClient, [type |-> "data", points |-> server'])) /\ q \in Seq(Message)
    BY <1>a, <2>3, Pushes
  <2>5. m \in Message /\ \A c : IsPutOk(m, c) => c = h
    BY <2>1, StatusesAssumption, MessageType DEF IsPutOk
  <2>6. ~watching => q = toClient
    <3>1. ~watching => Push(server') = <<>>
      BY DEF Push
    <3>2. toClient \o <<>> = toClient
      BY <1>a
    <3> QED
      BY <3>1, <3>2
  <2>7. watching /\ listen # "off" => Brings(q, serverCache, server')
    BY <1>a, <2>3, StoredIsPushed
  <2> HIDE DEF m, q, h
  <2>8. toClient' = Append(q, m)
    BY <2>1, <2>4, <2>5, OneMore
  <2>9. ASSUME NEW c \in Clears, IsPutOk(m, c), listen # "off"
        PROVE  Brings(q, serverCache, {}) \/ \E i \in DOMAIN q : IsRefusal(q[i])
    <3>1. server' = {}
      BY <2>1, <2>5, <2>9 DEF Stored
    <3>2. ~watching => \E i \in DOMAIN q : IsRefusal(q[i])
      BY <1>a, <2>2, <2>6, <2>9 DEF Pushing
    <3> QED
      BY <2>7, <2>9, <3>1, <3>2
  <2> QED
    BY <2>1, <2>3, <2>4, <2>5, <2>8, <2>9, EmptiedSends
<1>4. CASE ServerRefuses
  <2> DEFINE m == [type |-> "put", write |-> Head(toServer), status |-> "denied"]
  <2>1. m \in Message /\ \A c : ~IsPutOk(m, c)
    BY <1>4, MessageType DEF ServerRefuses, IsPutOk
  <2> QED
    BY <1>b, <1>4, <2>1 DEF ServerRefuses
<1> QED
  BY <1>1, <1>2, <1>3, <1>4 DEF ServerServes

LEMMA EmptiedStep ==
  ASSUME Known, Emptied, [Next]_dbVars
  PROVE  Emptied'
<1>a. /\ TypeOK /\ toClient \in Seq(Message) /\ server \in SUBSET Points /\ Clears \subseteq Write
  BY DEF Known, Ordered, TypeOK, Write
<1>1. CASE RunObserve
  <2>1. UNCHANGED <<toClient, serverCache>> /\ calls # <<>> /\ Head(calls) = "observe"
    BY <1>1 DEF RunObserve
  <2>2. pending = <<>>
    <3>1. 1 \in DOMAIN calls /\ calls[1] = "observe"
      BY <1>a, <2>1 DEF TypeOK
    <3> QED
      BY <3>1 DEF Known, Ordered, ObservesFirst
  <2>3. ASSUME NEW c \in Clears, NEW i \in DOMAIN toClient PROVE ~IsPutOk(toClient[i], c)
    BY <1>a, <2>2, OnTheWay, BeforeNothing
  <2> QED
    BY <2>1, <2>3 DEF Emptied, FreeWhenConfirmed
<1>2. CASE Disconnect \/ Relaunch
  <2>1. toClient' = <<>>
    BY <1>2 DEF Disconnect, Relaunch
  <2> QED
    BY <2>1 DEF Emptied, FreeWhenConfirmed
<1>3. CASE ClientReceives
  <2>1. /\ toClient # <<>> /\ toClient' = Tail(toClient)
        /\ listen' # "off" =>
             /\ listen # "off" /\ ~IsRefusal(Head(toClient))
             /\ serverCache' = IF IsData(Head(toClient)) THEN Head(toClient).points ELSE serverCache
    <3>1. CASE ReceiveAuthAnswer \/ ReceiveData
      BY <3>1 DEF ReceiveAuthAnswer, ReceiveData, Receive, IsRefusal, IsData, WithData
    <3>2. CASE ReceiveListenAnswer
      BY <3>2 DEF ReceiveListenAnswer, Receive, IsRefusal, IsData
    <3>3. CASE ReceivePutAnswer
      BY <3>3 DEF ReceivePutAnswer, Receive, IsRefusal, IsData
    <3> QED
      BY <1>3, <3>1, <3>2, <3>3 DEF ClientReceives
  <2> QED
    BY <1>a, <2>1, FreeTail DEF Emptied
<1>4. CASE OtherDeviceWrites
  <2>1. PICK w \in Elsewhere : server' = Stored(w, server) /\ toClient' = toClient \o Push(server')
    BY <1>4 DEF OtherDeviceWrites
  <2>2. server' \in SUBSET Points
    BY <1>a, <2>1, StoredType, WritesAssumption DEF Write
  <2> DEFINE q == toClient \o Push(server')
  <2>3. q = toClient \/ q = Append(toClient, [type |-> "data", points |-> server'])
    BY <1>a, <2>2, Pushes
  <2>4. [type |-> "auth"] \in Message /\ \A c : ~IsPutOk([type |-> "auth"], c)
    BY DEF Message, IsPutOk
  <2>5. toClient' = q /\ UNCHANGED client
    BY <1>4, <2>1 DEF OtherDeviceWrites
  <2> HIDE DEF q
  <2> QED
    BY <2>2, <2>3, <2>4, <2>5, EmptiedSends
<1>5. CASE ServerServes
  BY <1>5, EmptiedServes
<1>6. CASE UNCHANGED <<toClient, serverCache, listen>>
  BY <1>6 DEF Emptied
<1> QED
  BY <1>1, <1>2, <1>3, <1>4, <1>5, <1>6 DEF Next, Service, ClientRuns, RunWrite, Connect,
     AppWrites, AppRunsBlock, dbVars, client, wire

-----------------------------------------------------------------------------
LEMMA ChronicleStep ==
  ASSUME Known, NEW Y, Chronicle(Y), [Next]_dbVars
  PROVE  /\ ~Relaunch => Chronicle(Y)'
         /\ Relaunch => Chronicle({})'
<1>1. Silent /\ Emptied /\ Emptied'
  BY EmptiedStep DEF Chronicle
<1>2. ~Relaunch => Silent'
  BY <1>1, SilentStep
<1>3. ASSUME ~Relaunch, NEW p \in Points PROVE Holds(p, Y)'
  BY <1>3, ClientHolds, ObserveHolds, LostHolds, ReceivingHolds, ServerHolds, OthersHold
     DEF Next, Service, ClientRuns
<1>4. ASSUME Relaunch PROVE Silent'
  BY <1>4 DEF Relaunch, Silent
<1>5. ASSUME Relaunch, NEW p \in Points PROVE Holds(p, {})'
  BY <1>5, RelaunchHolds
<1> QED
  BY <1>1, <1>2, <1>3, <1>4, <1>5 DEF Chronicle

LEMMA ChronicleInit == Init => Chronicle({})
<1> SUFFICES ASSUME Init PROVE Chronicle({})
  OBVIOUS
<1>1. /\ calls = <<"observe">> /\ listen = "off" /\ serverCache = {} /\ toClient = <<>> /\ server = taken
  BY DEF Init
<1>2. Silent /\ Emptied
  BY <1>1 DEF Silent, Emptied
<1>3. ASSUME NEW p \in Points PROVE Holds(p, {})
  <2>1. p \notin ToSet(calls)
    <3>1. p \in Write
      BY DEF Write
    <3> QED
      BY <1>1, <3>1, BeforeSingle, Symbols
  <2>2. p \notin taken => Nowhere(p, <<>>, {}, server)
    <3>1. Len(<<>>) = 0 /\ \A i \in Stages(<<>>) : i = 0 \/ i = 1
      BY DEF Stages
    <3> QED
      BY <1>1, <3>1 DEF Nowhere, At
  <2> QED
    BY <1>1, <2>1, <2>2 DEF Holds
<1> QED
  BY <1>2, <1>3 DEF Chronicle

-----------------------------------------------------------------------------
(* What the pending writes let through.                                    *)

LEMMA OverlayRead ==
  ASSUME NEW q \in Seq(Write), q # <<>>, NEW c, NEW p \in Points
  PROVE  /\ p # Head(q) /\ p \in Overlay(c, q) => p \in Overlay(c, Tail(q))
         /\ IsInjective(q) /\ p = Head(q) /\ p \in Overlay(c, q) /\ p \in c => p \in Overlay(c, Tail(q))
         /\ p \in Overlay(c, Tail(q)) /\ (Head(q) \notin Clears \/ p \notin c) => p \in Overlay(c, q)
<1>0. Tail(q) \in Seq(Write)
  BY TailType
<1>1. PICK r \in Seq(Write) : r = Tail(q)
  BY <1>0
<1>2. /\ 1 \in DOMAIN q /\ q[1] = Head(q) /\ DOMAIN q \subseteq Nat /\ DOMAIN r \subseteq Nat
      /\ \A i \in DOMAIN r : i + 1 \in DOMAIN q /\ r[i] = q[i + 1]
      /\ \A i \in DOMAIN q : i # 1 => \E k \in DOMAIN r : i = k + 1 /\ r[k] = q[i]
  BY <1>1, TailIs
<1>3. /\ \A i, j \in DOMAIN r : j > i <=> j + 1 > i + 1
      /\ \A j \in DOMAIN r : j + 1 # 1 /\ j + 1 > 1 /\ ~(1 > j + 1)
      /\ \A i \in DOMAIN q : i # 1 => i > 1
      /\ ~(1 > 1)
  BY <1>2
<1>a. ASSUME \A j \in DOMAIN q : q[j] \notin Clears PROVE \A j \in DOMAIN r : r[j] \notin Clears
  BY <1>2, <1>a
<1>b. ASSUME NEW i \in DOMAIN r, \A j \in DOMAIN q : j > i + 1 => q[j] \notin Clears
      PROVE  \A j \in DOMAIN r : j > i => r[j] \notin Clears
  <2> SUFFICES ASSUME NEW j \in DOMAIN r, j > i PROVE r[j] \notin Clears
    OBVIOUS
  <2> QED
    BY <1>2, <1>3, <1>b
<1>c. ASSUME NEW i \in DOMAIN r, \A j \in DOMAIN r : j > i => r[j] \notin Clears
      PROVE  \A j \in DOMAIN q : j > i + 1 => q[j] \notin Clears
  <2> SUFFICES ASSUME NEW j \in DOMAIN q, j > i + 1 PROVE q[j] \notin Clears
    OBVIOUS
  <2>1. PICK k \in DOMAIN r : j = k + 1 /\ r[k] = q[j]
    BY <1>2, <1>3
  <2>2. k > i
    BY <1>3, <2>1
  <2> QED
    BY <1>c, <2>1, <2>2
<1>4. ASSUME p # Head(q), p \in Overlay(c, q) PROVE p \in Overlay(c, r)
  <2>1. CASE p \in c /\ \A i \in DOMAIN q : q[i] \notin Clears
    BY <1>a, <2>1 DEF Overlay
  <2>2. ASSUME NEW i \in DOMAIN q, q[i] = p, \A j \in DOMAIN q : j > i => q[j] \notin Clears
        PROVE  p \in Overlay(c, r)
    <3>1. i # 1
      BY <1>2, <1>4, <2>2
    <3>2. PICK k \in DOMAIN r : i = k + 1 /\ r[k] = q[i]
      BY <1>2, <3>1
    <3>3. \A j \in DOMAIN r : j > k => r[j] \notin Clears
      BY <1>b, <2>2, <3>2
    <3> QED
      BY <2>2, <3>2, <3>3 DEF Overlay
  <2> QED
    BY <1>4, <2>1, <2>2 DEF Overlay
<1>5. ASSUME IsInjective(q), p = Head(q), p \in Overlay(c, q), p \in c PROVE p \in Overlay(c, r)
  <2>1. CASE \A i \in DOMAIN q : q[i] \notin Clears
    BY <1>a, <1>5, <2>1 DEF Overlay
  <2>2. ASSUME NEW i \in DOMAIN q, q[i] = p, \A j \in DOMAIN q : j > i => q[j] \notin Clears
        PROVE  p \in Overlay(c, r)
    <3>1. i = 1
      BY <1>2, <1>5, <2>2 DEF IsInjective
    <3>2. \A j \in DOMAIN r : r[j] \notin Clears
      BY <1>2, <1>3, <2>2, <3>1
    <3> QED
      BY <1>5, <3>2 DEF Overlay
  <2> QED
    BY <1>5, <2>1, <2>2 DEF Overlay
<1>6. ASSUME p \in Overlay(c, r), Head(q) \notin Clears \/ p \notin c PROVE p \in Overlay(c, q)
  <2>1. CASE p \in c /\ \A i \in DOMAIN r : r[i] \notin Clears
    <3>1. \A i \in DOMAIN q : q[i] \notin Clears
      BY <1>2, <1>6, <2>1
    <3> QED
      BY <2>1, <3>1 DEF Overlay
  <2>2. ASSUME NEW i \in DOMAIN r, r[i] = p, \A j \in DOMAIN r : j > i => r[j] \notin Clears
        PROVE  p \in Overlay(c, q)
    <3>1. i + 1 \in DOMAIN q /\ q[i + 1] = p
      BY <1>2, <2>2
    <3>2. \A j \in DOMAIN q : j > i + 1 => q[j] \notin Clears
      BY <1>c, <2>2
    <3> QED
      BY <3>1, <3>2 DEF Overlay
  <2> QED
    BY <1>6, <2>1, <2>2 DEF Overlay
<1> QED
  BY <1>1, <1>4, <1>5, <1>6

LEMMA OverlayWritten ==
  ASSUME NEW q \in Seq(Write), NEW h \in Write, NEW c, NEW p \in Points
  PROVE  /\ h \in Points /\ p \in Overlay(c, q) => p \in Overlay(c, Append(q, h))
         /\ p # h /\ p \in Overlay(c, Append(q, h)) => h \in Points /\ p \in Overlay(c, q)
<1>0. Append(q, h) \in Seq(Write)
  BY AppendProperties
<1>1. PICK r \in Seq(Write) : r = Append(q, h)
  BY <1>0
<1> DEFINE n == Len(q) + 1
<1>2. /\ DOMAIN q \subseteq Nat /\ DOMAIN r = DOMAIN q \cup {n} /\ r[n] = h
      /\ \A i \in DOMAIN q : r[i] = q[i] /\ i < n
      /\ n \in Nat
  BY <1>1, AppendIs
<1> HIDE DEF n
<1>3. \A i \in DOMAIN q : n > i /\ i # n
  BY <1>2
<1>4. h \in Points => h \notin Clears
  BY WritesAssumption
<1>5. ASSUME h \in Points, p \in Overlay(c, q) PROVE p \in Overlay(c, r)
  BY <1>2, <1>4, <1>5 DEF Overlay
<1>6. ASSUME p # h, p \in Overlay(c, r) PROVE h \in Points /\ p \in Overlay(c, q)
  <2>1. h \notin Clears
    BY <1>2, <1>3, <1>6 DEF Overlay
  <2> QED
    BY <1>2, <1>3, <1>6, <2>1 DEF Overlay, Write
<1> QED
  BY <1>1, <1>5, <1>6

LEMMA OverlayHolds ==
  ASSUME NEW q \in Seq(Write), NEW c, NEW d, NEW p \in Points, p \in Overlay(c, q)
  PROVE  /\ p \in c \/ p \in ToSet(q)
         /\ p \in ToSet(q) \/ p \in d => p \in Overlay(d, q)
<1>1. p \in ToSet(q) => \E i \in DOMAIN q : q[i] = p
  BY DEF ToSet
<1>2. p \in c \/ p \in ToSet(q)
  BY DEF Overlay, ToSet
<1> QED
  BY <1>1, <1>2 DEF Overlay

(* What the observer sees was issued, and waits nowhere else.              *)
LEMMA Viewed ==
  ASSUME Known, NEW Y, Chronicle(Y), NEW p \in EventCache
  PROVE  /\ listen # "off" /\ p \in Overlay(serverCache, pending) /\ p \in Points /\ Older(p)
         /\ p \notin ToSet(Line) => p \in serverCache
<1>1. /\ TypeOK /\ WritesWaitOnce /\ NotYetObserved /\ pending \in Seq(Write)
      /\ listen # "off" /\ p \in Overlay(serverCache, pending) /\ p \in Points /\ p \in Write
      /\ toClient \in Seq(Message)
  BY DEF Known, Ordered, TypeOK, EventCache, Overlay, Write
<1>2. ToSet(Line) = ToSet(pending) \cup ToSet(calls)
  BY <1>1, LineIs
<1>3. p \in serverCache \/ p \in ToSet(pending)
  BY <1>1, OverlayHolds
<1>4. "observe" \notin ToSet(calls)
  BY <1>1 DEF NotYetObserved, ToSet
<1>5. ASSUME p \notin taken \/ p \in ToSet(calls) PROVE FALSE
  <2>1. p \notin serverCache
    <3>1. Nowhere(p, toClient, serverCache, server)
      BY <1>1, <1>5 DEF Chronicle, Holds
    <3>2. 0 \in Stages(toClient) /\ At(toClient, serverCache, server, 0) = serverCache
      BY <1>1, StagesAre DEF At
    <3> QED
      BY <3>1, <3>2 DEF Nowhere
  <2> QED
    BY <1>1, <1>3, <1>5, <2>1 DEF WritesWaitOnce
<1> QED
  BY <1>1, <1>2, <1>3, <1>4, <1>5 DEF Older

LEMMA Widened ==
  ASSUME Known, NEW Y, Chronicle(Y), NEW Z, Z \subseteq Y \cup EventCache
  PROVE  Chronicle(Z)
<1> SUFFICES ASSUME NEW p \in Points PROVE Holds(p, Z)
  BY DEF Chronicle
<1>1. Holds(p, Y) /\ toClient \in Seq(Message)
  BY DEF Chronicle, Known, Ordered, TypeOK
<1>2. p \in Z => p \in Y \/ p \in EventCache
  OBVIOUS
<1>3. p \in EventCache => Older(p)
  BY Viewed
<1>4. ASSUME listen # "off", p \notin ToSet(Line)
      PROVE  Rests(p, Excused, Z, toClient, serverCache, server)
  <2>1. Rests(p, Excused, Y, toClient, serverCache, server)
    BY <1>1, <1>4 DEF Holds
  <2>2. p \in EventCache => Fading(0, p, toClient, serverCache, server)
    BY <1>1, <1>4, <2>1, Viewed, FadingIs DEF Rests
  <2> QED
    BY <1>2, <2>1, <2>2 DEF Rests
<1> QED
  BY <1>1, <1>2, <1>3, <1>4 DEF Holds

(* The next push is the stage behind the cache.                            *)
LEMMA NextPush ==
  ASSUME NEW q \in Seq(Message), q # <<>>, NEW c, NEW S, NEW p
  PROVE  /\ IsData(Head(q)) /\ Steady(p, q, c, S) /\ p \in c => p \in Head(q).points
         /\ IsData(Head(q)) /\ Fading(0, p, q, c, S) /\ p \in Head(q).points => p \in c
         /\ ~IsData(Head(q)) /\ There(1, p, q, c, S) => p \in c
<1>1. /\ Len(q) \in Nat /\ Len(q) > 0 /\ Head(q) = q[1] /\ 1 \in 1..Len(q) /\ Len(q) + 1 # 1
  OBVIOUS
<1>2. /\ 0 \in Stages(q) /\ At(q, c, S, 0) = c
      /\ IsData(Head(q)) => 1 \in Stages(q) /\ At(q, c, S, 1) = Head(q).points
  BY <1>1, StagesAre DEF At
<1>3. From(q, 0, 0) /\ 0 < 1
  BY DEF From
<1>4. ~IsData(Head(q)) => From(q, 1, 0)
  <2> SUFFICES ASSUME ~IsData(Head(q)), NEW k \in Stages(q), 0 < k PROVE 1 < k
    BY DEF From
  <2>1. k # 1
    BY <1>1, StagesAre
  <2>2. k \in Nat
    BY StagesAre
  <2> QED
    BY <2>1, <2>2
<1> QED
  BY <1>2, <1>3, <1>4 DEF Steady, Fading, There

(* A point that the observer sees stays, unless it is excused.             *)
LEMMA SeenStays ==
  ASSUME Known, NEW Y, Chronicle(Y), NEW p \in EventCache, [Next]_dbVars, ~Relaunch
  PROVE  p \in EventCache' \/ p \in Excused' \/ listen' = "off"
<1>a. /\ TypeOK /\ WritesWaitOnce /\ NotYetObserved /\ LineOrder /\ Own
      /\ pending \in Seq(Write) /\ calls \in Seq(Request) /\ toClient \in Seq(Message)
      /\ listen # "off" /\ p \in Overlay(serverCache, pending) /\ p \in Points /\ p \in Write /\ Older(p)
      /\ p \notin ToSet(Line) => p \in serverCache
      /\ ToSet(Line) = ToSet(pending) \cup ToSet(calls)
  BY Viewed, LineIs DEF Known, Ordered, TypeOK, Write
<1>b. Excused \subseteq Excused'
  BY HistoryGrows
<1>c. p \notin ToSet(calls) /\ p \in taken /\ "observe" \notin ToSet(calls)
  BY <1>a DEF Older
<1>d. /\ Holds(p, Y)
      /\ p \notin ToSet(Line) => Rests(p, Excused, Y, toClient, serverCache, server)
      /\ Answers(p, Excused, toClient, serverCache, server)
  BY <1>a DEF Chronicle, Holds
<1> SUFFICES ASSUME p \notin Excused', listen' # "off" PROVE p \in Overlay(serverCache', pending')
  BY DEF EventCache
<1>e. p \notin Excused
  BY <1>b
<1>1. CASE RunObserve
  <2>1. "observe" \in ToSet(calls)
    BY <1>1, <1>a, BeforeTail DEF RunObserve
  <2> QED
    BY <1>c, <2>1
<1>2. CASE RunWrite
  <2> DEFINE h == Head(calls)
  <2>1. /\ calls # <<>> /\ h \in Write /\ pending' = Append(pending, h) /\ serverCache' = serverCache
        /\ h \in ToSet(calls)
    BY <1>2, <1>a, BeforeTail DEF RunWrite
  <2>2. CASE h \in Points
    BY <1>a, <2>1, <2>2, OverlayWritten
  <2>3. CASE h \in Clears
    <3>1. h \in taken /\ h \in ToSet(Line)
      BY <1>a, <2>1 DEF WritesWaitOnce
    <3>2. p \in ToSet(pending) => Before(Line, p, h)
      BY <1>a, <2>1, LineIs
    <3>3. p \in covers[h] \cup Elsewhere
      BY <1>a, <1>c, <2>3, <3>1, <3>2 DEF LineOrder, Behind
    <3>4. p \in Excused
      BY <1>a, <2>3, <3>1, <3>3 DEF Excused
    <3> QED
      BY <1>e, <3>4
  <2> QED
    BY <2>1, <2>2, <2>3 DEF Write
<1>3. CASE ReceiveData
  <2>1. /\ toClient # <<>> /\ IsData(Head(toClient)) /\ pending' = pending
        /\ serverCache' = Head(toClient).points
    BY <1>3, <1>a DEF ReceiveData, Receive, IsData, WithData
  <2>2. CASE p \in ToSet(pending)
    BY <1>a, <2>1, <2>2, OverlayHolds
  <2>3. CASE p \notin ToSet(pending)
    <3>1. p \in serverCache /\ Steady(p, toClient, serverCache, server)
      BY <1>a, <1>c, <1>d, <1>e, <2>3 DEF Rests
    <3>2. p \in serverCache'
      BY <1>a, <2>1, <3>1, NextPush
    <3> QED
      BY <1>a, <2>1, <3>2, OverlayHolds
  <2> QED
    BY <2>2, <2>3
<1>4. CASE ReceiveListenAnswer
  <2>1. serverCache' = serverCache /\ pending' = pending
    BY <1>4 DEF ReceiveListenAnswer
  <2> QED
    BY <1>a, <2>1
<1>5. CASE ReceivePutAnswer
  <2>1. /\ pending # <<>> /\ pending' = Tail(pending) /\ UNCHANGED serverCache
        /\ toClient # <<>>
    <3>1. pending # <<>> /\ pending' = Tail(pending)
      BY <1>5, ReadPut DEF Known
    <3> QED
      BY <1>5, <3>1 DEF ReceivePutAnswer, Receive
  <2>2. PICK s \in Statuses :
          /\ Head(toClient) = [type |-> "put", write |-> Head(pending), status |-> s]
          /\ outcome' = [outcome EXCEPT ![Head(pending)] = s]
    BY <1>5, ReadPut DEF Known
  <2>3. CASE p # Head(pending)
    BY <1>a, <2>1, <2>3, OverlayRead
  <2>4. CASE p = Head(pending)
    <3>1. s = "ok"
      <4>1. ASSUME s # "ok" PROVE outcome'[p] = "denied"
        BY <1>a, <2>2, <2>4, <4>1, StatusesAssumption DEF TypeOK
      <4> QED
        BY <1>a, <4>1 DEF Excused
    <3>2. /\ 1 \in DOMAIN toClient /\ toClient[1] = Head(toClient) /\ DOMAIN toClient \subseteq Nat
          /\ \A i \in DOMAIN toClient : ~(i < 1)
      BY <1>a, <2>1
    <3>3. IsPutOf(toClient[1], p) /\ Unrefused(toClient, 1) /\ toClient[1].status = "ok" /\ ~IsData(Head(toClient))
      BY <2>2, <2>4, <3>1, <3>2 DEF IsPutOf, Unrefused, IsData
    <3>4. There(1, p, toClient, serverCache, server)
      BY <1>d, <1>e, <3>2, <3>3 DEF Answers
    <3>5. p \in serverCache
      BY <1>a, <2>1, <3>3, <3>4, NextPush
    <3> QED
      BY <1>a, <2>1, <2>4, <3>5, OverlayRead DEF WritesWaitOnce
  <2> QED
    BY <2>3, <2>4
<1>6. CASE UNCHANGED <<pending, serverCache>>
  BY <1>6, <1>a
<1> QED
  BY <1>1, <1>2, <1>3, <1>4, <1>5, <1>6
  DEF Next, Service, ClientRuns, Connect, Disconnect, ClientReceives, ReceiveAuthAnswer,
      ServerServes, ServerAuthenticates, ServerListens, ServerAccepts, ServerRefuses,
      OtherDeviceWrites, AppWrites, AppRunsBlock, dbVars, client

(* A point of the chart does not come back, unless a clear is refused.     *)
LEMMA NotSeenAgain ==
  ASSUME Known, NEW Y, Chronicle(Y), NEW p \in Y \cap Points, [Next]_dbVars, ~Relaunch, p \in EventCache',
         \A c \in Clears : outcome'[c] # "denied"
  PROVE  p \in EventCache
<1>a. /\ TypeOK /\ WritesWaitOnce /\ pending \in Seq(Write) /\ calls \in Seq(Request) /\ toClient \in Seq(Message)
      /\ listen' # "off" /\ p \in Overlay(serverCache', pending')
      /\ p \in Write /\ Holds(p, Y) /\ Older(p)
      /\ ToSet(Line) = ToSet(pending) \cup ToSet(calls)
  BY LineIs DEF Known, Ordered, TypeOK, EventCache, Chronicle, Holds, Write
<1>c. p \notin ToSet(calls) /\ "observe" \notin ToSet(calls)
  BY <1>a DEF Older
<1>b. ASSUME listen # "off", p \in Overlay(serverCache, pending) PROVE p \in EventCache
  BY <1>b DEF EventCache
<1>1. CASE RunObserve
  <2>1. "observe" \in ToSet(calls)
    BY <1>1, <1>a, BeforeTail DEF RunObserve
  <2> QED
    BY <1>c, <2>1
<1>2. CASE RunWrite
  <2> DEFINE h == Head(calls)
  <2>1. /\ calls # <<>> /\ h \in Write /\ pending' = Append(pending, h) /\ UNCHANGED <<listen, serverCache>>
        /\ h \in ToSet(calls)
    BY <1>2, <1>a, BeforeTail DEF RunWrite
  <2>2. p # h
    BY <1>c, <2>1
  <2> QED
    BY <1>a, <1>b, <2>1, <2>2, OverlayWritten
<1>3. CASE ReceiveData
  <2>1. /\ toClient # <<>> /\ IsData(Head(toClient)) /\ UNCHANGED <<pending, listen>>
        /\ serverCache' = Head(toClient).points /\ listen # "off"
    BY <1>3, <1>a DEF ReceiveData, Receive, IsData, WithData
  <2>2. CASE p \in ToSet(pending)
    BY <1>a, <1>b, <2>1, <2>2, OverlayHolds
  <2>3. CASE p \notin ToSet(pending)
    <3>1. Fading(0, p, toClient, serverCache, server)
      BY <1>a, <1>c, <2>1, <2>3 DEF Holds, Rests
    <3>2. p \in Head(toClient).points
      BY <1>a, <2>1, <2>3, OverlayHolds
    <3>3. p \in serverCache
      BY <1>a, <2>1, <3>1, <3>2, NextPush
    <3> QED
      BY <1>a, <1>b, <2>1, <3>3, OverlayHolds
  <2> QED
    BY <2>2, <2>3
<1>4. CASE ReceiveListenAnswer
  <2>1. serverCache' = serverCache /\ pending' = pending /\ listen # "off"
    BY <1>4, <1>a DEF ReceiveListenAnswer
  <2> QED
    BY <1>a, <1>b, <2>1
<1>5. CASE ReceivePutAnswer
  <2>1. /\ pending # <<>> /\ pending' = Tail(pending) /\ UNCHANGED <<serverCache, listen>>
        /\ toClient # <<>> /\ Head(pending) \in Write
    <3>1. pending # <<>> /\ pending' = Tail(pending)
      BY <1>5, ReadPut DEF Known
    <3> QED
      BY <1>5, <1>a, <3>1, BeforeTail DEF ReceivePutAnswer, Receive
  <2>2. PICK s \in Statuses :
          /\ Head(toClient) = [type |-> "put", write |-> Head(pending), status |-> s]
          /\ outcome' = [outcome EXCEPT ![Head(pending)] = s]
    BY <1>5, ReadPut DEF Known
  <2>3. ASSUME Head(pending) \in Clears PROVE p \notin serverCache
    <3>1. s = "ok"
      <4>1. outcome'[Head(pending)] = s
        BY <1>a, <2>1, <2>2 DEF TypeOK
      <4> QED
        BY <2>3, <4>1, StatusesAssumption
    <3>2. IsPutOk(Head(toClient), Head(pending))
      BY <2>2, <3>1 DEF IsPutOk
    <3>3. FreeWhenConfirmed(toClient, Head(pending), serverCache, Points)
      BY <1>a, <2>1, <2>3 DEF Chronicle, Emptied
    <3> QED
      BY <1>a, <2>1, <3>2, <3>3, FreeHead
  <2> QED
    BY <1>a, <1>b, <2>1, <2>3, OverlayRead
<1>6. CASE UNCHANGED <<pending, serverCache>> /\ (listen' = listen \/ Disconnect)
  <2>1. listen # "off"
    BY <1>6, <1>a DEF Disconnect
  <2> QED
    BY <1>6, <1>a, <1>b, <2>1
<1> QED
  BY <1>1, <1>2, <1>3, <1>4, <1>5, <1>6
  DEF Next, Service, ClientRuns, Connect, Disconnect, ClientReceives, ReceiveAuthAnswer,
      ServerServes, ServerAuthenticates, ServerListens, ServerAccepts, ServerRefuses,
      OtherDeviceWrites, AppWrites, AppRunsBlock, dbVars, client

-----------------------------------------------------------------------------
(***************************************************************************)
(* The points of the chart, and those whose event waits.                   *)
(***************************************************************************)
Displayed == {p \in Points : p \in ToSet(entryPoints) \/ Queued(p)}

(* What is displayed was seen: by the client now, or earlier.              *)
ChartInv ==
  /\ \E Y : Chronicle(Y) /\ Displayed \subseteq Y \cup EventCache
  /\ StalePointsExplained

LEMMA DisplayedStep ==
  ASSUME TypeOK, ScreensOK, [AppNext]_appVars
  PROVE  /\ ~Relaunch => Displayed' \subseteq Displayed \cup (EventCache' \ EventCache)
         /\ Relaunch => Displayed' = {}
<1>0. ToSet(<<>>) = {} /\ \A p : ChildAdded(p).block = "childAdded"
  BY BeforeNothing DEF ChildAdded
<1>r. Relaunch => AppRelaunch
  <2>1. Relaunch => deaths' # deaths
    BY DEF Relaunch, TypeOK
  <2>2. Service => deaths' = deaths
    BY DEF Service, ClientRuns, RunObserve, RunWrite, Connect, Disconnect,
       ClientReceives, ReceiveAuthAnswer, ReceiveData, ReceiveListenAnswer, ReceivePutAnswer, Receive,
       ServerServes, ServerAuthenticates, ServerListens, ServerAccepts, ServerRefuses, OtherDeviceWrites
  <2>3. User \/ MainQueue => deaths' = deaths
    BY DEF User, Touch, CancelTouch, ClearPointsTapped, AddNewPointTapped, SaveTapped, SheetSwiped, Writes,
       MainQueue, EntryPointAdded, EntryPointSaved, SaveUnheeded, ClearAnswered, RunBlock, dbVars, wire
  <2>4. HudExpires \/ HudFades \/ SheetGone \/ UNCHANGED appVars => deaths' = deaths
    BY DEF HudExpires, HudFades, SheetGone, appVars, dbVars, wire
  <2> QED
    BY <2>1, <2>2, <2>3, <2>4 DEF AppNext
<1>1. CASE Service /\ UNCHANGED chart
  <2>1. \A p \in Points : ChildAdded(p) \in ToSet(mainQ') => Queued(p) \/ p \in EventCache' \ EventCache
    <3>1. CASE mainQ' = mainQ
      BY <3>1 DEF Queued
    <3>2. CASE Raises
      <4>1. PICK A : /\ \A b \in A : b.block = "answer"
                     /\ \A b \in ToSet(mainQ') : \/ b \in ToSet(mainQ) \cup A
                                                 \/ \E p \in EventCache' \ EventCache : b = ChildAdded(p)
        BY <3>2, RaisesSet
      <4>2. \A p, x : ChildAdded(p) = ChildAdded(x) => p = x
        BY DEF ChildAdded
      <4> QED
        BY <1>0, <4>1, <4>2 DEF Queued
    <3> QED
      BY <1>1, <3>1, <3>2, ServiceRaises
  <2>2. Displayed' \subseteq Displayed \cup (EventCache' \ EventCache)
    BY <1>1, <2>1 DEF Displayed, Queued, chart
  <2>3. Relaunch => Displayed' = {}
    BY <1>r, <1>0 DEF AppRelaunch, Relaunch, Displayed, Queued
  <2> QED
    BY <2>2, <2>3
<1>2. CASE AppRelaunch
  BY <1>2, <1>0 DEF AppRelaunch, Relaunch, Displayed, Queued
<1>3. ASSUME ToSet(entryPoints') \subseteq ToSet(entryPoints) \cup {p \in Points : Queued(p)},
             ToSet(mainQ') \subseteq ToSet(mainQ)
      PROVE  Displayed' \subseteq Displayed
  BY <1>3 DEF Displayed, Queued
<1>4. CASE ClearPointsTapped
  <2>1. entryPoints' = <<>> /\ mainQ' = mainQ
    BY <1>4 DEF ClearPointsTapped, Writes
  <2>2. Displayed' \subseteq Displayed
    BY <1>0, <1>3, <2>1
  <2> QED
    BY <1>2, <1>r, <2>2
<1>5. CASE EntryPointAdded
  <2>1. PICK x \in Points : /\ TakeBlock /\ Head(mainQ) = ChildAdded(x)
                            /\ entryPoints' = Append(entryPoints, x)
    BY <1>5 DEF EntryPointAdded, RunBlock, WithPoint
  <2>2. ToSet(mainQ) = {ChildAdded(x)} \cup ToSet(mainQ')
    BY <2>1, BlockTaken
  <2>3. ToSet(entryPoints') = ToSet(entryPoints) \cup {x}
    BY <2>1, BeforeAppend DEF ScreensOK
  <2>4. Displayed' \subseteq Displayed
    BY <1>3, <2>2, <2>3 DEF Queued
  <2> QED
    BY <1>2, <1>r, <2>4
<1>6. CASE UNCHANGED chart /\ (\E w \in Points : Writes(w)) /\ SaveTapped
  <2>1. Displayed' \subseteq Displayed
    BY <1>3, <1>6 DEF Writes, chart
  <2> QED
    BY <1>2, <1>r, <2>1
<1>7. CASE /\ UNCHANGED chart /\ UNCHANGED client
           /\ TakeBlock /\ UNCHANGED <<client, wire, server, history>> /\ \A p : Head(mainQ) # ChildAdded(p)
  <2>1. ToSet(mainQ) = {Head(mainQ)} \cup ToSet(mainQ')
    BY <1>7, BlockTaken
  <2>2. Displayed' \subseteq Displayed
    BY <1>3, <1>7, <2>1 DEF chart
  <2> QED
    BY <1>2, <1>r, <2>2
<1>8. CASE UNCHANGED chart /\ UNCHANGED dbVars
  <2>1. Displayed' \subseteq Displayed
    BY <1>3, <1>8 DEF chart, dbVars
  <2> QED
    BY <1>2, <1>r, <2>1
<1> QED
  BY <1>1, <1>2, <1>4, <1>5, <1>6, <1>7, <1>8, ChartSteps

LEMMA ChartInvStep ==
  ASSUME Known, ScreensOK, ChartInv, [AppNext]_appVars
  PROVE  ChartInv'
<1>a. TypeOK /\ [Next]_dbVars
  BY DatabaseStep DEF Known, Ordered
<1>1. PICK Y : Chronicle(Y) /\ Displayed \subseteq Y \cup EventCache
  BY DEF ChartInv
<1>2. PICK Z : Z = Displayed \cup EventCache
  OBVIOUS
<1>3. Chronicle(Z)
  BY <1>1, <1>2, Widened
<1>4. CASE Relaunch
  <2>1. Chronicle({})' /\ Displayed' = {}
    BY <1>a, <1>3, <1>4, ChronicleStep, DisplayedStep
  <2>2. StalePointsExplained'
    BY <2>1 DEF StalePointsExplained, Displayed
  <2> QED
    BY <2>1, <2>2 DEF ChartInv
<1>5. CASE ~Relaunch
  <2>1. Chronicle(Z)' /\ Displayed' \subseteq Displayed \cup (EventCache' \ EventCache)
    BY <1>a, <1>3, <1>5, ChronicleStep, DisplayedStep
  <2>2. Displayed' \subseteq Z \cup EventCache'
    BY <1>2, <2>1
  <2>3. ASSUME NEW p \in Displayed' PROVE p \in EventCache' \/ p \in Excused' \/ listen' = "off"
    <3>1. CASE p \in EventCache
      BY <1>a, <1>3, <1>5, <3>1, SeenStays
    <3>2. CASE p \in Displayed /\ p \notin EventCache
      <4>1. p \in Points /\ (p \in Excused \/ listen = "off")
        BY <3>2 DEF ChartInv, StalePointsExplained, Displayed, Excused
      <4>2. CASE p \in Excused
        BY <1>a, <4>2, HistoryGrows
      <4>3. ASSUME listen = "off" PROVE listen' = "off"
        <5>1. "observe" \notin ToSet(calls)
          BY <1>2, <1>3, <3>2, <4>1 DEF Chronicle, Holds, Older
        <5>2. ~RunObserve
          <6>1. ASSUME RunObserve PROVE "observe" \in ToSet(calls)
            BY <1>a, <6>1, BeforeTail DEF RunObserve, TypeOK
          <6> QED
            BY <5>1, <6>1
        <5> QED
          BY <1>a, <1>5, <4>3, <5>2 DEF Next, Service, ClientRuns, RunWrite, Connect, Disconnect,
             ClientReceives, ReceiveAuthAnswer, ReceiveData, ReceiveListenAnswer, ReceivePutAnswer,
             ServerServes, ServerAuthenticates, ServerListens, ServerAccepts, ServerRefuses,
             OtherDeviceWrites, AppWrites, AppRunsBlock, dbVars, client
      <4> QED
        BY <4>1, <4>2, <4>3
    <3> QED
      BY <2>1, <3>1, <3>2
  <2>4. StalePointsExplained'
    BY <2>3 DEF StalePointsExplained, Displayed, Excused
  <2> QED
    BY <2>1, <2>2, <2>4 DEF ChartInv
<1> QED
  BY <1>4, <1>5

LEMMA ChartAlways == AppSpec => []ChartInv
<1>1. AppInit => ChartInv
  <2> SUFFICES ASSUME AppInit PROVE ChartInv
    OBVIOUS
  <2>1. Chronicle({})
    BY ChronicleInit DEF AppInit
  <2>2. Displayed = {}
    BY BeforeNothing DEF AppInit, Init, Displayed, Queued
  <2> QED
    BY <2>1, <2>2 DEF ChartInv, StalePointsExplained, Displayed
<1>2. Known /\ ScreensOK /\ ChartInv /\ [AppNext]_appVars => ChartInv'
  BY ChartInvStep
<1> QED
  BY <1>1, <1>2, AlwaysKnown, PTL DEF AppSpec

(* A point on the chart that the client no longer holds was refused by the *)
(* server, or covered by a clear, or the listen was refused: nothing else  *)
(* leaves a stale point, not a reconnection, and not the order in which    *)
(* pushes and answers arrive.                                              *)
THEOREM StalePointsAreExplained == AppSpec => []StalePointsExplained
<1>1. ChartInv => StalePointsExplained
  BY DEF ChartInv
<1> QED
  BY <1>1, ChartAlways, PTL

-----------------------------------------------------------------------------
(* The events a step raises: one for each child that appeared.             *)
LEMMA RaisedEach ==
  ASSUME TypeOK, Raises
  PROVE  /\ \A i \in EventBlocks' :
              \/ i \in EventBlocks /\ mainQ'[i] = mainQ[i]
              \/ i > Len(mainQ) /\ mainQ'[i].point \in EventCache' \ EventCache
         /\ \A i, j \in EventBlocks' :
              i > Len(mainQ) /\ j > Len(mainQ) /\ mainQ'[i].point = mainQ'[j].point => i = j
<1> DEFINE New == EventCache' \ EventCache
           L == Len(mainQ)
<1>1. \E a \in Seq(MainBlock) : Raise(a) /\ \A k \in 1..Len(a) : a[k].block = "answer"
  <2>1. CASE Raise(<<>>)
    <3>1. <<>> \in Seq(MainBlock) /\ Len(<<>>) = 0
      BY EmptySeq
    <3>2. \A k \in 1..Len(<<>>) : <<>>[k].block = "answer"
      BY <3>1
    <3> QED
      BY <2>1, <3>1, <3>2
  <2>2. ASSUME NEW w \in Write, NEW s \in Statuses, Raise(<<[block |-> "answer", write |-> w, status |-> s]>>)
        PROVE  \E a \in Seq(MainBlock) : Raise(a) /\ \A k \in 1..Len(a) : a[k].block = "answer"
    <3> DEFINE b0 == [block |-> "answer", write |-> w, status |-> s]
    <3>1. b0 \in MainBlock /\ b0.block = "answer"
      BY StatusesAssumption DEF MainBlock
    <3>2. Raise(<<b0>>)
      BY <2>2
    <3> HIDE DEF b0
    <3>3. <<b0>> \in Seq(MainBlock) /\ \A k \in 1..Len(<<b0>>) : <<b0>>[k].block = "answer"
      BY <3>1
    <3> QED
      BY <3>2, <3>3
  <2> QED
    BY <2>1, <2>2 DEF Raises
<1>2. PICK a \in Seq(MainBlock) : Raise(a) /\ \A k \in 1..Len(a) : a[k].block = "answer"
  BY <1>1
<1>3. PICK n \in Nat : \E f \in Bijection(1..n, New) :
           /\ DOMAIN mainQ' = 1..(L + n + Len(a))
           /\ \A k \in 1..L : mainQ'[k] = mainQ[k]
           /\ \A k \in 1..n : mainQ'[L + k] = ChildAdded(f[k])
           /\ \A k \in 1..Len(a) : mainQ'[L + n + k] = a[k]
  BY <1>2, EventCachePrimeType, RaisedBlocks DEF TypeOK
<1>4. PICK f \in Bijection(1..n, New) :
           /\ DOMAIN mainQ' = 1..(L + n + Len(a))
           /\ \A k \in 1..L : mainQ'[k] = mainQ[k]
           /\ \A k \in 1..n : mainQ'[L + k] = ChildAdded(f[k])
           /\ \A k \in 1..Len(a) : mainQ'[L + n + k] = a[k]
  BY <1>3
<1>5. L \in Nat /\ Len(a) \in Nat /\ DOMAIN mainQ = 1..L
  BY <1>2, LenProperties DEF TypeOK
<1> HIDE DEF New, L
<1>6. f \in [1..n -> New] /\ \A k, l \in 1..n : f[k] = f[l] => k = l
  BY <1>4 DEF Bijection, Injection, IsInjective
<1>7. ASSUME NEW i \in EventBlocks', i \notin 1..L
      PROVE  \E k \in 1..n : i = L + k /\ mainQ'[i].point = f[k]
  <2>1. i \in 1..(L + n + Len(a)) /\ mainQ'[i].block = "childAdded"
    BY <1>4 DEF EventBlocks
  <2>2. i \in 1..(L + n)
    <3>1. ASSUME i > L + n PROVE FALSE
      <4>1. i - (L + n) \in 1..Len(a) /\ i = L + n + (i - (L + n))
        BY <1>3, <1>5, <2>1, <3>1
      <4>2. mainQ'[i].block = "answer"
        BY <1>2, <1>4, <4>1
      <4> QED
        BY <2>1, <4>2
    <3> QED
      BY <1>3, <1>5, <2>1, <3>1
  <2>3. i - L \in 1..n /\ i = L + (i - L)
    BY <1>3, <1>5, <1>7, <2>2
  <2>4. mainQ'[i] = ChildAdded(f[i - L])
    BY <1>4, <2>3
  <2> QED
    BY <2>3, <2>4 DEF ChildAdded
<1>8. ASSUME NEW i \in EventBlocks'
      PROVE  \/ i \in EventBlocks /\ mainQ'[i] = mainQ[i]
             \/ i > L /\ mainQ'[i].point \in New
  <2>1. CASE i \in 1..L
    BY <1>4, <1>5, <2>1 DEF EventBlocks
  <2>2. CASE i \notin 1..L
    <3>1. PICK k \in 1..n : i = L + k /\ mainQ'[i].point = f[k]
      BY <1>7, <2>2
    <3> QED
      BY <1>3, <1>5, <1>6, <3>1
  <2> QED
    BY <2>1, <2>2
<1>9. ASSUME NEW i \in EventBlocks', NEW j \in EventBlocks', i > L, j > L, mainQ'[i].point = mainQ'[j].point
      PROVE  i = j
  <2>0. i \notin 1..L /\ j \notin 1..L
    BY <1>5, <1>9
  <2>1. PICK k \in 1..n : i = L + k /\ mainQ'[i].point = f[k]
    BY <1>7, <2>0
  <2>2. PICK l \in 1..n : j = L + l /\ mainQ'[j].point = f[l]
    BY <1>7, <2>0
  <2> QED
    BY <1>6, <1>9, <2>1, <2>2
<1> QED
  BY <1>8, <1>9 DEF New, L

(* The conclusion of ChartRepeatsNothing.                                  *)
Once(points, events, q) ==
  /\ IsInjective(points)
  /\ \A i \in events : q[i].point \notin ToSet(points)
  /\ \A i, j \in events : q[i].point = q[j].point => i = j
EachOnce == Once(entryPoints, EventBlocks, mainQ)

LEMMA EventsAre ==
  ASSUME TypeOK, NEW i \in EventBlocks
  PROVE  mainQ[i].point \in Points /\ mainQ[i] = ChildAdded(mainQ[i].point) /\ Queued(mainQ[i].point)
<1>1. mainQ[i] \in MainBlock /\ mainQ[i].block = "childAdded" /\ mainQ[i] \in ToSet(mainQ)
  BY DEF TypeOK, EventBlocks, ToSet
<1> QED
  BY <1>1 DEF MainBlock, ChildAdded, Queued

(* The events that are left when the first block is run.                   *)
LEMMA EventsTail ==
  ASSUME TypeOK, TakeBlock
  PROVE  /\ \A i \in EventBlocks' : i + 1 \in EventBlocks /\ mainQ'[i] = mainQ[i + 1] /\ i + 1 # 1
         /\ \A i, j \in EventBlocks' : i + 1 = j + 1 => i = j
         /\ Head(mainQ).block = "childAdded" => 1 \in EventBlocks /\ mainQ[1] = Head(mainQ)
<1>1. mainQ \in Seq(MainBlock) /\ mainQ # <<>> /\ mainQ' = Tail(mainQ)
  BY DEF TypeOK, TakeBlock
<1>2. /\ 1 \in DOMAIN mainQ /\ mainQ[1] = Head(mainQ)
      /\ \A i \in DOMAIN mainQ' : i + 1 \in DOMAIN mainQ /\ mainQ'[i] = mainQ[i + 1] /\ i + 1 # 1 /\ i \in Nat
  BY <1>1, TailIs
<1>3. \A i \in EventBlocks' : i \in DOMAIN mainQ' /\ mainQ'[i].block = "childAdded"
  BY DEF EventBlocks
<1>4. \A i, j \in Nat : i + 1 = j + 1 => i = j
  OBVIOUS
<1> QED
  BY <1>2, <1>3, <1>4 DEF EventBlocks

LEMMA EachOnceStep ==
  ASSUME Known, ScreensOK, ChartInv, EachOnce, [AppNext]_appVars, \A c \in Clears : outcome'[c] # "denied"
  PROVE  EachOnce'
<1>a. TypeOK /\ [Next]_dbVars /\ entryPoints \in Seq(Points)
  BY DatabaseStep DEF Known, Ordered, ScreensOK
<1>b. /\ IsInjective(entryPoints)
      /\ \A i \in EventBlocks : mainQ[i].point \notin ToSet(entryPoints)
      /\ \A i, j \in EventBlocks : mainQ[i].point = mainQ[j].point => i = j
  BY DEF EachOnce, Once
<1>e. IsInjective(<<>>) /\ ToSet(<<>>) = {}
  BY DEF IsInjective, ToSet
<1>1. CASE Service /\ UNCHANGED chart
  <2>1. CASE mainQ' = mainQ
    BY <1>1, <1>b, <2>1 DEF EachOnce, Once, EventBlocks, chart
  <2>2. CASE Raises
    <3>1. /\ \A i \in EventBlocks' :
              \/ i \in EventBlocks /\ mainQ'[i] = mainQ[i]
              \/ i > Len(mainQ) /\ mainQ'[i].point \in EventCache' \ EventCache
          /\ \A i, j \in EventBlocks' :
              i > Len(mainQ) /\ j > Len(mainQ) /\ mainQ'[i].point = mainQ'[j].point => i = j
      BY <1>a, <2>2, RaisedEach
    <3>2. ASSUME NEW p \in EventCache' \ EventCache PROVE p \notin Displayed
      <4>1. PICK Y : Chronicle(Y) /\ Displayed \subseteq Y \cup EventCache
        BY DEF ChartInv
      <4>2. ~Relaunch
        BY <3>2 DEF Relaunch, EventCache
      <4> QED
        BY <1>a, <3>2, <4>1, <4>2, NotSeenAgain DEF Displayed
    <3>3. \A i \in EventBlocks : mainQ[i].point \in Displayed
      BY <1>a, EventsAre DEF Displayed
    <3>4. ToSet(entryPoints) \subseteq Displayed
      BY <1>a DEF Displayed, ToSet
    <3>5. \A i \in EventBlocks' : mainQ'[i].point \notin ToSet(entryPoints)
      BY <1>b, <3>1, <3>2, <3>4
    <3>6. \A i, j \in EventBlocks' : mainQ'[i].point = mainQ'[j].point => i = j
      BY <1>b, <3>1, <3>2, <3>3
    <3> QED
      BY <1>1, <1>b, <3>5, <3>6 DEF EachOnce, Once, chart
  <2> QED
    BY <1>1, <1>a, <2>1, <2>2, ServiceRaises
<1>2. CASE ClearPointsTapped
  <2>1. entryPoints' = <<>> /\ mainQ' = mainQ
    BY <1>2 DEF ClearPointsTapped, Writes
  <2> QED
    BY <1>b, <1>e, <2>1 DEF EachOnce, Once, EventBlocks
<1>3. CASE EntryPointAdded
  <2>1. PICK x \in Points : /\ TakeBlock /\ Head(mainQ) = ChildAdded(x)
                            /\ entryPoints' = Append(entryPoints, x)
    BY <1>3 DEF EntryPointAdded, RunBlock, WithPoint
  <2>2. /\ \A i \in EventBlocks' : i + 1 \in EventBlocks /\ mainQ'[i] = mainQ[i + 1] /\ i + 1 # 1
        /\ \A i, j \in EventBlocks' : i + 1 = j + 1 => i = j
        /\ 1 \in EventBlocks /\ mainQ[1].point = x
    BY <1>a, <2>1, EventsTail DEF ChildAdded
  <2>3. x \notin ToSet(entryPoints)
    BY <1>b, <2>2
  <2>4. ToSet(entryPoints') = ToSet(entryPoints) \cup {x} /\ IsInjective(entryPoints')
    BY <1>a, <1>b, <2>1, <2>3, AppendElements
  <2>5. \A i \in EventBlocks' : mainQ'[i].point # x
    BY <1>b, <2>2
  <2> QED
    BY <1>b, <2>2, <2>4, <2>5 DEF EachOnce, Once
<1>4. CASE AppRelaunch
  <2>1. entryPoints' = <<>> /\ mainQ' = <<>> /\ EventBlocks' = {}
    BY <1>4 DEF AppRelaunch, Relaunch, EventBlocks
  <2> QED
    BY <1>e, <2>1 DEF EachOnce, Once
<1>5. CASE UNCHANGED chart /\ (\E w \in Points : Writes(w)) /\ SaveTapped
  <2>1. UNCHANGED <<entryPoints, mainQ>>
    BY <1>5 DEF Writes, chart
  <2> QED
    BY <1>b, <2>1 DEF EachOnce, Once, EventBlocks
<1>6. CASE /\ UNCHANGED chart /\ UNCHANGED client
           /\ TakeBlock /\ UNCHANGED <<client, wire, server, history>> /\ \A p : Head(mainQ) # ChildAdded(p)
  <2>1. /\ \A i \in EventBlocks' : i + 1 \in EventBlocks /\ mainQ'[i] = mainQ[i + 1]
        /\ \A i, j \in EventBlocks' : i + 1 = j + 1 => i = j
    BY <1>a, <1>6, EventsTail
  <2>2. entryPoints' = entryPoints
    BY <1>6 DEF chart
  <2> QED
    BY <1>b, <2>1, <2>2 DEF EachOnce, Once
<1>7. CASE UNCHANGED chart /\ UNCHANGED dbVars
  <2>1. UNCHANGED <<entryPoints, mainQ>>
    BY <1>7 DEF dbVars, chart
  <2> QED
    BY <1>b, <2>1 DEF EachOnce, Once, EventBlocks
<1> QED
  BY <1>1, <1>2, <1>3, <1>4, <1>5, <1>6, <1>7, ChartSteps

(* While no clear was refused, a point reaches the chart at most once,     *)
(* through reconnections, repeated listens and relaunches.                 *)
THEOREM NothingIsRepeated == AppSpec => []ChartRepeatsNothing
<1>1. ChartRepeatsNothing <=> ((\A c \in Clears : outcome[c] # "denied") => EachOnce)
  BY DEF ChartRepeatsNothing, EachOnce, Once
<1>2. AppInit => ChartRepeatsNothing
  <2>1. IsInjective(<<>>) /\ ToSet(<<>>) = {}
    BY DEF IsInjective, ToSet
  <2> QED
    BY <2>1 DEF AppInit, Init, ChartRepeatsNothing, EventBlocks
<1>3. ASSUME Known, ScreensOK, ChartInv, ChartRepeatsNothing, [AppNext]_appVars
      PROVE  ChartRepeatsNothing'
  <2> SUFFICES ASSUME \A c \in Clears : outcome'[c] # "denied" PROVE EachOnce'
    BY DEF ChartRepeatsNothing, EachOnce, Once
  <2>1. \A c \in Clears : outcome[c] # "denied"
    <3>1. [Next]_dbVars /\ Clears \subseteq Write
      BY <1>3, DatabaseStep DEF Write
    <3>2. \A w \in Write : outcome[w] # "none" => outcome'[w] = outcome[w]
      BY <1>3, <3>1, HistoryGrows
    <3> QED
      BY <3>1, <3>2
  <2> QED
    BY <1>1, <1>3, <2>1, EachOnceStep
<1>4. Known /\ ScreensOK /\ ChartInv /\ ChartRepeatsNothing /\ [AppNext]_appVars => ChartRepeatsNothing'
  BY <1>3
<1> QED
  BY <1>2, <1>4, AlwaysKnown, ChartAlways, PTL DEF AppSpec
=============================================================================
