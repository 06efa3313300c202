------------------------ MODULE DeploymentView_proofs ------------------------
(***************************************************************************)
(* Proofs about what a tab shows of deployments, for any number of them,    *)
(* any log length and any number of faults: the lines of the stream belong  *)
(* to the drawer's deployment and come in order, the mark of a live log is  *)
(* not left behind, and the step that failed is not shown too early.        *)
(***************************************************************************)
EXTENDS DeploymentView, WellFoundedInduction, TLAPS

-----------------------------------------------------------------------------
(* The stream *)

LEMMA NothingFromLog ==
  /\ FromLog(<<>>) /\ DOMAIN <<>> = {} /\ FromLog(<<>>)'
  BY DEF FromLog

\* What the type invariant says of the socket and its marks.
Sockets ==
  [dep : Deployments \cup {None}, for : Active \cup {None},
   at : {"none", "connecting", "open", "subscribed", "closed"}]

StreamType == socket \in Sockets /\ closing \in BOOLEAN /\ connected \in BOOLEAN

LEMMA TypeParts ==
  TypeOK <=> /\ status \in [Deployments -> Statuses]
             /\ published \in [Deployments -> 0 .. MaxEvents]
             /\ page \in Pages /\ opened \in Deployments \cup {None}
             /\ DOMAIN data = Keys /\ due \in [Keys -> BOOLEAN]
             /\ StreamType
  BY DEF TypeOK, StreamType, Sockets

StreamOK == StreamType /\ StreamInv /\ LiveIsConnected

LEMMA StreamFacts ==
  ASSUME ViewInv
  PROVE  StreamOK /\ opened \in Deployments \cup {None}
  BY TypeParts DEF ViewInv, StreamOK

\* The log only grows, so its lines stay from it.
LEMMA FromLogKept ==
  ASSUME ViewInv, NEW s, FromLog(s), UNCHANGED opened,
         published' \in [Deployments -> Nat],
         \A d \in Deployments : published[d] <= published'[d]
  PROVE  /\ s \in Seq(Line)
         /\ \A i \in DOMAIN s : s[i].dep = opened' /\ s[i].n <= published'[opened']
         /\ \A i, j \in DOMAIN s : i < j => s[i].n < s[j].n
<1>1. ASSUME NEW i \in DOMAIN s  PROVE s[i] \in Line
  BY <1>1 DEF FromLog
<1>2. published \in [Deployments -> Nat]
  BY TypeParts, ViewAssumption DEF ViewInv
<1>3. ASSUME NEW i \in DOMAIN s  PROVE s[i].dep = opened' /\ s[i].n <= published'[opened']
  BY <1>1, <1>2, <1>3 DEF FromLog, Line
<1>. QED  BY <1>3 DEF FromLog

\* Nothing of the stream changes.
LEMMA StreamStays ==
  ASSUME ViewInv, UNCHANGED <<opened, stream>>,
         published' \in [Deployments -> Nat],
         \A d \in Deployments : published[d] <= published'[d]
  PROVE  StreamOK'
<1>1. StreamOK
  BY StreamFacts
<1>2. FromLog(live)' /\ FromLog(wire)'
  BY <1>1, FromLogKept DEF stream, StreamOK, StreamInv, FromLog
<1>. QED  BY <1>1, <1>2 DEF StreamOK, StreamType, StreamInv, LiveIsConnected, IsOpen, stream

\* Neither the rows nor the log, nor whose drawer is open.
LEMMA LogStays ==
  ASSUME ViewInv, UNCHANGED published
  PROVE  /\ published' \in [Deployments -> Nat]
         /\ \A d \in Deployments : published[d] <= published'[d]
<1>1. published \in [Deployments -> 0 .. MaxEvents] /\ MaxEvents \in Nat
  BY TypeParts, ViewAssumption DEF ViewInv
<1>. QED  BY <1>1

\* After a render the socket is the opened drawer's.
LEMMA AttachStream ==
  ASSUME ViewInv, NEW C, NEW d \in Deployments \cup {None}, opened' = d,
         Attach(C, d), UNCHANGED published
  PROVE  StreamOK'
<1>1. StreamOK
  BY StreamFacts
<1>2. CASE UNCHANGED <<socket, wire, closing>> /\ d = opened
  <2>1. UNCHANGED <<opened, stream>>
    BY <1>1, <1>2 DEF Attach, stream, StreamOK, StreamType
  <2>. QED  BY <2>1, StreamStays, LogStays
<1>3. CASE /\ \E s : socket' = IF s \in Active THEN Connecting(d, s) ELSE NoSocket
           /\ wire' = <<>>
           /\ closing' = (closing \/ socket.at \notin {"none", "closed"})
  <2>1. socket' \in Sockets /\ socket'.dep \in {d, None}
    BY <1>3 DEF Connecting, NoSocket, Sockets
  <2>2. StreamType'
    BY <1>1, <1>3, <2>1 DEF Attach, StreamOK, StreamType
  <2>3. FromLog(live)'
    <3>1. CASE d = opened
      <4>1. FromLog(live) /\ live' = live /\ UNCHANGED opened
        BY <1>1, <3>1 DEF StreamOK, StreamInv, Attach
      <4>. QED  BY <4>1, FromLogKept, LogStays DEF FromLog
    <3>2. CASE d # opened
      BY <3>2 DEF Attach, FromLog
    <3>. QED  BY <3>1, <3>2
  <2>4. FromLog(wire)' /\ DOMAIN wire' = {}
    BY <1>3 DEF FromLog
  <2>5. LiveIsConnected'
    BY <1>1, <1>3 DEF Attach, LiveIsConnected, IsOpen, StreamOK, StreamType
  <2>. QED  BY <2>1, <2>2, <2>3, <2>4, <2>5 DEF StreamOK, StreamInv
<1>. QED  BY <1>2, <1>3 DEF Attach

\* The socket's own steps: they lose what is on the wire, or leave it.
LEMMA SocketStream ==
  ASSUME ViewInv, SocketOpens \/ Subscribe \/ SocketLost \/ OldSocketCloses
  PROVE  StreamOK'
<1>1. StreamOK
  BY StreamFacts
<1>2. /\ UNCHANGED <<published, opened, live>> /\ wire' \in {wire, <<>>}
      /\ socket'.dep = socket.dep
      /\ StreamType'
  <2>1. CASE SocketOpens
    BY <1>1, <2>1 DEF SocketOpens, StreamOK, StreamType, Sockets, server
  <2>2. CASE Subscribe
    BY <1>1, <2>2 DEF Subscribe, StreamOK, StreamType, Sockets, server
  <2>3. CASE SocketLost
    BY <1>1, <2>3 DEF SocketLost, StreamOK, StreamType, Sockets, server
  <2>4. CASE OldSocketCloses
    BY <1>1, <2>4 DEF OldSocketCloses, StreamOK, StreamType, Sockets, server
  <2>. QED  BY <2>1, <2>2, <2>3, <2>4
<1>3. FromLog(live)' /\ FromLog(wire)'
  <2>1. FromLog(live) /\ FromLog(wire')
    BY <1>1, <1>2, NothingFromLog DEF StreamOK, StreamInv
  <2>. QED  BY <1>2, <2>1, FromLogKept, LogStays DEF FromLog
<1>4. LiveIsConnected'
  BY <1>1 DEF SocketOpens, Subscribe, SocketLost, OldSocketCloses, LiveIsConnected, IsOpen,
     StreamOK, StreamType, Sockets
<1>. QED  BY <1>1, <1>2, <1>3, <1>4 DEF StreamOK, StreamInv

\* The first line of the wire comes after all that came before it.
LEMMA ArrivesStream ==
  ASSUME ViewInv, LineArrives
  PROVE  StreamOK'
<1>. DEFINE h == Head(wire)
<1>1. StreamOK /\ UNCHANGED <<published, opened, socket, closing, connected>> /\ wire # <<>>
  BY StreamFacts DEF LineArrives, server
<1>2. /\ wire \in Seq(Line) /\ h = wire[1] /\ h \in Line /\ 1 \in DOMAIN wire
      /\ wire' \in Seq(Line)
      /\ \A i \in DOMAIN wire' : i + 1 \in DOMAIN wire /\ wire'[i] = wire[i + 1]
      /\ DOMAIN wire' \subseteq Nat /\ DOMAIN wire \subseteq Nat
  BY <1>1 DEF StreamOK, StreamInv, FromLog, LineArrives
<1>3. /\ live \in Seq(Line)
      /\ \A i \in DOMAIN wire : wire[i] \in Line
      /\ \A i \in DOMAIN wire : wire[i].dep = opened /\ wire[i].n <= published[opened]
      /\ \A i, j \in DOMAIN wire : i < j => wire[i].n < wire[j].n
      /\ \A i \in DOMAIN live : live[i].dep = opened /\ live[i].n <= published[opened]
      /\ \A i, j \in DOMAIN live : i < j => live[i].n < live[j].n
      /\ \A i \in DOMAIN live, j \in DOMAIN wire : live[i].n < wire[j].n
  BY <1>1 DEF StreamOK, StreamInv, FromLog
<1>. HIDE DEF h
<1>4. FromLog(wire)'
  <2>1. \A i \in DOMAIN wire' : wire'[i].dep = opened' /\ wire'[i].n <= published'[opened']
    BY <1>1, <1>2, <1>3
  <2>2. ASSUME NEW i \in DOMAIN wire', NEW j \in DOMAIN wire', i < j
        PROVE  wire'[i].n < wire'[j].n
    <3>1. i + 1 < j + 1 /\ i + 1 \in DOMAIN wire /\ j + 1 \in DOMAIN wire
      BY <1>2, <2>2
    <3>2. wire[i + 1].n < wire[j + 1].n
      BY ONLY <1>3, <3>1
    <3>. QED  BY <1>2, <3>2
  <2>. QED  BY <1>2, <2>1, <2>2 DEF FromLog
<1>5. CASE live' = live
  <2>1. FromLog(live)'
    BY <1>1, <1>3, <1>5 DEF FromLog
  <2>2. \A i \in DOMAIN live', j \in DOMAIN wire' : live'[i].n < wire'[j].n
    BY <1>2, <1>3, <1>5
  <2>. QED  BY <1>1, <1>4, <2>1, <2>2
       DEF StreamOK, StreamType, StreamInv, LiveIsConnected, IsOpen
<1>6. CASE live' = Append(live, h)
  <2>1. /\ live' \in Seq(Line) /\ DOMAIN live' = 1 .. Len(live) + 1 /\ Len(live) \in Nat
        /\ DOMAIN live = 1 .. Len(live)
        /\ live'[Len(live) + 1] = h /\ \A i \in DOMAIN live : live'[i] = live[i]
    BY <1>2, <1>3, <1>6
  <2>2. \A i \in DOMAIN live' : live'[i].dep = opened /\ live'[i].n <= published[opened]
    BY <1>2, <1>3, <2>1
  <2>3. ASSUME NEW i \in DOMAIN live', NEW j \in DOMAIN live', i < j
        PROVE  live'[i].n < live'[j].n
    <3>1. i \in DOMAIN live /\ live'[i] = live[i]
      BY <2>1, <2>3
    <3>2. CASE j \in DOMAIN live
      BY <1>3, <2>1, <2>3, <3>1, <3>2
    <3>3. CASE j = Len(live) + 1
      <4>1. live[i].n < h.n
        BY <1>2, <1>3, <3>1
      <4>. QED  BY <2>1, <3>1, <3>3, <4>1
    <3>. QED  BY <2>1, <3>2, <3>3
  <2>4. FromLog(live)'
    BY <1>1, <2>1, <2>2, <2>3 DEF FromLog
  <2>5. ASSUME NEW j \in DOMAIN wire'  PROVE h.n < wire'[j].n
    BY <1>2, <1>3, <2>5
  <2>6. ASSUME NEW i \in DOMAIN live', NEW j \in DOMAIN wire'
        PROVE  live'[i].n < wire'[j].n
    <3>1. CASE i \in DOMAIN live
      <4>1. j + 1 \in DOMAIN wire /\ wire'[j] = wire[j + 1]
        BY <1>2
      <4>2. live[i].n < wire[j + 1].n
        BY ONLY <1>3, <3>1, <4>1
      <4>. QED  BY <2>1, <3>1, <4>1, <4>2
    <3>2. CASE i = Len(live) + 1
      BY <2>1, <2>5, <3>2
    <3>. QED  BY <2>1, <3>1, <3>2
  <2>. QED  BY <1>1, <1>4, <2>4, <2>6
       DEF StreamOK, StreamType, StreamInv, LiveIsConnected, IsOpen
<1>. QED  BY <1>5, <1>6 DEF LineArrives, h

\* A line is published: the log grows, and so does the wire of who subscribed.
LEMMA PublishGrows ==
  ASSUME ViewInv, NEW d \in Deployments, Publish(d)
  PROVE  /\ published' = [published EXCEPT ![d] = @ + 1]
         /\ published \in [Deployments -> Nat] /\ published' \in [Deployments -> 0 .. MaxEvents]
         /\ \A e \in Deployments : published[e] <= published'[e]
         /\ Counted'
<1>1. /\ published \in [Deployments -> 0 .. MaxEvents] /\ MaxEvents \in Nat
      /\ events \in 0 .. MaxEvents /\ \A e \in Deployments : published[e] <= events
  BY TypeParts, ViewAssumption DEF ViewInv, Counted
<1>2. /\ published' = [published EXCEPT ![d] = @ + 1]
      /\ events < MaxEvents /\ events' = events + 1
  BY DEF Publish, Event
<1>. QED  BY <1>1, <1>2 DEF Counted

LEMMA PublishStream ==
  ASSUME ViewInv, NEW d \in Deployments, Publish(d)
  PROVE  StreamOK'
<1>1. StreamOK /\ UNCHANGED <<opened, socket, closing, connected, live>>
  BY StreamFacts DEF Publish
<1>2. /\ published' = [published EXCEPT ![d] = @ + 1]
      /\ published \in [Deployments -> Nat] /\ published' \in [Deployments -> Nat]
      /\ \A e \in Deployments : published[e] <= published'[e]
  BY PublishGrows, ViewAssumption
<1>3. FromLog(live)'
  BY <1>1, <1>2, FromLogKept DEF FromLog, StreamOK, StreamInv
<1>4. CASE wire' = wire
  <2>1. FromLog(wire)'
    BY <1>1, <1>2, <1>4, FromLogKept DEF FromLog, StreamOK, StreamInv
  <2>. QED  BY <1>1, <1>3, <1>4, <2>1
       DEF StreamOK, StreamType, StreamInv, LiveIsConnected, IsOpen
<1>5. CASE socket.dep = d /\ wire' = Append(wire, [dep |-> d, n |-> published'[d]])
  <2>. DEFINE l == [dep |-> d, n |-> published'[d]]
  <2>1. opened = d
    BY <1>1, <1>5, ViewAssumption DEF StreamOK, StreamInv
  <2>2. /\ wire \in Seq(Line) /\ live \in Seq(Line)
        /\ \A i \in DOMAIN wire : wire[i].dep = opened /\ wire[i].n <= published[d]
        /\ \A i, j \in DOMAIN wire : i < j => wire[i].n < wire[j].n
        /\ \A i \in DOMAIN live : live[i].n <= published[d]
        /\ \A i \in DOMAIN live, j \in DOMAIN wire : live[i].n < wire[j].n
        /\ \A i \in DOMAIN wire : wire[i] \in Line
        /\ \A i \in DOMAIN live : live[i] \in Line
    BY <1>1, <2>1 DEF StreamOK, StreamInv, FromLog
  <2>3. l \in Line /\ l.dep = opened' /\ l.n = published[d] + 1 /\ l.n = published'[opened']
    BY <1>1, <1>2, <2>1 DEF Line
  <2>. HIDE DEF l
  <2>4. /\ wire' \in Seq(Line) /\ DOMAIN wire' = 1 .. Len(wire) + 1 /\ Len(wire) \in Nat
        /\ DOMAIN wire = 1 .. Len(wire)
        /\ wire'[Len(wire) + 1] = l /\ \A i \in DOMAIN wire : wire'[i] = wire[i]
    BY <1>5, <2>2, <2>3 DEF l
  <2>5. /\ \A i \in DOMAIN wire : wire[i].n \in Nat
        /\ \A i \in DOMAIN live : live[i].n \in Nat
        /\ published[d] \in Nat
    BY <1>2, <2>2 DEF Line
  <2>6. \A i, j \in DOMAIN wire' : i < j => wire'[i].n < wire'[j].n
    BY <2>2, <2>3, <2>4, <2>5
  <2>7. \A i \in DOMAIN wire' : wire'[i].dep = opened' /\ wire'[i].n <= published'[opened']
    BY <1>1, <1>2, <2>1, <2>2, <2>3, <2>4, <2>5
  <2>8. FromLog(wire)'
    BY <2>4, <2>6, <2>7 DEF FromLog
  <2>9. \A i \in DOMAIN live', j \in DOMAIN wire' : live'[i].n < wire'[j].n
    BY <1>1, <2>2, <2>3, <2>4, <2>5
  <2>. QED  BY <1>1, <1>3, <2>8, <2>9
       DEF StreamOK, StreamType, StreamInv, LiveIsConnected, IsOpen
<1>. QED  BY <1>4, <1>5 DEF Publish

-----------------------------------------------------------------------------
(* The rows, the cache and the counters *)

RestType ==
  /\ status \in [Deployments -> Statuses]
  /\ published \in [Deployments -> 0 .. MaxEvents]
  /\ page \in Pages /\ opened \in Deployments \cup {None}
  /\ DOMAIN data = Keys /\ due \in [Keys -> BOOLEAN]
  /\ Counted /\ LogAnswered

LEMMA ViewParts == ViewInv <=> RestType /\ StreamOK
  BY TypeParts DEF ViewInv, RestType, StreamOK

LEMMA CountedKept ==
  ASSUME ViewInv, UNCHANGED published, Event \/ Fault \/ UNCHANGED bounds
  PROVE  Counted'
<1>1. events \in 0 .. MaxEvents /\ MaxEvents \in Nat
      /\ \A d \in Deployments : published[d] <= events
      /\ published \in [Deployments -> 0 .. MaxEvents]
  BY ViewParts, ViewAssumption DEF RestType, Counted
<1>. QED  BY <1>1 DEF Counted, Event, Fault, bounds

\* A log that grows stays longer than what was answered of it.
LEMMA LogAnsweredKept ==
  ASSUME ViewInv, UNCHANGED data, published' \in [Deployments -> Nat],
         \A d \in Deployments : published[d] <= published'[d]
  PROVE  LogAnswered'
<1>1. /\ published \in [Deployments -> Nat]
      /\ \A d \in Deployments : data[<<"log", d>>] \in {None} \cup 0 .. published[d]
  BY ViewParts, ViewAssumption DEF RestType, LogAnswered
<1>2. ASSUME NEW d \in Deployments
      PROVE  data'[<<"log", d>>] \in {None} \cup 0 .. published'[d]
  <2>1. published[d] \in Nat /\ published'[d] \in Nat /\ published[d] <= published'[d]
    BY <1>1
  <2>2. 0 .. published[d] \subseteq 0 .. published'[d]
    BY <2>1
  <2>. QED  BY <1>1, <2>2
<1>. QED  BY <1>2 DEF LogAnswered

LEMMA RowsTyped ==
  ASSUME ViewInv, RowStep
  PROVE  status' \in [Deployments -> Statuses]
<1>1. status \in [Deployments -> Statuses]
  BY ViewParts DEF RestType
<1>2. PICK d \in Deployments : \/ UNCHANGED status
                               \/ \E s \in Statuses : status' = [status EXCEPT ![d] = s]
  BY DEF RowStep, Rows!Next, Rows!Submit, Rows!Accept, Rows!MarkPushing, Rows!Push, Rows!Deploy,
     Rows!Fail, Rows!SetStatus, Statuses, Active
<1>. QED  BY <1>1, <1>2

\* The steps that leave the deployments' rows and log to the server.
TabStep ==
  \/ \E k \in Keys : Fetched(k) \/ FetchFails(k)
  \/ FetchIncomplete
  \/ \E p \in Pages : Visit(p)
  \/ \E d \in Deployments : OpenRow(d)
  \/ CloseDrawer \/ RefreshLogs \/ FocusWindow

LEMMA TabStream ==
  ASSUME ViewInv, TabStep
  PROVE  StreamOK' /\ UNCHANGED server /\ opened' \in Deployments \cup {None} /\ page' \in Pages
         /\ (Event \/ Fault \/ UNCHANGED bounds)
<1>. USE LogStays, StreamFacts DEF server
<1>1. ASSUME NEW k, NEW v, Answered(k, v)
      PROVE  StreamOK' /\ UNCHANGED <<server, page, opened>>
  BY <1>1, AttachStream DEF Answered
<1>2. ASSUME NEW k \in Keys, Fetched(k) \/ FetchFails(k)
      PROVE  StreamOK' /\ UNCHANGED <<server, page, opened>> /\ (Fault \/ UNCHANGED bounds)
  BY <1>1, <1>2, StreamStays DEF Fetched, FetchFails
<1>3. CASE FetchIncomplete
  BY <1>1, <1>3, ViewParts DEF FetchIncomplete, RestType
<1>4. ASSUME NEW p \in Pages, Visit(p)
      PROVE  StreamOK' /\ UNCHANGED <<server, opened>> /\ page' = p /\ Event
  BY <1>4, StreamStays DEF Visit
<1>5. ASSUME NEW d \in Deployments, OpenRow(d)
      PROVE  StreamOK' /\ UNCHANGED <<server, page>> /\ opened' = d /\ Event
  BY <1>5, AttachStream DEF OpenRow
<1>6. CASE CloseDrawer
  BY <1>6, AttachStream, ViewParts DEF CloseDrawer, RestType
<1>7. CASE RefreshLogs \/ FocusWindow
  BY <1>7, StreamStays, ViewParts DEF RefreshLogs, FocusWindow, RestType
<1>. QED  BY <1>2, <1>3, <1>4, <1>5, <1>6, <1>7, ViewParts DEF TabStep, RestType

LEMMA TabCache ==
  ASSUME ViewInv, TabStep
  PROVE  DOMAIN data' = Keys /\ due' \in [Keys -> BOOLEAN]
<1>1. DOMAIN data = Keys /\ due \in [Keys -> BOOLEAN]
  BY ViewParts DEF RestType
<1>2. ASSUME NEW K, Mount(K)  PROVE DOMAIN data' = Keys /\ due' \in [Keys -> BOOLEAN]
  BY <1>1, <1>2 DEF Mount
<1>3. ASSUME NEW k, NEW v, Answered(k, v)  PROVE DOMAIN data' = Keys /\ due' \in [Keys -> BOOLEAN]
  BY <1>1, <1>3 DEF Answered
<1>4. ASSUME NEW k \in Keys, Fetched(k) \/ FetchFails(k)
      PROVE  DOMAIN data' = Keys /\ due' \in [Keys -> BOOLEAN]
  BY <1>1, <1>3, <1>4 DEF Fetched, FetchFails
<1>5. CASE FetchIncomplete
  BY <1>3, <1>5 DEF FetchIncomplete
<1>6. CASE (\E p \in Pages : Visit(p)) \/ (\E d \in Deployments : OpenRow(d)) \/ FocusWindow
  BY <1>2, <1>6 DEF Visit, OpenRow, FocusWindow
<1>7. CASE CloseDrawer \/ RefreshLogs
  BY <1>1, <1>7 DEF CloseDrawer, RefreshLogs, cache
<1>. QED  BY <1>4, <1>5, <1>6, <1>7 DEF TabStep

\* The keys of the cache are told apart by their names.
LEMMA LogKeysApart ==
  ASSUME NEW d \in Deployments
  PROVE  /\ <<"log", d>> \in LogKeys /\ <<"log", d>> \in Keys /\ <<"log", d>> \notin RowKeys
         /\ <<"log", d>> # <<"overview">> /\ <<"log", d>> # <<"list">>
<1>1. <<"log", d>>[1] # <<"overview">>[1] /\ <<"log", d>>[1] # <<"list">>[1]
  OBVIOUS
<1>2. \A e \in Deployments : <<"log", d>>[1] # <<"row", e>>[1]
  OBVIOUS
<1>. QED  BY <1>1, <1>2 DEF LogKeys, Keys, RowKeys

\* A log is answered with its length.
LEMMA TabLog ==
  ASSUME ViewInv, TabStep, UNCHANGED published
  PROVE  LogAnswered'
<1>1. /\ published \in [Deployments -> Nat] /\ DOMAIN data = Keys
      /\ \A d \in Deployments : data[<<"log", d>>] \in {None} \cup 0 .. published[d]
  BY ViewParts, ViewAssumption DEF RestType, LogAnswered
<1>2. ASSUME UNCHANGED data  PROVE LogAnswered'
  BY <1>1, <1>2 DEF LogAnswered
<1>3. ASSUME NEW k \in Keys, Fetched(k)  PROVE LogAnswered'
  <2>1. PICK v \in Answers(k) : data' = [data EXCEPT ![k] = v]
    BY <1>3 DEF Fetched, Answered
  <2>2. ASSUME NEW d \in Deployments
        PROVE  data'[<<"log", d>>] \in {None} \cup 0 .. published[d]
    <3>1. CASE k = <<"log", d>>
      <4>1. Answers(k) = {published[k[2]]} /\ k[2] = d
        BY <3>1, LogKeysApart DEF Answers
      <4>2. v = published[d]
        BY <2>1, <4>1
      <4>. QED  BY <1>1, <2>1, <3>1, <4>2
    <3>2. CASE k # <<"log", d>>
      <4>1. data'[<<"log", d>>] = data[<<"log", d>>]
        BY <1>1, <2>1, <3>2, LogKeysApart
      <4>. QED  BY <1>1, <4>1
    <3>. QED  BY <3>1, <3>2
  <2>. QED  BY <2>2 DEF LogAnswered
<1>4. CASE FetchIncomplete
  <2>1. PICK v : data' = [data EXCEPT ![<<"overview">>] = v]
    BY <1>4 DEF FetchIncomplete, Answered
  <2>2. \A d \in Deployments : data'[<<"log", d>>] = data[<<"log", d>>]
    BY <1>1, <2>1, LogKeysApart
  <2>. QED  BY <1>1, <2>2 DEF LogAnswered
<1>5. ASSUME NEW k, FetchFails(k)  PROVE LogAnswered'
  BY <1>2, <1>5 DEF FetchFails
<1>6. CASE (\E p \in Pages : Visit(p)) \/ (\E d \in Deployments : OpenRow(d)) \/ FocusWindow
  BY <1>2, <1>6 DEF Visit, OpenRow, FocusWindow, Mount
<1>7. CASE CloseDrawer \/ RefreshLogs
  BY <1>2, <1>7 DEF CloseDrawer, RefreshLogs, cache
<1>. QED  BY <1>3, <1>4, <1>5, <1>6, <1>7 DEF TabStep

LEMMA ViewInit == Init => ViewInv
<1>. SUFFICES ASSUME Init  PROVE ViewInv
  OBVIOUS
<1>1. RestType
  BY ViewAssumption, LogKeysApart DEF Init, RestType, Counted, LogAnswered, Pages
<1>2. StreamOK
  BY NothingFromLog
  DEF Init, StreamOK, StreamType, Sockets, NoSocket, StreamInv, LiveIsConnected
<1>. QED  BY <1>1, <1>2, ViewParts

LEMMA ViewNext == ViewInv /\ [Next]_vars => ViewInv'
<1>. SUFFICES ASSUME ViewInv, [Next]_vars  PROVE RestType' /\ StreamOK'
  BY ViewParts, PTL
<1>. USE LogStays, StreamFacts, ViewParts DEF RestType
<1>1. CASE UNCHANGED vars
  BY <1>1, StreamStays, CountedKept, LogAnsweredKept DEF vars, server, cache
<1>2. CASE RowStep
  <2>1. UNCHANGED <<published, page, opened, data, due, stream>> /\ Event
    BY <1>2 DEF RowStep, cache
  <2>. QED  BY <1>2, <2>1, RowsTyped, StreamStays, CountedKept, LogAnsweredKept
<1>3. ASSUME NEW d \in Deployments, Publish(d)  PROVE RestType' /\ StreamOK'
  <2>1. LogAnswered'
    <3>1. published' \in [Deployments -> Nat] /\ UNCHANGED data
      BY <1>3, PublishGrows, ViewAssumption DEF Publish, cache
    <3>. QED  BY <1>3, <3>1, PublishGrows, LogAnsweredKept
  <2>. QED  BY <1>3, <2>1, PublishGrows, PublishStream DEF Publish, cache
<1>4. CASE SocketOpens \/ Subscribe \/ SocketLost \/ OldSocketCloses
  <2>1. UNCHANGED <<server, page, opened, cache>> /\ (Fault \/ UNCHANGED bounds)
    BY <1>4 DEF SocketOpens, Subscribe, SocketLost, OldSocketCloses
  <2>. QED  BY <1>4, <2>1, SocketStream, CountedKept, LogAnsweredKept DEF server, cache
<1>5. CASE LineArrives
  BY <1>5, ArrivesStream, CountedKept, LogAnsweredKept DEF LineArrives, server, cache
<1>6. CASE TabStep
  BY <1>6, TabStream, TabCache, TabLog, CountedKept DEF server
<1>. QED  BY <1>1, <1>2, <1>3, <1>4, <1>5, <1>6 DEF Next, TabStep

\* The lines of the stream are the drawer's deployment's, in the order of the log,
\* whatever is opened, closed, lost and reconnected
\* (use-deployment-log-stream.ts).
THEOREM ViewInvariant == Spec => []ViewInv
  BY ViewInit, ViewNext, PTL DEF Spec

\* What a tab keeps is well typed, and no log is longer than what was published.
THEOREM ViewTypeCorrect == Spec => []TypeOK
<1>1. ViewInv => TypeOK
  BY DEF ViewInv
<1>. QED  BY <1>1, ViewInvariant, PTL

\* No line of another deployment is shown.
THEOREM LinesAreOwn == Spec => []LinesBelong
<1>1. ViewInv => LinesBelong
  BY DEF ViewInv, StreamInv, FromLog, LinesBelong
<1>. QED  BY <1>1, ViewInvariant, PTL

\* The mark of a live log goes with its socket, or with the close event to come.
THEOREM LiveMarkIsOff == Spec => []LiveIsConnected
<1>1. ViewInv => LiveIsConnected
  BY DEF ViewInv
<1>. QED  BY <1>1, ViewInvariant, PTL

-----------------------------------------------------------------------------
(* The lines that are shown. Induction over the lines is by the least one   *)
(* of which the claim does not hold.                                        *)

Below == {p \in Nat \X Nat : p[1] < p[2]}

LEMMA LeastNumber ==
  ASSUME NEW S \in SUBSET Nat, S # {}
  PROVE  \E x \in S : \A y \in S : x <= y
<1>1. IsWellFoundedOn(Below, Nat)
  BY NatLessThanWellFounded DEF OpToRel, Below
<1>2. PICK x \in S : \A y \in S : <<y, x>> \notin Below
  BY <1>1, WFMin
<1>3. ASSUME NEW y \in S  PROVE x <= y
  <2>1. x \in Nat /\ y \in Nat /\ ~(y < x)
    BY <1>2 DEF Below
  <2>. QED  BY <2>1
<1>. QED  BY <1>3

LEMMA Induction ==
  ASSUME NEW S, NEW n \in Nat, 0 \in S, \A i \in 0 .. n : i \in S /\ i < n => i + 1 \in S
  PROVE  0 .. n \subseteq S
<1>. SUFFICES ASSUME (0 .. n) \ S # {}  PROVE FALSE
  OBVIOUS
<1>1. PICK x \in (0 .. n) \ S : \A y \in (0 .. n) \ S : x <= y
  <2>1. (0 .. n) \ S \in SUBSET Nat
    OBVIOUS
  <2>. QED  BY <2>1, LeastNumber
<1>2. x - 1 \in 0 .. n /\ x - 1 \in S
  BY <1>1
<1>. QED  BY <1>1, <1>2

\* out is what has been merged of s after each of the first n elements.
MergeOf(out, s, n) ==
  out = [i \in 0 .. n |->
           IF i = 0 THEN <<>>
           ELSE IF In(s[i], out[i - 1]) THEN out[i - 1] ELSE Append(out[i - 1], s[i])]

LEMMA MergeAt ==
  ASSUME NEW s, NEW n \in Nat, NEW f, MergeOf(f, s, n), NEW i \in 0 .. n
  PROVE  f[i] = IF i = 0 THEN <<>>
                ELSE IF In(s[i], f[i - 1]) THEN f[i - 1] ELSE Append(f[i - 1], s[i])
<1>. DEFINE step(j) == IF j = 0 THEN <<>>
                       ELSE IF In(s[j], f[j - 1]) THEN f[j - 1] ELSE Append(f[j - 1], s[j])
<1>1. f = [j \in 0 .. n |-> step(j)]
  BY DEF MergeOf
<1>2. f[i] = step(i)
  <2>. HIDE DEF step
  <2>. QED  BY <1>1
<1>. QED  BY <1>2

LEMMA MergeExtended ==
  ASSUME NEW s, NEW n \in Nat, NEW f, MergeOf(f, s, n)
  PROVE  \E g : MergeOf(g, s, n + 1)
<1>. DEFINE g == [i \in 0 .. n + 1 |->
                    IF i <= n THEN f[i]
                    ELSE IF In(s[i], f[i - 1]) THEN f[i - 1] ELSE Append(f[i - 1], s[i])]
<1>1. \A i \in 0 .. n : g[i] = f[i]
  OBVIOUS
<1>2. ASSUME NEW i \in 0 .. n + 1
      PROVE  g[i] = IF i = 0 THEN <<>>
                    ELSE IF In(s[i], g[i - 1]) THEN g[i - 1] ELSE Append(g[i - 1], s[i])
  <2>1. CASE i <= n
    <3>1. f[i] = IF i = 0 THEN <<>>
                 ELSE IF In(s[i], f[i - 1]) THEN f[i - 1] ELSE Append(f[i - 1], s[i])
      <4>1. i \in 0 .. n
        BY <2>1
      <4>. HIDE DEF g
      <4>. QED  BY <4>1, MergeAt
    <3>2. i # 0 => g[i - 1] = f[i - 1]
      BY <1>1, <2>1
    <3>3. g[i] = f[i]
      BY <2>1
    <3>. HIDE DEF g
    <3>. QED  BY <3>1, <3>2, <3>3
  <2>2. CASE i = n + 1
    <3>1. g[i - 1] = f[i - 1] /\ i # 0 /\ ~(i <= n)
      BY <1>1, <2>2
    <3>2. g[i] = IF In(s[i], f[i - 1]) THEN f[i - 1] ELSE Append(f[i - 1], s[i])
      BY <3>1
    <3>. HIDE DEF g
    <3>. QED  BY <3>1, <3>2
  <2>. QED  BY <2>1, <2>2
<1>3. MergeOf(g, s, n + 1)
  <2>1. g = [i \in 0 .. n + 1 |-> g[i]]
    OBVIOUS
  <2>. HIDE DEF g
  <2>. QED  BY <1>2, <2>1 DEF MergeOf
<1>. QED  BY <1>3

\* The recursion defines a function.
LEMMA MergeDefined ==
  ASSUME NEW s \in Seq(Nat)
  PROVE  \E out : MergeOf(out, s, Len(s)) /\ Unrepeated(s) = out[Len(s)]
<1>. DEFINE S == {n \in Nat : \E f : MergeOf(f, s, n)}
<1>1. 0 \in S
  <2>1. MergeOf([i \in 0 .. 0 |-> <<>>], s, 0)
    BY DEF MergeOf
  <2>. QED  BY <2>1
<1>2. \A i \in 0 .. Len(s) : i \in S /\ i < Len(s) => i + 1 \in S
  BY MergeExtended
<1>3. Len(s) \in S
  <2>. HIDE DEF S
  <2>1. Len(s) \in Nat
    OBVIOUS
  <2>2. 0 .. Len(s) \subseteq S
    BY <1>1, <1>2, <2>1, Induction
  <2>. QED  BY <2>1, <2>2
<1>4. \E f : MergeOf(f, s, Len(s))
  BY <1>3
<1>. DEFINE out == CHOOSE f : MergeOf(f, s, Len(s))
<1>5. MergeOf(out, s, Len(s))
  BY <1>4
<1>6. Unrepeated(s) = out[Len(s)]
  BY DEF Unrepeated, MergeOf
<1>. QED  BY <1>5, <1>6

\* Every element is new and more than all before, or came before.
Rising(s) ==
  \A i \in DOMAIN s : (\A j \in 1 .. i - 1 : s[j] < s[i]) \/ \E j \in 1 .. i - 1 : s[j] = s[i]

Increasing(s) == \A i, j \in DOMAIN s : i < j => s[i] < s[j]

\* What has been merged of the first i elements: each of them once, in order.
Merged(q, s, i) ==
  /\ q \in Seq(Nat) /\ Increasing(q)
  /\ \A k \in DOMAIN q : \E j \in 1 .. i : q[k] = s[j]
  /\ \A j \in 1 .. i : In(s[j], q)

LEMMA MergedNext ==
  ASSUME NEW s \in Seq(Nat), Rising(s), NEW i \in Nat, i < Len(s), NEW q, Merged(q, s, i)
  PROVE  Merged(IF In(s[i + 1], q) THEN q ELSE Append(q, s[i + 1]), s, i + 1)
<1>. DEFINE x == s[i + 1]
<1>1. i + 1 \in DOMAIN s /\ x \in Nat /\ \A j \in 1 .. i : s[j] \in Nat
  OBVIOUS
<1>2. /\ q \in Seq(Nat) /\ \A k, l \in DOMAIN q : k < l => q[k] < q[l]
      /\ \A k \in DOMAIN q : \E j \in 1 .. i : q[k] = s[j]
      /\ \A j \in 1 .. i : \E k \in DOMAIN q : q[k] = s[j]
  BY DEF Merged, Increasing, In
<1>3. /\ \A j \in 1 .. i + 1 : j \in 1 .. i \/ j = i + 1
      /\ 1 .. i \subseteq 1 .. i + 1 /\ i + 1 \in 1 .. i + 1 /\ i + 1 - 1 = i
  OBVIOUS
<1>4. CASE In(x, q)
  <2>1. \A j \in 1 .. i + 1 : In(s[j], q)
    <3>1. In(s[i + 1], q) /\ \A j \in 1 .. i : In(s[j], q)
      BY <1>4 DEF Merged
    <3>. QED  BY <1>3, <3>1
  <2>2. \A k \in DOMAIN q : \E j \in 1 .. i + 1 : q[k] = s[j]
    BY <1>2, <1>3
  <2>. QED  BY <1>2, <1>4, <2>1, <2>2 DEF Merged, Increasing
<1>5. CASE ~In(x, q)
  <2>. DEFINE p == Append(q, x)
  <2>1. \A j \in 1 .. i : s[j] < x
    <3>1. \A j \in 1 .. i : s[j] # x
      BY <1>2, <1>5 DEF In
    <3>2. \/ \A j \in 1 .. i + 1 - 1 : s[j] < s[i + 1]
          \/ \E j \in 1 .. i + 1 - 1 : s[j] = s[i + 1]
      BY <1>1 DEF Rising
    <3>. QED  BY <1>3, <3>1, <3>2
  <2>2. q \in Seq(Nat) /\ x \in Nat
    BY <1>1, <1>2
  <2>. HIDE DEF x
  <2>3. /\ p \in Seq(Nat) /\ DOMAIN p = 1 .. Len(q) + 1 /\ Len(q) \in Nat
        /\ DOMAIN q = 1 .. Len(q)
        /\ p[Len(q) + 1] = x /\ \A k \in DOMAIN q : p[k] = q[k]
    BY <2>2
  <2>. HIDE DEF p
  <2>4. /\ \A k \in DOMAIN p : k \in DOMAIN q \/ k = Len(q) + 1
        /\ DOMAIN q \subseteq DOMAIN p /\ Len(q) + 1 \in DOMAIN p
    BY <2>3
  <2>5. \A k \in DOMAIN q : q[k] < x
    BY <1>2, <2>1
  <2>6. ASSUME NEW k \in DOMAIN p, NEW l \in DOMAIN p, k < l
        PROVE  p[k] < p[l]
    <3>1. k \in DOMAIN q
      BY <2>3, <2>4, <2>6
    <3>2. CASE l \in DOMAIN q
      BY <1>2, <2>3, <2>6, <3>1, <3>2
    <3>3. CASE l = Len(q) + 1
      BY <2>3, <2>5, <3>1, <3>3
    <3>. QED  BY <2>4, <3>2, <3>3
  <2>7. \A k \in DOMAIN p : \E j \in 1 .. i + 1 : p[k] = s[j]
    <3>1. \A k \in DOMAIN q : \E j \in 1 .. i + 1 : p[k] = s[j]
      BY <1>2, <1>3, <2>3
    <3>2. p[Len(q) + 1] = s[i + 1]
      BY <2>3 DEF x
    <3>. QED  BY <1>3, <2>4, <3>1, <3>2
  <2>8. \A j \in 1 .. i + 1 : In(s[j], p)
    <3>1. \A j \in 1 .. i : In(s[j], p)
      BY <1>2, <2>3, <2>4 DEF In
    <3>2. In(s[i + 1], p)
      BY <2>3, <2>4 DEF In, x
    <3>. QED  BY <1>3, <3>1, <3>2
  <2>9. Merged(p, s, i + 1)
    BY <2>3, <2>6, <2>7, <2>8 DEF Merged, Increasing
  <2>. QED  BY <1>5, <2>9 DEF p, x
<1>. QED  BY <1>4, <1>5 DEF x

\* Lines that are new when they come, or repeated, are merged to a log in order.
LEMMA UnrepeatedIncreasing ==
  ASSUME NEW s \in Seq(Nat), Rising(s)
  PROVE  Merged(Unrepeated(s), s, Len(s))
<1>1. PICK out : MergeOf(out, s, Len(s)) /\ Unrepeated(s) = out[Len(s)]
  BY MergeDefined
<1>. DEFINE S == {i \in 0 .. Len(s) : Merged(out[i], s, i)}
<1>2. Len(s) \in Nat
  OBVIOUS
<1>3. 0 \in S
  <2>1. out[0] = <<>>
    BY <1>1, <1>2, MergeAt
  <2>2. Merged(<<>>, s, 0)
    BY DEF Merged, Increasing
  <2>. QED  BY <1>2, <2>1, <2>2
<1>4. ASSUME NEW i \in 0 .. Len(s), i \in S, i < Len(s)
      PROVE  i + 1 \in S
  <2>1. out[i + 1] = IF In(s[i + 1], out[i]) THEN out[i] ELSE Append(out[i], s[i + 1])
    <3>1. i + 1 \in 0 .. Len(s) /\ i + 1 # 0 /\ i + 1 - 1 = i
      BY <1>2, <1>4
    <3>. QED  BY <1>1, <1>2, <3>1, MergeAt
  <2>. QED  BY <1>2, <1>4, <2>1, MergedNext
<1>5. 0 .. Len(s) \subseteq S
  <2>. HIDE DEF S
  <2>. QED  BY <1>2, <1>3, <1>4, Induction
<1>. QED  BY <1>1, <1>2, <1>5

\* The lines of the log that fits the limit, from the first on.
LEMMA HistoryIsWhole ==
  ASSUME ViewInv, opened # None, published[opened] <= Limit
  PROVE  \E n \in Nat : /\ History(opened) \in Seq(Nat) /\ Len(History(opened)) = n
                        /\ \A i \in 1 .. n : History(opened)[i] = i
<1>. DEFINE n == IF data[<<"log", opened>>] = None THEN 0 ELSE data[<<"log", opened>>]
<1>1. n \in Nat /\ n <= Limit /\ Limit \in Nat
  BY ViewParts, ViewAssumption DEF RestType, LogAnswered
<1>2. History(opened) = [i \in 1 .. n |-> i]
  <2>1. History(opened) = Range2(1, n)
    BY <1>1 DEF History
  <2>. HIDE DEF n
  <2>2. Range2(1, n) = [i \in 1 .. n |-> i]
    BY <1>1 DEF Range2
  <2>. QED  BY <2>1, <2>2
<1>. HIDE DEF n
<1>. QED  BY <1>1, <1>2

LEMMA LinesRise ==
  ASSUME ViewInv, opened # None, published[opened] <= Limit
  PROVE  LET s == History(opened) \o LiveNumbers IN s \in Seq(Nat) /\ Rising(s)
<1>. DEFINE h == History(opened)  l == LiveNumbers  s == h \o l
<1>1. PICK n \in Nat : h \in Seq(Nat) /\ Len(h) = n /\ \A i \in 1 .. n : h[i] = i
  BY HistoryIsWhole
<1>2. l \in Seq(Nat) /\ Increasing(l) /\ \A i \in DOMAIN l : l[i] # 0
  <2>1. /\ live \in Seq(Line) /\ \A i, j \in DOMAIN live : i < j => live[i].n < live[j].n
    BY ViewParts DEF StreamOK, StreamInv, FromLog
  <2>2. \A i \in DOMAIN live : live[i].n \in Nat \ {0}
    <3>1. \A i \in DOMAIN live : live[i] \in Line
      BY <2>1
    <3>. QED  BY <3>1 DEF Line
  <2>3. l = [i \in 1 .. Len(live) |-> live[i].n] /\ Len(live) \in Nat /\ DOMAIN live = 1 .. Len(live)
    BY <2>1 DEF LiveNumbers
  <2>. HIDE DEF l
  <2>. QED  BY <2>1, <2>2, <2>3 DEF Increasing
<1>. HIDE DEF h, l
<1>3. /\ s \in Seq(Nat) /\ DOMAIN s = 1 .. n + Len(l) /\ Len(l) \in Nat
      /\ DOMAIN l = 1 .. Len(l)
      /\ \A i \in 1 .. n : s[i] = i
      /\ \A i \in n + 1 .. n + Len(l) : s[i] = l[i - n]
  BY <1>1, <1>2
<1>. HIDE DEF s
<1>4. ASSUME NEW i \in DOMAIN s
      PROVE  (\A j \in 1 .. i - 1 : s[j] < s[i]) \/ \E j \in 1 .. i - 1 : s[j] = s[i]
  <2>1. CASE i <= n
    BY <1>1, <1>3, <2>1
  <2>2. CASE n < i
    <3>1. i - n \in DOMAIN l /\ s[i] = l[i - n] /\ s[i] \in Nat \ {0}
      BY <1>1, <1>2, <1>3, <2>2
    <3>2. CASE s[i] <= n
      <4>1. s[i] \in 1 .. i - 1 /\ s[s[i]] = s[i]
        BY <1>1, <1>3, <2>2, <3>1, <3>2
      <4>. QED  BY <4>1
    <3>3. CASE n < s[i]
      <4>1. ASSUME NEW j \in 1 .. i - 1  PROVE s[j] < s[i]
        <5>1. CASE j <= n
          BY <1>1, <1>3, <3>1, <3>3, <5>1
        <5>2. CASE n < j
          <6>1. j - n \in DOMAIN l /\ s[j] = l[j - n] /\ j - n < i - n
            BY <1>1, <1>3, <2>2, <5>2
          <6>. QED  BY <1>2, <3>1, <6>1 DEF Increasing
        <5>. QED  BY <1>1, <5>1, <5>2
      <4>. QED  BY <4>1
    <3>. QED  BY <1>1, <3>1, <3>2, <3>3
  <2>. QED  BY <1>1, <1>3, <2>1, <2>2
<1>. QED  BY <1>3, <1>4 DEF Rising, s, h, l

\* The drawer shows the log in the order of publication, no line twice, as long as
\* the log fits what is asked for (deployment-detail-drawer.tsx).
THEOREM LinesAreInOrder == Spec => []ShownInOrder
<1>1. ViewInv => ShownInOrder
  <2>. SUFFICES ASSUME ViewInv, opened # None, published[opened] <= Limit
                PROVE  Increasing(LinesShown)
    BY DEF ShownInOrder, Increasing
  <2>1. LinesShown = Unrepeated(History(opened) \o LiveNumbers)
    BY DEF LinesShown, MergeLogLines
  <2>. QED  BY <2>1, LinesRise, UnrepeatedIncreasing DEF Merged
<1>. QED  BY <1>1, ViewInvariant, PTL

-----------------------------------------------------------------------------
(* The step that failed *)

\* Of the phases an error names the last is taken.
LEMMA FailedStepIsLast ==
  ASSUME NEW error, NEW p \in 1 .. 5, NEW word \in Marks[p], word \in error
  PROVE  FailedStepIndex(error) \in 1 .. 5 /\ FailedStepIndex(error) >= p
<1>1. p \in Hits(error) /\ Hits(error) \subseteq 1 .. 5
  BY DEF Hits
<1>2. \E m \in Hits(error) : \A q \in Hits(error) : m >= q
  BY <1>1
<1>3. FailedStepIndex(error) \in Hits(error)
      /\ \A q \in Hits(error) : FailedStepIndex(error) >= q
  BY <1>1, <1>2 DEF FailedStepIndex
<1>. QED  BY <1>1, <1>3

\* Whatever else the output of the command says, no step before the one the error
\* names is shown as the one that failed (deployment-steps.ts).
THEOREM FailedStepIsNotEarlier == Spec => []FailedStepNotBefore
<1>1. FailedStepNotBefore
  <2>. SUFFICES ASSUME DrawerStatus = "failed", NEW p \in 1 .. 5, NEW output,
                       NEW word \in Marks[p], NEW q \in Phases,
                       StepVisual(q, DrawerStatus, output \cup {word}) = "error"
                PROVE  q >= p
    BY DEF FailedStepNotBefore
  <2>1. q = FailedStepIndex(output \cup {word})
    BY FailedStepIsLast DEF StepVisual, Phases
  <2>. QED  BY <2>1, FailedStepIsLast
<1>. QED  BY <1>1, PTL
=============================================================================
