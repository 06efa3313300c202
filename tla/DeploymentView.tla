--------------------------- MODULE DeploymentView ---------------------------
(***************************************************************************)
(* What a tab of the dashboard shows of deployments: the overview, the      *)
(* table of deployments and its drawer, with the polled rows and log and    *)
(* the stream of log lines (hooks/use-deployment*.ts,                        *)
(* use-workspace-deployments.ts), over the rows of DeploymentLifecycle and   *)
(* the log in Redis (logstream/redis.go).                                    *)
(*                                                                         *)
(* A log line is the deployment's n-th. A fetch is one step: an answer that  *)
(* arrives late is the answer of an earlier poll, since the fetches of a key *)
(* do not overlap and only answers write the cache here.                     *)
(***************************************************************************)
EXTENDS Naturals, Sequences, FiniteSets

CONSTANTS
  Deployments,
  InProject,   \* those of the first project, which the table shows
  None,
  Redelivery,  \* asynq may deliver a job that has ended again
  Limit,       \* lines of the log that are asked for (200)
  Starts,      \* the statuses at first
  MaxEvents,   \* BOUND: lines, writes of rows, commands of the user and faults
  MaxFaults    \* BOUND: those of them that are requests refused or connections lost

Active == {"queued", "building", "pushing", "deploying"}
Statuses == Active \cup {"none", "failed", "running"}

ASSUME ViewAssumption ==
  /\ InProject \subseteq Deployments /\ None \notin Deployments
  /\ Redelivery \in BOOLEAN
  /\ Starts \subseteq [Deployments -> Statuses]
  /\ {Limit, MaxEvents, MaxFaults} \subseteq Nat

VARIABLES
  status, images, registry,  \* DeploymentLifecycle
  published,  \* the number of lines of a deployment's log
  page,
  opened,     \* whose drawer is open
  data,       \* the cached answers
  due,        \* the keys a fetch is due for, apart from polling
  socket,     \* what it was opened for, and where it is
  wire,       \* lines the server has sent into it
  closing,    \* an earlier socket's close event is to come
  connected, live,  \* state of useDeploymentLogStream
  events, faults

server == <<status, images, registry, published>>
cache == <<data, due>>
stream == <<socket, wire, closing, connected, live>>
bounds == <<events, faults>>
vars == <<server, page, opened, cache, stream, bounds>>

Rows == INSTANCE DeploymentLifecycle

Pages == {"overview", "deployments"}  \* "deployments": a project's timeline too

\* Cached: the overview, the table's list, and for a deployment its row and its log.
RowKeys == {<<"row", d>> : d \in Deployments}
LogKeys == {<<"log", d>> : d \in Deployments}
Keys == {<<"overview">>, <<"list">>} \cup RowKeys \cup LogKeys

Range2(a, b) == [i \in 1 .. (IF b < a THEN 0 ELSE b + 1 - a) |-> a + i - 1]

-----------------------------------------------------------------------------
(* What is shown *)

Listed(D) == [d \in {e \in D : status[e] # "none"} |-> status[d]]

InList(k, d) == data[k] # None /\ d \in DOMAIN data[k]

\* A row of the overview's lists and counters, and of the table.
RowShown(k, d) == IF InList(k, d) THEN data[k][d] ELSE None

\* The drawer prefers what it has polled to the row that was clicked.
DrawerStatusIn(C, d) ==
  IF d = None THEN None
  ELSE IF C[<<"row", d>>] # None THEN C[<<"row", d>>]
  ELSE IF C[<<"list">>] # None /\ d \in DOMAIN C[<<"list">>] THEN C[<<"list">>][d]
  ELSE None
DrawerStatus == DrawerStatusIn(data, opened)

\* The last lines of the log when it was asked for; None of it: no line.
History(d) ==
  LET n == IF data[<<"log", d>>] = None THEN 0 ELSE data[<<"log", d>>] IN
  Range2(IF n > Limit THEN n + 1 - Limit ELSE 1, n)

In(n, s) == \E i \in DOMAIN s : s[i] = n

\* The elements of s without those that came before: what is merged line by line.
Unrepeated(s) ==
  LET out[i \in 0 .. Len(s)] ==
        IF i = 0 THEN <<>>
        ELSE IF In(s[i], out[i - 1]) THEN out[i - 1] ELSE Append(out[i - 1], s[i])
  IN  out[Len(s)]

\* MUTANT of MergeLogLines: what came live is put first.
MergeLogLinesLiveFirst(history, lines) == Unrepeated(lines \o history)

MergeLogLines(history, lines) == Unrepeated(history \o lines)

LiveNumbers == [i \in DOMAIN live |-> live[i].n]
LinesShown == IF opened = None THEN <<>> ELSE MergeLogLines(History(opened), LiveNumbers)

\* The phases of the pipeline's steps, from the request (0) to the health check (6).
Phases == 0 .. 6

\* The words an error is searched for, by the phase they stand for.
Marks == [p \in 1 .. 5 |->
  CASE p = 1 -> {"clone", "git"}
    [] p = 2 -> {"detect", "stack"}
    [] p = 3 -> {"docker build", "pack build", "building"}
    [] p = 4 -> {"docker push", "push"}
    [] p = 5 -> {"docker pull", "docker run", "deploy"}]

Hits(error) == {p \in 1 .. 5 : error \cap Marks[p] # {}}

\* MUTANT of FailedStepIndex: the words are looked for in the order of the pipeline.
FailedStepIndexForward(error) ==
  IF Hits(error) = {} THEN 3 ELSE CHOOSE p \in Hits(error) : \A q \in Hits(error) : p <= q

FailedStepIndex(error) ==
  IF Hits(error) = {} THEN 3 ELSE CHOOSE p \in Hits(error) : \A q \in Hits(error) : p >= q

ActivePhase(s) ==
  CASE s = "building" -> 3 [] s = "pushing" -> 4 [] s = "deploying" -> 5
    [] s = "running" -> 7 [] OTHER -> 0

StepVisual(phase, s, error) ==
  LET at == IF s = "failed" THEN FailedStepIndex(error) ELSE ActivePhase(s) IN
  IF phase < at THEN "done"
  ELSE IF phase > at THEN "pending"
  ELSE IF s = "failed" THEN "error" ELSE "running"

-----------------------------------------------------------------------------
(* The stream of log lines: useDeploymentLogStream *)

NoSocket == [dep |-> None, for |-> None, at |-> "none"]
Connecting(d, s) == [dep |-> d, for |-> s, at |-> "connecting"]
IsOpen == socket.at \in {"open", "subscribed"}

\* MUTANT of Attach: the effect's cleanup does not close the socket.
AttachKeeping(C, d) ==
  /\ live' = IF d = opened THEN live ELSE <<>>
  /\ connected' = (d = opened /\ connected)
  /\ LET s == DrawerStatusIn(C, d) IN
     IF d = opened /\ s = DrawerStatus THEN UNCHANGED <<socket, wire, closing>>
     ELSE /\ socket' = IF s \in Active THEN Connecting(d, s) ELSE NoSocket
          /\ UNCHANGED <<wire, closing>>

\* MUTANT of Attach: the status is not looked at.
AttachAlways(C, d) ==
  /\ live' = IF d = opened THEN live ELSE <<>>
  /\ connected' = (d = opened /\ connected)
  /\ LET s == DrawerStatusIn(C, d) IN
     IF d = opened /\ s = DrawerStatus THEN UNCHANGED <<socket, wire, closing>>
     ELSE /\ socket' = IF d # None THEN Connecting(d, s) ELSE NoSocket
          /\ wire' = <<>>
          /\ closing' = (closing \/ socket.at \notin {"none", "closed"})

\* The effects after a render with the cached rows C and the drawer of d: another
\* deployment clears what was live; another deployment or status closes the socket
\* and opens one while it is active. A socket that is closed delivers nothing more,
\* but its close event is still to come.
Attach(C, d) ==
  /\ live' = IF d = opened THEN live ELSE <<>>
  /\ connected' = (d = opened /\ connected)
  /\ LET s == DrawerStatusIn(C, d) IN
     IF d = opened /\ s = DrawerStatus THEN UNCHANGED <<socket, wire, closing>>
     ELSE /\ socket' = IF s \in Active THEN Connecting(d, s) ELSE NoSocket
          /\ wire' = <<>>
          /\ closing' = (closing \/ socket.at \notin {"none", "closed"})

\* The server upgrades the connection and then subscribes: lines in between are lost.
SocketOpens ==
  /\ socket.at = "connecting"
  /\ socket' = [socket EXCEPT !.at = "open"]
  /\ connected' = TRUE
  /\ UNCHANGED <<server, page, opened, cache, wire, closing, live, bounds>>

Subscribe ==
  /\ socket.at = "open"
  /\ socket' = [socket EXCEPT !.at = "subscribed"]
  /\ UNCHANGED <<server, page, opened, cache, wire, closing, connected, live, bounds>>

Event == events < MaxEvents /\ events' = events + 1 /\ UNCHANGED faults
Fault ==
  /\ events < MaxEvents /\ events' = events + 1
  /\ faults < MaxFaults /\ faults' = faults + 1

\* MUTANT of SocketLost: onclose and onerror are not handled.
SocketLostUnheard ==
  /\ socket.at \notin {"none", "closed"} /\ Fault
  /\ socket' = [socket EXCEPT !.at = "closed"]
  /\ wire' = <<>>
  /\ UNCHANGED <<server, page, opened, cache, closing, connected, live>>

\* A refused or broken connection is not opened again for the same status.
SocketLost ==
  /\ socket.at \notin {"none", "closed"} /\ Fault
  /\ socket' = [socket EXCEPT !.at = "closed"]
  /\ connected' = FALSE
  /\ wire' = <<>>
  /\ UNCHANGED <<server, page, opened, cache, closing, live>>

\* The close event of an earlier socket, which may come after the next one's open.
OldSocketCloses ==
  /\ closing
  /\ closing' = FALSE /\ connected' = FALSE
  /\ UNCHANGED <<server, page, opened, cache, socket, wire, live, bounds>>

LineArrives ==
  /\ wire # <<>>
  /\ wire' = Tail(wire)
  /\ live' = IF In(Head(wire), live) THEN live ELSE Append(live, Head(wire))
  /\ UNCHANGED <<server, page, opened, cache, socket, closing, connected, bounds>>

-----------------------------------------------------------------------------
(* The server: rows and log lines *)

RowStep ==
  /\ Event
  /\ Rows!Next
  /\ UNCHANGED <<published, page, opened, cache, stream>>

\* A worker publishes a line and appends it to the log. Lines follow a success too.
Publish(d) ==
  /\ status[d] # "none" /\ Event
  /\ published' = [published EXCEPT ![d] = @ + 1]
  /\ wire' = IF socket.at = "subscribed" /\ socket.dep = d
             THEN Append(wire, [dep |-> d, n |-> published'[d]]) ELSE wire
  /\ UNCHANGED <<status, images, registry, page, opened, cache, socket, closing,
                 connected, live>>

-----------------------------------------------------------------------------
(* Fetches *)

Watched ==
  IF page = "overview" THEN {<<"overview">>}
  ELSE {<<"list">>} \cup (IF opened = None THEN {} ELSE {<<"row", opened>>, <<"log", opened>>})

\* MUTANT of LogPolled: the log is polled while the deployment is active.
LogPolledActive == DrawerStatus \in Active

LogPolled == DrawerStatus \in Active \cup {"failed"}

\* MUTANT of ActiveIn: a queued deployment is not counted.
ActiveInStarted(answer) ==
  \E d \in DOMAIN answer : answer[d] \in Active \ {"queued"}

ActiveIn(answer) == \E d \in DOMAIN answer : answer[d] \in Active

\* refetchInterval: by what the last answer says.
Polled(k) ==
  CASE k \in {<<"overview">>, <<"list">>} -> data[k] # None /\ ActiveIn(data[k])
    [] k \in RowKeys -> data[k] \in Active
    [] k \in LogKeys -> LogPolled

\* What a key is answered. A project whose list fails counts as one without
\* deployments.
Answers(k) ==
  CASE k = <<"overview">> -> {Listed(Deployments)}
    [] k = <<"list">> -> {Listed(InProject)}
    [] k \in RowKeys -> {status[k[2]]}
    [] k \in LogKeys -> {published[k[2]]}

Missing == {Listed(Deployments \ InProject), Listed(InProject), Listed({})}

FetchDue(k) == due[k] \/ (k \in Watched /\ Polled(k))

Answered(k, v) ==
  /\ data' = [data EXCEPT ![k] = v]
  /\ due' = [due EXCEPT ![k] = FALSE]
  /\ Attach(data', opened)
  /\ UNCHANGED <<server, page, opened>>

Fetched(k) ==
  /\ FetchDue(k)
  /\ \E v \in Answers(k) : Answered(k, v)
  /\ UNCHANGED bounds

FetchIncomplete ==
  /\ FetchDue(<<"overview">>) /\ Fault
  /\ \E v \in Missing : Answered(<<"overview">>, v)

FetchFails(k) ==
  /\ due[k] /\ Fault
  /\ due' = [due EXCEPT ![k] = FALSE]
  /\ UNCHANGED <<server, page, opened, data, stream>>

-----------------------------------------------------------------------------
(* The user *)

\* Components mount and watch K: what is cached is used, and fetched when it is
\* older than staleTime.
Mount(K) ==
  \E old \in SUBSET K :
    /\ {k \in K : data[k] = None} \subseteq old
    /\ due' = [k \in Keys |-> due[k] \/ k \in old]
    /\ UNCHANGED data

Visit(p) ==
  /\ opened = None /\ page # p /\ Event
  /\ page' = p
  /\ Mount(IF p = "overview" THEN {<<"overview">>} ELSE {<<"list">>})
  /\ UNCHANGED <<server, opened, stream>>

\* The filters choose among the rows; the drawer does not depend on them.
OpenRow(d) ==
  /\ page = "deployments" /\ opened = None /\ InList(<<"list">>, d) /\ Event
  /\ opened' = d
  /\ Mount({<<"row", d>>, <<"log", d>>})
  /\ Attach(data, d)
  /\ UNCHANGED <<server, page>>

CloseDrawer ==
  /\ opened # None
  /\ opened' = None
  /\ Attach(data, None)
  /\ UNCHANGED <<server, page, cache, bounds>>

RefreshLogs ==
  /\ opened # None /\ Event
  /\ due' = [due EXCEPT ![<<"log", opened>>] = TRUE]
  /\ UNCHANGED <<server, page, opened, data, stream>>

FocusWindow ==
  /\ Event
  /\ Mount(Watched)
  /\ UNCHANGED <<server, page, opened, stream>>

-----------------------------------------------------------------------------
\* Any page, opened while deployments are anywhere on their way.
Init ==
  /\ status \in Starts
  /\ images = {d \in Deployments : status[d] \in {"deploying", "running"}}
  /\ registry = {d \in Deployments : status[d] \in {"deploying", "running", "failed"}}
  /\ published = [d \in Deployments |-> 0]
  /\ page \in Pages
  /\ opened = None
  /\ data = [k \in Keys |-> None]
  /\ due = [k \in Keys |-> k \in Watched]
  /\ socket = NoSocket /\ wire = <<>> /\ closing = FALSE
  /\ connected = FALSE /\ live = <<>>
  /\ events = 0 /\ faults = 0

Next ==
  \/ RowStep \/ \E d \in Deployments : Publish(d) \/ OpenRow(d)
  \/ SocketOpens \/ Subscribe \/ SocketLost \/ OldSocketCloses \/ LineArrives
  \/ \E k \in Keys : Fetched(k) \/ FetchFails(k)
  \/ FetchIncomplete
  \/ \E p \in Pages : Visit(p)
  \/ CloseDrawer \/ RefreshLogs \/ FocusWindow

\* The page's list, the drawer's row and its log have an interval each.
Spec ==
  /\ Init /\ [][Next]_vars
  /\ WF_vars(\E k \in {<<"overview">>, <<"list">>} : Fetched(k))
  /\ WF_vars(\E k \in RowKeys : Fetched(k))
  /\ WF_vars(\E k \in LogKeys : Fetched(k))

-----------------------------------------------------------------------------
TypeOK ==
  /\ status \in [Deployments -> Statuses]
  /\ published \in [Deployments -> 0 .. MaxEvents]
  /\ page \in Pages /\ opened \in Deployments \cup {None}
  /\ DOMAIN data = Keys /\ due \in [Keys -> BOOLEAN]
  /\ socket \in [dep : Deployments \cup {None}, for : Active \cup {None},
                 at : {"none", "connecting", "open", "subscribed", "closed"}]
  /\ closing \in BOOLEAN /\ connected \in BOOLEAN

\* The drawer shows no line of another deployment, however it was opened, closed
\* and reconnected meanwhile.
LinesBelong == \A i \in DOMAIN live : live[i].dep = opened

\* The log and the stream, asked for separately, make up a log without repetitions,
\* in the order of publication, as long as it is no longer than what is asked for.
ShownInOrder ==
  opened # None /\ published[opened] <= Limit
    => \A i, j \in DOMAIN LinesShown : i < j => LinesShown[i] < LinesShown[j]

\* The mark of a live log is not left behind by a connection that is lost: it is off,
\* or a socket is open, or the close event of the last one is still to come.
LiveIsConnected == connected => IsOpen \/ closing

-----------------------------------------------------------------------------
(* Why the lines belong and come in order: the inductive strengthening of  *)
(* TypeOK, LinesBelong, LiveIsConnected and ShownInOrder.                  *)

Line == [dep : Deployments, n : Nat \ {0}]

\* Every line takes an event.
Counted ==
  /\ events \in 0 .. MaxEvents
  /\ \A d \in Deployments : published[d] <= events

\* An answered log was that long once, and is not shorter now.
LogAnswered ==
  \A d \in Deployments : data[<<"log", d>>] \in {None} \cup 0 .. published[d]

\* Lines of the drawer's deployment that are in its log already, each after the last.
FromLog(s) ==
  /\ s \in Seq(Line)
  /\ \A i \in DOMAIN s : s[i].dep = opened /\ s[i].n <= published[opened]
  /\ \A i, j \in DOMAIN s : i < j => s[i].n < s[j].n

\* What has arrived comes before what is on the wire, and the socket is of the
\* deployment whose drawer is open: reconnections lose lines, and repeat none.
StreamInv ==
  /\ socket.dep \in {opened, None}
  /\ FromLog(live) /\ FromLog(wire)
  /\ \A i \in DOMAIN live, j \in DOMAIN wire : live[i].n < wire[j].n

\* What has arrived and what is on the wire are lines of the drawer's deployment, in the
\* order of its log, through every reopening and reconnection
\* (use-deployment-log-stream.ts).
ViewInv == TypeOK /\ Counted /\ LogAnswered /\ StreamInv /\ LiveIsConnected

-----------------------------------------------------------------------------
\* A deployment that has ended is not shown as under way for good, on the overview, in
\* the table or in the drawer: what shows it is polled until it has seen the end.
ShownActive(d) ==
  \/ page = "overview" /\ RowShown(<<"overview">>, d) \in Active
  \/ page = "deployments" /\ RowShown(<<"list">>, d) \in Active
  \/ opened = d /\ DrawerStatus \in Active

EndIsSeen == []<>(\A d \in Deployments : ShownActive(d) => status[d] \in Active)

\* While the drawer shows a deployment under way or failed, it comes to show all that
\* the log keeps for it, without the stream if need be.
LogCatchesUp ==
  []<>(DrawerStatus \in Active \cup {"failed"}
         => \A n \in 1 .. published[opened] :
              In(n, LinesShown) \/ n + Limit <= published[opened])

\* When the drawer shows a failure, a step before the one that failed is not shown as
\* the one that failed, whatever else the command's output says, if the error names it.
FailedStepNotBefore ==
  DrawerStatus = "failed" =>
    \A p \in 1 .. 5, output \in SUBSET {"clone", "detect", "docker build", "push", "deploy"} :
      \A word \in Marks[p], q \in Phases :
        StepVisual(q, DrawerStatus, output \cup {word}) = "error" => q >= p
=============================================================================
