------------------------------ MODULE Control ------------------------------
(***************************************************************************)
(* The daemon's observers: the event broadcast of the library, the unix    *)
(* control socket (crates/daemon/src/control.rs) that forwards it, and     *)
(* `splicefeed status --watch` (crates/daemon/src/tui.rs), a separate      *)
(* process that reads the database on a tick and follows the socket while  *)
(* it can.  Any other client that writes lines to the socket (socat, a      *)
(* script) is a shell.  Every await of the code is a boundary between two  *)
(* actions.                                                                *)
(*                                                                         *)
(* The database is abstracted to the number of changes committed to it and *)
(* a report to the number of changes it shows; an event is its position in *)
(* the sequence of all events, and announces one change (or none: a poll   *)
(* that starts).                                                           *)
(***************************************************************************)
EXTENDS Naturals, Sequences, SequencesExt, FiniteSets

CONSTANTS
  Clients,      \* processes that connect: `status --watch` or a shell
  RingCap,      \* capacity of the broadcast channel (256)
  WireCap,      \* lines the socket's buffer holds before a send waits
  LiveCap,      \* capacity of the TUI's channel of updates (64)
  EventLog,     \* EVENT_LOG, the length of the TUI's log (100)
  MaxChanges,   \* bound: changes to the database
  MaxEvents,    \* bound: events emitted
  MaxStarts,    \* bound: daemon starts
  MaxAsks,      \* bound: lines a shell writes
  None

\* One line of the protocol: ipc::Hello, Response or Event.  n is the
\* position of an event; what a snapshot says is not told apart.
Lines == [kind : {"hello", "snapshot", "error", "event"}, n : Nat]
Line(kind, n) == [kind |-> kind, n |-> n]

ASSUME ControlAssumption ==
  /\ {RingCap, WireCap, LiveCap, EventLog} \subseteq Nat \ {0}
  /\ {MaxChanges, MaxEvents, MaxStarts, MaxAsks} \subseteq Nat
  /\ None \notin Nat /\ None \notin Lines

VARIABLES
  db,       \* changes committed to the database (it outlives the daemon)
  daemon,   \* [up, control, starts]
  socket,   \* the socket file: "none", "live" (a listener behind it), "stale"
  owed,     \* changes committed by the daemon and not announced yet
  sent,     \* the change each event announced, all daemon runs together
  base,     \* events sent before this daemon's broadcast channel existed
  conn,     \* the daemon's side of each client's connection
  wire,     \* lines written by the daemon, not read by the client
  asks,     \* request lines of the client, not read by the daemon yet
  viewer,   \* the TUI processes
  shell     \* the other clients

daemonVars == <<db, daemon, socket, owed, sent, base>>
linkVars == <<conn, wire, asks>>
vars == <<daemonVars, linkVars, viewer, shell>>

\* A request line: blank, a verb, or anything else (not UTF-8, not JSON, or a
\* verb of a newer client).
Requests == {"blank", "garbage", "snapshot", "subscribe"}

Daemon == [up : BOOLEAN, control : {"off", "listening", "closed"},
           starts : 0..MaxStarts]

\* Where talk and stream_events are; line is the one being sent.  lagged is
\* a history variable: this subscription lost events; since is its start.
ConnStates == {"none", "hello", "reading", "snapshot", "opening", "reply",
               "openreply", "subscribe", "streaming", "forward"}
Conn == [pc : ConnStates, line : Lines, next : Nat, since : Nat,
         lagged : BOOLEAN]
NoConn == [pc |-> "none", line |-> Line("hello", 0), next |-> 0,
           since |-> 0, lagged |-> FALSE]

\* pc: follow_control_socket; live: the channel; the rest is App.  A live
\* update is a snapshot or event line, or None for Live::Gone; vitals says
\* whether the header has a snapshot to show.
Viewer == [pc : {"connect", "hello", "ask", "lines", "gone", "done"},
           live : Seq(Lines \cup {None}),
           app : {"starting", "running", "quit"},
           report : Nat, vitals : BOOLEAN, log : Seq(Nat)]

NewViewer == [pc |-> "connect", live |-> <<>>, app |-> "starting",
              report |-> 0, vitals |-> FALSE, log |-> <<>>]

\* A shell keeps the lines it is owed, in order, how many it wrote, and
\* whether every line it read was the one owed.  unused: the client is a TUI.
Owed == {"hello", "garbage", "snapshot", "subscribe", "events"}
Shell == [pc : {"unused", "away", "open", "closed"}, asked : 0..MaxAsks,
          due : Seq(Owed), fits : BOOLEAN]

\* A process that has exited: nothing is left of it.
GoneViewer == [NewViewer EXCEPT !.pc = "done", !.app = "quit"]
NewShell(pc) == [pc |-> pc, asked |-> 0, due |-> <<>>, fits |-> TRUE]

Init ==
  /\ db = 0 /\ owed = {} /\ sent = <<>> /\ base = 0
  /\ daemon = [up |-> FALSE, control |-> "off", starts |-> 0]
  /\ socket = "none"
  /\ conn = [v \in Clients |-> NoConn]
  /\ wire = [v \in Clients |-> <<>>]
  /\ asks = [v \in Clients |-> <<>>]
  /\ \E shells \in SUBSET Clients :
       /\ viewer = [v \in Clients |->
            IF v \in shells THEN GoneViewer ELSE NewViewer]
       /\ shell = [v \in Clients |->
            NewShell(IF v \in shells THEN "away" ELSE "unused")]

----------------------------------------------------------------------------
(* The daemon process and its sync engine.                                 *)

\* run: a library with a new broadcast channel; the control task is spawned.
Start ==
  /\ ~daemon.up /\ daemon.starts < MaxStarts
  /\ daemon' = [up |-> TRUE, control |-> "off",
                starts |-> daemon.starts + 1]
  /\ base' = Len(sent)
  /\ UNCHANGED <<db, socket, owed, sent, linkVars, viewer, shell>>

\* control::serve: replace whatever file is there, bind and listen.
Bind ==
  /\ daemon.up /\ daemon.control = "off"
  /\ daemon' = [daemon EXCEPT !.control = "listening"]
  /\ socket' = "live"
  /\ UNCHANGED <<db, owed, sent, base, linkVars, viewer, shell>>

\* The file cannot be removed or the bind fails: the daemon runs on without.
BindFails ==
  /\ daemon.up /\ daemon.control = "off"
  /\ daemon' = [daemon EXCEPT !.control = "closed"]
  /\ socket' \in {socket, "none"}
  /\ UNCHANGED <<db, owed, sent, base, linkVars, viewer, shell>>

\* serve sees the library sender closed while the process lives on: the file
\* is removed, the spawned connections stay.
SenderCloses ==
  /\ daemon.up /\ daemon.control = "listening"
  /\ daemon' = [daemon EXCEPT !.control = "closed"]
  /\ socket' = "none"
  /\ UNCHANGED <<db, owed, sent, base, linkVars, viewer, shell>>

\* The process is gone, and with it every connection and unsent event; what
\* the socket buffers hold can still be read.
Ends ==
  /\ daemon.up
  /\ daemon' = [daemon EXCEPT !.up = FALSE, !.control = "off"]
  /\ owed' = {}
  /\ conn' = [v \in Clients |-> NoConn]
  /\ asks' = [v \in Clients |-> <<>>]
  /\ UNCHANGED <<db, sent, base, wire, viewer, shell>>

\* A graceful shutdown removes the socket file (run, after server::serve).
Stop == Ends /\ socket' = "none"

Crash == Ends /\ socket' = IF socket = "live" THEN "stale" ELSE socket

\* The sync engine commits a change it will announce.
Change ==
  /\ daemon.up /\ db < MaxChanges
  /\ db' = db + 1
  /\ owed' = owed \cup {db + 1}
  /\ UNCHANGED <<daemon, socket, sent, base, linkVars, viewer, shell>>

\* A change nobody announces: download progress, or another process
\* (`run --once`, `verify`) on the same database.
SilentChange ==
  /\ db < MaxChanges
  /\ db' = db + 1
  /\ UNCHANGED <<daemon, socket, owed, sent, base, linkVars, viewer, shell>>

\* Library::emit.  Syncs run concurrently, so announcements may come in any
\* order; 0 announces no change (PollStarted).
Emit(n) ==
  /\ daemon.up /\ Len(sent) < MaxEvents
  /\ n \in owed \cup {0}
  /\ sent' = Append(sent, n)
  /\ owed' = owed \ {n}
  /\ UNCHANGED <<db, daemon, socket, base, linkVars, viewer, shell>>

----------------------------------------------------------------------------
(* One connection, the daemon's side: talk and stream_events.              *)

Open(c) == viewer[c].pc \in {"hello", "ask", "lines"} \/ shell[c].pc = "open"

\* The connection's write half has room, and somebody to read it.
CanSend(c) == Open(c) /\ Len(wire[c]) < WireCap

At(c, pc) == conn[c].pc = pc
Goto(c, pc) == conn' = [conn EXCEPT ![c].pc = pc]
SendLine(c, line) == wire' = [wire EXCEPT ![c] = Append(@, line)]

SendHello(c) ==
  /\ At(c, "hello") /\ CanSend(c)
  /\ SendLine(c, Line("hello", 0))
  /\ Goto(c, "reading")
  /\ UNCHANGED <<daemonVars, asks, viewer, shell>>

\* Mutant: what cannot be parsed is skipped like a blank line.
TakeRequest_skips_garbage(c) ==
  /\ At(c, "reading") /\ asks[c] # <<>>
  /\ asks' = [asks EXCEPT ![c] = Tail(@)]
  /\ \/ Head(asks[c]) \in {"blank", "garbage"} /\ UNCHANGED conn
     \/ Head(asks[c]) = "snapshot" /\ Goto(c, "snapshot")
     \/ Head(asks[c]) = "subscribe" /\ Goto(c, "opening")
  /\ UNCHANGED <<daemonVars, wire, viewer, shell>>

\* next_line, and what the request is: an unparseable or unknown one is
\* answered, a blank one is not.
TakeRequest(c) ==
  /\ At(c, "reading") /\ asks[c] # <<>>
  /\ asks' = [asks EXCEPT ![c] = Tail(@)]
  /\ \/ Head(asks[c]) = "blank" /\ UNCHANGED conn
     \/ /\ Head(asks[c]) = "garbage"
        /\ conn' = [conn EXCEPT ![c].pc = "reply",
                                ![c].line = Line("error", 0)]
     \/ Head(asks[c]) = "snapshot" /\ Goto(c, "snapshot")
     \/ Head(asks[c]) = "subscribe" /\ Goto(c, "opening")
  /\ UNCHANGED <<daemonVars, wire, viewer, shell>>

\* snapshot reads storage; an error becomes the response.
Snapshot(c) ==
  /\ conn[c].pc \in {"snapshot", "opening"}
  /\ \E kind \in {"snapshot", "error"} :
       conn' = [conn EXCEPT
                  ![c].line = Line(kind, 0),
                  ![c].pc = IF @ = "opening" THEN "openreply" ELSE "reply"]
  /\ UNCHANGED <<daemonVars, wire, asks, viewer, shell>>

\* The response; after the one to a subscribe no request is read again.
Reply(c) ==
  /\ conn[c].pc \in {"reply", "openreply"} /\ CanSend(c)
  /\ SendLine(c, conn[c].line)
  /\ Goto(c, IF At(c, "openreply") THEN "subscribe" ELSE "reading")
  /\ UNCHANGED <<daemonVars, asks, viewer, shell>>

\* stream_events: the receiver sees what is sent from here on.
Subscribe(c) ==
  /\ At(c, "subscribe")
  /\ conn' = [conn EXCEPT ![c].pc = "streaming", ![c].next = Len(sent) + 1,
                          ![c].since = Len(sent) + 1]
  /\ UNCHANGED <<daemonVars, wire, asks, viewer, shell>>

\* The oldest event the broadcast channel still holds.
OldestEvent == IF Len(sent) - base > RingCap THEN Len(sent) - RingCap + 1
                                             ELSE base + 1

\* Mutant: the receiver does not move on.
Recv_again(c) ==
  /\ At(c, "streaming") /\ conn[c].next \in OldestEvent..Len(sent)
  /\ conn' = [conn EXCEPT ![c].pc = "forward",
                          ![c].line = Line("event", conn[c].next)]
  /\ UNCHANGED <<daemonVars, wire, asks, viewer, shell>>

Recv(c) ==
  /\ At(c, "streaming") /\ conn[c].next \in OldestEvent..Len(sent)
  /\ conn' = [conn EXCEPT ![c].pc = "forward", ![c].next = @ + 1,
                          ![c].line = Line("event", conn[c].next)]
  /\ UNCHANGED <<daemonVars, wire, asks, viewer, shell>>

\* RecvError::Lagged: the receiver goes on with the oldest event left.
Lagged(c) ==
  /\ At(c, "streaming") /\ conn[c].next < OldestEvent
  /\ conn' = [conn EXCEPT ![c].next = OldestEvent, ![c].lagged = TRUE]
  /\ UNCHANGED <<daemonVars, wire, asks, viewer, shell>>

Forward(c) ==
  /\ At(c, "forward") /\ CanSend(c)
  /\ SendLine(c, conn[c].line)
  /\ Goto(c, "streaming")
  /\ UNCHANGED <<daemonVars, asks, viewer, shell>>

\* talk returns: the client hung up, noticed by the next read or write, or
\* the next line is not even UTF-8, an error of next_line.
ConnEnds(c) ==
  /\ \/ ~Open(c) /\ conn[c].pc \in {"hello", "reply", "openreply", "forward"}
     \/ ~Open(c) /\ At(c, "reading") /\ asks[c] = <<>>
     \/ At(c, "reading") /\ asks[c] # <<>> /\ Head(asks[c]) = "garbage"
  /\ conn' = [conn EXCEPT ![c] = NoConn]
  /\ asks' = [asks EXCEPT ![c] = <<>>]
  /\ UNCHANGED <<daemonVars, wire, viewer, shell>>

----------------------------------------------------------------------------
(* The TUI: the task that follows the socket.                              *)

\* connect, and the accept that answers it.
Connects(c) ==
  /\ socket = "live" /\ At(c, "none")
  /\ conn' = [conn EXCEPT ![c] = [NoConn EXCEPT !.pc = "hello"]]

Update(v, new) == viewer' = [viewer EXCEPT ![v] = new]

Connect(v) ==
  /\ viewer[v].pc = "connect"
  /\ Connects(v)
  /\ Update(v, [viewer[v] EXCEPT !.pc = "hello"])
  /\ UNCHANGED <<daemonVars, wire, asks, shell>>

ConnectFails(v) ==
  /\ viewer[v].pc = "connect" /\ socket # "live"
  /\ Update(v, [viewer[v] EXCEPT !.pc = "gone"])
  /\ UNCHANGED <<daemonVars, linkVars, shell>>

\* The connection has ended and its last line is read.
Eof(c) == At(c, "none") /\ wire[c] = <<>>
ReadWire(c) == wire' = [wire EXCEPT ![c] = Tail(@)]

\* A daemon of another protocol version is left alone.
ReadHello(v) ==
  /\ viewer[v].pc = "hello" /\ wire[v] # <<>>
  /\ ReadWire(v)
  /\ \E pc \in {"ask", "gone"} : Update(v, [viewer[v] EXCEPT !.pc = pc])
  /\ UNCHANGED <<daemonVars, conn, asks, shell>>

\* The subscribe request; writing it to a dead connection fails.
Ask(v) ==
  /\ viewer[v].pc = "ask"
  /\ \/ /\ ~At(v, "none")
        /\ asks' = [asks EXCEPT ![v] = <<"subscribe">>]
        /\ Update(v, [viewer[v] EXCEPT !.pc = "lines"])
     \/ /\ At(v, "none")
        /\ Update(v, [viewer[v] EXCEPT !.pc = "gone"])
        /\ UNCHANGED asks
  /\ UNCHANGED <<daemonVars, conn, wire, shell>>

LiveRoom(v) == Len(viewer[v].live) < LiveCap

\* Mutant: a full channel loses the line instead of holding the reader up.
ReadLine_try_send(v) ==
  /\ viewer[v].pc = "lines" /\ wire[v] # <<>>
  /\ ReadWire(v)
  /\ IF Head(wire[v]).kind = "error" \/ ~LiveRoom(v)
       THEN UNCHANGED viewer
       ELSE Update(v, [viewer[v] EXCEPT !.live = Append(@, Head(wire[v]))])
  /\ UNCHANGED <<daemonVars, conn, asks, shell>>

\* Mutant: an unbounded channel.
ReadLine_unbounded(v) ==
  /\ viewer[v].pc = "lines" /\ wire[v] # <<>>
  /\ ReadWire(v)
  /\ IF Head(wire[v]).kind = "error" THEN UNCHANGED viewer
     ELSE Update(v, [viewer[v] EXCEPT !.live = Append(@, Head(wire[v]))])
  /\ UNCHANGED <<daemonVars, conn, asks, shell>>

\* A snapshot or an event goes to the render loop, which must have room for
\* it; an error response is neither and is skipped.
ReadLine(v) ==
  /\ viewer[v].pc = "lines" /\ wire[v] # <<>>
  /\ ReadWire(v)
  /\ LET line == Head(wire[v]) IN
       \/ /\ line.kind # "error" /\ LiveRoom(v)
          /\ Update(v, [viewer[v] EXCEPT !.live = Append(@, line)])
       \/ line.kind = "error" /\ UNCHANGED viewer
  /\ UNCHANGED <<daemonVars, conn, asks, shell>>

\* Mutant: the end of the stream is not reported.
LinesEnd_quietly(v) ==
  /\ viewer[v].pc \in {"hello", "lines"} /\ Eof(v)
  /\ Update(v, [viewer[v] EXCEPT !.pc = "done"])
  /\ UNCHANGED <<daemonVars, linkVars, shell>>

LinesEnd(v) ==
  /\ viewer[v].pc \in {"hello", "lines"} /\ Eof(v)
  /\ Update(v, [viewer[v] EXCEPT !.pc = "gone"])
  /\ UNCHANGED <<daemonVars, linkVars, shell>>

\* Live::Gone; afterwards the sender is dropped and recv returns None, which
\* the render loop ignores.
SendGone(v) ==
  /\ viewer[v].pc = "gone" /\ LiveRoom(v)
  /\ Update(v, [viewer[v] EXCEPT !.pc = "done", !.live = Append(@, None)])
  /\ UNCHANGED <<daemonVars, linkVars, shell>>

----------------------------------------------------------------------------
(* The TUI: run_loop.                                                      *)

Running(v) == viewer[v].app = "running"

\* status_report, as of the moment it starts reading.
Refreshed(v) == [viewer[v] EXCEPT !.report = db]

\* The first report; the socket task was spawned before it.
FirstReport(v) ==
  /\ viewer[v].app = "starting"
  /\ Update(v, [Refreshed(v) EXCEPT !.app = "running"])
  /\ UNCHANGED <<daemonVars, linkVars, shell>>

\* Mutant: the tick refreshes only while the daemon is followed.
Tick_with_daemon(v) ==
  /\ Running(v) /\ viewer[v].vitals
  /\ Update(v, Refreshed(v))
  /\ UNCHANGED <<daemonVars, linkVars, shell>>

\* The ticker, or the `r` key.
Tick(v) ==
  /\ Running(v)
  /\ Update(v, Refreshed(v))
  /\ UNCHANGED <<daemonVars, linkVars, shell>>

\* The rolling log, EVENT_LOG long.
Logged(log, n) ==
  Append(IF Len(log) = EventLog THEN Tail(log) ELSE log, n)

\* Mutant: an event is logged and the tables wait for the next tick.
TakeUpdate_stale(v) ==
  /\ Running(v) /\ viewer[v].live # <<>>
  /\ LET update == Head(viewer[v].live)
         taken == [viewer[v] EXCEPT !.live = Tail(@)] IN
       \/ /\ update = None
          /\ Update(v, [taken EXCEPT !.vitals = FALSE])
       \/ /\ update # None /\ update.kind = "snapshot"
          /\ Update(v, [taken EXCEPT !.vitals = TRUE])
       \/ /\ update # None /\ update.kind = "event"
          /\ Update(v, [taken EXCEPT !.log = Logged(@, update.n)])
  /\ UNCHANGED <<daemonVars, linkVars, shell>>

TakeUpdate(v) ==
  /\ Running(v) /\ viewer[v].live # <<>>
  /\ LET update == Head(viewer[v].live)
         taken == [viewer[v] EXCEPT !.live = Tail(@)] IN
       \/ /\ update = None
          /\ Update(v, [taken EXCEPT !.vitals = FALSE])
       \/ /\ update # None /\ update.kind = "snapshot"
          /\ Update(v, [taken EXCEPT !.vitals = TRUE])
       \/ /\ update # None /\ update.kind = "event"
          /\ Update(v, [taken EXCEPT !.log = Logged(@, update.n),
                                     !.report = db])
  /\ UNCHANGED <<daemonVars, linkVars, shell>>

\* A key, or a status_report that fails, ends the loop; the process exits
\* and takes the task that follows the socket with it.
Quit(v) ==
  /\ viewer[v].app # "quit"
  /\ Update(v, GoneViewer)
  /\ wire' = [wire EXCEPT ![v] = <<>>]
  /\ UNCHANGED <<daemonVars, conn, asks, shell>>

----------------------------------------------------------------------------
(* A shell.                                                                *)

ShellConnect(s) ==
  /\ shell[s].pc = "away"
  /\ Connects(s)
  /\ shell' = [shell EXCEPT ![s].pc = "open", ![s].due = <<"hello">>]
  /\ UNCHANGED <<daemonVars, wire, asks, viewer>>

\* It may write ahead of the answers.  A blank line is owed none, nor is
\* what follows a subscribe.
ShellAsks(s, request) ==
  /\ shell[s].pc = "open" /\ ~At(s, "none")
  /\ shell[s].asked < MaxAsks
  /\ asks' = [asks EXCEPT ![s] = Append(@, request)]
  /\ LET due == shell[s].due
         unread == request = "blank" \/ {"subscribe", "events"} \cap ToSet(due) # {}
     IN shell' = [shell EXCEPT
                    ![s].asked = @ + 1,
                    ![s].due = IF unread THEN due ELSE Append(due, request)]
  /\ UNCHANGED <<daemonVars, conn, wire, viewer>>

\* The line that answers what is owed.
Answered(want, line) ==
  \/ want = "hello" /\ line.kind = "hello"
  \/ want = "garbage" /\ line.kind = "error"
  \/ want \in {"snapshot", "subscribe"} /\ line.kind \in {"snapshot", "error"}
  \/ want = "events" /\ line.kind = "event"

\* After the answer to a subscribe come events, any number of them.
ShellReads(s) ==
  /\ shell[s].pc = "open" /\ wire[s] # <<>>
  /\ ReadWire(s)
  /\ LET due == shell[s].due
         want == IF due = <<>> THEN None ELSE Head(due)
     IN shell' = [shell EXCEPT
                    ![s].fits = @ /\ Answered(want, Head(wire[s])),
                    ![s].due = IF want \in {"subscribe", "events"}
                               THEN <<"events">>
                               ELSE SubSeq(due, 2, Len(due))]
  /\ UNCHANGED <<daemonVars, conn, asks, viewer>>

ShellCloses(s) ==
  /\ shell[s].pc = "open"
  /\ shell' = [shell EXCEPT ![s] = NewShell("closed")]
  /\ wire' = [wire EXCEPT ![s] = <<>>]
  /\ UNCHANGED <<daemonVars, conn, asks, viewer>>

----------------------------------------------------------------------------
Process == Start \/ Bind \/ BindFails \/ SenderCloses \/ Stop \/ Crash
Engine == Change \/ SilentChange \/ \E n \in 0..MaxChanges : Emit(n)

Serving(c) ==
  \/ SendHello(c) \/ TakeRequest(c) \/ Snapshot(c) \/ Reply(c)
  \/ Subscribe(c) \/ Recv(c) \/ Lagged(c) \/ Forward(c) \/ ConnEnds(c)

Following(v) ==
  \/ Connect(v) \/ ConnectFails(v) \/ ReadHello(v) \/ Ask(v)
  \/ ReadLine(v) \/ LinesEnd(v) \/ SendGone(v)

Shelling(s) ==
  \/ ShellConnect(s) \/ ShellReads(s) \/ ShellCloses(s)
  \/ \E request \in Requests : ShellAsks(s, request)

Next ==
  \/ Process \/ Engine
  \/ \E v \in Clients : \/ Serving(v) \/ Following(v) \/ FirstReport(v)
                          \/ Tick(v) \/ TakeUpdate(v) \/ Quit(v)
                          \/ Shelling(v)

Spec == Init /\ [][Next]_vars

\* Spawned tasks keep running while they can; select! takes its ready
\* branches in random order, so neither the tick nor the updates starve.
\* Nothing is assumed of the sync engine, of keys, or of the daemon
\* starting or stopping.
FairSpec ==
  /\ Spec
  /\ WF_vars(Bind \/ BindFails)
  /\ \A v \in Clients : /\ WF_vars(Serving(v))
                        /\ WF_vars(Following(v))
                        /\ WF_vars(FirstReport(v))
                        /\ WF_vars(Tick(v))
                        /\ WF_vars(TakeUpdate(v))

----------------------------------------------------------------------------
(* Properties.                                                             *)

\* Every variable has its type, and every queue keeps its capacity: the
\* socket's buffer, the TUI's channel and its rolling log (EVENT_LOG).
TypeOK ==
  /\ db \in 0..MaxChanges
  /\ daemon \in Daemon
  /\ socket \in {"none", "live", "stale"}
  /\ owed \subseteq 1..db
  /\ sent \in Seq(0..db) /\ Len(sent) <= MaxEvents
  /\ base \in 0..Len(sent)
  /\ conn \in [Clients -> Conn]
  /\ wire \in [Clients -> Seq(Lines)]
  /\ asks \in [Clients -> Seq(Requests)]
  /\ viewer \in [Clients -> Viewer]
  /\ shell \in [Clients -> Shell]
  /\ \A v \in Clients : /\ Len(wire[v]) <= WireCap
                        /\ Len(viewer[v].live) <= LiveCap
                        /\ Len(viewer[v].log) <= EventLog

\* The event log of the TUI never shows an event twice or out of the order
\* in which the library emitted them, whatever the broadcast channel dropped
\* and wherever the daemon stopped (stream_events, run_loop).
LogInOrder ==
  \A v \in Clients : LET log == viewer[v].log IN
    \A i, j \in DOMAIN log : i < j => log[i] < log[j]

\* An update that is an event; None is Live::Gone.
IsEvent(u) == u # None /\ u.kind = "event"

\* The positions of the events in a queue, and that they ascend.
EventsOf(queue) == {queue[i].n : i \in {j \in DOMAIN queue : IsEvent(queue[j])}}
Ascending(queue) ==
  \A i, j \in DOMAIN queue :
    i < j /\ IsEvent(queue[i]) /\ IsEvent(queue[j]) => queue[i].n < queue[j].n

\* What is on its way to v and what has arrived, oldest first: logged, in the
\* channel, on the wire, in the hands of stream_events.
InFlight(v) ==
  LET logged == [i \in DOMAIN viewer[v].log |-> Line("event", viewer[v].log[i])]
      held == IF At(v, "forward") THEN <<conn[v].line>> ELSE <<>>
  IN logged \o viewer[v].live \o wire[v] \o held

\* Slow subscribers lose events only to the broadcast channel: as long as
\* the receiver did not lag, every event since the subscription is in the
\* log, a queue or stream_events' hands, each once and in order, but for
\* those that a full log has rolled out.  No queue between the library and
\* the log drops anything (stream_events, follow_control_socket).
StreamWhole ==
  \A v \in Clients :
    conn[v].pc \in {"streaming", "forward"} /\ ~conn[v].lagged
      /\ viewer[v].app # "quit"
    => LET received == conn[v].since..(conn[v].next - 1)
           log == viewer[v].log
           rolled == {n \in received : Len(log) = EventLog /\ n < log[1]}
       IN /\ Ascending(InFlight(v))
          /\ EventsOf(InFlight(v)) = received \ rolled

\* An event in the log is never ahead of the tables below it: the library
\* commits before it emits, and run_loop refreshes the report when it takes
\* the event.
LogReflected ==
  \A v \in Clients : LET log == viewer[v].log IN
    \A i \in DOMAIN log : sent[log[i]] <= viewer[v].report

\* While it lasts, a connection says hello, then answers every request once
\* and in order however far the client writes ahead - with an error what it cannot parse
\* (talk: "answer, don't drop") - and sends events only after the answer to
\* a subscribe.  When it waits for the next request and its lines are read,
\* no earlier request is unanswered.
AnswersMatch ==
  \A s \in Clients :
    /\ shell[s].fits
    /\ (shell[s].pc = "open" /\ At(s, "reading")
        /\ asks[s] = <<>> /\ wire[s] = <<>>) => shell[s].due = <<>>

\* The tables catch up with every change, announced or not, daemon or no
\* daemon, as long as the TUI runs (the 2-second tick).
ReportCatchesUp ==
  \A v \in Clients : \A n \in 1..MaxChanges :
    (db >= n) ~> (viewer[v].report >= n \/ viewer[v].app = "quit")

\* A daemon that stopped or died is shown as offline eventually, even with
\* its last lines still unread (follow_control_socket sends Live::Gone).
OfflineShown ==
  \A v \in Clients :
    ~daemon.up ~> (~viewer[v].vitals \/ daemon.up \/ viewer[v].app = "quit")

============================================================================
