--------------------------- MODULE ControlProofs ---------------------------
(***************************************************************************)
(* Theorems about Control, for any number of clients, capacities, changes, *)
(* events and restarts of the daemon.                                      *)
(***************************************************************************)
EXTENDS Control, SequenceTheorems, TLAPS

-----------------------------------------------------------------------------
(* Lemmas about queues. *)

(* A line put at the end of a queue. *)
LEMMA Enqueued ==
  ASSUME NEW S, NEW s \in Seq(S), NEW x \in S
  PROVE  /\ Append(s, x) \in Seq(S)
         /\ Len(Append(s, x)) = Len(s) + 1
         /\ DOMAIN Append(s, x) = 1..Len(s) + 1
         /\ \A i \in 1..Len(s) : Append(s, x)[i] = s[i]
         /\ Append(s, x)[Len(s) + 1] = x
         /\ Len(s) \in Nat /\ DOMAIN s = 1..Len(s)
         /\ Append(s, x) # <<>>
  BY AppendProperties, LenProperties

(* The first line taken off a queue. *)
LEMMA Dequeued ==
  ASSUME NEW S, NEW s \in Seq(S), s # <<>>
  PROVE  /\ Head(s) \in S /\ Head(s) = s[1]
         /\ Tail(s) \in Seq(S)
         /\ Len(s) \in Nat \ {0} /\ DOMAIN s = 1..Len(s)
         /\ Len(Tail(s)) = Len(s) - 1
         /\ DOMAIN Tail(s) = 1..Len(s) - 1
         /\ \A i \in 1..Len(s) - 1 : Tail(s)[i] = s[i + 1]
<1>1. Len(s) \in Nat \ {0} /\ DOMAIN s = 1..Len(s)
  BY LenProperties, EmptySeq
<1> QED
  BY <1>1, HeadTailProperties, ElementOfSeq, LenProperties

-----------------------------------------------------------------------------
(* Type correctness, by group of variables. *)

DaemonTypes ==
  /\ db \in 0..MaxChanges
  /\ daemon \in Daemon
  /\ socket \in {"none", "live", "stale"}
  /\ owed \subseteq 1..db
  /\ sent \in Seq(0..db) /\ Len(sent) <= MaxEvents
  /\ base \in 0..Len(sent)

LinkTypes ==
  /\ conn \in [Clients -> Conn]
  /\ wire \in [Clients -> Seq(Lines)]
  /\ asks \in [Clients -> Seq(Requests)]
  /\ \A v \in Clients : Len(wire[v]) <= WireCap

ViewerTypes ==
  /\ viewer \in [Clients -> Viewer]
  /\ \A v \in Clients : /\ Len(viewer[v].live) <= LiveCap
                        /\ Len(viewer[v].log) <= EventLog

ShellTypes == shell \in [Clients -> Shell]

LEMMA TypeParts ==
  TypeOK <=> DaemonTypes /\ LinkTypes /\ ViewerTypes /\ ShellTypes
  BY DEF TypeOK, DaemonTypes, LinkTypes, ViewerTypes, ShellTypes

(* A step keeps the types when it keeps the ones of each group. *)
LEMMA TypePartsNext ==
  ASSUME DaemonTypes', LinkTypes', ViewerTypes', ShellTypes'
  PROVE  TypeOK'
  BY DEF TypeOK, DaemonTypes, LinkTypes, ViewerTypes, ShellTypes

(* A group a step leaves alone. *)
LEMMA DaemonKept ==
  ASSUME DaemonTypes, UNCHANGED daemonVars PROVE DaemonTypes'
  BY DEF DaemonTypes, daemonVars

LEMMA LinkKept ==
  ASSUME LinkTypes, UNCHANGED linkVars PROVE LinkTypes'
  BY DEF LinkTypes, linkVars

LEMMA ViewerKept ==
  ASSUME ViewerTypes, UNCHANGED viewer PROVE ViewerTypes'
  BY DEF ViewerTypes

LEMMA ShellKept ==
  ASSUME ShellTypes, UNCHANGED shell PROVE ShellTypes'
  BY DEF ShellTypes

(* Events are numbered from one. *)
LEMMA OldestNat ==
  ASSUME Len(sent) \in Nat, base \in Nat
  PROVE  OldestEvent \in Nat \ {0}
<1>1. RingCap \in Nat
  BY ControlAssumption
<1>2. CASE Len(sent) - base > RingCap
  <2>1. Len(sent) - RingCap + 1 \in Nat \ {0}
    BY <1>1, <1>2
  <2> QED
    BY <1>2, <2>1 DEF OldestEvent
<1>3. CASE ~(Len(sent) - base > RingCap)
  BY <1>3 DEF OldestEvent
<1> QED
  BY <1>2, <1>3

(* A connection replaced by a typed one. *)
LEMMA ConnUpdate ==
  ASSUME LinkTypes, NEW c \in Clients, NEW new \in Conn,
         conn' = [conn EXCEPT ![c] = new], UNCHANGED <<wire, asks>>
  PROVE  LinkTypes'
  BY DEF LinkTypes

(* A line sent: the guard leaves room for it. *)
LEMMA SendTypes ==
  ASSUME LinkTypes, NEW c \in Clients, NEW new \in Conn, NEW line \in Lines,
         conn' = [conn EXCEPT ![c] = new], SendLine(c, line), CanSend(c),
         UNCHANGED asks
  PROVE  LinkTypes'
<1>1. wire[c] \in Seq(Lines) /\ Len(wire[c]) \in Nat
  BY LenProperties DEF LinkTypes
<1>2. /\ Append(wire[c], line) \in Seq(Lines)
      /\ Len(Append(wire[c], line)) = Len(wire[c]) + 1
  BY <1>1, Enqueued
<1>3. Len(wire[c]) + 1 <= WireCap
  BY <1>1, ControlAssumption DEF CanSend
<1>4. wire' = [wire EXCEPT ![c] = Append(wire[c], line)]
  BY DEF SendLine
<1> QED
  BY <1>2, <1>3, <1>4 DEF LinkTypes

(* A line read. *)
LEMMA ReadTypes ==
  ASSUME LinkTypes, NEW c \in Clients, wire[c] # <<>>, ReadWire(c),
         UNCHANGED <<conn, asks>>
  PROVE  LinkTypes' /\ Head(wire[c]) \in Lines
<1>1. wire[c] \in Seq(Lines) /\ Len(wire[c]) <= WireCap
  BY DEF LinkTypes
<1>2. /\ Tail(wire[c]) \in Seq(Lines) /\ Head(wire[c]) \in Lines
      /\ Len(Tail(wire[c])) <= WireCap
  <2>1. /\ Tail(wire[c]) \in Seq(Lines) /\ Head(wire[c]) \in Lines
        /\ Len(wire[c]) \in Nat /\ Len(Tail(wire[c])) = Len(wire[c]) - 1
    BY <1>1, Dequeued
  <2> QED
    BY <1>1, <2>1, ControlAssumption
<1>3. wire' = [wire EXCEPT ![c] = Tail(wire[c])]
  BY DEF ReadWire
<1> QED
  BY <1>2, <1>3 DEF LinkTypes

(* A TUI that changed to a typed one. *)
LEMMA ViewerUpdate ==
  ASSUME ViewerTypes, NEW v \in Clients, NEW new \in Viewer, Update(v, new),
         Len(new.live) <= LiveCap, Len(new.log) <= EventLog
  PROVE  ViewerTypes'
  BY DEF ViewerTypes, Update

(* What a TUI is. *)
LEMMA ViewerType ==
  ASSUME ViewerTypes, NEW v \in Clients
  PROVE  /\ viewer[v] \in Viewer
         /\ Len(viewer[v].live) <= LiveCap /\ Len(viewer[v].live) \in Nat
         /\ Len(viewer[v].log) <= EventLog /\ Len(viewer[v].log) \in Nat
<1>1. viewer[v] \in Viewer
  BY DEF ViewerTypes
<1>2. viewer[v].live \in Seq(Lines \cup {None}) /\ viewer[v].log \in Seq(Nat)
  BY <1>1 DEF Viewer
<1> QED
  BY <1>1, <1>2, LenProperties DEF ViewerTypes

(* The follower goes elsewhere. *)
LEMMA ViewerGoto ==
  ASSUME ViewerTypes, NEW v \in Clients,
         NEW pc \in {"connect", "hello", "ask", "lines", "gone", "done"},
         Update(v, [viewer[v] EXCEPT !.pc = pc])
  PROVE  ViewerTypes'
<1> DEFINE new == [viewer[v] EXCEPT !.pc = pc]
<1>1. /\ new \in Viewer /\ new.live = viewer[v].live
      /\ new.log = viewer[v].log
  BY ViewerType DEF Viewer
<1> HIDE DEF new
<1> QED
  BY <1>1, ViewerType, ViewerUpdate DEF new

LEMMA BlankTypes ==
  /\ NoConn \in Conn
  /\ NewViewer \in Viewer /\ GoneViewer \in Viewer
  /\ Len(NewViewer.live) = 0 /\ Len(NewViewer.log) = 0
  /\ Len(GoneViewer.live) = 0 /\ Len(GoneViewer.log) = 0
  /\ \A pc \in {"unused", "away", "open", "closed"} : NewShell(pc) \in Shell
<1>1. Line("hello", 0) \in Lines
  BY DEF Line, Lines
<1>2. NoConn \in Conn
  BY <1>1 DEF NoConn, Conn, ConnStates
<1>3. NewViewer \in Viewer /\ NewViewer.live = <<>> /\ NewViewer.log = <<>>
  BY DEF NewViewer, Viewer
<1>4. GoneViewer \in Viewer /\ GoneViewer.live = <<>> /\ GoneViewer.log = <<>>
  BY <1>3 DEF GoneViewer, Viewer
<1>5. \A pc \in {"unused", "away", "open", "closed"} : NewShell(pc) \in Shell
  BY ControlAssumption DEF NewShell, Shell
<1>6. Len(<<>>) = 0
  OBVIOUS
<1> QED
  BY <1>2, <1>3, <1>4, <1>5, <1>6

LEMMA InitTypes == Init => TypeOK
<1> SUFFICES ASSUME Init PROVE TypeOK
  OBVIOUS
<1>1. DaemonTypes
  BY ControlAssumption DEF Init, DaemonTypes, Daemon
<1>2. LinkTypes
  BY BlankTypes, ControlAssumption DEF Init, LinkTypes
<1>3. PICK shells \in SUBSET Clients :
        /\ viewer = [v \in Clients |->
             IF v \in shells THEN GoneViewer ELSE NewViewer]
        /\ shell = [v \in Clients |->
             NewShell(IF v \in shells THEN "away" ELSE "unused")]
  BY DEF Init
<1>4. ViewerTypes
  BY <1>3, BlankTypes, ControlAssumption DEF ViewerTypes
<1>5. ShellTypes
  BY <1>3, BlankTypes DEF ShellTypes
<1> QED
  BY <1>1, <1>2, <1>4, <1>5, TypeParts

(* The daemon process and its sync engine. *)
LEMMA DaemonStepTypes ==
  ASSUME TypeOK, Process \/ Engine
  PROVE  TypeOK'
<1>0. DaemonTypes /\ LinkTypes /\ ViewerTypes /\ ShellTypes
      /\ Len(sent) \in Nat /\ db \in Nat
  BY TypeParts, LenProperties, ControlAssumption DEF DaemonTypes
<1>1. CASE Start
  <2>1. DaemonTypes'
    <3>1. daemon.starts \in 0..MaxStarts /\ daemon.starts < MaxStarts
      BY <1>0, <1>1 DEF Start, DaemonTypes, Daemon
    <3>2. daemon.starts + 1 \in 0..MaxStarts
      BY <3>1, ControlAssumption
    <3>3. daemon' \in Daemon
      BY <1>1, <3>2 DEF Start, Daemon
    <3>4. base' \in 0..Len(sent) /\ UNCHANGED <<db, socket, owed, sent>>
      BY <1>0, <1>1 DEF Start
    <3> QED
      BY <1>0, <3>3, <3>4 DEF DaemonTypes
  <2> QED
    BY <1>0, <1>1, <2>1, TypePartsNext, LinkKept, ViewerKept, ShellKept
    DEF Start
<1>2. CASE Bind \/ BindFails \/ SenderCloses
  <2>1. DaemonTypes'
    BY <1>0, <1>2 DEF Bind, BindFails, SenderCloses, DaemonTypes, Daemon
  <2> QED
    BY <1>0, <1>2, <2>1, TypePartsNext, LinkKept, ViewerKept, ShellKept
    DEF Bind, BindFails, SenderCloses
<1>3. CASE Stop \/ Crash
  <2>1. Ends /\ socket' \in {"none", "live", "stale"}
    BY <1>0, <1>3 DEF Stop, Crash, DaemonTypes
  <2>2. DaemonTypes'
    BY <1>0, <2>1 DEF Ends, DaemonTypes, Daemon
  <2>3. LinkTypes'
    BY <1>0, <2>1, BlankTypes DEF Ends, LinkTypes
  <2> QED
    BY <1>0, <2>1, <2>2, <2>3, TypePartsNext, ViewerKept, ShellKept DEF Ends
<1>4. CASE Change \/ SilentChange
  <2>0. /\ db' = db + 1 /\ db < MaxChanges
        /\ owed' \subseteq owed \cup {db + 1}
    BY <1>4 DEF Change, SilentChange
  <2>1. db' = db + 1 /\ db' \in 0..MaxChanges /\ owed' \subseteq 1..db'
    <3>1. MaxChanges \in Nat /\ owed \subseteq 1..db
      BY <1>0, ControlAssumption DEF DaemonTypes
    <3>2. 1..db \subseteq 1..(db + 1) /\ db + 1 \in 1..(db + 1)
      BY <1>0
    <3> QED
      BY <1>0, <2>0, <3>1, <3>2
  <2>2. UNCHANGED <<daemon, socket, sent, base>>
    BY <1>4 DEF Change, SilentChange
  <2>3. sent \in Seq(0..db')
    BY <1>0, <2>1, SeqMonotonic DEF DaemonTypes
  <2>4. DaemonTypes'
    BY <1>0, <2>1, <2>2, <2>3 DEF DaemonTypes
  <2> QED
    BY <1>0, <1>4, <2>4, TypePartsNext, LinkKept, ViewerKept, ShellKept
    DEF Change, SilentChange
<1>5. ASSUME NEW n \in 0..MaxChanges, Emit(n)
      PROVE  TypeOK'
  <2>1. n \in 0..db
    BY <1>0, <1>5 DEF Emit, DaemonTypes
  <2>2. /\ Append(sent, n) \in Seq(0..db)
        /\ Len(Append(sent, n)) = Len(sent) + 1
    BY <1>0, <2>1, Enqueued DEF DaemonTypes
  <2>3. DaemonTypes'
    BY <1>0, <1>5, <2>2, ControlAssumption DEF Emit, DaemonTypes
  <2> QED
    BY <1>0, <1>5, <2>3, TypePartsNext, LinkKept, ViewerKept, ShellKept
    DEF Emit
<1> QED
  BY <1>1, <1>2, <1>3, <1>4, <1>5 DEF Process, Engine

(* The daemon's side of a connection. *)
LEMMA ServingTypes ==
  ASSUME TypeOK, NEW c \in Clients, Serving(c)
  PROVE  TypeOK'
<1>0. DaemonTypes /\ LinkTypes /\ ViewerTypes /\ ShellTypes
      /\ conn[c] \in Conn /\ Len(sent) \in Nat /\ base \in Nat
  BY TypeParts, LenProperties DEF LinkTypes, DaemonTypes
<1>1. UNCHANGED <<daemonVars, viewer, shell>>
  BY DEF Serving, SendHello, TakeRequest, Snapshot, Reply, Subscribe, Recv,
         Lagged, Forward, ConnEnds
<1>2. SUFFICES LinkTypes'
  BY <1>0, <1>1, TypePartsNext, DaemonKept, ViewerKept, ShellKept
<1>3. CASE SendHello(c)
  <2>1. [conn[c] EXCEPT !.pc = "reading"] \in Conn
    BY <1>0 DEF Conn, ConnStates
  <2>2. Line("hello", 0) \in Lines
    BY DEF Line, Lines
  <2> QED
    BY <1>0, <1>3, <2>1, <2>2, SendTypes DEF SendHello, Goto
<1>4. CASE TakeRequest(c)
  <2>1. asks[c] \in Seq(Requests) /\ asks[c] # <<>>
    BY <1>0, <1>4 DEF TakeRequest, LinkTypes
  <2>2. Tail(asks[c]) \in Seq(Requests)
    BY <2>1, Dequeued
  <2>3. Line("error", 0) \in Lines
    BY DEF Line, Lines
  <2>4. PICK new \in Conn :
          conn' = [conn EXCEPT ![c] = new] \/ conn' = conn
    <3>1. /\ [conn[c] EXCEPT !.pc = "reply", !.line = Line("error", 0)] \in Conn
          /\ [conn[c] EXCEPT !.pc = "snapshot"] \in Conn
          /\ [conn[c] EXCEPT !.pc = "opening"] \in Conn
      BY <1>0, <2>3 DEF Conn, ConnStates
    <3>2. CASE conn' = conn
      BY <1>0, <3>2
    <3>3. CASE conn' = [conn EXCEPT ![c] =
                 [conn[c] EXCEPT !.pc = "reply", !.line = Line("error", 0)]]
      BY <3>1, <3>3
    <3>4. CASE \/ conn' = [conn EXCEPT ![c] = [conn[c] EXCEPT !.pc = "snapshot"]]
               \/ conn' = [conn EXCEPT ![c] = [conn[c] EXCEPT !.pc = "opening"]]
      BY <3>1, <3>4
    <3> QED
      BY <1>4, <3>2, <3>3, <3>4 DEF TakeRequest, Goto
  <2> QED
    BY <1>0, <1>4, <2>2, <2>4 DEF TakeRequest, LinkTypes
<1>5. CASE Snapshot(c)
  <2>1. PICK kind \in {"snapshot", "error"}, pc \in {"openreply", "reply"} :
          conn' = [conn EXCEPT ![c] =
                     [conn[c] EXCEPT !.line = Line(kind, 0), !.pc = pc]]
    BY <1>5 DEF Snapshot
  <2>2. Line(kind, 0) \in Lines
    BY DEF Line, Lines
  <2>3. [conn[c] EXCEPT !.line = Line(kind, 0), !.pc = pc] \in Conn
    BY <1>0, <2>2 DEF Conn, ConnStates
  <2> QED
    BY <1>0, <1>5, <2>1, <2>3, ConnUpdate DEF Snapshot
<1>6. CASE Reply(c)
  <2>1. PICK pc \in {"subscribe", "reading"} :
          conn' = [conn EXCEPT ![c] = [conn[c] EXCEPT !.pc = pc]]
    BY <1>6 DEF Reply, Goto
  <2>2. [conn[c] EXCEPT !.pc = pc] \in Conn /\ conn[c].line \in Lines
    BY <1>0 DEF Conn, ConnStates
  <2> QED
    BY <1>0, <1>6, <2>1, <2>2, SendTypes DEF Reply
<1>7. CASE Subscribe(c)
  <2> DEFINE new == [conn[c] EXCEPT !.pc = "streaming",
                       !.next = Len(sent) + 1, !.since = Len(sent) + 1]
  <2>0. Len(sent) + 1 \in Nat
    BY <1>0
  <2>1. new \in Conn
    BY <1>0, <2>0 DEF Conn, ConnStates
  <2>2. conn' = [conn EXCEPT ![c] = new]
    BY <1>7 DEF Subscribe
  <2> HIDE DEF new
  <2> QED
    BY <1>0, <1>7, <2>1, <2>2, ConnUpdate DEF Subscribe
<1>8. CASE Recv(c)
  <2> DEFINE new == [conn[c] EXCEPT !.pc = "forward",
                       !.next = conn[c].next + 1,
                       !.line = Line("event", conn[c].next)]
  <2>1. Line("event", conn[c].next) \in Lines /\ conn[c].next + 1 \in Nat
    BY <1>0 DEF Line, Lines, Conn
  <2>2. new \in Conn
    BY <1>0, <2>1 DEF Conn, ConnStates
  <2>3. conn' = [conn EXCEPT ![c] = new]
    BY <1>8 DEF Recv
  <2> HIDE DEF new
  <2> QED
    BY <1>0, <1>8, <2>2, <2>3, ConnUpdate DEF Recv
<1>9. CASE Lagged(c)
  <2> DEFINE new == [conn[c] EXCEPT !.next = OldestEvent, !.lagged = TRUE]
  <2>1. OldestEvent \in Nat
    BY <1>0, ControlAssumption DEF OldestEvent
  <2>2. new \in Conn
    BY <1>0, <2>1 DEF Conn
  <2>3. conn' = [conn EXCEPT ![c] = new]
    BY <1>9 DEF Lagged
  <2> HIDE DEF new
  <2> QED
    BY <1>0, <1>9, <2>2, <2>3, ConnUpdate DEF Lagged
<1>10. CASE Forward(c)
  <2>1. [conn[c] EXCEPT !.pc = "streaming"] \in Conn /\ conn[c].line \in Lines
    BY <1>0 DEF Conn, ConnStates
  <2> QED
    BY <1>0, <1>10, <2>1, SendTypes DEF Forward, Goto
<1>11. CASE ConnEnds(c)
  BY <1>0, <1>11, BlankTypes DEF ConnEnds, LinkTypes
<1> QED
  BY <1>3, <1>4, <1>5, <1>6, <1>7, <1>8, <1>9, <1>10, <1>11 DEF Serving

(* An update put into the TUI's channel, which has room. *)
LEMMA LiveTypes ==
  ASSUME ViewerTypes, NEW v \in Clients, NEW u \in Lines \cup {None},
         LiveRoom(v),
         Update(v, [viewer[v] EXCEPT !.live = Append(viewer[v].live, u)])
  PROVE  ViewerTypes'
<1> DEFINE live == Append(viewer[v].live, u)
           new == [viewer[v] EXCEPT !.live = live]
<1>1. viewer[v].live \in Seq(Lines \cup {None})
  BY ViewerType DEF Viewer
<1>2. live \in Seq(Lines \cup {None}) /\ Len(live) = Len(viewer[v].live) + 1
  BY <1>1, Enqueued
<1>3. Len(live) <= LiveCap
  BY <1>2, ViewerType, ControlAssumption DEF LiveRoom
<1> HIDE DEF live
<1>4. new \in Viewer /\ new.live = live /\ new.log = viewer[v].log
  BY <1>2, ViewerType DEF Viewer
<1> HIDE DEF new
<1> QED
  BY <1>3, <1>4, ViewerType, ViewerUpdate DEF new, live

LEMMA GoneTypes ==
  ASSUME ViewerTypes, NEW v \in Clients, SendGone(v)
  PROVE  ViewerTypes'
<1> DEFINE live == Append(viewer[v].live, None)
           new == [viewer[v] EXCEPT !.pc = "done", !.live = live]
<1>0. LiveRoom(v) /\ Update(v, new)
  BY DEF SendGone
<1>1. viewer[v].live \in Seq(Lines \cup {None})
  BY ViewerType DEF Viewer
<1>2. live \in Seq(Lines \cup {None}) /\ Len(live) = Len(viewer[v].live) + 1
  BY <1>1, Enqueued
<1>3. Len(live) <= LiveCap
  BY <1>0, <1>2, ViewerType, ControlAssumption DEF LiveRoom
<1> HIDE DEF live
<1>4. new \in Viewer /\ new.live = live /\ new.log = viewer[v].log
  BY <1>2, ViewerType DEF Viewer
<1> HIDE DEF new
<1> QED
  BY <1>0, <1>3, <1>4, ViewerType, ViewerUpdate

(* The rolling log: the oldest entry gives way when it is full. *)
LEMMA LoggedType ==
  ASSUME NEW log \in Seq(Nat), Len(log) <= EventLog, NEW n \in Nat
  PROVE  Logged(log, n) \in Seq(Nat) /\ Len(Logged(log, n)) <= EventLog
<1>1. EventLog \in Nat \ {0} /\ Len(log) \in Nat
  BY ControlAssumption, LenProperties
<1>2. CASE Len(log) = EventLog
  <2>1. log # <<>>
    BY <1>1, <1>2
  <2>2. Tail(log) \in Seq(Nat) /\ Len(Tail(log)) = Len(log) - 1
    BY <2>1, Dequeued
  <2>3. /\ Append(Tail(log), n) \in Seq(Nat)
        /\ Len(Append(Tail(log), n)) = Len(Tail(log)) + 1
    BY <2>2, Enqueued
  <2> QED
    BY <1>1, <1>2, <2>2, <2>3 DEF Logged
<1>3. CASE Len(log) # EventLog
  <2>1. Append(log, n) \in Seq(Nat) /\ Len(Append(log, n)) = Len(log) + 1
    BY Enqueued
  <2> QED
    BY <1>1, <1>3, <2>1 DEF Logged
<1> QED
  BY <1>2, <1>3

(* What the render loop does with an update it takes. *)
LEMMA TakeCases ==
  ASSUME NEW v \in Clients, TakeUpdate(v)
  PROVE  LET up == Head(viewer[v].live)
             old == viewer[v]
         IN /\ viewer[v].live # <<>>
            /\ \/ \E vitals \in BOOLEAN :
                    /\ up = None \/ up.kind = "snapshot"
                    /\ Update(v, [old EXCEPT !.live = Tail(old.live),
                                             !.vitals = vitals])
               \/ /\ up # None /\ up.kind = "event"
                  /\ Update(v, [old EXCEPT !.live = Tail(old.live),
                                           !.log = Logged(old.log, up.n),
                                           !.report = db])
  BY DEF TakeUpdate

LEMMA TakeTypes ==
  ASSUME ViewerTypes, NEW v \in Clients, TakeUpdate(v), db \in Nat
  PROVE  ViewerTypes'
<1> DEFINE up == Head(viewer[v].live)
           rest == Tail(viewer[v].live)
<1>1. /\ viewer[v] \in Viewer /\ viewer[v].live \in Seq(Lines \cup {None})
      /\ viewer[v].log \in Seq(Nat) /\ viewer[v].live # <<>>
  BY ViewerType, TakeCases DEF Viewer
<1>2. /\ up \in Lines \cup {None} /\ rest \in Seq(Lines \cup {None})
      /\ Len(viewer[v].live) \in Nat /\ Len(rest) = Len(viewer[v].live) - 1
  BY <1>1, Dequeued
<1>3. Len(rest) <= LiveCap
  BY <1>2, ViewerType, ControlAssumption
<1> HIDE DEF up, rest
<1>4. CASE \E vitals \in BOOLEAN :
             Update(v, [viewer[v] EXCEPT !.live = rest, !.vitals = vitals])
  <2>1. PICK vitals \in BOOLEAN :
          Update(v, [viewer[v] EXCEPT !.live = rest, !.vitals = vitals])
    BY <1>4
  <2> DEFINE new == [viewer[v] EXCEPT !.live = rest, !.vitals = vitals]
  <2>2. new \in Viewer /\ new.live = rest /\ new.log = viewer[v].log
    BY <1>1, <1>2 DEF Viewer
  <2> HIDE DEF new
  <2> QED
    BY <1>3, <2>1, <2>2, ViewerType, ViewerUpdate DEF new
<1>5. CASE /\ up # None /\ up.kind = "event"
           /\ Update(v, [viewer[v] EXCEPT !.live = rest,
                          !.log = Logged(viewer[v].log, up.n), !.report = db])
  <2> DEFINE log == Logged(viewer[v].log, up.n)
             new == [viewer[v] EXCEPT !.live = rest, !.log = log, !.report = db]
  <2>1. up.n \in Nat
    BY <1>2, <1>5 DEF Lines
  <2>2. log \in Seq(Nat) /\ Len(log) <= EventLog
    BY <1>1, <2>1, ViewerType, LoggedType
  <2> HIDE DEF log
  <2>3. new \in Viewer /\ new.live = rest /\ new.log = log
    BY <1>1, <1>2, <2>2 DEF Viewer
  <2> HIDE DEF new
  <2> QED
    BY <1>3, <1>5, <2>2, <2>3, ViewerUpdate DEF new, log
<1> QED
  BY <1>4, <1>5, TakeCases DEF up, rest

(* What a shell is owed after it read a line, and after it wrote one. *)
LEMMA ReadsShell ==
  ASSUME ShellTypes, NEW s \in Clients, ShellReads(s)
  PROVE  \E fits \in BOOLEAN, due \in Seq(Owed) :
           shell' = [shell EXCEPT ![s] =
                       [shell[s] EXCEPT !.fits = fits, !.due = due]]
<1> DEFINE due == shell[s].due
           want == IF due = <<>> THEN None ELSE Head(due)
           fits == shell[s].fits /\ Answered(want, Head(wire[s]))
           owing == IF want \in {"subscribe", "events"} THEN <<"events">>
                    ELSE SubSeq(due, 2, Len(due))
<1>1. shell[s].fits \in BOOLEAN /\ due \in Seq(Owed)
  BY DEF ShellTypes, Shell
<1>2. fits \in BOOLEAN
  BY <1>1
<1>3. SubSeq(due, 2, Len(due)) \in Seq(Owed)
  BY <1>1, SubSeqProperties, LenProperties
<1>4. <<"events">> \in Seq(Owed)
  BY DEF Owed
<1>5. owing \in Seq(Owed)
  BY <1>3, <1>4
<1>6. shell' = [shell EXCEPT ![s] =
                  [shell[s] EXCEPT !.fits = fits, !.due = owing]]
  BY DEF ShellReads
<1> HIDE DEF fits, owing
<1> QED
  BY <1>2, <1>5, <1>6

LEMMA AsksShell ==
  ASSUME ShellTypes, NEW s \in Clients, NEW request \in Requests,
         ShellAsks(s, request)
  PROVE  \E due \in Seq(Owed) :
           shell' = [shell EXCEPT ![s] =
                       [shell[s] EXCEPT !.asked = shell[s].asked + 1,
                                        !.due = due]]
<1> DEFINE due == shell[s].due
           unread == request = "blank"
                       \/ {"subscribe", "events"} \cap ToSet(due) # {}
           owing == IF unread THEN due ELSE Append(due, request)
<1>1. due \in Seq(Owed)
  BY DEF ShellTypes, Shell
<1>3. owing \in Seq(Owed)
  <2>1. CASE ~unread
    <3>1. request \in Owed
      BY <2>1 DEF Requests, Owed
    <3> QED
      BY <1>1, <2>1, <3>1, Enqueued
  <2> QED
    BY <1>1, <2>1
<1>4. shell' = [shell EXCEPT ![s] =
                  [shell[s] EXCEPT !.asked = shell[s].asked + 1, !.due = owing]]
  BY DEF ShellAsks
<1> HIDE DEF owing
<1> QED
  BY <1>3, <1>4

(* The task that follows the socket. *)
LEMMA FollowingTypes ==
  ASSUME TypeOK, NEW v \in Clients, Following(v)
  PROVE  TypeOK'
<1>0. DaemonTypes /\ LinkTypes /\ ViewerTypes /\ ShellTypes
  BY TypeParts
<1>1. UNCHANGED <<daemonVars, shell>>
  BY DEF Following, Connect, ConnectFails, ReadHello, Ask, ReadLine, LinesEnd,
         SendGone
<1>2. SUFFICES LinkTypes' /\ ViewerTypes'
  BY <1>0, <1>1, TypePartsNext, DaemonKept, ShellKept
<1>3. CASE Connect(v)
  <2>1. [NoConn EXCEPT !.pc = "hello"] \in Conn
    BY BlankTypes DEF Conn, ConnStates
  <2>2. LinkTypes'
    BY <1>0, <1>3, <2>1, ConnUpdate DEF Connect, Connects
  <2> QED
    BY <1>0, <1>3, <2>2, ViewerGoto DEF Connect
<1>4. CASE ConnectFails(v) \/ LinesEnd(v)
  BY <1>0, <1>4, ViewerGoto, LinkKept DEF ConnectFails, LinesEnd
<1>5. CASE ReadHello(v)
  <2>1. PICK pc \in {"ask", "gone"} : Update(v, [viewer[v] EXCEPT !.pc = pc])
    BY <1>5 DEF ReadHello
  <2>2. ViewerTypes'
    BY <1>0, <2>1, ViewerGoto
  <2> QED
    BY <1>0, <1>5, <2>2, ReadTypes DEF ReadHello
<1>6. CASE Ask(v)
  <2>1. <<"subscribe">> \in Seq(Requests)
    BY DEF Requests
  <2>2. LinkTypes'
    BY <1>0, <1>6, <2>1 DEF Ask, LinkTypes
  <2> QED
    BY <1>0, <1>6, <2>2, ViewerGoto DEF Ask
<1>7. CASE ReadLine(v)
  <2>1. LinkTypes' /\ Head(wire[v]) \in Lines
    BY <1>0, <1>7, ReadTypes DEF ReadLine
  <2>2. CASE UNCHANGED viewer
    BY <1>0, <2>1, <2>2, ViewerKept
  <2>3. CASE LiveRoom(v) /\ Update(v, [viewer[v] EXCEPT
                                !.live = Append(viewer[v].live, Head(wire[v]))])
    BY <1>0, <2>1, <2>3, LiveTypes
  <2> QED
    BY <1>7, <2>2, <2>3 DEF ReadLine
<1>8. CASE SendGone(v)
  <2>1. ViewerTypes'
    BY <1>0, <1>8, GoneTypes DEF SendGone
  <2> QED
    BY <1>0, <1>8, <2>1, LinkKept DEF SendGone
<1> QED
  BY <1>3, <1>4, <1>5, <1>6, <1>7, <1>8 DEF Following

(* The render loop, and the end of the process. *)
LEMMA RenderTypes ==
  ASSUME TypeOK, NEW v \in Clients,
         FirstReport(v) \/ Tick(v) \/ TakeUpdate(v) \/ Quit(v)
  PROVE  TypeOK'
<1>0. DaemonTypes /\ LinkTypes /\ ViewerTypes /\ ShellTypes /\ db \in Nat
  BY TypeParts, ControlAssumption DEF DaemonTypes
<1>1. UNCHANGED <<daemonVars, shell>>
  BY DEF FirstReport, Tick, TakeUpdate, Quit
<1>2. SUFFICES LinkTypes' /\ ViewerTypes'
  BY <1>0, <1>1, TypePartsNext, DaemonKept, ShellKept
<1>3. viewer[v] \in Viewer /\ viewer[v].live \in Seq(Lines \cup {None})
      /\ viewer[v].log \in Seq(Nat)
  BY <1>0, ViewerType DEF Viewer
<1>4. CASE FirstReport(v) \/ Tick(v)
  <2>1. PICK app \in {"starting", "running", "quit"} :
          Update(v, [viewer[v] EXCEPT !.report = db, !.app = app])
    <3>1. CASE FirstReport(v)
      BY <3>1 DEF FirstReport, Refreshed
    <3>2. CASE Tick(v)
      <4>1. viewer[v].app \in {"starting", "running", "quit"}
        BY <1>3 DEF Viewer
      <4>2. [viewer[v] EXCEPT !.report = db]
              = [viewer[v] EXCEPT !.report = db, !.app = viewer[v].app]
        BY <1>3 DEF Viewer
      <4> QED
        BY <3>2, <4>1, <4>2 DEF Tick, Refreshed
    <3> QED
      BY <1>4, <3>1, <3>2
  <2> DEFINE new == [viewer[v] EXCEPT !.report = db, !.app = app]
  <2>2. /\ new \in Viewer /\ new.live = viewer[v].live
        /\ new.log = viewer[v].log
    BY <1>0, <1>3 DEF Viewer
  <2> HIDE DEF new
  <2>3. ViewerTypes'
    BY <1>0, <2>1, <2>2, ViewerType, ViewerUpdate DEF new
  <2> QED
    BY <1>0, <1>4, <2>3, LinkKept DEF FirstReport, Tick
<1>5. CASE TakeUpdate(v)
  <2>1. viewer[v].live # <<>>
    BY <1>5 DEF TakeUpdate
  <2>2. ViewerTypes'
    BY <1>0, <1>5, TakeTypes
  <2> QED
    BY <1>0, <1>5, <2>2, LinkKept DEF TakeUpdate
<1>6. CASE Quit(v)
  <2>1. <<>> \in Seq(Lines) /\ Len(<<>>) = 0
    OBVIOUS
  <2>2. LinkTypes'
    BY <1>0, <1>6, <2>1, ControlAssumption DEF Quit, LinkTypes
  <2> QED
    BY <1>0, <1>6, <2>2, BlankTypes, ViewerUpdate, ControlAssumption DEF Quit
<1> QED
  BY <1>4, <1>5, <1>6

(* A shell. *)
LEMMA ShellingTypes ==
  ASSUME TypeOK, NEW s \in Clients, Shelling(s)
  PROVE  TypeOK'
<1>0. DaemonTypes /\ LinkTypes /\ ViewerTypes /\ ShellTypes
      /\ shell[s] \in Shell /\ shell[s].due \in Seq(Owed)
  BY TypeParts DEF ShellTypes, Shell
<1>1. UNCHANGED <<daemonVars, viewer>>
  BY DEF Shelling, ShellConnect, ShellReads, ShellCloses, ShellAsks
<1>2. SUFFICES LinkTypes' /\ ShellTypes'
  BY <1>0, <1>1, TypePartsNext, DaemonKept, ViewerKept
<1>3. CASE ShellConnect(s)
  <2>1. [NoConn EXCEPT !.pc = "hello"] \in Conn
    BY BlankTypes DEF Conn, ConnStates
  <2>2. LinkTypes'
    BY <1>0, <1>3, <2>1, ConnUpdate DEF ShellConnect, Connects
  <2>3. <<"hello">> \in Seq(Owed)
    BY DEF Owed
  <2>4. [shell[s] EXCEPT !.pc = "open", !.due = <<"hello">>] \in Shell
    BY <1>0, <2>3 DEF Shell
  <2> QED
    BY <1>0, <1>3, <2>2, <2>4 DEF ShellConnect, ShellTypes
<1>4. CASE ShellReads(s)
  <2>1. LinkTypes'
    BY <1>0, <1>4, ReadTypes DEF ShellReads
  <2>2. PICK fits \in BOOLEAN, due \in Seq(Owed) :
          shell' = [shell EXCEPT ![s] =
                      [shell[s] EXCEPT !.fits = fits, !.due = due]]
    BY <1>0, <1>4, ReadsShell
  <2>3. [shell[s] EXCEPT !.fits = fits, !.due = due] \in Shell
    BY <1>0 DEF Shell
  <2> QED
    BY <1>0, <2>1, <2>2, <2>3 DEF ShellTypes
<1>5. CASE ShellCloses(s)
  <2>1. <<>> \in Seq(Lines) /\ Len(<<>>) = 0
    OBVIOUS
  <2>2. LinkTypes'
    BY <1>0, <1>5, <2>1, ControlAssumption DEF ShellCloses, LinkTypes
  <2> QED
    BY <1>0, <1>5, <2>2, BlankTypes DEF ShellCloses, ShellTypes
<1>6. ASSUME NEW request \in Requests, ShellAsks(s, request)
      PROVE  LinkTypes' /\ ShellTypes'
  <2>1. LinkTypes'
    <3>1. asks[s] \in Seq(Requests)
      BY <1>0 DEF LinkTypes
    <3>2. Append(asks[s], request) \in Seq(Requests)
      BY <1>6, <3>1, Enqueued
    <3> QED
      BY <1>0, <1>6, <3>2 DEF ShellAsks, LinkTypes
  <2>2. PICK due \in Seq(Owed) :
          shell' = [shell EXCEPT ![s] =
                      [shell[s] EXCEPT !.asked = shell[s].asked + 1, !.due = due]]
    BY <1>0, <1>6, AsksShell
  <2>3. shell[s].asked + 1 \in 0..MaxAsks
    <3>1. shell[s].asked \in 0..MaxAsks
      BY <1>0 DEF Shell
    <3>2. shell[s].asked < MaxAsks /\ MaxAsks \in Nat
      BY <1>6, ControlAssumption DEF ShellAsks
    <3> QED
      BY <3>1, <3>2
  <2>4. [shell[s] EXCEPT !.asked = shell[s].asked + 1, !.due = due] \in Shell
    BY <1>0, <2>3 DEF Shell
  <2> QED
    BY <1>0, <2>1, <2>2, <2>4 DEF ShellTypes
<1> QED
  BY <1>3, <1>4, <1>5, <1>6 DEF Shelling

(* Every variable keeps its type, and every queue its capacity. *)
LEMMA StepTypes ==
  ASSUME TypeOK, [Next]_vars
  PROVE  TypeOK'
<1>1. CASE Process \/ Engine
  BY <1>1, DaemonStepTypes
<1>2. ASSUME NEW v \in Clients,
             \/ Serving(v) \/ Following(v) \/ Shelling(v)
             \/ FirstReport(v) \/ Tick(v) \/ TakeUpdate(v) \/ Quit(v)
      PROVE  TypeOK'
  BY <1>2, ServingTypes, FollowingTypes, ShellingTypes, RenderTypes
<1>3. CASE UNCHANGED vars
  BY <1>3, TypeParts, TypePartsNext, DaemonKept, LinkKept, ViewerKept,
     ShellKept DEF vars
<1> QED
  BY <1>1, <1>2, <1>3 DEF Next

(* Every variable keeps its type, and the socket's buffer, the TUI's        *)
(* channel and its rolling log their capacities, however slow the reader    *)
(* of each queue is.                                                        *)
THEOREM TypeCorrect == Spec => []TypeOK
  BY InitTypes, StepTypes, PTL DEF Spec

-----------------------------------------------------------------------------
(* The events on their way from the library to the log.                    *)

Increasing(log) == \A i, j \in DOMAIN log : i < j => log[i] < log[j]
Entries(log) == {log[i] : i \in DOMAIN log}
Below(A, B) == \A a \in A, b \in B : a < b

\* Every queue is in order, what is nearer to the log is older, and what the
\* connection sends next is newer than all of it.  A client that has not
\* connected, or has no answer to a subscribe yet, has no events.
BeforeStream == {"hello", "reading", "snapshot", "opening", "reply",
                 "openreply", "subscribe"}
Supplied(all, c, fresh, n) ==
  /\ all \subseteq 1..n
  /\ fresh => c.pc = "none" /\ all = {}
  /\ c.pc \in BeforeStream => all = {}
  /\ c.pc \in {"reply", "openreply"} => c.line.kind # "event"
  /\ c.pc = "streaming" => Below(all, {c.next})
  /\ c.pc = "forward" => /\ c.line.kind = "event" /\ c.line.n \in 1..n
                         /\ c.line.n < c.next /\ Below(all, {c.line.n})

Flow(log, live, lines, c, fresh, n) ==
  /\ Increasing(log) /\ Ascending(live) /\ Ascending(lines)
  /\ Below(Entries(log), EventsOf(live) \cup EventsOf(lines))
  /\ Below(EventsOf(live), EventsOf(lines))
  /\ Supplied(Entries(log) \cup EventsOf(live) \cup EventsOf(lines), c, fresh, n)

Fresh(v) == viewer[v].pc = "connect" \/ shell[v].pc = "away"

FlowOf(v) ==
  Flow(viewer[v].log, viewer[v].live, wire[v], conn[v], Fresh(v), Len(sent))

\* A client is a TUI or a shell.
Roles == \A v \in Clients : shell[v].pc # "unused" => viewer[v].pc = "done"

\* The inductive invariant behind LogInOrder and LogReflected.
IInv == TypeOK /\ Roles /\ (\A v \in Clients : FlowOf(v)) /\ LogReflected

(* The events of a queue after one more line. *)
LEMMA EventsAppend ==
  ASSUME NEW S, NEW queue \in Seq(S), NEW u \in S
  PROVE  /\ EventsOf(Append(queue, u))
              = EventsOf(queue) \cup (IF IsEvent(u) THEN {u.n} ELSE {})
         /\ Ascending(queue) /\ (IsEvent(u) => Below(EventsOf(queue), {u.n}))
              => Ascending(Append(queue, u))
<1> DEFINE longer == Append(queue, u)
           k == Len(queue)
<1>1. /\ k \in Nat /\ DOMAIN queue = 1..k /\ DOMAIN longer = 1..k + 1
      /\ \A i \in 1..k : longer[i] = queue[i]
      /\ longer[k + 1] = u
  BY Enqueued
<1> HIDE DEF longer, k
<1>2. \A i \in 1..k + 1 : i \in 1..k \/ i = k + 1
  BY <1>1
<1>3. \A i \in 1..k : i \in 1..k + 1 /\ i < k + 1
  BY <1>1
<1>4. EventsOf(longer) = EventsOf(queue) \cup (IF IsEvent(u) THEN {u.n} ELSE {})
  <2>1. ASSUME NEW x \in EventsOf(longer)
        PROVE  x \in EventsOf(queue) \cup (IF IsEvent(u) THEN {u.n} ELSE {})
    <3>1. PICK i \in 1..k + 1 : IsEvent(longer[i]) /\ x = longer[i].n
      BY <1>1, <2>1 DEF EventsOf
    <3>2. CASE i \in 1..k
      BY <1>1, <3>1, <3>2 DEF EventsOf
    <3>3. CASE i = k + 1
      BY <1>1, <3>1, <3>3
    <3> QED
      BY <1>2, <3>2, <3>3
  <2>2. ASSUME NEW x \in EventsOf(queue) PROVE x \in EventsOf(longer)
    <3>1. PICK i \in 1..k : IsEvent(queue[i]) /\ x = queue[i].n
      BY <1>1, <2>2 DEF EventsOf
    <3> QED
      BY <1>1, <1>3, <3>1 DEF EventsOf
  <2>3. ASSUME IsEvent(u) PROVE u.n \in EventsOf(longer)
    <3>1. k + 1 \in 1..k + 1
      BY <1>1
    <3> QED
      BY <1>1, <2>3, <3>1 DEF EventsOf
  <2> QED
    BY <2>1, <2>2, <2>3
<1>5. ASSUME Ascending(queue), IsEvent(u) => Below(EventsOf(queue), {u.n})
      PROVE  Ascending(longer)
  <2> SUFFICES ASSUME NEW i \in 1..k + 1, NEW j \in 1..k + 1, i < j,
                      IsEvent(longer[i]), IsEvent(longer[j])
               PROVE  longer[i].n < longer[j].n
    BY <1>1 DEF Ascending
  <2>1. i \in 1..k
    BY <1>1
  <2>2. CASE j \in 1..k
    BY <1>1, <1>5, <2>1, <2>2 DEF Ascending
  <2>3. CASE j = k + 1
    <3>1. longer[i].n \in EventsOf(queue)
      BY <1>1, <2>1 DEF EventsOf
    <3> QED
      BY <1>1, <1>5, <2>3, <3>1 DEF Below
  <2> QED
    BY <1>2, <2>2, <2>3
<1> QED
  BY <1>4, <1>5 DEF longer

(* The events of a queue whose first line is taken. *)
LEMMA EventsTail ==
  ASSUME NEW S, NEW queue \in Seq(S), queue # <<>>
  PROVE  /\ EventsOf(Tail(queue)) \subseteq EventsOf(queue)
         /\ IsEvent(Head(queue)) => Head(queue).n \in EventsOf(queue)
         /\ Ascending(queue) =>
              /\ Ascending(Tail(queue))
              /\ IsEvent(Head(queue)) =>
                   Below({Head(queue).n}, EventsOf(Tail(queue)))
<1> DEFINE rest == Tail(queue)
           k == Len(queue)
<1>1. /\ k \in Nat \ {0} /\ DOMAIN queue = 1..k /\ DOMAIN rest = 1..k - 1
      /\ Head(queue) = queue[1]
      /\ \A i \in 1..k - 1 : rest[i] = queue[i + 1]
  BY Dequeued
<1> HIDE DEF rest, k
<1>2. 1 \in 1..k /\ \A i \in 1..k - 1 : i + 1 \in 1..k /\ 1 < i + 1
  BY <1>1
<1>3. ASSUME NEW x \in EventsOf(rest)
      PROVE  \E i \in 1..k : 1 < i /\ IsEvent(queue[i]) /\ x = queue[i].n
  <2>1. PICK i \in 1..k - 1 : IsEvent(rest[i]) /\ x = rest[i].n
    BY <1>1, <1>3 DEF EventsOf
  <2> QED
    BY <1>1, <1>2, <2>1
<1>4. EventsOf(rest) \subseteq EventsOf(queue)
  BY <1>1, <1>3 DEF EventsOf
<1>5. IsEvent(Head(queue)) => Head(queue).n \in EventsOf(queue)
  BY <1>1, <1>2 DEF EventsOf
<1>6. ASSUME Ascending(queue)
      PROVE  /\ Ascending(rest)
             /\ IsEvent(Head(queue)) => Below({Head(queue).n}, EventsOf(rest))
  <2>1. Ascending(rest)
    <3> SUFFICES ASSUME NEW i \in 1..k - 1, NEW j \in 1..k - 1, i < j,
                        IsEvent(rest[i]), IsEvent(rest[j])
                 PROVE  rest[i].n < rest[j].n
      BY <1>1 DEF Ascending
    <3>1. i + 1 \in 1..k /\ j + 1 \in 1..k /\ i + 1 < j + 1
      BY <1>1
    <3> QED
      BY <1>1, <1>6, <3>1 DEF Ascending
  <2>2. ASSUME IsEvent(Head(queue)), NEW x \in EventsOf(rest)
        PROVE  Head(queue).n < x
    <3>1. PICK i \in 1..k : 1 < i /\ IsEvent(queue[i]) /\ x = queue[i].n
      BY <1>3, <2>2
    <3> QED
      BY <1>1, <1>2, <1>6, <2>2, <3>1 DEF Ascending
  <2> QED
    BY <2>1, <2>2 DEF Below
<1> QED
  BY <1>4, <1>5, <1>6 DEF rest

(* The log after one more entry, newer than all others. *)
LEMMA LogAppend ==
  ASSUME NEW log \in Seq(Nat), NEW n \in Nat, Increasing(log),
         Below(Entries(log), {n})
  PROVE  /\ Increasing(Append(log, n))
         /\ Entries(Append(log, n)) \subseteq Entries(log) \cup {n}
<1> DEFINE longer == Append(log, n)
           k == Len(log)
<1>1. /\ k \in Nat /\ DOMAIN log = 1..k /\ DOMAIN longer = 1..k + 1
      /\ \A i \in 1..k : longer[i] = log[i] /\ log[i] \in Nat
      /\ longer[k + 1] = n
  BY Enqueued, ElementOfSeq
<1> HIDE DEF longer, k
<1>2. \A i \in 1..k + 1 : i \in 1..k \/ i = k + 1
  BY <1>1
<1>3. Entries(longer) \subseteq Entries(log) \cup {n}
  BY <1>1, <1>2 DEF Entries
<1>4. ASSUME NEW i \in 1..k + 1, NEW j \in 1..k + 1, i < j
      PROVE  longer[i] < longer[j]
  <2>1. i \in 1..k
    BY <1>1, <1>4
  <2>2. CASE j \in 1..k
    BY <1>1, <1>4, <2>1, <2>2 DEF Increasing
  <2>3. CASE j = k + 1
    BY <1>1, <2>1, <2>3 DEF Entries, Below
  <2> QED
    BY <1>2, <2>2, <2>3
<1> QED
  BY <1>1, <1>3, <1>4 DEF longer, Increasing

LEMMA LogTail ==
  ASSUME NEW log \in Seq(Nat), log # <<>>, Increasing(log)
  PROVE  Increasing(Tail(log)) /\ Entries(Tail(log)) \subseteq Entries(log)
<1> DEFINE rest == Tail(log)
           k == Len(log)
<1>1. /\ k \in Nat \ {0} /\ DOMAIN log = 1..k /\ DOMAIN rest = 1..k - 1
      /\ \A i \in 1..k - 1 : rest[i] = log[i + 1]
  BY Dequeued
<1> HIDE DEF rest, k
<1>2. \A i \in 1..k - 1 : i + 1 \in 1..k
  BY <1>1
<1>3. ASSUME NEW i \in 1..k - 1, NEW j \in 1..k - 1, i < j
      PROVE  rest[i] < rest[j]
  <2>1. i + 1 \in 1..k /\ j + 1 \in 1..k /\ i + 1 < j + 1
    BY <1>1, <1>3
  <2> QED
    BY <1>1, <2>1 DEF Increasing
<1>4. Entries(rest) \subseteq Entries(log)
  BY <1>1, <1>2 DEF Entries
<1> QED
  BY <1>1, <1>3, <1>4 DEF rest, Increasing

LEMMA LogLogged ==
  ASSUME NEW log \in Seq(Nat), Len(log) <= EventLog, NEW n \in Nat,
         Increasing(log), Below(Entries(log), {n})
  PROVE  /\ Increasing(Logged(log, n))
         /\ Entries(Logged(log, n)) \subseteq Entries(log) \cup {n}
<1>1. CASE Len(log) = EventLog
  <2>1. log # <<>>
    BY <1>1, ControlAssumption
  <2>2. Tail(log) \in Seq(Nat)
    BY <2>1, Dequeued
  <2>3. Increasing(Tail(log)) /\ Entries(Tail(log)) \subseteq Entries(log)
    BY <2>1, LogTail
  <2>4. Below(Entries(Tail(log)), {n})
    BY <2>3 DEF Below
  <2>5. /\ Increasing(Append(Tail(log), n))
        /\ Entries(Append(Tail(log), n)) \subseteq Entries(Tail(log)) \cup {n}
    BY <2>2, <2>3, <2>4, LogAppend
  <2>6. Logged(log, n) = Append(Tail(log), n)
    BY <1>1 DEF Logged
  <2> QED
    BY <2>3, <2>5, <2>6
<1>2. CASE Len(log) # EventLog
  <2>1. Logged(log, n) = Append(log, n)
    BY <1>2 DEF Logged
  <2> QED
    BY <2>1, LogAppend
<1> QED
  BY <1>1, <1>2

(* More events sent: nothing on its way moves. *)
LEMMA FlowGrows ==
  ASSUME NEW log, NEW live, NEW lines, NEW c, NEW fresh, NEW n \in Nat,
         NEW m \in Nat, n <= m, Flow(log, live, lines, c, fresh, n)
  PROVE  Flow(log, live, lines, c, fresh, m)
<1>1. 1..n \subseteq 1..m
  OBVIOUS
<1> QED
  BY <1>1 DEF Flow, Supplied

(* A connection that ends leaves what it sent. *)
LEMMA FlowDropped ==
  ASSUME NEW log, NEW live, NEW lines, NEW c, NEW fresh, NEW n,
         Flow(log, live, lines, c, fresh, n)
  PROVE  Flow(log, live, lines, NoConn, fresh, n)
<1>1. NoConn.pc = "none"
  BY DEF NoConn
<1> QED
  BY <1>1 DEF Flow, Supplied, BeforeStream

(* A line sent that is not an event, before any event. *)
LEMMA FlowReply ==
  ASSUME NEW log, NEW live, NEW lines \in Seq(Lines), NEW line \in Lines,
         NEW c, NEW d, NEW fresh, NEW n,
         Flow(log, live, lines, c, fresh, n), line.kind # "event",
         c.pc \in BeforeStream, d.pc \in {"reading", "subscribe"}
  PROVE  Flow(log, live, Append(lines, line), d, fresh, n)
<1>1. ~IsEvent(line)
  BY DEF IsEvent
<1>2. EventsOf(Append(lines, line)) = EventsOf(lines)
  <2>1. EventsOf(Append(lines, line))
          = EventsOf(lines) \cup (IF IsEvent(line) THEN {line.n} ELSE {})
    BY EventsAppend
  <2> QED
    BY <1>1, <2>1
<1>3. Ascending(Append(lines, line))
  BY <1>1, EventsAppend DEF Flow, Supplied
<1> QED
  BY <1>2, <1>3 DEF Flow, Supplied, BeforeStream

(* The event in the hands of stream_events is sent. *)
LEMMA FlowForward ==
  ASSUME NEW log \in Seq(Nat), NEW live, NEW lines \in Seq(Lines), NEW c \in Conn, NEW d,
         NEW fresh, NEW n, Flow(log, live, lines, c, fresh, n),
         c.pc = "forward", d.pc = "streaming", d.next = c.next
  PROVE  Flow(log, live, Append(lines, c.line), d, fresh, n)
<1> DEFINE line == c.line
           more == Append(lines, line)
           all == Entries(log) \cup EventsOf(live) \cup EventsOf(lines)
<1>1. /\ line \in Lines /\ line.n \in Nat /\ c.next \in Nat
  BY DEF Conn, Lines
<1>2. line # None
  BY <1>1, ControlAssumption
<1>3. /\ line.kind = "event" /\ line.n \in 1..n /\ line.n < c.next
      /\ Below(all, {line.n})
  BY DEF Flow, Supplied
<1>4. IsEvent(line)
  BY <1>2, <1>3 DEF IsEvent
<1>5. EventsOf(more) = EventsOf(lines) \cup {line.n}
  BY <1>1, <1>4, EventsAppend
<1>6. Below(EventsOf(lines), {line.n})
  BY <1>3 DEF Below
<1>7. Ascending(more)
  BY <1>1, <1>6, EventsAppend DEF Flow, Supplied
<1>8. /\ Below(Entries(log), EventsOf(live) \cup EventsOf(more))
      /\ Below(EventsOf(live), EventsOf(more))
  <2>1. /\ Below(Entries(log), EventsOf(live) \cup EventsOf(lines))
        /\ Below(EventsOf(live), EventsOf(lines))
    BY DEF Flow, Supplied
  <2> QED
    BY <1>3, <1>5, <2>1 DEF Below
<1>9. (all \cup {line.n}) \subseteq 1..n
  BY <1>3 DEF Flow, Supplied
<1>10. Below(all \cup {line.n}, {c.next})
  <2>1. all \subseteq Int /\ line.n \in Int /\ c.next \in Int
    BY <1>1, <1>9
  <2> QED
    BY <1>3, <2>1 DEF Below
<1>11. Entries(log) \cup EventsOf(live) \cup EventsOf(more) = all \cup {line.n}
  BY <1>5
<1>12. ~fresh
  BY DEF Flow, Supplied
<1>13. Increasing(log) /\ Ascending(live)
  BY DEF Flow, Supplied
<1> HIDE DEF all, more
<1> QED
  BY <1>7, <1>8, <1>9, <1>10, <1>11, <1>12, <1>13
  DEF Flow, Supplied, BeforeStream, more

(* The daemon's side of a connection. *)
LEMMA ServingFlow ==
  ASSUME TypeOK, NEW v \in Clients, FlowOf(v), Serving(v)
  PROVE  FlowOf(v)'
<1> DEFINE log == viewer[v].log
           live == viewer[v].live
           fresh == Fresh(v)
           n == Len(sent)
           c == conn[v]
           all == Entries(log) \cup EventsOf(live) \cup EventsOf(wire[v])
           Goal == Flow(log, live, wire'[v], conn'[v], fresh, n)
<1>1. UNCHANGED <<daemonVars, viewer, shell>>
  BY DEF Serving, SendHello, TakeRequest, Snapshot, Reply, Subscribe, Recv,
         Lagged, Forward, ConnEnds
<1>2. SUFFICES Goal
  BY <1>1 DEF FlowOf, Fresh, daemonVars
<1>3. /\ c \in Conn /\ log \in Seq(Nat) /\ wire[v] \in Seq(Lines)
      /\ live \in Seq(Lines \cup {None}) /\ n \in Nat /\ base \in Nat
      /\ c.next \in Nat
      /\ conn \in [Clients -> Conn] /\ wire \in [Clients -> Seq(Lines)]
  BY LenProperties DEF TypeOK, Conn, Viewer
<1>4. Flow(log, live, wire[v], c, fresh, n)
  BY DEF FlowOf
<1> HIDE DEF log, live, fresh, n, c, all
<1>5. CASE SendHello(v)
  <2>1. /\ Line("hello", 0) \in Lines /\ Line("hello", 0).kind # "event"
        /\ wire'[v] = Append(wire[v], Line("hello", 0))
        /\ c.pc = "hello" /\ conn'[v].pc = "reading"
    BY <1>3, <1>5 DEF SendHello, SendLine, Line, Lines, At, Goto, c, Conn
  <2> QED
    BY <1>3, <1>4, <2>1, FlowReply DEF BeforeStream
<1>6. CASE TakeRequest(v)
  <2>1. /\ wire' = wire /\ c.pc = "reading"
        /\ \/ conn'[v] = c
           \/ conn'[v].pc = "reply" /\ conn'[v].line.kind = "error"
           \/ conn'[v].pc \in {"snapshot", "opening"}
    BY <1>3, <1>6 DEF TakeRequest, Line, At, Goto, c, Conn
  <2> QED
    BY <1>4, <2>1 DEF Flow, Supplied, BeforeStream
<1>7. CASE Snapshot(v)
  <2>1. /\ wire' = wire /\ c.pc \in {"snapshot", "opening"}
        /\ conn'[v].pc \in {"openreply", "reply"}
        /\ conn'[v].line.kind \in {"snapshot", "error"}
    BY <1>3, <1>7 DEF Snapshot, Line, c, Conn
  <2> QED
    BY <1>4, <2>1 DEF Flow, Supplied, BeforeStream
<1>8. CASE Reply(v)
  <2>1. /\ c.line \in Lines /\ c.pc \in {"reply", "openreply"}
        /\ wire'[v] = Append(wire[v], c.line)
        /\ conn'[v].pc \in {"subscribe", "reading"}
    BY <1>3, <1>8 DEF Reply, SendLine, At, Goto, c, Conn
  <2>2. c.line.kind # "event"
    BY <1>4, <2>1 DEF Flow, Supplied
  <2> QED
    BY <1>3, <1>4, <2>1, <2>2, FlowReply DEF BeforeStream
<1>9. CASE Subscribe(v)
  <2>1. /\ wire' = wire /\ c.pc = "subscribe" /\ conn'[v].pc = "streaming"
    BY <1>3, <1>9 DEF Subscribe, At, c, Conn
  <2>2. all = {}
    BY <1>4, <2>1 DEF Flow, Supplied, BeforeStream, all
  <2>3. Below(all, {conn'[v].next})
    BY <2>2 DEF Below
  <2> QED
    BY <1>4, <2>1, <2>3 DEF Flow, Supplied, BeforeStream, all
<1>10. CASE Recv(v)
  <2>1. OldestEvent \in Nat \ {0}
    BY <1>3, OldestNat DEF n
  <2>2. /\ wire' = wire /\ c.pc = "streaming" /\ conn'[v].pc = "forward"
        /\ conn'[v].next = c.next + 1
        /\ conn'[v].line.kind = "event" /\ conn'[v].line.n = c.next
        /\ c.next \in OldestEvent..n
    BY <1>3, <1>10 DEF Recv, Line, At, c, n, Conn
  <2>3. c.next \in 1..n /\ c.next < c.next + 1
    BY <1>3, <2>1, <2>2
  <2>4. Below(all, {c.next})
    BY <1>4, <2>2 DEF Flow, Supplied, all
  <2> QED
    BY <1>4, <2>2, <2>3, <2>4 DEF Flow, Supplied, BeforeStream, all
<1>11. CASE Lagged(v)
  <2>1. OldestEvent \in Nat
    BY <1>3, OldestNat DEF n
  <2>2. /\ wire' = wire /\ c.pc = "streaming" /\ conn'[v].pc = "streaming"
        /\ conn'[v].next = OldestEvent /\ c.next < OldestEvent
    BY <1>3, <1>11 DEF Lagged, At, c, Conn
  <2>3. Below(all, {c.next}) /\ all \subseteq 1..n
    BY <1>4, <2>2 DEF Flow, Supplied, all
  <2>4. Below(all, {conn'[v].next})
    BY <1>3, <2>1, <2>2, <2>3 DEF Below
  <2> QED
    BY <1>4, <2>2, <2>4 DEF Flow, Supplied, BeforeStream, all
<1>12. CASE Forward(v)
  <2>1. /\ c.pc = "forward" /\ conn'[v].pc = "streaming"
        /\ conn'[v].next = c.next
        /\ wire'[v] = Append(wire[v], c.line)
    BY <1>3, <1>12 DEF Forward, SendLine, At, Goto, c, Conn
  <2> QED
    BY <1>3, <1>4, <2>1, FlowForward
<1>13. CASE ConnEnds(v)
  <2>1. wire' = wire /\ conn'[v] = NoConn
    BY <1>3, <1>13 DEF ConnEnds
  <2> QED
    BY <1>4, <2>1, FlowDropped
<1> QED
  BY <1>5, <1>6, <1>7, <1>8, <1>9, <1>10, <1>11, <1>12, <1>13 DEF Serving

(* Fewer events on their way. *)
LEMMA SuppliedLess ==
  ASSUME NEW all, NEW all2, NEW c, NEW fresh, NEW fresh2, NEW n,
         Supplied(all, c, fresh, n), all2 \subseteq all, fresh2 => fresh
  PROVE  Supplied(all2, c, fresh2, n)
<1>1. \A k : Below(all, {k}) => Below(all2, {k})
  BY DEF Below
<1> QED
  BY <1>1 DEF Supplied

(* Fewer events on their way, in the same order. *)
LEMMA FlowLess ==
  ASSUME NEW log, NEW live, NEW lines, NEW c, NEW fresh, NEW n,
         NEW log2, NEW live2, NEW lines2, NEW fresh2,
         Flow(log, live, lines, c, fresh, n), fresh2 => fresh,
         Increasing(log2), Ascending(live2), Ascending(lines2),
         Entries(log2) \subseteq Entries(log),
         EventsOf(live2) \subseteq EventsOf(live),
         EventsOf(lines2) \subseteq EventsOf(lines)
  PROVE  Flow(log2, live2, lines2, c, fresh2, n)
<1> DEFINE all == Entries(log) \cup EventsOf(live) \cup EventsOf(lines)
           all2 == Entries(log2) \cup EventsOf(live2) \cup EventsOf(lines2)
<1>1. all2 \subseteq all
  OBVIOUS
<1>2. /\ Below(Entries(log2), EventsOf(live2) \cup EventsOf(lines2))
      /\ Below(EventsOf(live2), EventsOf(lines2))
  <2>1. /\ Below(Entries(log), EventsOf(live) \cup EventsOf(lines))
        /\ Below(EventsOf(live), EventsOf(lines))
    BY DEF Flow, Supplied
  <2> QED
    BY <2>1 DEF Below
<1>3. Supplied(all, c, fresh, n)
  BY DEF Flow
<1> HIDE DEF all, all2
<1>4. Supplied(all2, c, fresh2, n)
  BY <1>1, <1>3, SuppliedLess
<1> QED
  BY <1>2, <1>4 DEF Flow, all2

LEMMA FlowUnfresh ==
  ASSUME NEW log, NEW live, NEW lines, NEW c, NEW fresh, NEW n, NEW fresh2,
         Flow(log, live, lines, c, fresh, n), fresh2 => fresh
  PROVE  Flow(log, live, lines, c, fresh2, n)
  BY DEF Flow, Supplied

(* The empty queues. *)
LEMMA EmptyFlow ==
  /\ Increasing(<<>>) /\ Entries(<<>>) = {}
  /\ Ascending(<<>>) /\ EventsOf(<<>>) = {}
  BY DEF Increasing, Entries, Ascending, EventsOf

(* A client connects. *)
LEMMA FlowConnect ==
  ASSUME NEW log, NEW live, NEW lines, NEW c, NEW d, NEW n,
         Flow(log, live, lines, c, TRUE, n), d.pc = "hello"
  PROVE  Flow(log, live, lines, d, FALSE, n)
  BY DEF Flow, Supplied, BeforeStream

(* The follower moves a line from the wire into the channel. *)
LEMMA FlowRead ==
  ASSUME NEW log \in Seq(Nat), NEW live \in Seq(Lines \cup {None}),
         NEW lines \in Seq(Lines), lines # <<>>, NEW c, NEW fresh, NEW n \in Nat,
         Flow(log, live, lines, c, fresh, n)
  PROVE  Flow(log, Append(live, Head(lines)), Tail(lines), c, fresh, n)
<1> DEFINE line == Head(lines)
           rest == Tail(lines)
           more == Append(live, line)
<1>1. line \in Lines /\ rest \in Seq(Lines)
  BY Dequeued
<1>2. /\ EventsOf(rest) \subseteq EventsOf(lines)
      /\ IsEvent(line) => line.n \in EventsOf(lines)
      /\ Ascending(rest)
      /\ IsEvent(line) => Below({line.n}, EventsOf(rest))
  BY EventsTail DEF Flow, Supplied
<1>3. /\ Below(Entries(log), EventsOf(live) \cup EventsOf(lines))
      /\ Below(EventsOf(live), EventsOf(lines))
      /\ Increasing(log) /\ Ascending(live)
  BY DEF Flow, Supplied
<1> HIDE DEF line, rest
<1>4. IsEvent(line) => Below(EventsOf(live), {line.n})
  BY <1>2, <1>3 DEF Below
<1>5. /\ EventsOf(more)
            = EventsOf(live) \cup (IF IsEvent(line) THEN {line.n} ELSE {})
      /\ Ascending(more)
  <2>1. line \in Lines \cup {None}
    BY <1>1
  <2> QED
    BY <1>3, <1>4, <2>1, EventsAppend
<1> HIDE DEF more
<1>6. /\ EventsOf(more) \cup EventsOf(rest)
             \subseteq EventsOf(live) \cup EventsOf(lines)
      /\ Below(EventsOf(more), EventsOf(rest))
  <2>1. Below(EventsOf(more), EventsOf(rest))
    <3> SUFFICES ASSUME NEW a \in EventsOf(more), NEW b \in EventsOf(rest)
                 PROVE  a < b
      BY DEF Below
    <3>1. CASE a \in EventsOf(live)
      BY <1>2, <1>3, <3>1 DEF Below
    <3>2. CASE IsEvent(line) /\ a = line.n
      BY <1>2, <3>2 DEF Below
    <3> QED
      BY <1>5, <3>1, <3>2
  <2> QED
    BY <1>2, <1>5, <2>1
<1> DEFINE all == Entries(log) \cup EventsOf(live) \cup EventsOf(lines)
           all2 == Entries(log) \cup EventsOf(more) \cup EventsOf(rest)
<1>7. /\ all2 \subseteq all
      /\ Below(Entries(log), EventsOf(more) \cup EventsOf(rest))
  <2>1. all2 \subseteq all
    BY <1>6
  <2>2. Below(Entries(log), EventsOf(more) \cup EventsOf(rest))
    BY <1>3, <1>6 DEF Below
  <2> QED
    BY <2>1, <2>2
<1>8. Supplied(all, c, fresh, n)
  BY DEF Flow
<1>9. Supplied(all2, c, fresh, n)
  <2> HIDE DEF all, all2
  <2> QED
    BY <1>7, <1>8, SuppliedLess
<1>11. Flow(log, more, rest, c, fresh, n)
  BY <1>2, <1>3, <1>5, <1>6, <1>7, <1>9 DEF Flow
<1> QED
  BY <1>11 DEF more, rest, line

(* The render loop moves an event from the channel into the log. *)
LEMMA FlowTake ==
  ASSUME NEW log \in Seq(Nat), Len(log) <= EventLog,
         NEW live \in Seq(Lines \cup {None}), live # <<>>, NEW lines, NEW c,
         NEW fresh, NEW n \in Nat, Flow(log, live, lines, c, fresh, n),
         IsEvent(Head(live))
  PROVE  Flow(Logged(log, Head(live).n), Tail(live), lines, c, fresh, n)
<1> DEFINE k == Head(live).n
           rest == Tail(live)
           more == Logged(log, k)
           all == Entries(log) \cup EventsOf(live) \cup EventsOf(lines)
           all2 == Entries(more) \cup EventsOf(rest) \cup EventsOf(lines)
<1>1. /\ EventsOf(rest) \subseteq EventsOf(live) /\ k \in EventsOf(live)
      /\ Ascending(rest) /\ Below({k}, EventsOf(rest))
  BY EventsTail DEF Flow
<1>2. /\ Below(Entries(log), EventsOf(live) \cup EventsOf(lines))
      /\ Below(EventsOf(live), EventsOf(lines))
      /\ Increasing(log) /\ Ascending(lines)
  BY DEF Flow
<1>3. EventsOf(live) \subseteq 1..n
  BY DEF Flow, Supplied
<1>4. k \in Nat
  BY <1>1, <1>3
<1> HIDE DEF k, rest
<1>5. Below(Entries(log), {k})
  BY <1>1, <1>2 DEF Below
<1>6. Increasing(more) /\ Entries(more) \subseteq Entries(log) \cup {k}
  BY <1>2, <1>4, <1>5, LogLogged
<1> HIDE DEF more
<1>7. Below(Entries(more), EventsOf(rest) \cup EventsOf(lines))
  <2> SUFFICES ASSUME NEW a \in Entries(more),
                      NEW b \in EventsOf(rest) \cup EventsOf(lines)
               PROVE  a < b
    BY DEF Below
  <2>1. CASE a \in Entries(log)
    BY <1>1, <1>2, <2>1 DEF Below
  <2>2. CASE a = k
    BY <1>1, <1>2, <2>2 DEF Below
  <2> QED
    BY <1>6, <2>1, <2>2
<1>8. Below(EventsOf(rest), EventsOf(lines))
  BY <1>1, <1>2 DEF Below
<1>9. all2 \subseteq all
  BY <1>1, <1>6
<1>10. Supplied(all, c, fresh, n)
  BY DEF Flow
<1>11. Supplied(all2, c, fresh, n)
  <2> HIDE DEF all, all2
  <2> QED
    BY <1>9, <1>10, SuppliedLess
<1>12. Flow(more, rest, lines, c, fresh, n)
  BY <1>1, <1>2, <1>6, <1>7, <1>8, <1>11 DEF Flow
<1> QED
  BY <1>12 DEF more, rest, k

\* The client is still a TUI or a shell.
Role(v) == shell[v].pc # "unused" => viewer[v].pc = "done"

\* The log and the tables after a step: kept, refreshed, or gone.
Refreshes(v) ==
  \/ viewer'[v].log = viewer[v].log /\ viewer'[v].report = viewer[v].report
  \/ viewer'[v].report = db'
  \/ viewer'[v].log = <<>>

(* The task that follows the socket. *)
LEMMA FollowingFlow ==
  ASSUME TypeOK, NEW v \in Clients, Role(v), FlowOf(v), Following(v)
  PROVE  FlowOf(v)' /\ Role(v)' /\ Refreshes(v)
<1> DEFINE log == viewer[v].log
           live == viewer[v].live
           n == Len(sent)
           c == conn[v]
<1>1. /\ viewer[v] \in Viewer /\ viewer \in [Clients -> Viewer]
      /\ conn \in [Clients -> Conn] /\ wire \in [Clients -> Seq(Lines)]
      /\ log \in Seq(Nat) /\ live \in Seq(Lines \cup {None})
      /\ wire[v] \in Seq(Lines) /\ n \in Nat
  BY LenProperties DEF TypeOK, Viewer
<1>2. UNCHANGED <<sent, shell>> /\ viewer[v].pc # "done"
  BY DEF Following, Connect, ConnectFails, ReadHello, Ask, ReadLine, LinesEnd,
         SendGone, daemonVars
<1>3. shell[v].pc = "unused" /\ shell'[v].pc = "unused" /\ Role(v)'
  BY <1>2 DEF Role
<1>4. /\ Fresh(v) <=> viewer[v].pc = "connect"
      /\ Fresh(v)' <=> viewer'[v].pc = "connect"
  BY <1>3 DEF Fresh
<1>5. Flow(log, live, wire[v], c, Fresh(v), n)
  BY DEF FlowOf
<1>6. SUFFICES /\ Flow(viewer'[v].log, viewer'[v].live, wire'[v], conn'[v],
                       viewer'[v].pc = "connect", n)
               /\ viewer'[v].log = log /\ viewer'[v].report = viewer[v].report
  <2>1. Flow(viewer'[v].log, viewer'[v].live, wire'[v], conn'[v], Fresh(v)', n)
    BY <1>4, <1>6, FlowUnfresh
  <2> QED
    BY <1>2, <1>3, <1>6, <2>1 DEF FlowOf, Refreshes
<1>7. CASE Connect(v)
  <2>1. /\ Fresh(v) = TRUE
        /\ wire' = wire /\ conn'[v].pc = "hello"
        /\ viewer'[v] = [viewer[v] EXCEPT !.pc = "hello"]
    BY <1>1, <1>4, <1>7 DEF Connect, Connects, Update, NoConn, Conn, Fresh
  <2>2. /\ viewer'[v].log = log /\ viewer'[v].live = live
        /\ (viewer'[v].pc = "connect") = FALSE
        /\ viewer'[v].report = viewer[v].report
    BY <1>1, <2>1 DEF Viewer
  <2>3. Flow(log, live, wire[v], conn'[v], FALSE, n)
    BY <1>5, <2>1, FlowConnect
  <2> QED
    BY <2>1, <2>2, <2>3
<1>8. CASE ConnectFails(v) \/ Ask(v) \/ LinesEnd(v)
  <2>1. /\ wire' = wire /\ conn' = conn
        /\ \/ viewer'[v] = [viewer[v] EXCEPT !.pc = "gone"]
           \/ viewer'[v] = [viewer[v] EXCEPT !.pc = "lines"]
    BY <1>1, <1>8 DEF ConnectFails, Ask, LinesEnd, Update, linkVars
  <2>2. /\ viewer'[v].log = log /\ viewer'[v].live = live
        /\ viewer'[v].pc # "connect"
        /\ viewer'[v].report = viewer[v].report
    BY <1>1, <2>1 DEF Viewer
  <2>3. Flow(log, live, wire[v], c, viewer'[v].pc = "connect", n)
    BY <1>5, <2>2, FlowUnfresh
  <2> QED
    BY <2>1, <2>2, <2>3
<1>9. CASE ReadHello(v)
  <2>1. /\ wire[v] # <<>> /\ wire'[v] = Tail(wire[v]) /\ conn' = conn
        /\ \/ viewer'[v] = [viewer[v] EXCEPT !.pc = "gone"]
           \/ viewer'[v] = [viewer[v] EXCEPT !.pc = "ask"]
    BY <1>1, <1>9 DEF ReadHello, ReadWire, Update
  <2>2. /\ viewer'[v].log = log /\ viewer'[v].live = live
        /\ viewer'[v].pc # "connect"
        /\ viewer'[v].report = viewer[v].report
    BY <1>1, <2>1 DEF Viewer
  <2>3. Ascending(Tail(wire[v])) /\ EventsOf(Tail(wire[v])) \subseteq EventsOf(wire[v])
    BY <1>1, <1>5, <2>1, EventsTail DEF Flow
  <2>4. Increasing(log) /\ Ascending(live)
    BY <1>5 DEF Flow
  <2>5. Flow(log, live, Tail(wire[v]), c, viewer'[v].pc = "connect", n)
    BY <1>5, <2>2, <2>3, <2>4, FlowLess
  <2> QED
    BY <2>1, <2>2, <2>5
<1>10. CASE ReadLine(v)
  <2>1. /\ wire[v] # <<>> /\ wire'[v] = Tail(wire[v]) /\ conn' = conn
        /\ viewer[v].pc = "lines"
        /\ \/ viewer' = viewer
           \/ viewer'[v] = [viewer[v] EXCEPT !.live = Append(live, Head(wire[v]))]
    BY <1>1, <1>10 DEF ReadLine, ReadWire, Update
  <2>2. (Fresh(v) = FALSE) /\ ((viewer'[v].pc = "connect") = FALSE)
    BY <1>1, <1>4, <2>1 DEF Viewer, Fresh
  <2>3. Ascending(Tail(wire[v])) /\ EventsOf(Tail(wire[v])) \subseteq EventsOf(wire[v])
    BY <1>1, <1>5, <2>1, EventsTail DEF Flow
  <2>4. Increasing(log) /\ Ascending(live)
    BY <1>5 DEF Flow
  <2>5. CASE viewer' = viewer
    <3>1. Flow(log, live, Tail(wire[v]), c, FALSE, n)
      BY <1>5, <2>2, <2>3, <2>4, FlowLess
    <3> QED
      BY <2>1, <2>2, <2>5, <3>1
  <2>6. CASE viewer'[v] = [viewer[v] EXCEPT !.live = Append(live, Head(wire[v]))]
    <3>0. Flow(log, live, wire[v], c, FALSE, n)
      BY <1>5, <2>2
    <3>1. Flow(log, Append(live, Head(wire[v])), Tail(wire[v]), c, FALSE, n)
      BY <1>1, <2>1, <3>0, FlowRead
    <3>2. /\ viewer'[v].log = log /\ viewer'[v].report = viewer[v].report
          /\ viewer'[v].live = Append(live, Head(wire[v]))
      BY <1>1, <2>6 DEF Viewer
    <3> QED
      BY <2>1, <2>2, <3>1, <3>2
  <2> QED
    BY <2>1, <2>5, <2>6
<1>11. CASE SendGone(v)
  <2>1. /\ wire' = wire /\ conn' = conn
        /\ viewer'[v] = [viewer[v] EXCEPT !.pc = "done", !.live = Append(live, None)]
    BY <1>1, <1>11 DEF SendGone, Update, linkVars
  <2>2. /\ viewer'[v].log = log /\ viewer'[v].live = Append(live, None)
        /\ (viewer'[v].pc = "connect") = FALSE
        /\ viewer'[v].report = viewer[v].report
    BY <1>1, <2>1 DEF Viewer
  <2>3. None \in Lines \cup {None} /\ ~IsEvent(None)
    BY DEF IsEvent
  <2>4. /\ EventsOf(Append(live, None)) \subseteq EventsOf(live)
        /\ Ascending(live) => Ascending(Append(live, None))
    <3>1. /\ EventsOf(Append(live, None)) = EventsOf(live) \cup
                (IF IsEvent(None) THEN {None.n} ELSE {})
          /\ Ascending(live) => Ascending(Append(live, None))
      BY <1>1, <2>3, EventsAppend
    <3> QED
      BY <2>3, <3>1
  <2>5. Increasing(log) /\ Ascending(live) /\ Ascending(wire[v])
    BY <1>5 DEF Flow
  <2>6. Flow(log, Append(live, None), wire[v], c, FALSE, n)
    BY <1>5, <2>4, <2>5, FlowLess
  <2> QED
    BY <2>1, <2>2, <2>6
<1> QED
  BY <1>7, <1>8, <1>9, <1>10, <1>11 DEF Following

(* The render loop, and the end of the process. *)
LEMMA RenderFlow ==
  ASSUME TypeOK, NEW v \in Clients, Role(v), FlowOf(v),
         FirstReport(v) \/ Tick(v) \/ TakeUpdate(v) \/ Quit(v)
  PROVE  FlowOf(v)' /\ Role(v)' /\ Refreshes(v)
<1> DEFINE log == viewer[v].log
           live == viewer[v].live
           n == Len(sent)
           c == conn[v]
<1>1. /\ viewer[v] \in Viewer /\ viewer \in [Clients -> Viewer]
      /\ wire \in [Clients -> Seq(Lines)]
      /\ log \in Seq(Nat) /\ live \in Seq(Lines \cup {None})
      /\ Len(log) <= EventLog /\ n \in Nat
  BY LenProperties DEF TypeOK, Viewer
<1>2. UNCHANGED <<db, sent, shell, conn>>
  BY DEF FirstReport, Tick, TakeUpdate, Quit, daemonVars, linkVars
<1>3. Flow(log, live, wire[v], c, Fresh(v), n)
  BY DEF FlowOf
<1>4. ASSUME viewer'[v].pc \in {viewer[v].pc, "done"},
             Flow(viewer'[v].log, viewer'[v].live, wire'[v], c, Fresh(v), n),
             Refreshes(v)
      PROVE  FlowOf(v)' /\ Role(v)' /\ Refreshes(v)
  <2>1. Role(v)'
    BY <1>2, <1>4 DEF Role
  <2>2. Fresh(v)' => Fresh(v)
    BY <1>2, <1>4 DEF Fresh
  <2>3. Flow(viewer'[v].log, viewer'[v].live, wire'[v], c, Fresh(v)', n)
    BY <1>4, <2>2, FlowUnfresh
  <2> QED
    BY <1>2, <1>4, <2>1, <2>3 DEF FlowOf
<1>5. CASE FirstReport(v) \/ Tick(v)
  <2>1. /\ viewer'[v].log = log /\ viewer'[v].live = live
        /\ viewer'[v].pc = viewer[v].pc /\ viewer'[v].report = db
        /\ wire' = wire
    <3>1. CASE FirstReport(v)
      <4>1. viewer' = [viewer EXCEPT ![v] =
                         [viewer[v] EXCEPT !.report = db, !.app = "running"]]
        BY <3>1 DEF FirstReport, Refreshed, Update
      <4> QED
        BY <1>1, <3>1, <4>1 DEF FirstReport, linkVars, Viewer
    <3>2. CASE Tick(v)
      <4>1. viewer' = [viewer EXCEPT ![v] = [viewer[v] EXCEPT !.report = db]]
        BY <3>2 DEF Tick, Refreshed, Update
      <4> QED
        BY <1>1, <3>2, <4>1 DEF Tick, linkVars, Viewer
    <3> QED
      BY <1>5, <3>1, <3>2
  <2> QED
    BY <1>2, <1>3, <1>4, <2>1 DEF Refreshes
<1>6. CASE TakeUpdate(v)
  <2> DEFINE up == Head(live)
  <2>0. wire' = wire
    BY <1>6 DEF TakeUpdate, linkVars
  <2>1. /\ live # <<>>
        /\ \/ /\ up = None \/ up.kind = "snapshot"
              /\ \E vitals \in BOOLEAN :
                   viewer'[v] = [viewer[v] EXCEPT !.live = Tail(live),
                                                  !.vitals = vitals]
           \/ /\ IsEvent(up)
              /\ viewer'[v] = [viewer[v] EXCEPT !.live = Tail(live),
                                  !.log = Logged(log, up.n), !.report = db]
    BY <1>1, <1>6, TakeCases DEF Update, IsEvent
  <2>2. CASE \E vitals \in BOOLEAN :
               viewer'[v] = [viewer[v] EXCEPT !.live = Tail(live),
                                              !.vitals = vitals]
    <3>1. /\ viewer'[v].log = log /\ viewer'[v].live = Tail(live)
          /\ viewer'[v].pc = viewer[v].pc
          /\ viewer'[v].report = viewer[v].report
      BY <1>1, <2>2 DEF Viewer
    <3>2. Ascending(Tail(live)) /\ EventsOf(Tail(live)) \subseteq EventsOf(live)
      BY <1>1, <1>3, <2>1, EventsTail DEF Flow
    <3>3. Increasing(log) /\ Ascending(wire[v])
      BY <1>3 DEF Flow
    <3>4. Flow(log, Tail(live), wire[v], c, Fresh(v), n)
      BY <1>3, <3>2, <3>3, FlowLess
    <3> QED
      BY <1>4, <2>0, <3>1, <3>4 DEF Refreshes
  <2>3. CASE /\ IsEvent(up)
             /\ viewer'[v] = [viewer[v] EXCEPT !.live = Tail(live),
                                 !.log = Logged(log, up.n), !.report = db]
    <3>1. /\ viewer'[v].log = Logged(log, up.n) /\ viewer'[v].live = Tail(live)
          /\ viewer'[v].pc = viewer[v].pc /\ viewer'[v].report = db
      BY <1>1, <2>3 DEF Viewer
    <3>2. Flow(Logged(log, up.n), Tail(live), wire[v], c, Fresh(v), n)
      BY <1>1, <1>3, <2>1, <2>3, FlowTake
    <3> QED
      BY <1>2, <1>4, <2>0, <3>1, <3>2 DEF Refreshes
  <2> QED
    BY <2>1, <2>2, <2>3
<1>7. CASE Quit(v)
  <2>1. viewer'[v] = GoneViewer /\ wire'[v] = <<>>
    BY <1>1, <1>7 DEF Quit, Update
  <2>2. GoneViewer.log = <<>> /\ GoneViewer.live = <<>> /\ GoneViewer.pc = "done"
    BY DEF GoneViewer, NewViewer
  <2>3. Flow(<<>>, <<>>, <<>>, c, Fresh(v), n)
    BY <1>3, EmptyFlow, FlowLess
  <2> QED
    BY <1>4, <2>1, <2>2, <2>3 DEF Refreshes
<1> QED
  BY <1>5, <1>6, <1>7

(* A shell. *)
LEMMA ShellingFlow ==
  ASSUME TypeOK, NEW v \in Clients, Role(v), FlowOf(v), Shelling(v)
  PROVE  FlowOf(v)' /\ Role(v)' /\ Refreshes(v)
<1> DEFINE log == viewer[v].log
           live == viewer[v].live
           n == Len(sent)
           c == conn[v]
<1>1. /\ conn \in [Clients -> Conn] /\ wire \in [Clients -> Seq(Lines)]
      /\ wire[v] \in Seq(Lines)
      /\ shell \in [Clients -> Shell] /\ shell[v] \in Shell
  BY DEF TypeOK
<1>2. UNCHANGED <<db, sent, viewer>> /\ shell[v].pc \in {"away", "open"}
  BY DEF Shelling, ShellConnect, ShellReads, ShellCloses, ShellAsks, daemonVars
<1>3. viewer[v].pc = "done" /\ viewer'[v].pc = "done" /\ Role(v)' /\ Refreshes(v)
  BY <1>2 DEF Role, Refreshes
<1>4. Flow(log, live, wire[v], c, Fresh(v), n)
  BY DEF FlowOf
<1>5. ASSUME Flow(log, live, wire'[v], conn'[v], FALSE, n), shell'[v].pc # "away"
      PROVE  FlowOf(v)' /\ Role(v)' /\ Refreshes(v)
  <2>1. Fresh(v)' => FALSE
    BY <1>3, <1>5 DEF Fresh
  <2>2. Flow(log, live, wire'[v], conn'[v], Fresh(v)', n)
    BY <1>5, <2>1, FlowUnfresh
  <2> QED
    BY <1>2, <1>3, <2>2 DEF FlowOf
<1>6. CASE ShellConnect(v)
  <2>1. /\ Fresh(v) = TRUE /\ wire' = wire /\ conn'[v].pc = "hello"
        /\ shell'[v].pc # "away"
    BY <1>1, <1>6 DEF ShellConnect, Connects, NoConn, Conn, Shell, Fresh
  <2>2. Flow(log, live, wire[v], conn'[v], FALSE, n)
    BY <1>4, <2>1, FlowConnect
  <2> QED
    BY <1>5, <2>1, <2>2
<1>7. CASE ShellReads(v)
  <2>1. /\ wire[v] # <<>> /\ wire'[v] = Tail(wire[v]) /\ conn' = conn
        /\ shell'[v].pc # "away"
    BY <1>1, <1>7 DEF ShellReads, ReadWire, Shell
  <2>2. Ascending(Tail(wire[v])) /\ EventsOf(Tail(wire[v])) \subseteq EventsOf(wire[v])
    BY <1>1, <1>4, <2>1, EventsTail DEF Flow
  <2>3. Increasing(log) /\ Ascending(live)
    BY <1>4 DEF Flow
  <2>4. Flow(log, live, Tail(wire[v]), c, FALSE, n)
    BY <1>4, <2>2, <2>3, FlowLess
  <2> QED
    BY <1>5, <2>1, <2>4
<1>8. CASE ShellCloses(v)
  <2>1. wire'[v] = <<>> /\ conn' = conn /\ shell'[v].pc # "away"
    BY <1>1, <1>8 DEF ShellCloses, NewShell
  <2>2. Increasing(log) /\ Ascending(live)
    BY <1>4 DEF Flow
  <2>3. Flow(log, live, <<>>, c, FALSE, n)
    BY <1>4, <2>2, EmptyFlow, FlowLess
  <2> QED
    BY <1>5, <2>1, <2>3
<1>9. ASSUME NEW request \in Requests, ShellAsks(v, request)
      PROVE  FlowOf(v)' /\ Role(v)' /\ Refreshes(v)
  <2>1. wire' = wire /\ conn' = conn /\ shell'[v].pc # "away"
    BY <1>1, <1>9 DEF ShellAsks, Shell
  <2>2. Flow(log, live, wire[v], c, FALSE, n)
    BY <1>4, FlowUnfresh
  <2> QED
    BY <1>5, <2>1, <2>2
<1> QED
  BY <1>6, <1>7, <1>8, <1>9 DEF Shelling

-----------------------------------------------------------------------------
(* The invariant. *)

LEMMA InvInit == Init => IInv
<1> SUFFICES ASSUME Init PROVE IInv
  OBVIOUS
<1>1. TypeOK
  BY InitTypes
<1>2. PICK shells \in SUBSET Clients :
        /\ viewer = [v \in Clients |->
             IF v \in shells THEN GoneViewer ELSE NewViewer]
        /\ shell = [v \in Clients |->
             NewShell(IF v \in shells THEN "away" ELSE "unused")]
  BY DEF Init
<1>3. ASSUME NEW v \in Clients
      PROVE  /\ viewer[v].log = <<>> /\ viewer[v].live = <<>>
             /\ viewer[v].pc = IF v \in shells THEN "done" ELSE "connect"
             /\ shell[v].pc = IF v \in shells THEN "away" ELSE "unused"
             /\ wire[v] = <<>> /\ conn[v] = NoConn
  BY <1>2 DEF NewViewer, GoneViewer, NewShell, Init
<1>4. Roles
  BY <1>3 DEF Roles
<1>5. ASSUME NEW v \in Clients PROVE FlowOf(v)
  <2>1. /\ Entries(<<>>) \cup EventsOf(<<>>) \cup EventsOf(<<>>) = {}
        /\ NoConn.pc = "none"
    BY EmptyFlow DEF NoConn
  <2>2. /\ Below(Entries(<<>>), EventsOf(<<>>) \cup EventsOf(<<>>))
        /\ Below(EventsOf(<<>>), EventsOf(<<>>))
    BY EmptyFlow DEF Below
  <2>3. Supplied({}, NoConn, Fresh(v), Len(sent))
    BY <2>1 DEF Supplied, BeforeStream
  <2>4. Flow(<<>>, <<>>, <<>>, NoConn, Fresh(v), Len(sent))
    BY <2>1, <2>2, <2>3, EmptyFlow DEF Flow
  <2> QED
    BY <1>3, <2>4 DEF FlowOf
<1>6. LogReflected
  BY <1>3 DEF LogReflected
<1> QED
  BY <1>1, <1>4, <1>5, <1>6 DEF IInv

(* A client's step touches no other client, and no event sent. *)
LEMMA Isolated ==
  ASSUME TypeOK, NEW v \in Clients,
         \/ Serving(v) \/ Following(v) \/ Shelling(v)
         \/ FirstReport(v) \/ Tick(v) \/ TakeUpdate(v) \/ Quit(v)
  PROVE  /\ UNCHANGED daemonVars
         /\ \A w \in Clients \ {v} :
              /\ viewer'[w] = viewer[w] /\ shell'[w] = shell[w]
              /\ wire'[w] = wire[w] /\ conn'[w] = conn[w]
<1>0. /\ viewer \in [Clients -> Viewer] /\ shell \in [Clients -> Shell]
      /\ wire \in [Clients -> Seq(Lines)] /\ conn \in [Clients -> Conn]
  BY DEF TypeOK
<1>1. CASE Serving(v)
  <2>1. UNCHANGED <<daemonVars, viewer, shell>>
    BY <1>1 DEF Serving, SendHello, TakeRequest, Snapshot, Reply, Subscribe,
                Recv, Lagged, Forward, ConnEnds
  <2>2. ASSUME NEW w \in Clients \ {v} PROVE wire'[w] = wire[w]
    BY <1>0, <1>1, <2>2 DEF Serving, SendHello, TakeRequest, Snapshot, Reply,
       Subscribe, Recv, Lagged, Forward, ConnEnds, SendLine
  <2>3. ASSUME NEW w \in Clients \ {v} PROVE conn'[w] = conn[w]
    BY <1>0, <1>1, <2>3 DEF Serving, SendHello, TakeRequest, Snapshot, Reply,
       Subscribe, Recv, Lagged, Forward, ConnEnds, Goto
  <2> QED
    BY <2>1, <2>2, <2>3
<1>2. CASE Following(v)
  <2>1. UNCHANGED <<daemonVars, shell>>
    BY <1>2 DEF Following, Connect, ConnectFails, ReadHello, Ask, ReadLine,
                LinesEnd, SendGone
  <2>2. ASSUME NEW w \in Clients \ {v}
        PROVE  wire'[w] = wire[w] /\ conn'[w] = conn[w]
    BY <1>0, <1>2, <2>2 DEF Following, Connect, ConnectFails, ReadHello, Ask,
       ReadLine, LinesEnd, SendGone, ReadWire, Connects, linkVars
  <2>3. ASSUME NEW w \in Clients \ {v} PROVE viewer'[w] = viewer[w]
    BY <1>0, <1>2, <2>3 DEF Following, Connect, ConnectFails, ReadHello, Ask,
       ReadLine, LinesEnd, SendGone, Update
  <2> QED
    BY <2>1, <2>2, <2>3
<1>3. CASE Shelling(v)
  BY <1>0, <1>3 DEF Shelling, ShellConnect, ShellReads, ShellCloses, ShellAsks,
     Connects, ReadWire
<1>4. CASE FirstReport(v) \/ Tick(v) \/ TakeUpdate(v) \/ Quit(v)
  BY <1>0, <1>4 DEF FirstReport, Tick, TakeUpdate, Quit, Update, linkVars
<1> QED
  BY <1>1, <1>2, <1>3, <1>4

(* What a step does to one client's queues and tables. *)
LEMMA ClientStep ==
  ASSUME TypeOK, Next, NEW w \in Clients, Role(w), FlowOf(w)
  PROVE  /\ FlowOf(w)' /\ Role(w)' /\ Refreshes(w)
         /\ sent' = sent \/ \E k \in 0..db : sent' = Append(sent, k)
<1>0. Len(sent) \in Nat /\ sent \in Seq(0..db) /\ owed \subseteq 1..db /\ db \in Nat
  BY LenProperties, ControlAssumption DEF TypeOK
<1>1. Flow(viewer[w].log, viewer[w].live, wire[w], conn[w], Fresh(w), Len(sent))
  BY DEF FlowOf
<1>2. CASE Process \/ Engine
  <2>1. UNCHANGED <<viewer, shell, wire>>
    BY <1>2 DEF Process, Engine, Start, Bind, BindFails, SenderCloses, Stop,
       Crash, Ends, Change, SilentChange, Emit, linkVars
  <2>2. sent' = sent \/ \E k \in 0..db : sent' = Append(sent, k)
    <3>1. CASE Process \/ Change \/ SilentChange
      BY <3>1 DEF Process, Start, Bind, BindFails, SenderCloses, Stop,
         Crash, Ends, Change, SilentChange
    <3>2. ASSUME NEW k \in 0..MaxChanges, Emit(k)
          PROVE  \E i \in 0..db : sent' = Append(sent, i)
      BY <1>0, <3>2 DEF Emit
    <3> QED
      BY <1>2, <3>1, <3>2 DEF Engine
  <2>3. Len(sent') \in Nat /\ Len(sent) <= Len(sent')
    BY <1>0, <2>2, Enqueued
  <2>4. conn'[w] \in {conn[w], NoConn}
    BY <1>2 DEF Process, Engine, Start, Bind, BindFails, SenderCloses, Stop,
       Crash, Ends, Change, SilentChange, Emit, linkVars
  <2>5. Flow(viewer[w].log, viewer[w].live, wire[w], conn'[w], Fresh(w), Len(sent))
    BY <1>1, <2>4, FlowDropped
  <2>6. Flow(viewer[w].log, viewer[w].live, wire[w], conn'[w], Fresh(w), Len(sent'))
    BY <1>0, <2>3, <2>5, FlowGrows
  <2> QED
    BY <2>1, <2>2, <2>6 DEF FlowOf, Role, Refreshes, Fresh
<1>3. ASSUME NEW v \in Clients,
             \/ Serving(v) \/ Following(v) \/ Shelling(v)
             \/ FirstReport(v) \/ Tick(v) \/ TakeUpdate(v) \/ Quit(v)
      PROVE  FlowOf(w)' /\ Role(w)' /\ Refreshes(w) /\ sent' = sent
  <2>1. sent' = sent
    BY <1>3, Isolated DEF daemonVars
  <2>2. CASE w # v
    <3>1. /\ viewer'[w] = viewer[w] /\ shell'[w] = shell[w]
          /\ wire'[w] = wire[w] /\ conn'[w] = conn[w]
      BY <1>3, <2>2, Isolated
    <3> QED
      BY <1>1, <2>1, <3>1 DEF FlowOf, Role, Refreshes, Fresh
  <2>3. CASE w = v /\ Serving(v)
    <3>1. viewer' = viewer /\ shell' = shell
      BY <2>3 DEF Serving, SendHello, TakeRequest, Snapshot, Reply, Subscribe,
         Recv, Lagged, Forward, ConnEnds
    <3>2. FlowOf(w)'
      BY <2>3, ServingFlow
    <3> QED
      BY <2>1, <3>1, <3>2 DEF Role, Refreshes
  <2>4. CASE w = v /\ ~Serving(v)
    BY <1>3, <2>1, <2>4, FollowingFlow, RenderFlow, ShellingFlow
  <2> QED
    BY <2>2, <2>3, <2>4
<1> QED
  BY <1>2, <1>3 DEF Next

LEMMA InvStep ==
  ASSUME IInv, [Next]_vars
  PROVE  IInv'
<1>1. TypeOK /\ TypeOK'
  BY StepTypes DEF IInv
<1>2. CASE UNCHANGED vars
  <2>1. Roles'
    BY <1>2 DEF IInv, Roles, vars
  <2>2. \A v \in Clients : FlowOf(v)'
    BY <1>2 DEF IInv, FlowOf, Fresh, vars, daemonVars, linkVars
  <2>3. LogReflected'
    BY <1>2 DEF IInv, LogReflected, vars, daemonVars
  <2> QED
    BY <1>1, <2>1, <2>2, <2>3 DEF IInv
<1>3. CASE Next
  <2>1. ASSUME NEW v \in Clients
        PROVE  /\ FlowOf(v)' /\ Role(v)' /\ Refreshes(v)
               /\ sent' = sent \/ \E k \in 0..db : sent' = Append(sent, k)
    BY <1>1, <1>3, ClientStep DEF IInv, Roles, Role
  <2>2. Roles'
    BY <2>1 DEF Role, Roles
  <2>3. ASSUME NEW v \in Clients, NEW i \in DOMAIN viewer'[v].log
        PROVE  sent'[viewer'[v].log[i]] <= viewer'[v].report
    <3> DEFINE k == viewer'[v].log[i]
    <3>1. k \in 1..Len(sent')
      BY <2>1, <2>3 DEF FlowOf, Flow, Supplied, Entries
    <3>2. sent' \in Seq(0..db') /\ db' \in Nat
      BY <1>1, ControlAssumption DEF TypeOK
    <3>3. sent'[k] \in 0..db'
      BY <3>1, <3>2, ElementOfSeq
    <3>4. CASE viewer'[v].report = db'
      BY <3>2, <3>3, <3>4
    <3>5. CASE viewer'[v].log = <<>>
      BY <2>3, <3>5
    <3>6. CASE /\ viewer'[v].log = viewer[v].log
               /\ viewer'[v].report = viewer[v].report
      <4>1. k \in 1..Len(sent)
        BY <2>3, <3>6 DEF IInv, FlowOf, Flow, Supplied, Entries
      <4>2. sent[k] <= viewer[v].report
        BY <2>3, <3>6 DEF IInv, LogReflected
      <4>3. sent'[k] = sent[k]
        <5>1. sent \in Seq(0..db)
          BY <1>1 DEF TypeOK
        <5>2. ASSUME NEW j \in 0..db, sent' = Append(sent, j)
              PROVE  sent'[k] = sent[k]
          BY <4>1, <5>1, <5>2, Enqueued
        <5> QED
          BY <2>1, <5>2
      <4> QED
        BY <3>6, <4>2, <4>3
    <3> QED
      BY <2>1, <3>4, <3>5, <3>6 DEF Refreshes
  <2>4. LogReflected'
    BY <2>3 DEF LogReflected
  <2> QED
    BY <1>1, <2>1, <2>2, <2>4 DEF IInv
<1> QED
  BY <1>2, <1>3

LEMMA Inductive == Spec => []IInv
  BY InvInit, InvStep, PTL DEF Spec

(* The log of every TUI shows events once, in the order the library emitted *)
(* them, whatever the broadcast channel dropped, however full the queues    *)
(* were, and wherever the daemon stopped (stream_events, run_loop).         *)
THEOREM InOrder == Spec => []LogInOrder
<1>1. IInv => LogInOrder
  BY DEF IInv, FlowOf, Flow, Increasing, LogInOrder
<1> QED
  BY <1>1, Inductive, PTL

(* The tables of a TUI show every change whose event its log shows: the     *)
(* library commits before it emits, and run_loop refreshes the report when  *)
(* it takes the event.                                                      *)
THEOREM Reflected == Spec => []LogReflected
<1>1. IInv => LogReflected
  BY DEF IInv
<1> QED
  BY <1>1, Inductive, PTL

-----------------------------------------------------------------------------
(* The answers on their way to a shell.                                    *)

\* What comes last of all: the answer to a subscribe, then events.
Final == {"subscribe", "events"}

\* Every line on the wire answers what is owed in its place; what is beyond
\* are events, after a subscribe.
Told(due, lines) ==
  /\ \A i \in DOMAIN lines :
       IF i \in DOMAIN due THEN Answered(due[i], lines[i])
       ELSE due # <<>> /\ due[Len(due)] \in Final /\ lines[i].kind = "event"
  /\ \A i \in DOMAIN due : due[i] \in Final => i = Len(due)

\* f finds, among the l requests of todo, the one that each of the k things
\* owed stands for, save the first m; it misses none that is neither blank
\* nor behind a subscribe.
Finds(f, due, m, k, todo, l) ==
  /\ \A i \in m + 1..k : f[i] \in 1..l /\ todo[f[i]] = due[i]
  /\ \A i, j \in m + 1..k : i < j => f[i] < f[j]
  /\ \A n \in 1..l : todo[n] # "blank" =>
       \E i \in m + 1..k : f[i] = n \/ (due[i] = "subscribe" /\ f[i] < n)
Matched(due, m, todo) ==
  \E f \in [Nat -> Nat] : Finds(f, due, m, Len(due), todo, Len(todo))

(* One line less is owed. *)
LEMMA FindsRead ==
  ASSUME NEW f \in [Nat -> Nat], NEW due, NEW m \in Nat, NEW k \in Nat,
         NEW todo, NEW l \in Nat, Finds(f, due, m + 1, k + 1, todo, l),
         NEW rest, \A i \in 1..k : rest[i] = due[i + 1]
  PROVE  \E g \in [Nat -> Nat] : Finds(g, rest, m, k, todo, l)
<1> DEFINE g == [i \in Nat |-> f[i + 1]]
<1>1. \A i \in m + 1..k : /\ i \in 1..k /\ i + 1 \in (m + 1) + 1..k + 1
                          /\ g[i] = f[i + 1] /\ rest[i] = due[i + 1]
  OBVIOUS
<1>2. \A i \in (m + 1) + 1..k + 1 : i - 1 \in m + 1..k /\ (i - 1) + 1 = i
  OBVIOUS
<1>0. g \in [Nat -> Nat]
  OBVIOUS
<1> HIDE DEF g
<1>3. \A i \in m + 1..k : g[i] \in 1..l /\ todo[g[i]] = rest[i]
  BY <1>1 DEF Finds
<1>4. \A i, j \in m + 1..k : i < j => g[i] < g[j]
  BY <1>1 DEF Finds
<1>5. ASSUME NEW n \in 1..l, todo[n] # "blank"
      PROVE  \E i \in m + 1..k : g[i] = n \/ (rest[i] = "subscribe" /\ g[i] < n)
  <2>1. PICK i \in (m + 1) + 1..k + 1 :
          f[i] = n \/ (due[i] = "subscribe" /\ f[i] < n)
    BY <1>5 DEF Finds
  <2>2. i - 1 \in m + 1..k /\ g[i - 1] = f[i] /\ rest[i - 1] = due[i]
    BY <1>1, <1>2, <2>1
  <2> QED
    BY <2>1, <2>2
<1>6. Finds(g, rest, m, k, todo, l)
  BY <1>3, <1>4, <1>5 DEF Finds
<1> QED
  BY <1>0, <1>6

\* more is queue, n long, and r.
Adds(more, queue, n, r) ==
  more[n + 1] = r /\ \A i \in 1..n : more[i] = queue[i]

(* A request is written that is owed an answer. *)
LEMMA FindsAsk ==
  ASSUME NEW f \in [Nat -> Nat], NEW due, NEW m \in Nat, NEW k \in Nat,
         NEW todo, NEW l \in Nat, Finds(f, due, m, k, todo, l), m <= k,
         NEW r, NEW more, Adds(more, due, k, r),
         NEW longer, Adds(longer, todo, l, r)
  PROVE  \E g \in [Nat -> Nat] : Finds(g, more, m, k + 1, longer, l + 1)
<1> DEFINE g == [f EXCEPT ![k + 1] = l + 1]
<1>1. /\ k + 1 \in m + 1..k + 1 /\ g[k + 1] = l + 1
      /\ \A i \in m + 1..k + 1 : i = k + 1 \/ i \in m + 1..k
      /\ \A i \in m + 1..k : i \in m + 1..k + 1 /\ g[i] = f[i] /\ more[i] = due[i]
  BY DEF Adds
<1>0. g \in [Nat -> Nat]
  OBVIOUS
<1> HIDE DEF g
<1>2. \A i \in m + 1..k : f[i] \in 1..l /\ longer[f[i]] = more[i]
  BY <1>1 DEF Finds, Adds
<1>3. \A i \in m + 1..k + 1 : g[i] \in 1..l + 1 /\ longer[g[i]] = more[i]
  BY <1>1, <1>2 DEF Adds
<1>4. ASSUME NEW i \in m + 1..k + 1, NEW j \in m + 1..k + 1, i < j
      PROVE  g[i] < g[j]
  <2>1. i \in m + 1..k
    BY <1>4
  <2>2. CASE j = k + 1
    BY <1>1, <1>2, <2>1, <2>2
  <2>3. CASE j \in m + 1..k
    BY <1>1, <1>4, <2>1, <2>3 DEF Finds
  <2> QED
    BY <1>1, <2>2, <2>3
<1>5. ASSUME NEW n \in 1..l + 1, longer[n] # "blank"
      PROVE  \E i \in m + 1..k + 1 :
               g[i] = n \/ (more[i] = "subscribe" /\ g[i] < n)
  <2>1. CASE n = l + 1
    BY <1>1, <2>1
  <2>2. CASE n \in 1..l
    <3>1. PICK i \in m + 1..k : f[i] = n \/ (due[i] = "subscribe" /\ f[i] < n)
      BY <1>5, <2>2 DEF Finds, Adds
    <3> QED
      BY <1>1, <3>1
  <2> QED
    BY <2>1, <2>2
<1>6. Finds(g, more, m, k + 1, longer, l + 1)
  BY <1>3, <1>4, <1>5 DEF Finds
<1> QED
  BY <1>0, <1>6

(* A request is written that is owed none. *)
LEMMA FindsSkip ==
  ASSUME NEW f \in [Nat -> Nat], NEW due, NEW m \in Nat, NEW k \in Nat,
         NEW todo, NEW l \in Nat, Finds(f, due, m, k, todo, l),
         NEW longer, \A i \in 1..l : longer[i] = todo[i],
         \/ longer[l + 1] = "blank"
         \/ \E i \in m + 1..k : due[i] = "subscribe"
  PROVE  Finds(f, due, m, k, longer, l + 1)
<1>1. \A i \in m + 1..k :
        /\ f[i] \in 1..l + 1 /\ f[i] < l + 1 /\ longer[f[i]] = due[i]
  BY DEF Finds
<1>2. ASSUME NEW n \in 1..l + 1, longer[n] # "blank"
      PROVE  \E i \in m + 1..k : f[i] = n \/ (due[i] = "subscribe" /\ f[i] < n)
  <2>1. CASE n = l + 1
    BY <1>1, <1>2, <2>1
  <2>2. CASE n \in 1..l
    BY <1>2, <2>2 DEF Finds
  <2> QED
    BY <2>1, <2>2
<1> QED
  BY <1>1, <1>2 DEF Finds

\* The same, with what is owed all behind the first request.
Behind(f, due, m, k, todo, l) ==
  /\ \A i \in m + 1..k : f[i] \in 2..l + 1 /\ todo[f[i]] = due[i]
  /\ \A i, j \in m + 1..k : i < j => f[i] < f[j]
  /\ \A n \in 2..l + 1 : todo[n] # "blank" =>
       \E i \in m + 1..k : f[i] = n \/ (due[i] = "subscribe" /\ f[i] < n)

(* The first request is read, and is not owed an answer any more. *)
LEMMA FindsTail ==
  ASSUME NEW f \in [Nat -> Nat], NEW due, NEW m \in Nat, NEW k \in Nat,
         NEW todo, NEW l \in Nat, Behind(f, due, m, k, todo, l),
         NEW rest, \A i \in 1..l : rest[i] = todo[i + 1]
  PROVE  \E g \in [Nat -> Nat] : Finds(g, due, m, k, rest, l)
<1> DEFINE g == [i \in Nat |-> IF f[i] = 0 THEN 0 ELSE f[i] - 1]
<1>1. g \in [Nat -> Nat]
  <2>1. \A i \in Nat : (IF f[i] = 0 THEN 0 ELSE f[i] - 1) \in Nat
    OBVIOUS
  <2> QED
    BY <2>1
<1>2. ASSUME NEW i \in m + 1..k PROVE g[i] \in 1..l /\ g[i] + 1 = f[i]
  <2>1. i \in Nat /\ f[i] \in 2..l + 1
    BY DEF Behind
  <2>2. g[i] = f[i] - 1
    BY <2>1
  <2> HIDE DEF g
  <2> QED
    BY <2>1, <2>2
<1> HIDE DEF g
<1>3. \A i \in m + 1..k : rest[g[i]] = due[i]
  BY <1>2 DEF Behind
<1>4. \A i, j \in m + 1..k : i < j => g[i] < g[j]
  BY <1>2 DEF Behind
<1>5. ASSUME NEW n \in 1..l, rest[n] # "blank"
      PROVE  \E i \in m + 1..k : g[i] = n \/ (due[i] = "subscribe" /\ g[i] < n)
  <2>1. n + 1 \in 2..l + 1 /\ todo[n + 1] # "blank"
    BY <1>5
  <2>2. PICK i \in m + 1..k :
          f[i] = n + 1 \/ (due[i] = "subscribe" /\ f[i] < n + 1)
    BY <2>1 DEF Behind
  <2>3. g[i] \in 1..l /\ g[i] + 1 = f[i]
    BY <1>2, <2>2
  <2>4. g[i] = n \/ (due[i] = "subscribe" /\ g[i] < n)
    BY <2>2, <2>3
  <2> QED
    BY <2>2, <2>4
<1>6. Finds(g, due, m, k, rest, l)
  BY <1>2, <1>3, <1>4, <1>5 DEF Finds
<1> QED
  BY <1>1, <1>6

(* The first request is read.  A blank one is forgotten; any other is what *)
(* is owed next.                                                           *)
LEMMA FindsTake ==
  ASSUME NEW f \in [Nat -> Nat], NEW due, NEW m \in Nat, NEW k \in Nat,
         NEW todo, NEW l \in Nat, Finds(f, due, m, k, todo, l + 1),
         \A i \in 1..k : due[i] # "blank",
         NEW rest, \A i \in 1..l : rest[i] = todo[i + 1]
  PROVE  /\ todo[1] = "blank" =>
              \E g \in [Nat -> Nat] : Finds(g, due, m, k, rest, l)
         /\ todo[1] # "blank" => m + 1 <= k /\ due[m + 1] = todo[1]
         /\ todo[1] \notin {"blank", "subscribe"} =>
              \E g \in [Nat -> Nat] : Finds(g, due, m + 1, k, rest, l)
<1>0. /\ \A i \in m + 1..k : i \in 1..k
      /\ \A i \in (m + 1) + 1..k : i \in m + 1..k /\ m + 1 < i
      /\ \A i \in m + 1..k : /\ m + 1 <= k /\ m + 1 \in m + 1..k
                             /\ i = m + 1 \/ i \in (m + 1) + 1..k
      /\ \A i \in (m + 1) + 1..k : m + 1 \in m + 1..k
      /\ \A n \in 2..l + 1 : n \in 1..l + 1 /\ n # 1
      /\ 1 \in 1..l + 1
  OBVIOUS
<1>1. /\ \A i \in m + 1..k : f[i] \in 1..l + 1 /\ todo[f[i]] = due[i]
      /\ \A i, j \in m + 1..k : i < j => f[i] < f[j]
      /\ \A n \in 1..l + 1 : todo[n] # "blank" =>
           \E i \in m + 1..k : f[i] = n \/ (due[i] = "subscribe" /\ f[i] < n)
  BY DEF Finds
<1>2. CASE todo[1] = "blank"
  <2>1. \A i \in m + 1..k : f[i] \in 2..l + 1
    <3>1. \A i \in m + 1..k : f[i] \in 1..l + 1 /\ f[i] # 1
      BY <1>0, <1>1, <1>2
    <3> QED
      BY <3>1
  <2>2. Behind(f, due, m, k, todo, l)
    BY <1>0, <1>1, <2>1 DEF Behind
  <2>3. \E g \in [Nat -> Nat] : Finds(g, due, m, k, rest, l)
    BY <2>2, FindsTail
  <2> QED
    BY <1>2, <2>3
<1>3. CASE todo[1] # "blank"
  <2>1. PICK i \in m + 1..k : f[i] = 1 \/ (due[i] = "subscribe" /\ f[i] < 1)
    BY <1>0, <1>1, <1>3
  <2>2. f[i] = 1
    BY <1>1, <2>1
  <2>3. m + 1 \in m + 1..k /\ m + 1 <= k
    BY <1>0, <2>1
  <2>4. f[m + 1] \in 1..l + 1 /\ (m + 1 < i => f[m + 1] < 1)
    BY <1>1, <2>1, <2>2, <2>3
  <2>5. f[m + 1] = 1
    <3>1. i = m + 1 \/ m + 1 < i
      BY <1>0, <2>1
    <3> QED
      BY <2>2, <2>4, <3>1
  <2>6. due[m + 1] = todo[1]
    BY <1>1, <2>3, <2>5
  <2>7. ASSUME todo[1] # "subscribe"
        PROVE  \E g \in [Nat -> Nat] : Finds(g, due, m + 1, k, rest, l)
    <3>1. ASSUME NEW j \in (m + 1) + 1..k
          PROVE  f[j] \in 2..l + 1 /\ todo[f[j]] = due[j]
      <4>1. f[j] \in 1..l + 1 /\ todo[f[j]] = due[j] /\ 1 < f[j]
        BY <1>0, <1>1, <2>3, <2>5
      <4> QED
        BY <4>1
    <3>2. ASSUME NEW n \in 2..l + 1, todo[n] # "blank"
          PROVE  \E j \in (m + 1) + 1..k :
                   f[j] = n \/ (due[j] = "subscribe" /\ f[j] < n)
      <4>1. PICK j \in m + 1..k :
              f[j] = n \/ (due[j] = "subscribe" /\ f[j] < n)
        BY <1>0, <1>1, <3>2
      <4>2. j # m + 1
        BY <1>0, <2>5, <2>6, <2>7, <4>1
      <4> QED
        BY <1>0, <4>1, <4>2
    <3>3. \A a, b \in (m + 1) + 1..k : a < b => f[a] < f[b]
      BY <1>0, <1>1
    <3>4. Behind(f, due, m + 1, k, todo, l)
      BY <3>1, <3>2, <3>3 DEF Behind
    <3>5. m + 1 \in Nat
      OBVIOUS
    <3> QED
      BY <3>4, <3>5, FindsTail
  <2> QED
    BY <1>3, <2>3, <2>6, <2>7
<1> QED
  BY <1>2, <1>3

(* The same for the queues themselves. *)
LEMMA MatchedRead ==
  ASSUME NEW due \in Seq(Owed), NEW todo \in Seq(Requests), NEW m \in Nat,
         due # <<>>, m > 0, Matched(due, m, todo)
  PROVE  Matched(Tail(due), m - 1, todo)
<1>1. PICK f \in [Nat -> Nat] : Finds(f, due, m, Len(due), todo, Len(todo))
  BY DEF Matched
<1>2. /\ Len(due) - 1 \in Nat /\ (Len(due) - 1) + 1 = Len(due)
      /\ Len(Tail(due)) = Len(due) - 1
      /\ \A i \in 1..Len(due) - 1 : Tail(due)[i] = due[i + 1]
  <2>1. /\ Len(due) \in Nat \ {0} /\ Len(Tail(due)) = Len(due) - 1
        /\ \A i \in 1..Len(due) - 1 : Tail(due)[i] = due[i + 1]
    BY Dequeued
  <2> QED
    BY <2>1
<1>3. Len(todo) \in Nat /\ m - 1 \in Nat /\ (m - 1) + 1 = m
  BY LenProperties
<1>4. Finds(f, due, (m - 1) + 1, (Len(due) - 1) + 1, todo, Len(todo))
  BY <1>1, <1>2, <1>3
<1>5. \E g \in [Nat -> Nat] :
        Finds(g, Tail(due), m - 1, Len(due) - 1, todo, Len(todo))
  BY <1>2, <1>3, <1>4, FindsRead
<1> QED
  BY <1>2, <1>5 DEF Matched

LEMMA MatchedAsk ==
  ASSUME NEW due \in Seq(Owed), NEW todo \in Seq(Requests), NEW m \in Nat,
         NEW r \in Requests, r \in Owed, m <= Len(due), Matched(due, m, todo)
  PROVE  Matched(Append(due, r), m, Append(todo, r))
<1> DEFINE k == Len(due)
           l == Len(todo)
           more == Append(due, r)
           longer == Append(todo, r)
<1>1. PICK f \in [Nat -> Nat] : Finds(f, due, m, k, todo, l)
  BY DEF Matched
<1>2. /\ k \in Nat /\ Len(more) = k + 1 /\ more[k + 1] = r
      /\ \A i \in 1..k : more[i] = due[i]
  BY Enqueued
<1>3. /\ l \in Nat /\ Len(longer) = l + 1 /\ longer[l + 1] = r
      /\ \A i \in 1..l : longer[i] = todo[i]
  BY Enqueued
<1>4. m <= k
  OBVIOUS
<1> HIDE DEF k, l, more, longer
<1>5. Adds(more, due, k, r) /\ Adds(longer, todo, l, r)
  BY <1>2, <1>3 DEF Adds
<1>6. \E g \in [Nat -> Nat] : Finds(g, more, m, k + 1, longer, l + 1)
  BY <1>1, <1>2, <1>3, <1>4, <1>5, FindsAsk
<1>7. Matched(more, m, longer)
  BY <1>2, <1>3, <1>6 DEF Matched
<1> QED
  BY <1>7 DEF more, longer

LEMMA MatchedSkip ==
  ASSUME NEW due \in Seq(Owed), NEW todo \in Seq(Requests), NEW m \in Nat,
         NEW r \in Requests, Matched(due, m, todo),
         r = "blank" \/ \E i \in m + 1..Len(due) : due[i] = "subscribe"
  PROVE  Matched(due, m, Append(todo, r))
<1>1. PICK f \in [Nat -> Nat] : Finds(f, due, m, Len(due), todo, Len(todo))
  BY DEF Matched
<1>2. Len(due) \in Nat
  BY LenProperties
<1>3. /\ Len(todo) \in Nat /\ Len(Append(todo, r)) = Len(todo) + 1
      /\ \A i \in 1..Len(todo) : Append(todo, r)[i] = todo[i]
      /\ Append(todo, r)[Len(todo) + 1] = r
  BY Enqueued
<1>4. Finds(f, due, m, Len(due), Append(todo, r), Len(todo) + 1)
  BY <1>1, <1>2, <1>3, FindsSkip
<1> QED
  BY <1>3, <1>4 DEF Matched

LEMMA MatchedTake ==
  ASSUME NEW due \in Seq(Owed), NEW todo \in Seq(Requests), NEW m \in Nat,
         todo # <<>>, Matched(due, m, todo)
  PROVE  /\ Head(todo) = "blank" => Matched(due, m, Tail(todo))
         /\ Head(todo) # "blank" => m + 1 <= Len(due) /\ due[m + 1] = Head(todo)
         /\ Head(todo) \notin {"blank", "subscribe"} =>
              Matched(due, m + 1, Tail(todo))
<1>1. PICK f \in [Nat -> Nat] : Finds(f, due, m, Len(due), todo, Len(todo))
  BY DEF Matched
<1>2. /\ Len(todo) - 1 \in Nat /\ (Len(todo) - 1) + 1 = Len(todo)
      /\ Len(Tail(todo)) = Len(todo) - 1 /\ Head(todo) = todo[1]
      /\ \A i \in 1..Len(todo) - 1 : Tail(todo)[i] = todo[i + 1]
  <2>1. /\ Len(todo) \in Nat \ {0} /\ Len(Tail(todo)) = Len(todo) - 1
        /\ Head(todo) = todo[1]
        /\ \A i \in 1..Len(todo) - 1 : Tail(todo)[i] = todo[i + 1]
    BY Dequeued
  <2> QED
    BY <2>1
<1>3. Len(due) \in Nat /\ \A i \in 1..Len(due) : due[i] # "blank"
  <2>1. Len(due) \in Nat /\ \A i \in 1..Len(due) : due[i] \in Owed
    BY LenProperties, ElementOfSeq
  <2>2. "blank" \notin Owed
    BY DEF Owed
  <2> QED
    BY <2>1, <2>2
<1>4. Finds(f, due, m, Len(due), todo, (Len(todo) - 1) + 1)
  BY <1>1, <1>2
<1>5. /\ todo[1] = "blank" => \E g \in [Nat -> Nat] :
           Finds(g, due, m, Len(due), Tail(todo), Len(todo) - 1)
      /\ todo[1] # "blank" => m + 1 <= Len(due) /\ due[m + 1] = todo[1]
      /\ todo[1] \notin {"blank", "subscribe"} => \E g \in [Nat -> Nat] :
           Finds(g, due, m + 1, Len(due), Tail(todo), Len(todo) - 1)
  BY <1>2, <1>3, <1>4, FindsTake
<1> QED
  BY <1>2, <1>5 DEF Matched

(* With nothing asked nothing is owed beyond m. *)
LEMMA MatchedNone ==
  ASSUME NEW due \in Seq(Owed), NEW m \in Nat, Matched(due, m, <<>>)
  PROVE  Len(due) <= m
<1>1. PICK f \in [Nat -> Nat] : Finds(f, due, m, Len(due), <<>>, Len(<<>>))
  BY DEF Matched
<1>2. Len(<<>>) = 0 /\ Len(due) \in Nat
  BY LenProperties
<1>3. \A i \in m + 1..Len(due) : f[i] \in 1..0
  BY <1>1, <1>2 DEF Finds
<1>4. \A i \in m + 1..Len(due) : FALSE
  BY <1>3
<1>5. CASE m < Len(due)
  <2>1. m + 1 \in m + 1..Len(due)
    BY <1>2, <1>5
  <2> QED
    BY <1>4, <2>1
<1> QED
  BY <1>2, <1>5

LEMMA MatchedEmpty ==
  ASSUME NEW due \in Seq(Owed), NEW m \in Nat, Len(due) <= m
  PROVE  Matched(due, m, <<>>)
<1>1. Len(<<>>) = 0 /\ Len(due) \in Nat
  BY LenProperties
<1>2. \A i \in m + 1..Len(due) : FALSE
  BY <1>1
<1>3. \A i \in 1..0 : FALSE
  OBVIOUS
<1>4. Finds([i \in Nat |-> 0], due, m, Len(due), <<>>, Len(<<>>))
  BY <1>1, <1>2, <1>3 DEF Finds
<1>5. [i \in Nat |-> 0] \in [Nat -> Nat]
  OBVIOUS
<1> QED
  BY <1>4, <1>5 DEF Matched

\* The connection works on a request, or waits for the next.
Serves == {"hello", "reading", "snapshot", "opening", "reply", "openreply"}
Streams == {"subscribe", "streaming", "forward"}

\* What the connection has in hand is what is owed next.
InHand(want, c) ==
  /\ c.pc \in {"hello", "snapshot"} => want = c.pc
  /\ c.pc = "reply" => Answered(want, c.line) /\ want # "subscribe"
  /\ c.pc \in {"opening", "openreply"} => want = "subscribe"
  /\ c.pc = "openreply" => Answered(want, c.line)

\* What is owed is on the wire, in hand, or asked for, in this order.
Asked(due, lines, c, m, todo) ==
  /\ m <= Len(due)
  /\ \A i \in DOMAIN due :
       due[i] # "events" /\ (i <= Len(lines) => due[i] # "subscribe")
  /\ c.pc # "reading" => InHand(due[m], c)
  /\ c.pc \notin {"opening", "openreply"} => Matched(due, m, todo)

\* A subscribe is answered; if it is still owed its answer is on the wire.
Subscribed(due, lines) ==
  \/ due = <<"events">>
  \/ /\ due # <<>> /\ due[Len(due)] = "subscribe" /\ Len(due) <= Len(lines)

Handled(lines, c) == IF c.pc = "reading" THEN Len(lines) ELSE Len(lines) + 1

Talk(due, lines, c, todo) ==
  /\ Told(due, lines)
  /\ c.pc \in Serves => Asked(due, lines, c, Handled(lines, c), todo)
  /\ c.pc \in Streams => Subscribed(due, lines)

(* A line read is the one owed. *)
LEMMA ToldRead ==
  ASSUME NEW due \in Seq(Owed), NEW lines \in Seq(Lines), lines # <<>>,
         Told(due, lines)
  PROVE  /\ due # <<>> /\ Answered(Head(due), Head(lines))
         /\ Head(due) \in Final => Len(due) = 1 /\ Told(<<"events">>, Tail(lines))
         /\ Head(due) \notin Final => Told(Tail(due), Tail(lines))
<1> DEFINE k == Len(due)
           l == Len(lines)
           rest == Tail(lines)
<1>1. /\ l \in Nat \ {0} /\ DOMAIN lines = 1..l /\ Head(lines) = lines[1]
      /\ DOMAIN rest = 1..l - 1 /\ \A i \in 1..l - 1 : rest[i] = lines[i + 1]
  BY Dequeued
<1>2. k \in Nat /\ DOMAIN due = 1..k
  BY LenProperties
<1> HIDE DEF k, l, rest
<1>3. /\ \A i \in 1..l : IF i \in 1..k THEN Answered(due[i], lines[i])
           ELSE due # <<>> /\ due[k] \in Final /\ lines[i].kind = "event"
      /\ \A i \in 1..k : due[i] \in Final => i = k
  BY <1>1, <1>2 DEF Told, k
<1>4. due # <<>>
  <2>1. ASSUME due = <<>> PROVE FALSE
    <3>1. k = 0
      BY <2>1 DEF k
    <3>2. 1 \in 1..l /\ 1 \notin 1..k
      BY <1>1, <3>1
    <3> QED
      BY <1>3, <2>1, <3>2
  <2> QED
    BY <2>1
<1> DEFINE owing == Tail(due)
<1>5. /\ k \in Nat \ {0} /\ Head(due) = due[1] /\ DOMAIN owing = 1..k - 1
      /\ Len(owing) = k - 1 /\ \A i \in 1..k - 1 : owing[i] = due[i + 1]
  BY <1>4, Dequeued DEF k
<1> HIDE DEF owing
<1>6. 1 \in 1..l /\ 1 \in 1..k
  BY <1>1, <1>5
<1>7. Answered(Head(due), Head(lines))
  BY <1>1, <1>3, <1>5, <1>6
<1>8. ASSUME Head(due) \in Final
      PROVE  k = 1 /\ Told(<<"events">>, rest)
  <2>1. k = 1
    BY <1>3, <1>5, <1>6, <1>8
  <2>2. \A i \in 1..l - 1 : rest[i].kind = "event"
    <3>1. \A i \in 1..l - 1 : i + 1 \in 1..l /\ i + 1 \notin 1..k
      BY <1>1, <2>1
    <3> QED
      BY <1>1, <1>3, <3>1
  <2>3. Told(<<"events">>, rest)
    <3>1. /\ DOMAIN <<"events">> = 1..1 /\ Len(<<"events">>) = 1
          /\ <<"events">>[1] = "events" /\ <<"events">> # <<>>
      OBVIOUS
    <3>2. \A i \in 1..1 : i = 1
      OBVIOUS
    <3> QED
      BY <1>1, <2>2, <3>1, <3>2 DEF Told, Answered, Final
  <2> QED
    BY <2>1, <2>3
<1>9. ASSUME Head(due) \notin Final PROVE Told(owing, rest)
  <2>1. ASSUME NEW i \in 1..l - 1
        PROVE  IF i \in 1..k - 1 THEN Answered(owing[i], rest[i])
               ELSE owing # <<>> /\ owing[k - 1] \in Final /\ rest[i].kind = "event"
    <3>1. i + 1 \in 1..l /\ rest[i] = lines[i + 1]
      BY <1>1
    <3>2. CASE i \in 1..k - 1
      <4>1. i + 1 \in 1..k /\ owing[i] = due[i + 1]
        BY <1>5, <3>2
      <4> QED
        BY <1>3, <3>1, <3>2, <4>1
    <3>3. CASE i \notin 1..k - 1
      <4>1. i + 1 \notin 1..k
        BY <1>5, <3>3
      <4>2. due[k] \in Final /\ lines[i + 1].kind = "event"
        BY <1>3, <3>1, <4>1
      <4>3. k # 1
        BY <1>5, <1>9, <4>2
      <4>4. k - 1 \in 1..k - 1 /\ (k - 1) + 1 = k
        BY <1>5, <4>3
      <4>5. owing[k - 1] = due[k] /\ owing # <<>>
        BY <1>5, <4>4
      <4> QED
        BY <3>1, <3>3, <4>2, <4>5
    <3> QED
      BY <3>2, <3>3
  <2>2. ASSUME NEW i \in 1..k - 1, owing[i] \in Final PROVE i = k - 1
    <3>1. i + 1 \in 1..k /\ due[i + 1] \in Final
      BY <1>5, <2>2
    <3>2. i + 1 = k
      BY <1>3, <3>1
    <3> QED
      BY <1>5, <3>2
  <2> QED
    BY <1>1, <1>5, <2>1, <2>2 DEF Told
<1> QED
  BY <1>4, <1>7, <1>8, <1>9 DEF k, rest, owing

(* A line sent in its place. *)
LEMMA ToldSend ==
  ASSUME NEW due \in Seq(Owed), NEW lines \in Seq(Lines), NEW line \in Lines,
         Told(due, lines),
         \/ Len(lines) + 1 <= Len(due) /\ Answered(due[Len(lines) + 1], line)
         \/ Subscribed(due, lines) /\ line.kind = "event"
  PROVE  Told(due, Append(lines, line))
<1> DEFINE k == Len(due)
           l == Len(lines)
           longer == Append(lines, line)
<1>1. /\ l \in Nat /\ DOMAIN lines = 1..l /\ longer[l + 1] = line
      /\ DOMAIN longer = 1..l + 1 /\ \A i \in 1..l : longer[i] = lines[i]
  BY Enqueued
<1>2. k \in Nat /\ DOMAIN due = 1..k
  BY LenProperties
<1>3. \/ l + 1 <= k /\ Answered(due[l + 1], line)
      \/ Subscribed(due, lines) /\ line.kind = "event"
  OBVIOUS
<1> HIDE DEF k, l, longer
<1>4. IF l + 1 \in 1..k THEN Answered(due[l + 1], line)
      ELSE due # <<>> /\ due[k] \in Final /\ line.kind = "event"
  <2>1. CASE l + 1 <= k /\ Answered(due[l + 1], line)
    <3>1. l + 1 \in 1..k
      BY <1>1, <1>2, <2>1
    <3> QED
      BY <2>1, <3>1
  <2>2. CASE due = <<"events">> /\ line.kind = "event"
    <3>1. due # <<>> /\ k = 1 /\ due[1] = "events"
      BY <2>2 DEF k
    <3>2. l + 1 \in 1..k => l + 1 = 1
      BY <1>1, <3>1
    <3> QED
      BY <2>2, <3>1, <3>2 DEF Answered, Final
  <2>3. CASE /\ due # <<>> /\ due[k] = "subscribe" /\ k <= l
             /\ line.kind = "event"
    <3>1. l + 1 \notin 1..k
      BY <1>1, <1>2, <2>3
    <3> QED
      BY <2>3, <3>1 DEF Final
  <2> QED
    BY <1>3, <2>1, <2>2, <2>3 DEF Subscribed, k, l
<1>5. ASSUME NEW i \in 1..l + 1
      PROVE  IF i \in 1..k THEN Answered(due[i], longer[i])
             ELSE due # <<>> /\ due[k] \in Final /\ longer[i].kind = "event"
  <2>1. CASE i = l + 1
    BY <1>1, <1>4, <2>1
  <2>2. CASE i \in 1..l
    BY <1>1, <1>2, <2>2 DEF Told, k
  <2> QED
    BY <1>1, <2>1, <2>2
<1>6. Told(due, longer)
  BY <1>1, <1>2, <1>5 DEF Told, k
<1> QED
  BY <1>6 DEF longer

(* More is owed. *)
LEMMA ToldAsk ==
  ASSUME NEW due \in Seq(Owed), NEW lines \in Seq(Lines), NEW r \in Owed,
         Told(due, lines), Len(lines) <= Len(due),
         \A i \in DOMAIN due : due[i] \notin Final
  PROVE  Told(Append(due, r), lines)
<1> DEFINE k == Len(due)
           l == Len(lines)
           more == Append(due, r)
<1>1. /\ k \in Nat /\ DOMAIN due = 1..k /\ more[k + 1] = r /\ Len(more) = k + 1
      /\ DOMAIN more = 1..k + 1 /\ \A i \in 1..k : more[i] = due[i]
  BY Enqueued
<1>2. l \in Nat /\ DOMAIN lines = 1..l
  BY LenProperties
<1>3. l <= k
  OBVIOUS
<1> HIDE DEF k, l, more
<1>4. \A i \in 1..l : i \in 1..k /\ i \in 1..k + 1
  BY <1>1, <1>2, <1>3
<1>5. \A i \in 1..l : Answered(more[i], lines[i])
  BY <1>1, <1>2, <1>4 DEF Told
<1>6. ASSUME NEW i \in 1..k + 1, more[i] \in Final PROVE i = k + 1
  <2>1. CASE i \in 1..k
    BY <1>1, <1>6, <2>1
  <2> QED
    BY <1>1, <2>1
<1>7. Told(more, lines)
  BY <1>1, <1>2, <1>4, <1>5, <1>6 DEF Told
<1> QED
  BY <1>7 DEF more

(* The shell reads a line. *)
LEMMA TalkRead ==
  ASSUME NEW due \in Seq(Owed), NEW lines \in Seq(Lines), NEW c \in Conn,
         NEW todo \in Seq(Requests), lines # <<>>, Talk(due, lines, c, todo)
  PROVE  /\ due # <<>> /\ Answered(Head(due), Head(lines))
         /\ Talk(IF Head(due) \in Final THEN <<"events">> ELSE Tail(due),
                 Tail(lines), c, todo)
<1> DEFINE k == Len(due)
           l == Len(lines)
           owing == Tail(due)
           rest == Tail(lines)
           m == Handled(lines, c)
<1>1. /\ due # <<>> /\ Answered(Head(due), Head(lines))
      /\ Head(due) \in Final => k = 1 /\ Told(<<"events">>, rest)
      /\ Head(due) \notin Final => Told(owing, rest)
  BY ToldRead DEF Talk
<1>2. /\ k \in Nat \ {0} /\ DOMAIN due = 1..k /\ Head(due) = due[1]
      /\ Len(owing) = k - 1 /\ DOMAIN owing = 1..k - 1
      /\ \A i \in 1..k - 1 : owing[i] = due[i + 1]
  BY <1>1, Dequeued
<1>3. l \in Nat \ {0} /\ Len(rest) = l - 1
  BY Dequeued
<1>4. /\ m \in {l, l + 1} /\ Handled(rest, c) = m - 1
      /\ c.pc # "reading" => m = l + 1
  BY <1>3 DEF Handled
<1>5. Subscribed(<<"events">>, rest)
  BY DEF Subscribed
<1>6. CASE c.pc \in Serves
  <2>1. Asked(due, lines, c, m, todo)
    BY <1>6 DEF Talk
  <2>2. /\ m <= k
        /\ c.pc # "reading" => InHand(due[m], c)
        /\ c.pc \notin {"opening", "openreply"} => Matched(due, m, todo)
        /\ \A i \in 1..k : due[i] # "events" /\ (i <= l => due[i] # "subscribe")
    BY <1>2, <2>1 DEF Asked
  <2> HIDE DEF k, l, owing, rest, m
  <2>3. 1 \in 1..k /\ 1 <= l /\ m \in Nat /\ m > 0 /\ m - 1 <= k - 1
    BY <1>2, <1>3, <1>4, <2>2
  <2>4. Head(due) \notin Final
    BY <1>2, <2>2, <2>3 DEF Final
  <2>5. c.pc # "reading" => m - 1 \in 1..k - 1 /\ (m - 1) + 1 = m
    BY <1>2, <1>3, <1>4, <2>2
  <2>6. c.pc # "reading" => InHand(owing[m - 1], c)
    BY <1>2, <2>2, <2>5
  <2>7. c.pc \notin {"opening", "openreply"} => Matched(owing, m - 1, todo)
    BY <1>1, <2>2, <2>3, MatchedRead DEF owing
  <2>8. \A i \in 1..k - 1 :
          owing[i] # "events" /\ (i <= l - 1 => owing[i] # "subscribe")
    <3>1. \A i \in 1..k - 1 : i + 1 \in 1..k /\ (i <= l - 1 => i + 1 <= l)
      BY <1>2, <1>3
    <3> QED
      BY <1>2, <2>2, <3>1
  <2>9. Asked(owing, rest, c, m - 1, todo)
    BY <1>2, <1>3, <2>3, <2>6, <2>7, <2>8 DEF Asked
  <2>10. Talk(owing, rest, c, todo)
    BY <1>1, <1>4, <1>6, <2>4, <2>9 DEF Talk, Serves, Streams
  <2> QED
    BY <1>1, <2>4, <2>10 DEF owing, rest
<1>7. CASE c.pc \notin Serves
  <2>1. ASSUME Head(due) \in Final PROVE Talk(<<"events">>, rest, c, todo)
    BY <1>1, <1>5, <1>7, <2>1 DEF Talk
  <2>2. ASSUME Head(due) \notin Final PROVE Talk(owing, rest, c, todo)
    <3>1. ASSUME c.pc \in Streams PROVE Subscribed(owing, rest)
      <4>1. due # <<"events">>
        BY <1>2, <2>2 DEF Final
      <4>2. due[k] = "subscribe" /\ k <= l
        BY <3>1, <4>1 DEF Talk, Subscribed
      <4>3. k # 1
        BY <1>2, <2>2, <4>2 DEF Final
      <4> HIDE DEF k, l, owing, rest
      <4>4. k - 1 \in 1..k - 1 /\ (k - 1) + 1 = k /\ k - 1 <= l - 1
        BY <1>2, <1>3, <4>2, <4>3
      <4>5. owing[k - 1] = "subscribe" /\ owing # <<>>
        BY <1>2, <4>2, <4>4
      <4> QED
        BY <1>2, <1>3, <4>4, <4>5 DEF Subscribed
    <3> QED
      BY <1>1, <1>7, <2>2, <3>1 DEF Talk
  <2> QED
    BY <1>1, <2>1, <2>2
<1> QED
  BY <1>6, <1>7

(* The shell writes a request. *)
LEMMA TalkAsk ==
  ASSUME NEW due \in Seq(Owed), NEW lines \in Seq(Lines), NEW c \in Conn,
         NEW todo \in Seq(Requests), NEW r \in Requests, c.pc # "none",
         Talk(due, lines, c, todo)
  PROVE  Talk(IF r = "blank" \/ Final \cap ToSet(due) # {} THEN due
              ELSE Append(due, r), lines, c, Append(todo, r))
<1> DEFINE k == Len(due)
           l == Len(lines)
           m == Handled(lines, c)
           longer == Append(todo, r)
           more == Append(due, r)
<1>1. /\ k \in Nat /\ DOMAIN due = 1..k /\ l \in Nat
      /\ k = 0 => due = <<>>
  BY LenProperties, EmptySeq
<1>2. m \in {l, l + 1}
  BY <1>1 DEF Handled
<1>3. c.pc \in Serves \/ c.pc \in Streams
  BY DEF Conn, ConnStates, Serves, Streams
<1>4. Told(due, lines)
  BY DEF Talk
<1>5. CASE r = "blank" \/ Final \cap ToSet(due) # {}
  <2>1. ASSUME c.pc \in Serves PROVE Asked(due, lines, c, m, longer)
    <3>1. Asked(due, lines, c, m, todo)
      BY <2>1 DEF Talk
    <3>2. ASSUME c.pc \notin {"opening", "openreply"}
          PROVE  Matched(due, m, longer)
      <4>1. Matched(due, m, todo)
        BY <3>1, <3>2 DEF Asked
      <4>2. CASE r = "blank"
        BY <1>1, <1>2, <4>1, <4>2, MatchedSkip
      <4>3. CASE Final \cap ToSet(due) # {}
        <5>1. PICK i \in 1..k : due[i] \in Final
          BY <1>1, <4>3 DEF ToSet
        <5>2. due[i] = "subscribe" /\ ~(i <= l)
          BY <1>1, <3>1, <5>1 DEF Asked, Final
        <5>3. m # l => due[m] # "subscribe"
          BY <2>1, <3>1, <3>2 DEF Asked, InHand, Handled, Serves
        <5> HIDE DEF k, l, m
        <5>4. i # l + 1 \/ m = l
          BY <1>2, <5>2, <5>3
        <5>5. i \in m + 1..k
          BY <1>1, <1>2, <5>1, <5>2, <5>4
        <5> QED
          BY <1>1, <1>2, <4>1, <5>2, <5>5, MatchedSkip DEF k, longer
      <4> QED
        BY <1>5, <4>2, <4>3
    <3> QED
      BY <3>1, <3>2 DEF Asked
  <2>2. Talk(due, lines, c, longer)
    BY <1>4, <2>1 DEF Talk
  <2> QED
    BY <1>5, <2>2
<1>6. CASE ~(r = "blank" \/ Final \cap ToSet(due) # {})
  <2>1. \A i \in 1..k : due[i] \notin Final
    BY <1>1, <1>6 DEF ToSet
  <2>2. ~Subscribed(due, lines)
    <3>1. due # <<"events">>
      BY <1>1, <2>1 DEF Final
    <3>2. due # <<>> => k \in 1..k
      BY <1>1
    <3> QED
      BY <2>1, <3>1, <3>2 DEF Subscribed, Final
  <2>3. c.pc \in Serves /\ c.pc \notin Streams
    BY <1>3, <2>2 DEF Talk, Serves, Streams
  <2>4. Asked(due, lines, c, m, todo)
    BY <2>3 DEF Talk
  <2>5. m <= k /\ l <= k /\ (c.pc # "reading" => m \in 1..k)
    BY <1>1, <1>2, <2>4 DEF Asked, Handled
  <2>6. c.pc \notin {"opening", "openreply"}
    BY <2>1, <2>4, <2>5 DEF Asked, InHand, Final
  <2>7. r \in Owed /\ r # "events"
    BY <1>6 DEF Requests, Owed
  <2>8. Told(more, lines)
    BY <1>1, <1>4, <2>1, <2>5, <2>7, ToldAsk
  <2>9. Matched(more, m, longer)
    BY <1>1, <1>2, <2>4, <2>5, <2>6, <2>7, MatchedAsk DEF Asked
  <2>10. /\ Len(more) = k + 1 /\ DOMAIN more = 1..k + 1 /\ more[k + 1] = r
         /\ \A i \in 1..k : more[i] = due[i]
    BY <2>7, Enqueued
  <2>11. ASSUME NEW i \in 1..k + 1
         PROVE  more[i] # "events" /\ (i <= l => more[i] # "subscribe")
    <3>1. CASE i \in 1..k
      BY <2>1, <2>10, <3>1 DEF Final
    <3>2. CASE i = k + 1
      <4> HIDE DEF k, l, more
      <4>1. ~(i <= l)
        BY <1>1, <2>5, <3>2
      <4> QED
        BY <2>7, <2>10, <3>2, <4>1
    <3> QED
      BY <1>1, <3>1, <3>2
  <2>12. c.pc # "reading" => InHand(more[m], c)
    BY <2>4, <2>5, <2>10 DEF Asked
  <2> HIDE DEF k, l, m, more, longer
  <2>13. m <= k + 1
    BY <1>1, <1>2, <2>5
  <2>14. Asked(more, lines, c, m, longer)
    BY <2>9, <2>10, <2>11, <2>12, <2>13 DEF Asked, l
  <2>15. Talk(more, lines, c, longer)
    BY <2>3, <2>8, <2>14 DEF Talk, m
  <2> QED
    BY <1>6, <2>15 DEF more, longer
<1> QED
  BY <1>5, <1>6

(* The connection sends the line it has in hand. *)
LEMMA TalkSend ==
  ASSUME NEW due \in Seq(Owed), NEW lines \in Seq(Lines), NEW c, NEW d,
         NEW todo \in Seq(Requests), NEW line \in Lines,
         Talk(due, lines, c, todo),
         \/ c.pc = "hello" /\ line.kind = "hello" /\ d.pc = "reading"
         \/ c.pc = "reply" /\ line = c.line /\ d.pc = "reading"
         \/ c.pc = "openreply" /\ line = c.line /\ d.pc = "subscribe"
  PROVE  Talk(due, Append(lines, line), d, todo)
<1> DEFINE k == Len(due)
           l == Len(lines)
           longer == Append(lines, line)
<1>1. k \in Nat /\ DOMAIN due = 1..k
  BY LenProperties
<1>2. l \in Nat /\ Len(longer) = l + 1
  BY Enqueued
<1>3. Asked(due, lines, c, l + 1, todo)
  BY DEF Talk, Serves, Handled
<1>4. /\ l + 1 <= k /\ Answered(due[l + 1], line)
      /\ c.pc # "openreply" => due[l + 1] # "subscribe" /\ Matched(due, l + 1, todo)
      /\ c.pc = "openreply" => due[l + 1] = "subscribe"
      /\ \A i \in 1..k : due[i] # "events" /\ (i <= l => due[i] # "subscribe")
  BY <1>1, <1>3 DEF Asked, InHand, Answered
<1>5. Told(due, longer)
  BY <1>4, ToldSend DEF Talk
<1> HIDE DEF k, l, longer
<1>6. l + 1 \in 1..k
  BY <1>1, <1>2, <1>4
<1>7. CASE d.pc = "reading"
  <2>1. c.pc # "openreply"
    BY <1>7
  <2>2. ASSUME NEW i \in 1..k, i <= l + 1 PROVE due[i] # "subscribe"
    <3>1. i <= l \/ i = l + 1
      BY <1>1, <1>2, <2>2
    <3> QED
      BY <1>4, <2>1, <3>1
  <2>3. Asked(due, longer, d, l + 1, todo)
    BY <1>1, <1>2, <1>4, <1>7, <2>1, <2>2 DEF Asked, k
  <2> QED
    BY <1>2, <1>5, <1>7, <2>3 DEF Talk, Handled, Streams, longer
<1>8. CASE d.pc = "subscribe"
  <2>1. due[l + 1] = "subscribe"
    BY <1>4, <1>8
  <2>2. l + 1 = k
    BY <1>1, <1>6, <2>1 DEF Talk, Told, Final, k
  <2>3. due # <<>>
    BY <1>1, <1>6
  <2>4. Subscribed(due, longer)
    BY <1>1, <1>2, <2>1, <2>2, <2>3 DEF Subscribed, k
  <2> QED
    BY <1>5, <1>8, <2>4 DEF Talk, Serves, longer
<1> QED
  BY <1>7, <1>8

(* The connection reads a request. *)
LEMMA TalkTake ==
  ASSUME NEW due \in Seq(Owed), NEW lines \in Seq(Lines), NEW c, NEW d,
         NEW todo \in Seq(Requests), todo # <<>>, c.pc = "reading",
         Talk(due, lines, c, todo),
         \/ Head(todo) = "blank" /\ d = c
         \/ Head(todo) = "garbage" /\ d.pc = "reply" /\ d.line.kind = "error"
         \/ Head(todo) = "snapshot" /\ d.pc = "snapshot"
         \/ Head(todo) = "subscribe" /\ d.pc = "opening"
  PROVE  Talk(due, lines, d, Tail(todo))
<1> DEFINE l == Len(lines)
           rest == Tail(todo)
<1>1. l \in Nat
  BY LenProperties
<1>2. /\ Asked(due, lines, c, l, todo) /\ Told(due, lines)
      /\ Matched(due, l, todo)
  BY DEF Talk, Serves, Handled, Asked
<1>3. /\ Head(todo) = "blank" => Matched(due, l, rest)
      /\ Head(todo) # "blank" => l + 1 <= Len(due) /\ due[l + 1] = Head(todo)
      /\ Head(todo) \notin {"blank", "subscribe"} => Matched(due, l + 1, rest)
  BY <1>1, <1>2, MatchedTake
<1> HIDE DEF l, rest
<1>4. CASE Head(todo) = "blank"
  <2>1. Asked(due, lines, c, l, rest)
    BY <1>2, <1>3, <1>4 DEF Asked
  <2> QED
    BY <1>2, <1>4, <2>1 DEF Talk, Handled, Serves, Streams, l, rest
<1>5. CASE Head(todo) # "blank"
  <2>1. /\ d.pc \in {"reply", "snapshot", "opening"}
        /\ d.pc # "opening" => Head(todo) # "subscribe"
    BY <1>5
  <2>2. InHand(Head(todo), d)
    BY <1>5 DEF InHand, Answered
  <2>3. Asked(due, lines, d, l + 1, rest)
    BY <1>2, <1>3, <1>5, <2>1, <2>2 DEF Asked
  <2> QED
    BY <1>2, <2>1, <2>3 DEF Talk, Handled, Streams, l, rest
<1> QED
  BY <1>4, <1>5

(* The connection has the answer to a request. *)
LEMMA TalkWork ==
  ASSUME NEW due \in Seq(Owed), NEW lines \in Seq(Lines), NEW c, NEW d,
         NEW todo \in Seq(Requests), Talk(due, lines, c, todo),
         d.line.kind \in {"snapshot", "error"},
         \/ c.pc = "snapshot" /\ d.pc = "reply"
         \/ c.pc = "opening" /\ d.pc = "openreply"
  PROVE  Talk(due, lines, d, todo)
<1>1. Asked(due, lines, c, Len(lines) + 1, todo) /\ Told(due, lines)
  BY DEF Talk, Serves, Handled
<1>2. InHand(due[Len(lines) + 1], d)
  BY <1>1 DEF Asked, InHand, Answered
<1>3. Asked(due, lines, d, Len(lines) + 1, todo)
  BY <1>1, <1>2 DEF Asked
<1> QED
  BY <1>1, <1>3 DEF Talk, Handled, Streams

(* The connection streams, or is gone. *)
LEMMA TalkStreams ==
  ASSUME NEW due, NEW lines, NEW c, NEW d, NEW todo, NEW left,
         Talk(due, lines, c, todo),
         (c.pc \in Streams /\ d.pc \in Streams) \/ d.pc = "none"
  PROVE  Talk(due, lines, d, left)
  BY DEF Talk, Serves, Streams

LEMMA TalkForward ==
  ASSUME NEW due \in Seq(Owed), NEW lines \in Seq(Lines), NEW c, NEW d,
         NEW todo, NEW line \in Lines, Talk(due, lines, c, todo),
         c.pc \in Streams, d.pc \in Streams, line.kind = "event"
  PROVE  Talk(due, Append(lines, line), d, todo)
<1>1. Told(due, lines) /\ Subscribed(due, lines)
  BY DEF Talk
<1>2. Told(due, Append(lines, line))
  BY <1>1, ToldSend
<1>3. /\ Len(lines) \in Nat /\ Len(due) \in Nat
      /\ Len(Append(lines, line)) = Len(lines) + 1
  BY Enqueued, LenProperties
<1>4. Subscribed(due, Append(lines, line))
  BY <1>1, <1>3 DEF Subscribed
<1> QED
  BY <1>2, <1>4 DEF Talk, Serves, Streams

(* A shell that has just connected. *)
LEMMA TalkConnect ==
  ASSUME NEW c, c.pc = "hello"
  PROVE  Talk(<<"hello">>, <<>>, c, <<>>)
<1>1. /\ <<"hello">> \in Seq(Owed) /\ Len(<<"hello">>) = 1
      /\ DOMAIN <<"hello">> = 1..1 /\ <<"hello">>[1] = "hello"
      /\ Len(<<>>) = 0 /\ DOMAIN <<>> = {}
  BY DEF Owed
<1>2. \A i \in 1..1 : i = 1
  OBVIOUS
<1>3. Told(<<"hello">>, <<>>)
  BY <1>1, <1>2 DEF Told, Final
<1>4. Matched(<<"hello">>, 1, <<>>)
  <2> DEFINE due == <<"hello">>
  <2>1. due \in Seq(Owed) /\ Len(due) <= 1
    BY <1>1
  <2> HIDE DEF due
  <2>2. Matched(due, 1, <<>>)
    BY <2>1, MatchedEmpty
  <2> QED
    BY <2>2 DEF due
<1>5. Asked(<<"hello">>, <<>>, c, 1, <<>>)
  BY <1>1, <1>2, <1>4 DEF Asked, InHand
<1>6. Handled(<<>>, c) = 1
  BY <1>1 DEF Handled
<1> QED
  BY <1>3, <1>5, <1>6 DEF Talk, Streams

\* What holds of client s: every line it read was the one owed, and if it is
\* a shell with a connection the rest is in order too.  A shell has no TUI.
ChatOK(s) ==
  /\ shell[s].fits
  /\ shell[s].pc # "unused" => viewer[s].app = "quit"
  /\ shell[s].pc = "away" => wire[s] = <<>> /\ asks[s] = <<>>
  /\ shell[s].pc = "open" => Talk(shell[s].due, wire[s], conn[s], asks[s])

Chats == \A s \in Clients : ChatOK(s)

LEMMA ChatsInit == Init => Chats
<1> SUFFICES ASSUME Init, NEW s \in Clients PROVE ChatOK(s)
  BY DEF Chats
<1>1. PICK shells \in SUBSET Clients :
        /\ viewer = [v \in Clients |->
             IF v \in shells THEN GoneViewer ELSE NewViewer]
        /\ shell = [v \in Clients |->
             NewShell(IF v \in shells THEN "away" ELSE "unused")]
  BY DEF Init
<1>2. /\ viewer[s].app = IF s \in shells THEN "quit" ELSE "starting"
      /\ shell[s].pc = IF s \in shells THEN "away" ELSE "unused"
      /\ shell[s].fits = TRUE /\ wire[s] = <<>> /\ asks[s] = <<>>
  BY <1>1 DEF NewViewer, GoneViewer, NewShell, Init
<1> QED
  BY <1>2 DEF ChatOK

(* The daemon's side of a connection. *)
LEMMA ServingChats ==
  ASSUME TypeOK, NEW s \in Clients, FlowOf(s), ChatOK(s), Serving(s)
  PROVE  ChatOK(s)'
<1> DEFINE due == shell[s].due
           lines == wire[s]
           c == conn[s]
           d == conn'[s]
           todo == asks[s]
<1>1. UNCHANGED <<viewer, shell>>
  BY DEF Serving, SendHello, TakeRequest, Snapshot, Reply, Subscribe, Recv,
         Lagged, Forward, ConnEnds
<1>2. /\ conn \in [Clients -> Conn] /\ wire \in [Clients -> Seq(Lines)]
      /\ asks \in [Clients -> Seq(Requests)] /\ shell[s] \in Shell
      /\ c \in Conn /\ lines \in Seq(Lines) /\ todo \in Seq(Requests)
      /\ due \in Seq(Owed) /\ c.line \in Lines
  BY DEF TypeOK, Shell, Conn
<1>3. shell[s].pc = "away" => c.pc = "none"
  BY DEF FlowOf, Flow, Supplied, Fresh
<1>4. c.pc # "none"
  BY DEF Serving, SendHello, TakeRequest, Snapshot, Reply, Subscribe, Recv,
         Lagged, Forward, ConnEnds, At
<1>5. SUFFICES ASSUME shell[s].pc = "open", Talk(due, lines, c, todo)
               PROVE  Talk(due, wire'[s], d, asks'[s])
  BY <1>1, <1>3, <1>4 DEF ChatOK
<1>6. CASE SendHello(s)
  <2>1. /\ Line("hello", 0) \in Lines /\ Line("hello", 0).kind = "hello"
        /\ wire'[s] = Append(lines, Line("hello", 0)) /\ asks'[s] = todo
        /\ c.pc = "hello" /\ d.pc = "reading"
    BY <1>2, <1>6 DEF SendHello, SendLine, Line, Lines, At, Goto, Conn
  <2> HIDE DEF due, lines, c, d, todo
  <2> QED
    BY <1>2, <1>5, <2>1, TalkSend
<1>7. CASE TakeRequest(s)
  <2>1. /\ wire'[s] = lines /\ asks'[s] = Tail(todo) /\ todo # <<>>
        /\ c.pc = "reading"
    BY <1>2, <1>7 DEF TakeRequest, At
  <2>2. \/ Head(todo) = "blank" /\ d = c
        \/ Head(todo) = "garbage" /\ d.pc = "reply" /\ d.line.kind = "error"
        \/ Head(todo) = "snapshot" /\ d.pc = "snapshot"
        \/ Head(todo) = "subscribe" /\ d.pc = "opening"
    BY <1>2, <1>7 DEF TakeRequest, Goto, Conn, Line
  <2> HIDE DEF due, lines, c, d, todo
  <2> QED
    BY <1>2, <1>5, <2>1, <2>2, TalkTake
<1>8. CASE Snapshot(s)
  <2>1. /\ wire'[s] = lines /\ asks'[s] = todo
        /\ d.line.kind \in {"snapshot", "error"}
        /\ \/ c.pc = "snapshot" /\ d.pc = "reply"
           \/ c.pc = "opening" /\ d.pc = "openreply"
    BY <1>2, <1>8 DEF Snapshot, Conn, Line
  <2> HIDE DEF due, lines, c, d, todo
  <2> QED
    BY <1>2, <1>5, <2>1, TalkWork
<1>9. CASE Reply(s)
  <2>1. /\ wire'[s] = Append(lines, c.line) /\ asks'[s] = todo
        /\ \/ c.pc = "reply" /\ d.pc = "reading"
           \/ c.pc = "openreply" /\ d.pc = "subscribe"
    BY <1>2, <1>9 DEF Reply, SendLine, At, Goto, Conn
  <2> HIDE DEF due, lines, c, d, todo
  <2> QED
    BY <1>2, <1>5, <2>1, TalkSend
<1>10. CASE Subscribe(s) \/ Recv(s) \/ Lagged(s)
  <2>1. /\ wire'[s] = lines /\ asks'[s] = todo
        /\ c.pc \in Streams /\ d.pc \in Streams
    BY <1>2, <1>10 DEF Subscribe, Recv, Lagged, At, Conn, Streams
  <2> HIDE DEF due, lines, c, d, todo
  <2> QED
    BY <1>5, <2>1, TalkStreams
<1>11. CASE Forward(s)
  <2>1. /\ wire'[s] = Append(lines, c.line) /\ asks'[s] = todo
        /\ c.pc = "forward" /\ d.pc = "streaming"
    BY <1>2, <1>11 DEF Forward, SendLine, At, Goto, Conn
  <2>2. c.line.kind = "event"
    BY <2>1 DEF FlowOf, Flow, Supplied
  <2>3. c.pc \in Streams /\ d.pc \in Streams
    BY <2>1 DEF Streams
  <2> HIDE DEF due, lines, c, d, todo
  <2> QED
    BY <1>2, <1>5, <2>1, <2>2, <2>3, TalkForward
<1>12. CASE ConnEnds(s)
  <2>1. wire'[s] = lines /\ d.pc = "none"
    BY <1>2, <1>12 DEF ConnEnds, NoConn
  <2> HIDE DEF due, lines, c, d, todo
  <2> QED
    BY <1>5, <2>1, TalkStreams
<1> QED
  BY <1>6, <1>7, <1>8, <1>9, <1>10, <1>11, <1>12 DEF Serving

(* A TUI is no shell. *)
LEMMA FollowingChats ==
  ASSUME TypeOK, NEW s \in Clients, Role(s), ChatOK(s),
         Following(s) \/ FirstReport(s) \/ Tick(s) \/ TakeUpdate(s) \/ Quit(s)
  PROVE  ChatOK(s)'
<1>1. shell' = shell
  BY DEF Following, Connect, ConnectFails, ReadHello, Ask, ReadLine, LinesEnd,
         SendGone, FirstReport, Tick, TakeUpdate, Quit
<1>2. viewer[s].pc # "done" \/ viewer[s].app # "quit"
  BY DEF Following, Connect, ConnectFails, ReadHello, Ask, ReadLine, LinesEnd,
         SendGone, FirstReport, Tick, TakeUpdate, Quit, Running
<1>3. shell[s].pc = "unused"
  BY <1>2 DEF Role, ChatOK
<1> QED
  BY <1>1, <1>3 DEF ChatOK

(* A shell. *)
LEMMA ShellingChats ==
  ASSUME TypeOK, NEW s \in Clients, FlowOf(s), ChatOK(s), Shelling(s)
  PROVE  ChatOK(s)'
<1> DEFINE due == shell[s].due
           lines == wire[s]
           c == conn[s]
           todo == asks[s]
<1>1. UNCHANGED viewer /\ shell[s].pc \in {"away", "open"}
  BY DEF Shelling, ShellConnect, ShellReads, ShellCloses, ShellAsks
<1>2. /\ conn \in [Clients -> Conn] /\ wire \in [Clients -> Seq(Lines)]
      /\ asks \in [Clients -> Seq(Requests)]
      /\ shell \in [Clients -> Shell] /\ shell[s] \in Shell
      /\ c \in Conn /\ lines \in Seq(Lines) /\ todo \in Seq(Requests)
      /\ due \in Seq(Owed)
  BY DEF TypeOK, Shell
<1>3. viewer'[s].app = "quit" /\ shell[s].fits
  BY <1>1 DEF ChatOK
<1>4. CASE ShellConnect(s)
  <2>1. /\ shell'[s].pc = "open" /\ shell'[s].due = <<"hello">>
        /\ shell'[s].fits = shell[s].fits
        /\ wire'[s] = <<>> /\ asks'[s] = <<>> /\ conn'[s].pc = "hello"
    BY <1>2, <1>4 DEF ShellConnect, Connects, NoConn, Conn, Shell, ChatOK
  <2>2. Talk(<<"hello">>, <<>>, conn'[s], <<>>)
    BY <2>1, TalkConnect
  <2> QED
    BY <1>3, <2>1, <2>2 DEF ChatOK
<1>5. CASE ShellReads(s)
  <2> DEFINE next == IF Head(due) \in Final THEN <<"events">> ELSE Tail(due)
  <2>1. /\ shell[s].pc = "open" /\ lines # <<>> /\ wire'[s] = Tail(lines)
        /\ conn' = conn /\ asks' = asks
    BY <1>2, <1>5 DEF ShellReads, ReadWire
  <2>2. Talk(due, lines, c, todo)
    BY <2>1 DEF ChatOK
  <2>3. /\ due # <<>> /\ Answered(Head(due), Head(lines))
        /\ Talk(next, Tail(lines), c, todo)
    BY <1>2, <2>1, <2>2, TalkRead
  <2>4. Tail(due) = SubSeq(due, 2, Len(due))
    BY <1>2, <2>3, TailIsSubSeq
  <2>5. /\ shell'[s].pc = "open" /\ shell'[s].due = next
        /\ shell'[s].fits = (shell[s].fits /\ Answered(Head(due), Head(lines)))
    BY <1>2, <1>5, <2>1, <2>3, <2>4 DEF ShellReads, Shell, Final
  <2> HIDE DEF next
  <2> QED
    BY <1>3, <2>1, <2>3, <2>5 DEF ChatOK
<1>6. CASE ShellCloses(s)
  <2>1. shell'[s].pc = "closed" /\ shell'[s].fits = TRUE
    BY <1>2, <1>6 DEF ShellCloses, NewShell
  <2> QED
    BY <1>3, <2>1 DEF ChatOK
<1>7. ASSUME NEW request \in Requests, ShellAsks(s, request)
      PROVE  ChatOK(s)'
  <2> DEFINE next == IF request = "blank" \/ Final \cap ToSet(due) # {} THEN due
                     ELSE Append(due, request)
  <2>1. /\ shell[s].pc = "open" /\ c.pc # "none" /\ wire' = wire /\ conn' = conn
        /\ asks'[s] = Append(todo, request)
    BY <1>2, <1>7 DEF ShellAsks, At
  <2>2. Talk(due, lines, c, todo)
    BY <2>1 DEF ChatOK
  <2>3. Talk(next, lines, c, Append(todo, request))
    BY <1>2, <2>1, <2>2, TalkAsk
  <2>4. /\ shell'[s].pc = "open" /\ shell'[s].due = next
        /\ shell'[s].fits = shell[s].fits
    BY <1>2, <1>7, <2>1 DEF ShellAsks, Shell, Final
  <2> HIDE DEF next
  <2> QED
    BY <1>3, <2>1, <2>3, <2>4 DEF ChatOK
<1> QED
  BY <1>4, <1>5, <1>6, <1>7 DEF Shelling

(* A client's requests are its own. *)
LEMMA AsksIsolated ==
  ASSUME TypeOK, NEW v \in Clients, NEW s \in Clients, s # v,
         \/ Serving(v) \/ Following(v) \/ Shelling(v)
         \/ FirstReport(v) \/ Tick(v) \/ TakeUpdate(v) \/ Quit(v)
  PROVE  asks'[s] = asks[s]
<1>1. asks \in [Clients -> Seq(Requests)]
  BY DEF TypeOK
<1>2. CASE Serving(v)
  BY <1>1, <1>2 DEF Serving, SendHello, TakeRequest, Snapshot, Reply, Subscribe,
     Recv, Lagged, Forward, ConnEnds
<1>3. CASE Following(v)
  BY <1>1, <1>3 DEF Following, Connect, ConnectFails, ReadHello, Ask, ReadLine,
     LinesEnd, SendGone, linkVars
<1>4. CASE Shelling(v)
  BY <1>1, <1>4 DEF Shelling, ShellConnect, ShellReads, ShellCloses, ShellAsks
<1>5. CASE FirstReport(v) \/ Tick(v) \/ TakeUpdate(v) \/ Quit(v)
  BY <1>5 DEF FirstReport, Tick, TakeUpdate, Quit, linkVars
<1> QED
  BY <1>2, <1>3, <1>4, <1>5

LEMMA ChatsStep ==
  ASSUME IInv, Chats, [Next]_vars
  PROVE  Chats'
<1> SUFFICES ASSUME NEW s \in Clients PROVE ChatOK(s)'
  BY DEF Chats
<1>1. TypeOK /\ FlowOf(s) /\ Role(s) /\ ChatOK(s)
  BY DEF IInv, Roles, Role, Chats
<1>2. CASE UNCHANGED vars
  BY <1>1, <1>2 DEF ChatOK, vars, linkVars
<1>3. CASE Process \/ Engine
  <2>1. UNCHANGED <<viewer, shell, wire>>
    BY <1>3 DEF Process, Engine, Start, Bind, BindFails, SenderCloses, Stop,
       Crash, Ends, Change, SilentChange, Emit, linkVars
  <2>2. \/ conn'[s] = conn[s] /\ asks'[s] = asks[s]
        \/ conn'[s] = NoConn /\ asks'[s] = <<>>
    BY <1>3 DEF Process, Engine, Start, Bind, BindFails, SenderCloses, Stop,
       Crash, Ends, Change, SilentChange, Emit, linkVars
  <2>3. ASSUME shell[s].pc = "open"
        PROVE  Talk(shell[s].due, wire[s], conn'[s], asks'[s])
    <3>1. Talk(shell[s].due, wire[s], conn[s], asks[s])
      BY <1>1, <2>3 DEF ChatOK
    <3>2. NoConn.pc = "none"
      BY DEF NoConn
    <3> QED
      BY <2>2, <3>1, <3>2, TalkStreams
  <2> QED
    BY <1>1, <2>1, <2>2, <2>3 DEF ChatOK
<1>4. ASSUME NEW v \in Clients,
             \/ Serving(v) \/ Following(v) \/ Shelling(v)
             \/ FirstReport(v) \/ Tick(v) \/ TakeUpdate(v) \/ Quit(v)
      PROVE  ChatOK(s)'
  <2>1. CASE s # v
    <3>1. /\ viewer'[s] = viewer[s] /\ shell'[s] = shell[s]
          /\ wire'[s] = wire[s] /\ conn'[s] = conn[s]
      BY <1>1, <1>4, <2>1, Isolated
    <3>2. asks'[s] = asks[s]
      BY <1>1, <1>4, <2>1, AsksIsolated
    <3> QED
      BY <1>1, <3>1, <3>2 DEF ChatOK
  <2>2. CASE s = v
    BY <1>1, <1>4, <2>2, ServingChats, FollowingChats, ShellingChats
  <2> QED
    BY <2>1, <2>2
<1> QED
  BY <1>2, <1>3, <1>4 DEF Next

(* A connection answers every request of a client once and in order, however *)
(* far the client writes ahead, and sends events only after the answer to a *)
(* subscribe; when it waits for a request none is unanswered (talk,         *)
(* stream_events).                                                          *)
THEOREM Answers == Spec => []AnswersMatch
<1>1. IInv /\ Chats => AnswersMatch
  <2> SUFFICES ASSUME IInv, Chats, NEW s \in Clients
               PROVE  /\ shell[s].fits
                      /\ (shell[s].pc = "open" /\ At(s, "reading")
                          /\ asks[s] = <<>> /\ wire[s] = <<>>)
                           => shell[s].due = <<>>
    BY DEF AnswersMatch
  <2>1. ChatOK(s)
    BY DEF Chats
  <2>2. ASSUME shell[s].pc = "open", At(s, "reading"),
               asks[s] = <<>>, wire[s] = <<>>
        PROVE  shell[s].due = <<>>
    <3> DEFINE due == shell[s].due
    <3>1. due \in Seq(Owed)
      BY DEF IInv, TypeOK, Shell
    <3>2. Talk(due, <<>>, conn[s], <<>>) /\ conn[s].pc = "reading"
      BY <2>1, <2>2 DEF ChatOK, At
    <3>3. Matched(due, 0, <<>>)
      BY <3>2 DEF Talk, Asked, Handled, Serves
    <3>4. Len(due) <= 0
      BY <3>1, <3>3, MatchedNone
    <3> QED
      BY <3>1, <3>4, EmptySeq
  <2> QED
    BY <2>1, <2>2 DEF ChatOK
<1>2. IInv /\ Chats /\ [Next]_vars => Chats'
  BY ChatsStep
<1> QED
  BY <1>1, <1>2, ChatsInit, Inductive, PTL DEF Spec

-----------------------------------------------------------------------------
(* No queue between the library and the log drops an event. *)

\* The events on their way to v and in its log.
InHands(c) == IF c.pc = "forward" THEN {c.line.n} ELSE {}
OnTheWay(v) == Entries(viewer[v].log) \cup EventsOf(viewer[v].live)
                 \cup EventsOf(wire[v]) \cup InHands(conn[v])

\* They are those the receiver has returned since the subscription, but for
\* the ones that a full log has rolled out.
Covers(all, log, c) ==
  /\ c.since <= c.next
  /\ \A n \in all : c.since <= n /\ n < c.next
  /\ \A n \in Nat : c.since <= n /\ n < c.next =>
       n \in all \/ (Len(log) = EventLog /\ n < log[1])

Watched(v) == /\ conn[v].pc \in {"streaming", "forward"} /\ ~conn[v].lagged
              /\ viewer[v].app # "quit"

\* A TUI reads lines from the moment it has asked until its connection ends,
\* so that it takes no event for a hello; a shell has no render loop.
Attends(v) ==
  /\ conn[v].pc = "none" => asks[v] = <<>>
  /\ shell[v].pc # "unused" => viewer[v].app = "quit"
  /\ viewer[v].app # "quit" =>
       /\ asks[v] # <<>> => viewer[v].pc = "lines"
       /\ conn[v].pc \notin {"none", "hello", "reading"} => viewer[v].pc = "lines"

Delivers(v) == Watched(v) => Covers(OnTheWay(v), viewer[v].log, conn[v])

WholeOK == \A v \in Clients : Attends(v) /\ Delivers(v)

(* A queue is its first line and the rest. *)
LEMMA EventsHead ==
  ASSUME NEW S, NEW queue \in Seq(S), queue # <<>>
  PROVE  EventsOf(queue) = EventsOf(Tail(queue))
           \cup (IF IsEvent(Head(queue)) THEN {Head(queue).n} ELSE {})
<1> DEFINE rest == Tail(queue)
           k == Len(queue)
<1>1. /\ k \in Nat \ {0} /\ DOMAIN queue = 1..k /\ DOMAIN rest = 1..k - 1
      /\ Head(queue) = queue[1]
      /\ \A i \in 1..k - 1 : rest[i] = queue[i + 1]
  BY Dequeued
<1>2. /\ EventsOf(rest) \subseteq EventsOf(queue)
      /\ IsEvent(Head(queue)) => Head(queue).n \in EventsOf(queue)
  BY EventsTail
<1> HIDE DEF rest, k
<1>3. ASSUME NEW x \in EventsOf(queue)
      PROVE  x \in EventsOf(rest) \/ (IsEvent(Head(queue)) /\ x = Head(queue).n)
  <2>1. PICK i \in 1..k : IsEvent(queue[i]) /\ x = queue[i].n
    BY <1>1 DEF EventsOf
  <2>2. CASE i = 1
    BY <1>1, <2>1, <2>2
  <2>3. CASE i # 1
    <3>1. i - 1 \in 1..k - 1 /\ (i - 1) + 1 = i
      BY <1>1, <2>3
    <3>2. rest[i - 1] = queue[i]
      BY <1>1, <3>1
    <3> QED
      BY <1>1, <2>1, <3>1, <3>2 DEF EventsOf
  <2> QED
    BY <2>2, <2>3
<1> QED
  BY <1>2, <1>3 DEF rest

(* The rolling log after one more entry: what is no longer in it is older  *)
(* than all that is.                                                       *)
LEMMA LogRolls ==
  ASSUME NEW log \in Seq(Nat), Len(log) <= EventLog, NEW n \in Nat,
         Increasing(log), Below(Entries(log), {n})
  PROVE  LET more == Logged(log, n) IN
         /\ n \in Entries(more)
         /\ \A k \in Entries(log) :
              k \in Entries(more) \/ (Len(more) = EventLog /\ k < more[1])
         /\ Len(log) = EventLog => Len(more) = EventLog /\ log[1] < more[1]
<1> DEFINE more == Logged(log, n)
           m == Len(log)
<1>0. /\ m \in Nat /\ DOMAIN log = 1..m /\ EventLog \in Nat \ {0}
      /\ \A i \in 1..m : log[i] \in Nat /\ log[i] < n
  <2>1. m \in Nat /\ DOMAIN log = 1..m /\ EventLog \in Nat \ {0}
    BY LenProperties, ControlAssumption
  <2>2. \A i \in 1..m : log[i] \in Nat
    BY ElementOfSeq
  <2>3. \A i \in 1..m : log[i] \in Entries(log)
    BY <2>1 DEF Entries
  <2> QED
    BY <2>1, <2>2, <2>3 DEF Below
<1>1. CASE m = EventLog
  <2> DEFINE rest == Tail(log)
  <2>1. log # <<>>
    BY <1>0, <1>1, EmptySeq
  <2>2. /\ rest \in Seq(Nat) /\ Len(rest) = m - 1
        /\ \A i \in 1..m - 1 : rest[i] = log[i + 1]
    BY <2>1, Dequeued
  <2>3. more = Append(rest, n)
    BY <1>1 DEF Logged
  <2> HIDE DEF rest, more, m
  <2>4. /\ Len(more) = m /\ DOMAIN more = 1..m
        /\ \A i \in 1..m - 1 : more[i] = rest[i]
        /\ more[m] = n
    <3>1. (m - 1) + 1 = m
      BY <1>0
    <3>2. /\ Len(more) = Len(rest) + 1 /\ DOMAIN more = 1..Len(rest) + 1
          /\ \A i \in 1..Len(rest) : more[i] = rest[i]
          /\ more[Len(rest) + 1] = n
      BY <2>2, <2>3, Enqueued
    <3> QED
      BY <2>2, <3>1, <3>2
  <2>5. \A i \in 1..m - 1 : more[i] = log[i + 1] /\ i + 1 \in 1..m
    BY <1>0, <2>2, <2>4
  <2>6. 1 \in 1..m /\ m \in 1..m
    BY <1>0, <1>1
  <2>7. log[1] < more[1]
    <3>1. CASE m = 1
      BY <1>0, <2>4, <2>6, <3>1
    <3>2. CASE m # 1
      <4>1. 1 \in 1..m - 1 /\ 1 + 1 \in 1..m /\ 1 < 1 + 1
        BY <1>0, <1>1, <3>2
      <4>2. more[1] = log[1 + 1]
        BY <2>5, <4>1
      <4>3. log[1] < log[1 + 1]
        BY <1>0, <2>6, <4>1 DEF Increasing
      <4> QED
        BY <4>2, <4>3
    <3> QED
      BY <3>1, <3>2
  <2>8. n \in Entries(more)
    BY <2>4, <2>6 DEF Entries
  <2>9. ASSUME NEW k \in Entries(log)
        PROVE  k \in Entries(more) \/ k < more[1]
    <3>1. PICK i \in 1..m : k = log[i]
      BY <1>0 DEF Entries
    <3>2. CASE i = 1
      BY <2>7, <3>1, <3>2
    <3>3. CASE i # 1
      <4>1. i - 1 \in 1..m - 1 /\ i - 1 \in 1..m /\ (i - 1) + 1 = i
        BY <1>0, <3>3
      <4>2. more[i - 1] = k
        BY <2>5, <3>1, <4>1
      <4> QED
        BY <2>4, <4>1, <4>2 DEF Entries
    <3> QED
      BY <3>2, <3>3
  <2> QED
    BY <1>1, <2>4, <2>7, <2>8, <2>9 DEF more, m
<1>2. CASE m # EventLog
  <2>1. more = Append(log, n)
    BY <1>2 DEF Logged
  <2>2. /\ DOMAIN more = 1..m + 1
        /\ \A i \in 1..m : more[i] = log[i]
        /\ more[m + 1] = n
    BY <2>1, Enqueued
  <2> HIDE DEF more, m
  <2>3. m + 1 \in 1..m + 1 /\ \A i \in 1..m : i \in 1..m + 1
    BY <1>0
  <2>4. n \in Entries(more) /\ \A k \in Entries(log) : k \in Entries(more)
    BY <1>0, <2>2, <2>3 DEF Entries
  <2> QED
    BY <1>2, <2>4 DEF more, m
<1> QED
  BY <1>1, <1>2

(* An event goes from the channel to the log. *)
LEMMA CoversTake ==
  ASSUME NEW log \in Seq(Nat), Len(log) <= EventLog, NEW n \in Nat,
         Increasing(log), Below(Entries(log), {n}),
         NEW all, NEW all2, NEW others, NEW c \in Conn,
         all = Entries(log) \cup others, n \in all, Covers(all, log, c),
         all2 = Entries(Logged(log, n)) \cup (others \ {n})
  PROVE  Covers(all2, Logged(log, n), c)
<1> DEFINE more == Logged(log, n)
<1>1. /\ n \in Entries(more) /\ Entries(more) \subseteq Entries(log) \cup {n}
      /\ \A k \in Entries(log) :
           k \in Entries(more) \/ (Len(more) = EventLog /\ k < more[1])
      /\ Len(log) = EventLog => Len(more) = EventLog /\ log[1] < more[1]
  BY LogRolls, LogLogged
<1>2. Len(log) = EventLog => log[1] \in Nat
  <2>1. Len(log) \in Nat /\ EventLog \in Nat \ {0}
    BY LenProperties, ControlAssumption
  <2> QED
    BY <2>1, ElementOfSeq
<1>3. Len(more) = EventLog => more[1] \in Nat
  <2>1. more \in Seq(Nat)
    BY LoggedType
  <2> QED
    BY <2>1, ControlAssumption, ElementOfSeq
<1> HIDE DEF more
<1>4. all2 \subseteq all
  BY <1>1 DEF more
<1>5. ASSUME NEW k \in Nat, c.since <= k, k < c.next
      PROVE  k \in all2 \/ (Len(more) = EventLog /\ k < more[1])
  <2>1. k \in all \/ (Len(log) = EventLog /\ k < log[1])
    BY <1>5 DEF Covers
  <2>2. CASE k \in all
    BY <1>1, <2>2 DEF more
  <2>3. CASE Len(log) = EventLog /\ k < log[1]
    BY <1>1, <1>2, <1>3, <2>3
  <2> QED
    BY <2>1, <2>2, <2>3
<1> QED
  BY <1>4, <1>5 DEF Covers, more

(* The receiver returns one more event. *)
LEMMA CoversRecv ==
  ASSUME NEW all \in SUBSET Nat, NEW log, NEW c, NEW d, c.next \in Nat,
         c.since \in Nat, d.since = c.since, d.next = c.next + 1,
         Covers(all, log, c)
  PROVE  Covers(all \cup {c.next}, log, d)
<1> DEFINE more == all \cup {c.next}
<1>1. c.since <= c.next /\ c.since <= c.next + 1 /\ c.next < c.next + 1
  BY DEF Covers
<1>2. ASSUME NEW n \in more PROVE c.since <= n /\ n < c.next + 1
  <2>1. CASE n \in all
    <3>1. n \in Nat /\ c.since <= n /\ n < c.next
      BY <2>1 DEF Covers
    <3> QED
      BY <3>1
  <2>2. CASE n = c.next
    BY <1>1, <2>2
  <2> QED
    BY <1>2, <2>1, <2>2
<1>3. ASSUME NEW n \in Nat, c.since <= n, n < c.next + 1
      PROVE  n \in more \/ (Len(log) = EventLog /\ n < log[1])
  <2>1. n = c.next \/ n < c.next
    BY <1>3
  <2> QED
    BY <1>3, <2>1 DEF Covers
<1> HIDE DEF more
<1> QED
  BY <1>1, <1>2, <1>3 DEF Covers, more

(* The daemon's side of a connection. *)
LEMMA ServingWhole ==
  ASSUME TypeOK, NEW v \in Clients, FlowOf(v), Attends(v), Delivers(v), Serving(v)
  PROVE  Attends(v)' /\ Delivers(v)'
<1> DEFINE c == conn[v]
           queued == Entries(viewer[v].log) \cup EventsOf(viewer[v].live)
                       \cup EventsOf(wire[v])
<1>1. UNCHANGED <<daemonVars, viewer, shell>>
  BY DEF Serving, SendHello, TakeRequest, Snapshot, Reply, Subscribe, Recv,
         Lagged, Forward, ConnEnds
<1>2. /\ c \in Conn /\ wire[v] \in Seq(Lines) /\ c.next \in Nat /\ c.since \in Nat
      /\ conn \in [Clients -> Conn] /\ wire \in [Clients -> Seq(Lines)]
      /\ asks \in [Clients -> Seq(Requests)]
  BY DEF TypeOK, Conn
<1>3. Attends(v)'
  <2>1. \/ conn'[v] = NoConn /\ asks'[v] = <<>>
        \/ /\ conn'[v].pc # "none" /\ (asks'[v] # <<>> => asks[v] # <<>>)
           /\ \/ conn'[v].pc = "reading"
              \/ asks[v] # <<>>
              \/ c.pc \notin {"none", "hello", "reading"}
    BY <1>2 DEF Serving, SendHello, TakeRequest, Snapshot, Reply, Subscribe, Recv,
       Lagged, Forward, ConnEnds, At, Goto, Conn
  <2>2. NoConn.pc = "none"
    BY DEF NoConn
  <2> QED
    BY <1>1, <2>1, <2>2 DEF Attends
<1>4. CASE Subscribe(v)
  <2>1. /\ wire' = wire /\ c.pc = "subscribe" /\ conn'[v].pc = "streaming"
        /\ conn'[v].next = Len(sent) + 1 /\ conn'[v].since = Len(sent) + 1
    BY <1>2, <1>4 DEF Subscribe, At, Conn
  <2>2. queued = {}
    BY <2>1 DEF FlowOf, Flow, Supplied, BeforeStream
  <2>3. OnTheWay(v)' = {}
    BY <1>1, <2>1, <2>2 DEF OnTheWay, InHands
  <2>4. Len(sent) + 1 \in Nat
    BY LenProperties DEF TypeOK
  <2>5. Covers({}, viewer[v].log, conn'[v])
    BY <2>1, <2>4 DEF Covers
  <2> QED
    BY <1>1, <1>3, <2>3, <2>5 DEF Delivers
<1>5. CASE Recv(v)
  <2>1. /\ wire' = wire /\ c.pc = "streaming" /\ conn'[v].pc = "forward"
        /\ conn'[v].next = c.next + 1 /\ conn'[v].since = c.since
        /\ conn'[v].line.n = c.next /\ conn'[v].lagged = c.lagged
    BY <1>2, <1>5 DEF Recv, Line, At, Conn
  <2>2. OnTheWay(v) = queued /\ OnTheWay(v)' = queued \cup {c.next}
    BY <1>1, <2>1 DEF OnTheWay, InHands
  <2>3. ASSUME Watched(v)'
        PROVE  Covers(queued \cup {c.next}, viewer[v].log, conn'[v])
    <3>1. Covers(queued, viewer[v].log, c)
      BY <1>1, <2>1, <2>2, <2>3 DEF Watched, Delivers
    <3>2. queued \subseteq Nat
      BY <1>2 DEF FlowOf, Flow, Supplied
    <3> HIDE DEF queued
    <3> QED
      BY <1>2, <2>1, <3>1, <3>2, CoversRecv
  <2> QED
    BY <1>1, <1>3, <2>2, <2>3 DEF Delivers
<1>6. CASE Forward(v)
  <2>1. /\ c.pc = "forward" /\ conn'[v].pc = "streaming"
        /\ conn'[v].next = c.next /\ conn'[v].since = c.since
        /\ conn'[v].lagged = c.lagged /\ c.line \in Lines
        /\ wire'[v] = Append(wire[v], c.line)
    BY <1>2, <1>6 DEF Forward, SendLine, At, Goto, Conn
  <2>2. IsEvent(c.line)
    BY <2>1, ControlAssumption DEF FlowOf, Flow, Supplied, IsEvent
  <2>3. EventsOf(wire'[v]) = EventsOf(wire[v]) \cup {c.line.n}
    BY <1>2, <2>1, <2>2, EventsAppend
  <2>4. OnTheWay(v)' = OnTheWay(v)
    BY <1>1, <2>1, <2>3 DEF OnTheWay, InHands
  <2> QED
    BY <1>1, <1>3, <2>1, <2>4 DEF Delivers, Watched, Covers
<1>7. CASE ~Subscribe(v) /\ ~Recv(v) /\ ~Forward(v)
  <2>1. conn'[v].pc \notin {"streaming", "forward"} \/ conn'[v].lagged
    BY <1>2, <1>7 DEF Serving, SendHello, TakeRequest, Snapshot, Reply, Lagged,
       ConnEnds, At, Goto, Conn, NoConn
  <2> QED
    BY <1>3, <2>1 DEF Delivers, Watched
<1> QED
  BY <1>4, <1>5, <1>6, <1>7

(* The task that follows the socket. *)
LEMMA FollowingWhole ==
  ASSUME TypeOK, NEW v \in Clients, FlowOf(v), Role(v), Attends(v), Delivers(v),
         Following(v)
  PROVE  Attends(v)' /\ Delivers(v)'
<1> DEFINE live == viewer[v].live
<1>1. /\ viewer[v] \in Viewer /\ viewer \in [Clients -> Viewer]
      /\ conn \in [Clients -> Conn] /\ wire \in [Clients -> Seq(Lines)]
      /\ asks \in [Clients -> Seq(Requests)]
      /\ live \in Seq(Lines \cup {None}) /\ wire[v] \in Seq(Lines)
  BY DEF TypeOK, Viewer
<1>2. shell' = shell
  BY DEF Following, Connect, ConnectFails, ReadHello, Ask, ReadLine, LinesEnd,
         SendGone
<1>3. CASE Connect(v)
  <2>1. /\ viewer[v].pc = "connect" /\ conn[v].pc = "none" /\ asks' = asks
        /\ conn'[v].pc = "hello" /\ viewer'[v].app = viewer[v].app
    BY <1>1, <1>3 DEF Connect, Connects, Update, At, NoConn, Conn, Viewer
  <2> QED
    BY <1>2, <2>1 DEF Attends, Delivers, Watched
<1>4. CASE ConnectFails(v) \/ Ask(v) \/ LinesEnd(v) \/ SendGone(v)
  <2>1. /\ conn' = conn /\ viewer'[v].app = viewer[v].app
        /\ \/ viewer[v].pc = "connect" /\ asks' = asks
           \/ viewer[v].pc = "ask" /\ (asks'[v] # <<>> => viewer'[v].pc = "lines")
                /\ (conn[v].pc = "none" => asks' = asks)
           \/ conn[v].pc = "none" /\ asks' = asks
           \/ viewer[v].pc = "gone" /\ asks' = asks
    <3>1. CASE ConnectFails(v)
      BY <1>1, <3>1 DEF ConnectFails, Update, linkVars, Viewer
    <3>2. CASE Ask(v)
      BY <1>1, <3>2 DEF Ask, Update, At, Viewer, Attends
    <3>3. CASE LinesEnd(v)
      BY <1>1, <3>3 DEF LinesEnd, Eof, Update, At, linkVars, Viewer
    <3>4. CASE SendGone(v)
      BY <1>1, <3>4 DEF SendGone, Update, linkVars, Viewer
    <3> QED
      BY <1>4, <3>1, <3>2, <3>3, <3>4
  <2>2. Attends(v)'
    BY <1>2, <2>1 DEF Attends
  <2>3. ~Watched(v)'
    BY <2>1 DEF Attends, Watched
  <2> QED
    BY <2>2, <2>3 DEF Delivers
<1>5. CASE ReadHello(v)
  <2>1. /\ conn' = conn /\ asks' = asks /\ viewer[v].pc = "hello"
        /\ viewer'[v].app = viewer[v].app
    BY <1>1, <1>5 DEF ReadHello, Update, Viewer
  <2> QED
    BY <1>2, <2>1 DEF Attends, Delivers, Watched
<1>6. CASE ReadLine(v)
  <2> DEFINE line == Head(wire[v])
  <2>1. /\ wire[v] # <<>> /\ wire'[v] = Tail(wire[v]) /\ conn' = conn
        /\ asks' = asks /\ viewer[v].pc = "lines"
        /\ \/ line.kind = "error" /\ viewer' = viewer
           \/ viewer'[v] = [viewer[v] EXCEPT !.live = Append(live, line)]
    BY <1>1, <1>6 DEF ReadLine, ReadWire, Update
  <2>2. /\ viewer'[v].app = viewer[v].app /\ viewer'[v].pc = "lines"
        /\ viewer'[v].log = viewer[v].log
        /\ \/ viewer'[v].live = live /\ ~IsEvent(line)
           \/ viewer'[v].live = Append(live, line)
    BY <1>1, <2>1 DEF Viewer, IsEvent
  <2>3. line \in Lines
    BY <1>1, <2>1, Dequeued
  <2> HIDE DEF line
  <2>4. EventsOf(wire[v]) = EventsOf(wire'[v])
                              \cup (IF IsEvent(line) THEN {line.n} ELSE {})
    BY <1>1, <2>1, EventsHead DEF line
  <2>5. EventsOf(Append(live, line))
          = EventsOf(live) \cup (IF IsEvent(line) THEN {line.n} ELSE {})
    <3>1. line \in Lines \cup {None}
      BY <2>3
    <3> QED
      BY <1>1, <3>1, EventsAppend
  <2>6. EventsOf(live) \cup EventsOf(wire[v])
          = EventsOf(viewer'[v].live) \cup EventsOf(wire'[v])
    <3>1. CASE viewer'[v].live = live /\ ~IsEvent(line)
      BY <2>4, <3>1
    <3>2. CASE viewer'[v].live = Append(live, line)
      BY <2>4, <2>5, <3>2
    <3> QED
      BY <2>2, <3>1, <3>2
  <2>7. OnTheWay(v)' = OnTheWay(v)
    BY <2>1, <2>2, <2>6 DEF OnTheWay
  <2> QED
    BY <1>2, <2>1, <2>2, <2>7 DEF Attends, Delivers, Watched
<1> QED
  BY <1>3, <1>4, <1>5, <1>6 DEF Following

(* The render loop, and the end of the process. *)
LEMMA RenderWhole ==
  ASSUME TypeOK, NEW v \in Clients, FlowOf(v), Attends(v), Delivers(v),
         FirstReport(v) \/ Tick(v) \/ TakeUpdate(v) \/ Quit(v)
  PROVE  Attends(v)' /\ Delivers(v)'
<1> DEFINE live == viewer[v].live
           log == viewer[v].log
<1>1. /\ viewer[v] \in Viewer /\ viewer \in [Clients -> Viewer]
      /\ live \in Seq(Lines \cup {None}) /\ log \in Seq(Nat)
      /\ Len(log) <= EventLog /\ conn[v] \in Conn
  BY DEF TypeOK, Viewer
<1>2. UNCHANGED <<shell, conn, asks>>
  BY DEF FirstReport, Tick, TakeUpdate, Quit, linkVars
<1>3. CASE Quit(v)
  <2>1. viewer'[v].app = "quit"
    BY <1>1, <1>3 DEF Quit, Update, GoneViewer, NewViewer
  <2> QED
    BY <1>2, <2>1 DEF Attends, Delivers, Watched
<1>4. CASE FirstReport(v) \/ Tick(v)
  <2>1. /\ viewer'[v].log = log /\ viewer'[v].live = live
        /\ viewer'[v].pc = viewer[v].pc /\ viewer[v].app # "quit"
        /\ wire' = wire
    <3>1. CASE FirstReport(v)
      <4>1. viewer' = [viewer EXCEPT ![v] =
                         [viewer[v] EXCEPT !.report = db, !.app = "running"]]
        BY <3>1 DEF FirstReport, Refreshed, Update
      <4> QED
        BY <1>1, <3>1, <4>1 DEF FirstReport, linkVars, Viewer
    <3>2. CASE Tick(v)
      <4>1. viewer' = [viewer EXCEPT ![v] = [viewer[v] EXCEPT !.report = db]]
        BY <3>2 DEF Tick, Refreshed, Update
      <4> QED
        BY <1>1, <3>2, <4>1 DEF Tick, Running, linkVars, Viewer
    <3> QED
      BY <1>4, <3>1, <3>2
  <2>2. OnTheWay(v)' = OnTheWay(v)
    BY <1>2, <2>1 DEF OnTheWay
  <2> QED
    BY <1>2, <2>1, <2>2 DEF Attends, Delivers, Watched
<1>5. CASE TakeUpdate(v)
  <2> DEFINE up == Head(live)
  <2>0. wire' = wire /\ viewer[v].app = "running"
    <3>1. UNCHANGED linkVars /\ Running(v)
      BY <1>5 DEF TakeUpdate
    <3> QED
      BY <3>1 DEF Running, linkVars
  <2>1. /\ live # <<>>
        /\ \/ /\ ~IsEvent(up)
              /\ \E vitals \in BOOLEAN :
                   viewer'[v] = [viewer[v] EXCEPT !.live = Tail(live),
                                                  !.vitals = vitals]
           \/ /\ IsEvent(up)
              /\ viewer'[v] = [viewer[v] EXCEPT !.live = Tail(live),
                                  !.log = Logged(log, up.n), !.report = db]
    BY <1>1, <1>5, TakeCases DEF Update, IsEvent
  <2>2. /\ viewer'[v].live = Tail(live) /\ viewer'[v].pc = viewer[v].pc
        /\ viewer'[v].app = viewer[v].app
        /\ viewer'[v].log = IF IsEvent(up) THEN Logged(log, up.n) ELSE log
    BY <1>1, <2>1 DEF Viewer
  <2>3. IsEvent(up) => up.n \in Nat
    <3>1. up \in Lines \cup {None}
      BY <1>1, <2>1, Dequeued
    <3> QED
      BY <3>1 DEF IsEvent, Lines
  <2>4. EventsOf(live) = EventsOf(Tail(live))
                           \cup (IF IsEvent(up) THEN {up.n} ELSE {})
    BY <1>1, <2>1, EventsHead
  <2>5. Attends(v)'
    BY <1>2, <2>0, <2>2 DEF Attends
  <2> HIDE DEF up
  <2>6. CASE ~IsEvent(up)
    <3>1. OnTheWay(v)' = OnTheWay(v)
      BY <1>2, <2>0, <2>2, <2>4, <2>6 DEF OnTheWay
    <3> QED
      BY <1>2, <2>2, <2>5, <2>6, <3>1 DEF Delivers, Watched
  <2>7. CASE IsEvent(up)
    <3> DEFINE others == EventsOf(live) \cup EventsOf(wire[v]) \cup InHands(conn[v])
    <3>1. /\ Increasing(log) /\ Below(Entries(log), EventsOf(live))
          /\ Below(EventsOf(live), EventsOf(wire[v]))
          /\ Ascending(live)
      BY DEF FlowOf, Flow, Below
    <3>2. up.n \in EventsOf(live) /\ Below(Entries(log), {up.n})
      BY <2>4, <2>7, <3>1 DEF Below
    <3>3. Below({up.n}, EventsOf(Tail(live)))
      BY <1>1, <2>1, <2>7, <3>1, EventsTail DEF up
    <3>4. up.n \notin EventsOf(Tail(live)) /\ up.n \notin EventsOf(wire[v])
      BY <2>3, <2>7, <3>1, <3>2, <3>3 DEF Below
    <3>5. up.n \notin InHands(conn[v])
      <4>1. ASSUME conn[v].pc = "forward" PROVE up.n < conn[v].line.n
        BY <3>2, <4>1 DEF FlowOf, Flow, Supplied, Below
      <4> QED
        BY <2>3, <2>7, <4>1 DEF InHands
    <3>6. others \ {up.n}
            = EventsOf(Tail(live)) \cup EventsOf(wire[v]) \cup InHands(conn[v])
      BY <2>4, <2>7, <3>4, <3>5
    <3>7. /\ OnTheWay(v) = Entries(log) \cup others
          /\ OnTheWay(v)' = Entries(Logged(log, up.n)) \cup (others \ {up.n})
      BY <1>2, <2>0, <2>2, <2>7, <3>6 DEF OnTheWay
    <3>8. up.n \in OnTheWay(v)
      BY <3>2, <3>7
    <3> HIDE DEF others
    <3>9. ASSUME Watched(v)'
          PROVE  Covers(OnTheWay(v)', Logged(log, up.n), conn[v])
      <4>1. Covers(OnTheWay(v), log, conn[v])
        BY <1>2, <2>2, <3>9 DEF Watched, Delivers
      <4> QED
        BY <1>1, <2>3, <2>7, <3>1, <3>2, <3>7, <3>8, <4>1, CoversTake
    <3> QED
      BY <1>2, <2>2, <2>5, <2>7, <3>9 DEF Delivers
  <2> QED
    BY <2>6, <2>7
<1> QED
  BY <1>3, <1>4, <1>5

LEMMA WholeInit == Init => WholeOK
<1> SUFFICES ASSUME Init, NEW v \in Clients PROVE Attends(v) /\ Delivers(v)
  BY DEF WholeOK
<1>1. conn[v] = NoConn /\ asks[v] = <<>> /\ NoConn.pc = "none"
  BY DEF Init, NoConn
<1>2. PICK shells \in SUBSET Clients :
        /\ viewer = [w \in Clients |->
             IF w \in shells THEN GoneViewer ELSE NewViewer]
        /\ shell = [w \in Clients |->
             NewShell(IF w \in shells THEN "away" ELSE "unused")]
  BY DEF Init
<1>3. shell[v].pc # "unused" => viewer[v].app = "quit"
  BY <1>2 DEF GoneViewer, NewViewer, NewShell
<1> QED
  BY <1>1, <1>3 DEF Attends, Delivers, Watched

LEMMA WholeStep ==
  ASSUME IInv, WholeOK, [Next]_vars
  PROVE  WholeOK'
<1> SUFFICES ASSUME NEW v \in Clients PROVE Attends(v)' /\ Delivers(v)'
  BY DEF WholeOK
<1>1. TypeOK /\ FlowOf(v) /\ Role(v) /\ Attends(v) /\ Delivers(v)
  BY DEF IInv, Roles, Role, WholeOK
<1>2. ASSUME viewer'[v] = viewer[v], shell'[v] = shell[v], wire'[v] = wire[v],
             conn'[v] = conn[v], asks'[v] = asks[v]
      PROVE  Attends(v)' /\ Delivers(v)'
  BY <1>1, <1>2 DEF Attends, Delivers, Watched, OnTheWay
<1>3. CASE UNCHANGED vars
  BY <1>2, <1>3 DEF vars, linkVars
<1>4. CASE Process \/ Engine
  <2>1. UNCHANGED <<viewer, shell, wire>>
    BY <1>4 DEF Process, Engine, Start, Bind, BindFails, SenderCloses, Stop,
       Crash, Ends, Change, SilentChange, Emit, linkVars
  <2>2. \/ conn'[v] = conn[v] /\ asks'[v] = asks[v]
        \/ conn'[v] = NoConn /\ asks'[v] = <<>>
    BY <1>4 DEF Process, Engine, Start, Bind, BindFails, SenderCloses, Stop,
       Crash, Ends, Change, SilentChange, Emit, linkVars
  <2>3. CASE conn'[v] = NoConn /\ asks'[v] = <<>>
    <3>1. NoConn.pc = "none"
      BY DEF NoConn
    <3> QED
      BY <1>1, <2>1, <2>3, <3>1 DEF Attends, Delivers, Watched
  <2> QED
    BY <1>2, <2>1, <2>2, <2>3
<1>5. ASSUME NEW w \in Clients,
             \/ Serving(w) \/ Following(w) \/ Shelling(w)
             \/ FirstReport(w) \/ Tick(w) \/ TakeUpdate(w) \/ Quit(w)
      PROVE  Attends(v)' /\ Delivers(v)'
  <2>1. CASE v # w
    <3>1. /\ viewer'[v] = viewer[v] /\ shell'[v] = shell[v]
          /\ wire'[v] = wire[v] /\ conn'[v] = conn[v]
      BY <1>1, <1>5, <2>1, Isolated
    <3>2. asks'[v] = asks[v]
      BY <1>1, <1>5, <2>1, AsksIsolated
    <3> QED
      BY <1>2, <3>1, <3>2
  <2>2. CASE v = w /\ Shelling(w)
    <3>1. /\ viewer' = viewer /\ shell[v].pc # "unused"
          /\ (conn'[v].pc = "none" => asks'[v] = <<>>)
      <4>1. /\ conn \in [Clients -> Conn] /\ asks \in [Clients -> Seq(Requests)]
        BY <1>1 DEF TypeOK
      <4> QED
        BY <1>1, <2>2, <4>1 DEF Shelling, ShellConnect, ShellReads, ShellCloses,
           ShellAsks, Connects, At, NoConn, Attends
    <3> QED
      BY <1>1, <3>1 DEF Attends, Delivers, Watched
  <2>3. CASE v = w /\ ~Shelling(w)
    BY <1>1, <1>5, <2>3, ServingWhole, FollowingWhole, RenderWhole
  <2> QED
    BY <2>1, <2>2, <2>3
<1> QED
  BY <1>3, <1>4, <1>5 DEF Next

(* One queue after the other. *)
LEMMA EventsConcat ==
  ASSUME NEW S, NEW s \in Seq(S), NEW t \in Seq(S)
  PROVE  /\ s \o t \in Seq(S)
         /\ EventsOf(s \o t) = EventsOf(s) \cup EventsOf(t)
         /\ Ascending(s) /\ Ascending(t) /\ Below(EventsOf(s), EventsOf(t))
              => Ascending(s \o t)
<1> DEFINE m == Len(s)
           n == Len(t)
           both == s \o t
<1>1. /\ m \in Nat /\ n \in Nat /\ DOMAIN s = 1..m /\ DOMAIN t = 1..n
      /\ both \in Seq(S) /\ DOMAIN both = 1..m + n
      /\ \A i \in 1..m + n : both[i] = IF i <= m THEN s[i] ELSE t[i - m]
  BY ConcatProperties, LenProperties
<1> HIDE DEF m, n, both
<1>2. /\ \A i \in 1..m : i \in 1..m + n /\ both[i] = s[i]
      /\ \A i \in 1..n : m + i \in 1..m + n /\ both[m + i] = t[i]
  <2>1. ASSUME NEW i \in 1..m PROVE i \in 1..m + n /\ i <= m
    BY <1>1
  <2>2. ASSUME NEW i \in 1..n
        PROVE  m + i \in 1..m + n /\ ~(m + i <= m) /\ (m + i) - m = i
    BY <1>1
  <2> QED
    BY <1>1, <2>1, <2>2
<1>3. ASSUME NEW i \in 1..m + n
      PROVE  i \in 1..m \/ \E j \in 1..n : i = m + j
  <2>1. CASE i <= m
    BY <1>1, <2>1
  <2>2. CASE ~(i <= m)
    <3>1. i - m \in 1..n /\ i = m + (i - m)
      BY <1>1, <2>2
    <3> QED
      BY <3>1
  <2> QED
    BY <2>1, <2>2
<1>4. EventsOf(both) = EventsOf(s) \cup EventsOf(t)
  <2>1. ASSUME NEW x \in EventsOf(both) PROVE x \in EventsOf(s) \cup EventsOf(t)
    <3>1. PICK i \in 1..m + n : IsEvent(both[i]) /\ x = both[i].n
      BY <1>1 DEF EventsOf
    <3>2. CASE i \in 1..m
      BY <1>1, <1>2, <3>1, <3>2 DEF EventsOf
    <3>3. CASE \E j \in 1..n : i = m + j
      BY <1>1, <1>2, <3>1, <3>3 DEF EventsOf
    <3> QED
      BY <1>3, <3>2, <3>3
  <2>2. EventsOf(s) \subseteq EventsOf(both)
    BY <1>1, <1>2 DEF EventsOf
  <2>3. EventsOf(t) \subseteq EventsOf(both)
    <3> SUFFICES ASSUME NEW x \in EventsOf(t) PROVE x \in EventsOf(both)
      OBVIOUS
    <3>1. PICK i \in 1..n : IsEvent(t[i]) /\ x = t[i].n
      BY <1>1 DEF EventsOf
    <3>2. m + i \in DOMAIN both /\ both[m + i] = t[i]
      BY <1>1, <1>2
    <3> QED
      BY <3>1, <3>2 DEF EventsOf
  <2> QED
    BY <2>1, <2>2, <2>3
<1>5. ASSUME Ascending(s), Ascending(t), Below(EventsOf(s), EventsOf(t))
      PROVE  Ascending(both)
  <2> SUFFICES ASSUME NEW i \in 1..m + n, NEW j \in 1..m + n, i < j,
                      IsEvent(both[i]), IsEvent(both[j])
               PROVE  both[i].n < both[j].n
    BY <1>1 DEF Ascending
  <2>1. CASE j \in 1..m
    <3>1. i \in 1..m
      BY <1>1, <2>1
    <3> QED
      BY <1>1, <1>2, <1>5, <2>1, <3>1 DEF Ascending
  <2>2. ASSUME NEW l \in 1..n, j = m + l PROVE both[i].n < both[j].n
    <3>1. CASE i \in 1..m
      <4>1. both[i].n \in EventsOf(s) /\ both[j].n \in EventsOf(t)
        BY <1>1, <1>2, <2>2, <3>1 DEF EventsOf
      <4> QED
        BY <1>5, <4>1 DEF Below
    <3>2. ASSUME NEW k \in 1..n, i = m + k PROVE both[i].n < both[j].n
      <4>1. k < l /\ both[i] = t[k] /\ both[j] = t[l]
        BY <1>1, <1>2, <2>2, <3>2
      <4> QED
        BY <1>1, <1>5, <4>1 DEF Ascending
    <3> QED
      BY <1>3, <3>1, <3>2
  <2> QED
    BY <1>3, <2>1, <2>2
<1> QED
  BY <1>1, <1>4, <1>5 DEF both

(* The log as a queue of events. *)
LEMMA EventsLogged ==
  ASSUME NEW log \in Seq(Nat), Increasing(log)
  PROVE  LET logged == [i \in DOMAIN log |-> Line("event", log[i])] IN
         /\ logged \in Seq(Lines \cup {None})
         /\ EventsOf(logged) = Entries(log) /\ Ascending(logged)
<1> DEFINE logged == [i \in DOMAIN log |-> Line("event", log[i])]
           n == Len(log)
<1>1. /\ n \in Nat /\ DOMAIN log = 1..n /\ DOMAIN logged = 1..n
      /\ \A i \in 1..n : log[i] \in Nat /\ logged[i] = Line("event", log[i])
  BY LenProperties, ElementOfSeq
<1>2. \A k \in Nat : /\ Line("event", k) \in Lines /\ Line("event", k).n = k
                     /\ IsEvent(Line("event", k))
  <2>1. \A k \in Nat : /\ Line("event", k) \in Lines /\ Line("event", k).n = k
                       /\ Line("event", k).kind = "event"
    BY DEF Line, Lines
  <2> QED
    BY <2>1, ControlAssumption DEF IsEvent
<1>3. logged \in Seq(Lines \cup {None})
  <2>1. logged \in [1..n -> Lines \cup {None}]
    BY <1>1, <1>2
  <2> QED
    BY <1>1, <2>1, SeqDef
<1> HIDE DEF logged, n
<1>4. \A i \in 1..n : IsEvent(logged[i]) /\ logged[i].n = log[i]
  BY <1>1, <1>2
<1>5. EventsOf(logged) = Entries(log)
  BY <1>1, <1>4 DEF EventsOf, Entries
<1>6. Ascending(logged)
  BY <1>1, <1>4 DEF Ascending, Increasing
<1> QED
  BY <1>3, <1>5, <1>6 DEF logged

(* What is on its way to a TUI is in order; nothing in it is older than    *)
(* the first entry of its log.                                             *)
LEMMA InFlightFlows ==
  ASSUME TypeOK, NEW v \in Clients, FlowOf(v),
         conn[v].pc \in {"streaming", "forward"}
  PROVE  /\ Ascending(InFlight(v)) /\ EventsOf(InFlight(v)) = OnTheWay(v)
         /\ OnTheWay(v) \subseteq Nat
         /\ Len(viewer[v].log) = EventLog =>
              \A k \in OnTheWay(v) : viewer[v].log[1] <= k
<1> DEFINE log == viewer[v].log
           live == viewer[v].live
           lines == wire[v]
           c == conn[v]
           logged == [i \in DOMAIN log |-> Line("event", log[i])]
           held == IF At(v, "forward") THEN <<c.line>> ELSE <<>>
           Updates == Lines \cup {None}
<1>1. /\ log \in Seq(Nat) /\ live \in Seq(Updates) /\ lines \in Seq(Lines)
      /\ c.line \in Lines /\ c.line.n \in Nat
  BY DEF TypeOK, Viewer, Conn, Lines
<1>2. lines \in Seq(Updates)
  <2>1. Lines \subseteq Updates
    OBVIOUS
  <2> QED
    BY <1>1, <2>1, SeqMonotonic
<1>3. /\ Increasing(log) /\ Ascending(live) /\ Ascending(lines)
      /\ Below(Entries(log), EventsOf(live) \cup EventsOf(lines))
      /\ Below(EventsOf(live), EventsOf(lines))
      /\ Entries(log) \cup EventsOf(live) \cup EventsOf(lines) \subseteq 1..Len(sent)
  BY DEF FlowOf, Flow, Supplied
<1>4. /\ c.pc = "forward" => IsEvent(c.line)
      /\ Below(Entries(log) \cup EventsOf(live) \cup EventsOf(lines), InHands(c))
  <2>1. c.pc = "forward" =>
          /\ c.line.kind = "event"
          /\ Below(Entries(log) \cup EventsOf(live) \cup EventsOf(lines), {c.line.n})
    BY DEF FlowOf, Flow, Supplied
  <2> QED
    BY <1>1, <2>1, ControlAssumption DEF IsEvent, InHands, Below
<1>5. /\ logged \in Seq(Updates)
      /\ EventsOf(logged) = Entries(log) /\ Ascending(logged)
  BY <1>1, <1>3, EventsLogged
<1>6. /\ held \in Seq(Updates)
      /\ EventsOf(held) = InHands(c) /\ Ascending(held)
  <2>1. EventsOf(<<>>) = {} /\ Ascending(<<>>) /\ <<>> \in Seq(Updates)
    BY DEF EventsOf, Ascending
  <2>2. CASE c.pc = "forward"
    <3>1. held = Append(<<>>, c.line) /\ c.line \in Updates
      BY <1>1, <2>2 DEF At
    <3>2. Below(EventsOf(<<>>), {c.line.n})
      BY <2>1 DEF Below
    <3> HIDE DEF held, Updates
    <3>3. held \in Seq(Updates)
      BY <2>1, <3>1, Enqueued
    <3>4. EventsOf(held) = {c.line.n} /\ Ascending(held)
      BY <1>4, <2>1, <2>2, <3>1, <3>2, EventsAppend
    <3> QED
      BY <2>2, <3>3, <3>4 DEF InHands
  <2>3. CASE c.pc # "forward"
    BY <2>1, <2>3 DEF At, InHands
  <2> QED
    BY <2>2, <2>3
<1> HIDE DEF logged, held, Updates
<1> DEFINE two == logged \o live
           three == two \o lines
<1>7. /\ two \in Seq(Updates) /\ Ascending(two)
      /\ EventsOf(two) = Entries(log) \cup EventsOf(live)
  <2>1. Below(EventsOf(logged), EventsOf(live))
    BY <1>3, <1>5 DEF Below
  <2> QED
    BY <1>1, <1>3, <1>5, <2>1, EventsConcat
<1> HIDE DEF two
<1>8. /\ three \in Seq(Updates) /\ Ascending(three)
      /\ EventsOf(three) = Entries(log) \cup EventsOf(live) \cup EventsOf(lines)
  <2>1. Below(EventsOf(two), EventsOf(lines))
    BY <1>3, <1>7 DEF Below
  <2>2. lines \in Seq(Updates) /\ Ascending(lines)
    BY <1>2, <1>3
  <2>3. two \in Seq(Updates) /\ Ascending(two)
    BY <1>7
  <2>4. /\ three \in Seq(Updates) /\ Ascending(three)
        /\ EventsOf(three) = EventsOf(two) \cup EventsOf(lines)
    BY <2>1, <2>2, <2>3, EventsConcat
  <2> QED
    BY <1>7, <2>4
<1> HIDE DEF three
<1>9. Ascending(three \o held) /\ EventsOf(three \o held) = OnTheWay(v)
  <2>1. Below(EventsOf(three), EventsOf(held))
    BY <1>4, <1>6, <1>8
  <2>2. held \in Seq(Updates) /\ Ascending(held)
    BY <1>6
  <2>3. three \in Seq(Updates) /\ Ascending(three)
    BY <1>8
  <2>4. /\ EventsOf(three \o held) = EventsOf(three) \cup EventsOf(held)
        /\ Ascending(three \o held)
    BY <2>1, <2>2, <2>3, EventsConcat
  <2> QED
    BY <1>6, <1>8, <2>4 DEF OnTheWay
<1>10. InFlight(v) = three \o held
  BY DEF InFlight, logged, held, two, three
<1>11. OnTheWay(v) \subseteq Nat
  <2>1. InHands(c) \subseteq Nat
    BY <1>1 DEF InHands
  <2> QED
    BY <1>3, <2>1 DEF OnTheWay
<1>12. ASSUME Len(log) = EventLog, NEW k \in OnTheWay(v) PROVE log[1] <= k
  <2>1. /\ Len(log) \in Nat /\ DOMAIN log = 1..Len(log) /\ 1 \in 1..Len(log)
        /\ \A i \in 1..Len(log) : log[i] \in Nat
    <3>1. Len(log) \in Nat /\ DOMAIN log = 1..Len(log)
      BY <1>1, LenProperties
    <3>2. 1 \in 1..Len(log)
      BY <1>12, <3>1, ControlAssumption
    <3>3. \A i \in 1..Len(log) : log[i] \in Nat
      BY <1>1, ElementOfSeq
    <3> QED
      BY <3>1, <3>2, <3>3
  <2>2. log[1] \in Entries(log) /\ log[1] \in Nat
    BY <2>1 DEF Entries
  <2>3. CASE k \in Entries(log)
    <3>1. PICK i \in 1..Len(log) : k = log[i]
      BY <2>1, <2>3 DEF Entries
    <3>2. i = 1 \/ 1 < i
      BY <2>1
    <3>3. log[i] \in Nat /\ (1 < i => log[1] < log[i])
      BY <1>3, <2>1 DEF Increasing
    <3> QED
      BY <2>2, <3>1, <3>2, <3>3
  <2>4. CASE k \notin Entries(log)
    <3>1. log[1] < k
      BY <1>3, <1>4, <2>2, <2>4 DEF OnTheWay, Below
    <3>2. k \in Nat
      BY <1>11
    <3> QED
      BY <2>2, <3>1, <3>2
  <2> QED
    BY <2>3, <2>4
<1> QED
  BY <1>9, <1>10, <1>11, <1>12

(* A subscriber loses events only to the broadcast channel: as long as its *)
(* receiver did not lag, every event since the subscription is in the log, *)
(* a queue or the hands of stream_events, once and in order, but for those *)
(* the log has rolled out (stream_events, follow_control_socket, run_loop).*)
THEOREM NothingDropped == Spec => []StreamWhole
<1>1. IInv /\ WholeOK => StreamWhole
  <2> SUFFICES ASSUME IInv, WholeOK, NEW v \in Clients,
                      conn[v].pc \in {"streaming", "forward"}, ~conn[v].lagged,
                      viewer[v].app # "quit"
               PROVE  LET received == conn[v].since..(conn[v].next - 1)
                          log == viewer[v].log
                          rolled == {n \in received :
                                       Len(log) = EventLog /\ n < log[1]}
                      IN /\ Ascending(InFlight(v))
                         /\ EventsOf(InFlight(v)) = received \ rolled
    BY DEF StreamWhole
  <2> DEFINE c == conn[v]
             log == viewer[v].log
             all == OnTheWay(v)
             received == c.since..(c.next - 1)
             rolled == {n \in received : Len(log) = EventLog /\ n < log[1]}
  <2>1. /\ Ascending(InFlight(v)) /\ EventsOf(InFlight(v)) = all
        /\ all \subseteq Nat
        /\ Len(log) = EventLog => \A k \in all : log[1] <= k
    BY InFlightFlows DEF IInv
  <2>2. Covers(all, log, c)
    BY DEF WholeOK, Delivers, Watched
  <2>3. c.since \in Nat /\ c.next \in Nat /\ (Len(log) = EventLog => log[1] \in Nat)
    <3>1. c.since \in Nat /\ c.next \in Nat /\ log \in Seq(Nat)
      <4>1. conn[v] \in Conn /\ viewer[v] \in Viewer
        BY DEF IInv, TypeOK
      <4> QED
        BY <4>1 DEF Conn, Viewer
    <3>2. EventLog \in Nat \ {0}
      BY ControlAssumption
    <3>3. Len(log) = EventLog => 1 \in 1..Len(log)
      BY <3>2
    <3> HIDE DEF log
    <3>4. Len(log) = EventLog => log[1] \in Nat
      BY <3>1, <3>3, ElementOfSeq
    <3> QED
      BY <3>1, <3>4
  <2> HIDE DEF c, log, all
  <2>4. ASSUME NEW k \in all PROVE k \in received /\ k \notin rolled
    <3>1. k \in Nat /\ c.since <= k /\ k < c.next
      BY <2>1, <2>2 DEF Covers
    <3>2. k \in received
      BY <2>3, <3>1
    <3>3. ~(Len(log) = EventLog /\ k < log[1])
      BY <2>1, <2>3, <3>1
    <3> QED
      BY <3>2, <3>3
  <2>5. ASSUME NEW k \in received, k \notin rolled PROVE k \in all
    <3>1. k \in Nat /\ c.since <= k /\ k < c.next
      BY <2>3
    <3> QED
      BY <2>2, <2>5, <3>1 DEF Covers
  <2>6. all = received \ rolled
    BY <2>4, <2>5
  <2> QED
    BY <2>1, <2>6 DEF c, log
<1>2. IInv /\ WholeOK /\ [Next]_vars => WholeOK'
  BY WholeStep
<1> QED
  BY <1>1, <1>2, WholeInit, Inductive, PTL DEF Spec

=============================================================================
