----------------------- MODULE TelemetryIngress_proofs -----------------------
(***************************************************************************)
(* Proofs about TelemetryIngress, for every number of handlers, packets,   *)
(* sessions and restarts.  What holds when packets do not overlap is proved*)
(* from one invariant: the packet in progress is no older than any state   *)
(* that is in memory, in the snapshot, or acknowledged.  It is no older    *)
(* because it is the newest ever received ("ordered"), or because the      *)
(* cursor says so ("delayed").                                             *)
(***************************************************************************)
EXTENDS TelemetryIngress, TLAPS

\* What a handler holds of its packet is typed while it works on it.
LEMMA HandFields ==
  ASSUME TypeOK, NEW h \in Handler, hand[h].pc # "idle"
  PROVE  /\ hand[h].pkt \in Packet
         /\ hand[h].pc # "get" => /\ hand[h].pc \in Steps
                                  /\ hand[h].base \in Build
                                  /\ hand[h].fresh \in BOOLEAN
                                  /\ hand[h] \in [pc: Steps, pkt: Packet, base: Build,
                                                  fresh: BOOLEAN]
<1>1. hand[h] \in Hand /\ hand[h] # Idle
  BY DEF TypeOK, Idle
<1>2. CASE hand[h] \in [pc: {"get"}, pkt: Packet, base: {Unloaded}, fresh: {FALSE}]
  BY <1>2
<1>3. CASE hand[h] \in [pc: Steps, pkt: Packet, base: Build, fresh: BOOLEAN]
  BY <1>3
<1> QED BY <1>1, <1>2, <1>3 DEF Hand

\* Moving a handler to its next step keeps its type.
LEMMA StepTyped ==
  ASSUME TypeOK, NEW h \in Handler, hand[h].pc \in Steps, NEW s \in Steps, Step(h, s)
  PROVE  hand' \in [Handler -> Hand]
<1>1. hand[h] \in [pc: Steps, pkt: Packet, base: Build, fresh: BOOLEAN]
  BY HandFields DEF Steps
<1>2. [hand[h] EXCEPT !.pc = s] \in [pc: Steps, pkt: Packet, base: Build, fresh: BOOLEAN]
  BY <1>1
<1> QED BY <1>2 DEF TypeOK, Step, To, Hand

\* A handler that is done with its packet is typed.
LEMMA IdleTyped ==
  ASSUME TypeOK, NEW h \in Handler, To(h, Idle)
  PROVE  hand' \in [Handler -> Hand]
BY DEF TypeOK, To, Hand

\* What a restart and a start forget of the history leaves it typed.
LEMMA HistoryReset ==
  ASSUME TypeOK
  PROVE  /\ [history EXCEPT !.muted = 0] \in History
         /\ [history EXCEPT !.since = sent, !.muted = 0] \in History
         /\ [history EXCEPT !.best = Roster] \in History
<1>1. history \in History /\ sent \in Nat
  BY PacketBoundsAssumption DEF TypeOK
<1> QED BY <1>1 DEF History, Build, Roster

\* Counting a muted packet keeps the history typed.
LEMMA MutedTyped ==
  ASSUME TypeOK, NEW p \in Packet
  PROVE  Muted(p) \in History
<1>1. history \in History /\ p.id \in Nat
  BY DEF TypeOK, Packet
<1>2. history.muted + 1 \in Nat
  BY <1>1 DEF History
<1>3. [history EXCEPT !.muted = history.muted + 1, !.judged = p.id] \in History
  BY <1>1, <1>2 DEF History
<1> QED BY <1>1, <1>3 DEF Muted

\* The state has its type (every action).
THEOREM TypeCorrect == Spec => []TypeOK
<1>1. Init => TypeOK
  <2> SUFFICES ASSUME Init PROVE TypeOK OBVIOUS
  <2>1. session \in 1 .. MaxSession /\ source \in [1 .. MaxSession -> Nat] /\ world \in Worlds
    BY PacketBoundsAssumption DEF Init
  <2>2. runtime \in Build \cup {Unloaded} /\ snapshot \in Build /\ history \in History
    BY DEF Init, Build, Unloaded, Roster, History
  <2>3. sent \in 0 .. MaxPackets /\ net \subseteq Packet /\ restarts \in 0 .. MaxRestart
    BY PacketBoundsAssumption DEF Init
  <2>4. hand \in [Handler -> Hand] /\ reader \in Reader
    BY DEF Init, Hand, Reader
  <2> QED BY <2>1, <2>2, <2>3, <2>4 DEF Init, TypeOK, NoCursor, NoRun
<1>2. TypeOK /\ [Next]_vars => TypeOK'
  <2> SUFFICES ASSUME TypeOK, [Next]_vars PROVE TypeOK' OBVIOUS
  <2>1. ASSUME NEW s \in 1 .. MaxSession, Send(s) PROVE TypeOK'
    <3>1. sent' \in 0 .. MaxPackets /\ source' \in [1 .. MaxSession -> Nat]
      BY <2>1, PacketBoundsAssumption DEF TypeOK, Send
    <3>2. net' \subseteq Packet
      BY <2>1, PacketBoundsAssumption DEF TypeOK, Send, Packet
    <3> QED BY <2>1, <3>1, <3>2 DEF TypeOK, Send, server
  <2>2. CASE RestartSource
    BY <2>2, PacketBoundsAssumption, HistoryReset DEF TypeOK, RestartSource, server
  <2>3. CASE HandleAlreadyLiveStart
    BY <2>3, PacketBoundsAssumption, HistoryReset DEF TypeOK, HandleAlreadyLiveStart, outside, NoCursor
  <2>4. CASE Crash
    <3>1. hand' \in [Handler -> Hand] /\ reader' \in Reader /\ runtime' \in Build \cup {Unloaded}
      BY <2>4 DEF Crash, Hand, Reader
    <3>2. history' \in History /\ restarts' \in 0 .. MaxRestart
      BY <2>4, HistoryReset, PacketBoundsAssumption DEF Crash, TypeOK
    <3> QED BY <2>4, <3>1, <3>2 DEF TypeOK, Crash, outside, NoRun
  <2>5. ASSUME NEW h \in Handler, NEW p \in net, Receive(h, p) PROVE TypeOK'
    <3>1. p \in Packet
      BY DEF TypeOK
    <3>2. [Idle EXCEPT !.pc = "get", !.pkt = p] \in Hand
      <4>1. [Idle EXCEPT !.pc = "get", !.pkt = p]
              \in [pc: {"get"}, pkt: Packet, base: {Unloaded}, fresh: {FALSE}]
        BY <3>1 DEF Idle
      <4> QED BY <4>1 DEF Hand
    <3>3. hand' \in [Handler -> Hand]
      BY <2>5, <3>2 DEF Receive, TypeOK, To
    <3>4. (IF Admitted(p) THEN history ELSE Muted(p)) \in History
      BY <3>1, MutedTyped DEF TypeOK
    <3>5. history' \in History
      BY <2>5, <3>1, <3>4 DEF Receive, Greater, History, Packet
    <3> QED BY <2>5, <3>3, <3>5 DEF Receive, TypeOK, server, outside
  <2>6. ASSUME NEW h \in Handler, BeginGetState(h) PROVE TypeOK'
    <3>1. Taken.base \in Build /\ Taken.fresh \in BOOLEAN
      BY DEF TypeOK, Taken, Build, Unloaded
    <3>2. hand[h].pkt \in Packet
      BY <2>6, HandFields DEF BeginGetState
    <3>3. hand[h] \in [pc: {"get"}, pkt: Packet, base: {Unloaded}, fresh: {FALSE}]
      <4>1. hand[h] \in Hand /\ hand[h] # Idle
        BY <2>6 DEF BeginGetState, TypeOK, Idle
      <4> QED BY <2>6, <4>1 DEF BeginGetState, Hand, Steps
    <3>4. [hand[h] EXCEPT !.pc = "getting", !.base = Taken.base, !.fresh = Taken.fresh] \in Hand
      <4>1. [hand[h] EXCEPT !.pc = "getting", !.base = Taken.base, !.fresh = Taken.fresh]
              \in [pc: Steps, pkt: Packet, base: Build, fresh: BOOLEAN]
        BY <3>1, <3>3 DEF Steps
      <4> QED BY <4>1 DEF Hand
    <3> QED BY <2>6, <3>4 DEF BeginGetState, TypeOK, To, server, outside
  <2>7. ASSUME NEW h \in Handler, EndGetState(h) PROVE TypeOK'
    <3>1. hand[h].pkt \in Packet /\ hand[h].base \in Build /\ hand[h].pc \in Steps
      BY <2>7, HandFields DEF EndGetState
    <3>2. hand' \in [Handler -> Hand]
      BY <2>7, <3>1, StepTyped DEF EndGetState, Steps
    <3>3. Run(hand[h]) \in [sess: Nat, seq: Nat]
      BY DEF TypeOK, Run, NoRun
    <3>4. accepted' \in [sess: Nat, seq: Nat] /\ runtime' \in Build
      BY <2>7, <3>1, <3>3 DEF EndGetState, Stored, Packet
    <3>5. history' \in History
      BY <2>7, <3>1, MutedTyped DEF EndGetState, TypeOK
    <3> QED BY <2>7, <3>2, <3>4, <3>5 DEF EndGetState, TypeOK, outside
  <2>8. ASSUME NEW h \in Handler, ResetRuntimeForAcceptedRun(h) PROVE TypeOK'
    <3>1. [hand[h] EXCEPT !.pc = "apply", !.base = Roster] \in Hand
      <4>1. hand[h] \in [pc: Steps, pkt: Packet, base: Build, fresh: BOOLEAN]
        BY <2>8, HandFields DEF ResetRuntimeForAcceptedRun
      <4>2. [hand[h] EXCEPT !.pc = "apply", !.base = Roster]
              \in [pc: Steps, pkt: Packet, base: Build, fresh: BOOLEAN]
        BY <4>1 DEF Steps, Roster, Build
      <4> QED BY <4>2 DEF Hand
    <3> QED BY <2>8, <3>1 DEF ResetRuntimeForAcceptedRun, TypeOK, To, outside, Roster, Build, NoRun
  <2>9. ASSUME NEW h \in Handler, ApplyAdapterSnapshot(h) PROVE TypeOK'
    <3>1. hand[h].pkt \in Packet
      BY <2>9, HandFields DEF ApplyAdapterSnapshot
    <3>2. hand' \in [Handler -> Hand]
      BY <2>9, StepTyped DEF ApplyAdapterSnapshot, Steps
    <3>3. accepted' \in [sess: Nat, seq: Nat] /\ history' \in History
      BY <2>9, <3>1 DEF ApplyAdapterSnapshot, TypeOK, History, Packet, Greater
    <3> QED BY <2>9, <3>2, <3>3 DEF ApplyAdapterSnapshot, TypeOK, outside
  <2>10. ASSUME NEW h \in Handler, PersistState(h) PROVE TypeOK'
    <3>1. hand[h].pkt \in Packet
      BY <2>10, HandFields DEF PersistState
    <3>2. hand' \in [Handler -> Hand]
      BY <2>10, StepTyped DEF PersistState, Steps
    <3>3. snapshot' \in Build /\ history' \in History
      <4>1. From(hand[h].pkt) \in Build /\ [history EXCEPT !.unsaved = TRUE] \in History
        BY <3>1 DEF From, Packet, Build, TypeOK, History
      <4> QED BY <2>10, <4>1 DEF PersistState, TypeOK
    <3> QED BY <2>10, <3>2, <3>3 DEF PersistState, TypeOK, outside
  <2>11. ASSUME NEW h \in Handler, CommitTransition(h) PROVE TypeOK'
    <3>1. hand[h].pkt \in Packet
      BY <2>11, HandFields DEF CommitTransition
    <3>2. hand' \in [Handler -> Hand]
      BY <2>11, StepTyped DEF CommitTransition, Steps
    <3>3. From(hand[h].pkt) \in Build
      BY <3>1 DEF From, Packet, Build
    <3>4. runtime' \in Build /\ history' \in History
      BY <2>11, <3>3 DEF CommitTransition, TypeOK, History
    <3> QED BY <2>11, <3>2, <3>4 DEF CommitTransition, TypeOK, outside
  <2>12. ASSUME NEW h \in Handler, PersistIngressCursor(h) PROVE TypeOK'
    <3>1. hand[h].pkt \in Packet
      BY <2>12, HandFields DEF PersistIngressCursor
    <3>2. hand' \in [Handler -> Hand]
      BY <2>12, IdleTyped DEF PersistIngressCursor
    <3>3. cursor' \in [sess: Nat, seq: Nat, at: Nat]
      BY <2>12, <3>1, PacketBoundsAssumption DEF PersistIngressCursor, TypeOK, Packet
    <3>4. From(hand[h].pkt) \in Build
      BY <3>1 DEF From, Packet, Build
    <3>5. history' \in History
      BY <2>12, <3>4 DEF PersistIngressCursor, TypeOK, History
    <3> QED BY <2>12, <3>2, <3>3, <3>5 DEF PersistIngressCursor, TypeOK, outside
  <2>13. ASSUME NEW h \in Handler, Fail(h) PROVE TypeOK'
    <3>1. hand' \in [Handler -> Hand]
      BY <2>13, IdleTyped DEF Fail
    <3> QED BY <2>13, <3>1 DEF Fail, TypeOK, server, outside
  <2>14. CASE BeginRead
    <3>1. Taken.base \in Build /\ Taken.fresh \in BOOLEAN
      BY DEF TypeOK, Taken, Build, Unloaded
    <3>2. reader' \in [on: {TRUE}, base: Build, fresh: BOOLEAN]
      BY <2>14, <3>1 DEF BeginRead
    <3> QED BY <2>14, <3>2 DEF BeginRead, TypeOK, Reader, server, outside
  <2>15. CASE EndRead
    <3>1. reader \in [on: {TRUE}, base: Build, fresh: BOOLEAN]
      <4>1. reader \in Reader /\ reader # NotReading
        BY <2>15 DEF EndRead, TypeOK, NotReading
      <4> QED BY <4>1 DEF Reader
    <3>2. runtime' \in Build /\ accepted' \in [sess: Nat, seq: Nat]
      BY <2>15, <3>1 DEF EndRead, TypeOK, Stored, Run, NoRun
    <3> QED BY <2>15, <3>2 DEF EndRead, TypeOK, Reader, outside
  <2>16. CASE UNCHANGED vars
    BY <2>16 DEF TypeOK, vars, server, outside
  <2> QED
    BY <2>1, <2>2, <2>3, <2>4, <2>5, <2>6, <2>7, <2>8, <2>9, <2>10, <2>11, <2>12, <2>13,
       <2>14, <2>15, <2>16 DEF Next, Handle
<1> QED BY <1>1, <1>2, PTL DEF Spec

-----------------------------------------------------------------------------
(* The invariant.                                                          *)

Busy(h) == hand[h].pc # "idle"

\* A packet or a reader is in the server, and nothing else.
OneAtATime ==
  /\ \A h, g \in Handler : Busy(h) /\ Busy(g) => h = g
  /\ \A h \in Handler : Busy(h) => ~reader.on

\* What getState will store is what is there.
Copies ==
  /\ \A h \in Handler : hand[h].pc = "getting" => hand[h].base = Taken.base
  /\ reader.on => reader.base = Taken.base

\* The snapshot follows the memory, and the memory starts from the snapshot.
Saved ==
  /\ runtime = Unloaded => history.best = Roster
  /\ ~history.unsaved => /\ runtime.id > 0 => NoOlder(snapshot, runtime)
                         /\ NoOlder(snapshot, history.acked)
                         /\ \A h \in Handler : hand[h].pc = "commit" => snapshot = From(hand[h].pkt)

\* The states a packet must not be older than.
Known == {snapshot, history.best, history.acked}

Newer ==
  /\ \A h \in Handler, b \in Known : Busy(h) => NoOlder(From(hand[h].pkt), b)
  /\ \A b \in Known : b.sess <= session
  /\ \A p \in net : p.id <= sent /\ p.sess <= session
  /\ \A h \in Handler : Busy(h) => hand[h].pkt \in net

InOrder == world = "ordered" =>
  /\ \A b \in Known : b.id <= history.newest
  /\ \A h \in Handler : Busy(h) => hand[h].pkt.id <= history.newest

\* Without restarts the sequence numbers of a session are in the order of the
\* packets, and none sent after the cursor was written is behind it.
Numbered ==
  /\ \A p, q \in net : p.sess = q.sess /\ p.id >= q.id => p.seq >= q.seq
  /\ \A p \in net : p.sess \in 1 .. MaxSession /\ p.seq <= source[p.sess]
  /\ cursor.sess # 0 => cursor.sess \in 1 .. MaxSession /\ cursor.seq <= source[cursor.sess]
  /\ \A p \in net : p.sess = cursor.sess /\ p.id > cursor.at => p.seq > cursor.seq

\* A packet no older than b has the cursor.
Covered(b) == \E q \in net : /\ q.sess = b.sess /\ q.id >= b.id
                             /\ q.sess = cursor.sess /\ q.seq = cursor.seq

Delayed == world = "delayed" =>
  /\ Numbered
  /\ \A b \in Known : b.sess = session =>
       Covered(b) \/ \E h \in Handler : hand[h].pc \in {"commit", "cursor"} /\ b = From(hand[h].pkt)

Inv == TypeOK /\ OneAtATime /\ Copies /\ Saved /\ Newer /\ InOrder /\ Delayed

\* A step of a packet that is in the server.
Works(h) ==
  \/ BeginGetState(h) \/ EndGetState(h) \/ ResetRuntimeForAcceptedRun(h)
  \/ ApplyAdapterSnapshot(h) \/ PersistState(h) \/ CommitTransition(h)
  \/ PersistIngressCursor(h) \/ Fail(h)

\* A step of one handler leaves the others and its own packet alone.
LEMMA Worked ==
  ASSUME TypeOK, NEW h \in Handler, Works(h)
  PROVE  /\ Busy(h)
         /\ \A g \in Handler : g # h => hand'[g] = hand[g]
         /\ hand'[h].pc # "idle" => hand'[h].pkt = hand[h].pkt
         /\ UNCHANGED <<session, reader, source, sent, net, restarts, world>>
         /\ history'.newest = history.newest
<1>1. CASE BeginGetState(h)
  <2>1. hand[h] \in [pc: {"get"}, pkt: Packet, base: {Unloaded}, fresh: {FALSE}]
    <3>1. hand[h] \in Hand /\ hand[h] # Idle
      BY <1>1 DEF BeginGetState, TypeOK, Idle
    <3> QED BY <1>1, <3>1 DEF BeginGetState, Hand, Steps
  <2> QED BY <1>1, <2>1 DEF BeginGetState, TypeOK, To, Busy, outside, server
<1>2. CASE ~BeginGetState(h) /\ Works(h)
  <2>1. hand[h].pc # "get" /\ hand[h].pc # "idle" => 
          hand[h] \in [pc: Steps, pkt: Packet, base: Build, fresh: BOOLEAN]
    BY HandFields
  <2>2. history \in History /\ hand \in [Handler -> Hand]
    BY DEF TypeOK
  <2>3. CASE EndGetState(h)
    <3>1. history'.newest = history.newest
      BY <2>2, <2>3 DEF EndGetState, Muted, History
    <3>2. \E s \in Steps : Step(h, s)
      BY <2>3 DEF EndGetState, Steps
    <3> QED BY <2>1, <2>2, <2>3, <3>1, <3>2 DEF EndGetState, Step, To, Busy, outside
  <2>4. CASE ResetRuntimeForAcceptedRun(h)
    BY <2>1, <2>2, <2>4 DEF ResetRuntimeForAcceptedRun, To, Busy, outside
  <2>5. CASE ApplyAdapterSnapshot(h)
    BY <2>1, <2>2, <2>5 DEF ApplyAdapterSnapshot, Step, To, Busy, outside, History
  <2>6. CASE PersistState(h)
    BY <2>1, <2>2, <2>6 DEF PersistState, Step, To, Busy, outside, History
  <2>7. CASE CommitTransition(h)
    BY <2>1, <2>2, <2>7 DEF CommitTransition, Step, To, Busy, outside, History
  <2>8. CASE PersistIngressCursor(h)
    BY <2>2, <2>8 DEF PersistIngressCursor, To, Busy, outside, History, Idle
  <2>9. CASE Fail(h)
    BY <2>2, <2>9 DEF Fail, To, Busy, outside, server, Idle
  <2> QED BY <1>2, <2>3, <2>4, <2>5, <2>6, <2>7, <2>8, <2>9 DEF Works
<1> QED BY <1>1, <1>2

\* Nobody else is in the server then.
LEMMA Solo ==
  ASSUME OneAtATime, NEW h \in Handler, Busy(h)
  PROVE  ~reader.on /\ \A g \in Handler : g # h => ~Busy(g)
BY DEF OneAtATime

\* Where packets come one at a time, a quiet server holds none.
LEMMA QuietIsIdle ==
  ASSUME world # "overlap", Alone
  PROVE  ~reader.on /\ \A h \in Handler : ~Busy(h)
BY DEF Alone, Quiet, Busy, Idle, NotReading

\* No step makes two handlers or readers work at once.
LEMMA OneAtATimeKept ==
  ASSUME TypeOK, OneAtATime, world # "overlap", [Next]_vars
  PROVE  OneAtATime'
<1>1. ASSUME NEW h \in Handler, NEW p \in net, Receive(h, p) PROVE OneAtATime'
  <2>1. ~reader.on /\ \A g \in Handler : ~Busy(g)
    BY <1>1, QuietIsIdle DEF Receive
  <2>2. \A g \in Handler : g # h => hand'[g] = hand[g]
    BY <1>1 DEF Receive, TypeOK, To
  <2> QED BY <1>1, <2>1, <2>2 DEF Receive, OneAtATime, Busy
<1>2. ASSUME NEW h \in Handler, Works(h) PROVE OneAtATime'
  BY <1>2, Worked, Solo DEF OneAtATime, Busy
<1>3. CASE BeginRead
  BY <1>3, QuietIsIdle DEF BeginRead, OneAtATime, Busy
<1>4. CASE EndRead
  BY <1>4 DEF EndRead, OneAtATime, Busy, NotReading
<1>5. CASE Crash
  BY <1>5 DEF Crash, OneAtATime, Busy, Idle
<1>6. CASE UNCHANGED <<hand, reader>>
  BY <1>6 DEF OneAtATime, Busy
<1> QED
  BY <1>1, <1>2, <1>3, <1>4, <1>5, <1>6
     DEF Next, Handle, Works, Send, RestartSource, HandleAlreadyLiveStart, vars

\* What a handler copied of the runtime stays what the engine holds.
LEMMA CopiesKept ==
  ASSUME TypeOK, OneAtATime, Copies, world # "overlap", [Next]_vars
  PROVE  Copies'
<1>1. ASSUME NEW h \in Handler, NEW p \in net, Receive(h, p) PROVE Copies'
  <2>1. ~reader.on /\ \A g \in Handler : ~Busy(g)
    BY <1>1, QuietIsIdle DEF Receive
  <2>2. \A g \in Handler : hand'[g].pc \in {"idle", "get"}
    BY <1>1, <2>1 DEF Receive, TypeOK, To, Busy, Idle
  <2> QED BY <1>1, <2>1, <2>2 DEF Receive, Copies
<1>2. ASSUME NEW h \in Handler, Works(h) PROVE Copies'
  <2>1. ~reader'.on /\ \A g \in Handler : g # h => hand'[g].pc = "idle"
    BY <1>2, Worked, Solo DEF Busy
  <2>2. hand'[h].pc = "getting" => BeginGetState(h)
    <3>1. \A s \in {"reset", "apply", "cursor", "persist", "commit"} : s # "getting"
      OBVIOUS
    <3>2. SUFFICES ASSUME ~BeginGetState(h) PROVE hand'[h].pc # "getting"
      OBVIOUS
    <3>3. \A s \in Steps : Step(h, s) /\ hand[h].pc \notin {"get", "idle"} => hand'[h].pc = s
      BY HandFields DEF Step, To, TypeOK
    <3>4. To(h, Idle) => hand'[h].pc = "idle"
      BY DEF To, TypeOK, Idle
    <3>5. ResetRuntimeForAcceptedRun(h) => hand'[h].pc = "apply"
      BY HandFields DEF ResetRuntimeForAcceptedRun, To, TypeOK
    <3> QED BY <1>2, <3>2, <3>3, <3>4, <3>5
            DEF Works, EndGetState, ApplyAdapterSnapshot, PersistState, CommitTransition,
                PersistIngressCursor, Fail, Steps
  <2>3. BeginGetState(h) => hand'[h].base = Taken'.base
    <3> SUFFICES ASSUME BeginGetState(h) PROVE hand'[h].base = Taken'.base
      OBVIOUS
    <3>1. hand[h] \in [pc: {"get"}, pkt: Packet, base: {Unloaded}, fresh: {FALSE}]
      <4>1. hand[h] \in Hand /\ hand[h] # Idle
        BY DEF BeginGetState, TypeOK, Idle
      <4> QED BY <4>1 DEF BeginGetState, Hand, Steps
    <3>2. Taken' = Taken
      BY DEF BeginGetState, Taken, server
    <3> QED BY <3>1, <3>2 DEF BeginGetState, TypeOK, To
  <2> QED BY <2>1, <2>2, <2>3 DEF Copies
<1>3. CASE BeginRead
  <2>1. Taken' = Taken /\ hand' = hand
    BY <1>3 DEF BeginRead, server, Taken
  <2> QED BY <1>3, <2>1 DEF BeginRead, Copies
<1>4. CASE EndRead
  <2>1. \A g \in Handler : hand'[g].pc # "getting"
    BY <1>4 DEF EndRead, OneAtATime, Busy
  <2> QED BY <1>4, <2>1 DEF EndRead, Copies, NotReading
<1>5. CASE Crash
  BY <1>5 DEF Crash, Copies, Idle, NotReading
<1>6. CASE UNCHANGED <<hand, reader, runtime, snapshot>>
  BY <1>6 DEF Copies, Taken
<1> QED
  BY <1>1, <1>2, <1>3, <1>4, <1>5, <1>6
     DEF Next, Handle, Works, Send, RestartSource, HandleAlreadyLiveStart, vars, server

\* Being no older is a preorder on runtimes, the roster its least.
LEMMA NoOlderIsOrder ==
  ASSUME NEW a \in Build, NEW b \in Build, NEW c \in Build
  PROVE  /\ NoOlder(a, a)
         /\ NoOlder(c, b) /\ NoOlder(b, a) => NoOlder(c, a)
         /\ NoOlder(a, Roster)
BY DEF NoOlder, Build, Roster

\* The runtimes the server knows of, stored or in hand, are typed.
LEMMA KnownTyped ==
  ASSUME TypeOK
  PROVE  /\ Known \subseteq Build
         /\ \A h \in Handler : Busy(h) => /\ hand[h].pkt \in Packet
                                          /\ From(hand[h].pkt) \in Build
                                          /\ From(hand[h].pkt).id = hand[h].pkt.id
                                          /\ From(hand[h].pkt).id > 0
                                          /\ From(hand[h].pkt).sess = hand[h].pkt.sess
<1>1. Known \subseteq Build
  BY DEF Known, TypeOK, History
<1>2. \A h \in Handler : Busy(h) => hand[h].pkt \in Packet
  BY HandFields DEF Busy
<1> QED BY <1>1, <1>2 DEF From, Packet, Build

\* What each step leaves of the states in Known.
LEMMA KnownSteps ==
  ASSUME TypeOK, [Next]_vars
  PROVE  /\ snapshot' = snapshot \/ \E h \in Handler : PersistState(h) /\ snapshot' = From(hand[h].pkt)
         /\ \/ history'.best \in {history.best, Roster}
            \/ \E h \in Handler : CommitTransition(h) /\ history'.best = From(hand[h].pkt)
         /\ \/ history'.acked = history.acked
            \/ \E h \in Handler : PersistIngressCursor(h) /\ history'.acked = From(hand[h].pkt)
         /\ history.unsaved => history'.unsaved
<1>1. history \in History
  BY DEF TypeOK
<1>2. \A p : Muted(p).best = history.best /\ Muted(p).acked = history.acked
                                          /\ Muted(p).unsaved = history.unsaved
  BY <1>1 DEF Muted, History
<1>3. ASSUME NEW h \in Handler, NEW p \in net, Receive(h, p)
      PROVE  /\ history'.best = history.best /\ history'.acked = history.acked
             /\ history'.unsaved = history.unsaved
  <2>1. p \in Packet
    BY DEF TypeOK
  <2>2. (IF Admitted(p) THEN history ELSE Muted(p)) \in History
    BY <1>1, <2>1, MutedTyped
  <2> QED BY <1>1, <1>2, <1>3, <2>2 DEF Receive, History
<1>4. ASSUME NEW h \in Handler, EndGetState(h)
      PROVE  /\ history'.best = history.best /\ history'.acked = history.acked
             /\ history'.unsaved = history.unsaved
  BY <1>2, <1>4 DEF EndGetState
<1> QED
  BY <1>1, <1>3, <1>4
     DEF Next, Handle, Send, RestartSource, HandleAlreadyLiveStart, Crash, Receive, BeginGetState,
         EndGetState, ResetRuntimeForAcceptedRun, ApplyAdapterSnapshot, PersistState,
         CommitTransition, PersistIngressCursor, Fail, BeginRead, EndRead, History, vars, server

\* A packet that is let in is no older than anything known.
LEMMA ReceivedIsNewer ==
  ASSUME Inv, world \in {"delayed", "ordered"},
         NEW h \in Handler, NEW p \in net, Receive(h, p), Admitted(p),
         NEW b \in Known
  PROVE  NoOlder(From(p), b)
<1>1. p \in Packet /\ b \in Build
  BY KnownTyped DEF Inv, TypeOK
<1>2. b.sess <= p.sess
  BY DEF Inv, Newer, Admitted
<1>3. ASSUME b.sess = p.sess PROVE b.id <= p.id
  <2>1. CASE world = "ordered"
    <3>1. b.id <= history.newest /\ history.newest <= p.id
      BY <2>1 DEF Inv, InOrder, Receive
    <3>2. history.newest \in Nat
      BY DEF Inv, TypeOK, History
    <3> QED BY <1>1, <3>1, <3>2 DEF Packet, Build
  <2>2. CASE world = "delayed"
    <3>0. Numbered
      BY <2>2 DEF Inv, Delayed
    <3>1. \A g \in Handler : ~Busy(g)
      BY <2>2, QuietIsIdle DEF Receive
    <3>2. Covered(b)
      BY <1>3, <2>2, <3>1 DEF Inv, Delayed, Busy, Admitted
    <3>3. PICK q \in net : q.sess = b.sess /\ q.id >= b.id /\ q.sess = cursor.sess /\ q.seq = cursor.seq
      BY <3>2 DEF Covered
    <3>4. q \in Packet
      BY DEF Inv, TypeOK
    <3>5. p.seq > cursor.seq
      <4>1. CASE p.seq > cursor.seq
        BY <4>1
      <4>2. CASE ShouldResetIngressCursor(p)
        BY <1>3, <3>0, <3>3, <4>2 DEF ShouldResetIngressCursor, Numbered
      <4> QED BY <1>3, <3>3, <4>1, <4>2 DEF Admitted
    <3>6. ~(q.id >= p.id)
      <4>1. q.id >= p.id => q.seq >= p.seq
        BY <1>3, <3>0, <3>3 DEF Numbered
      <4>2. ~(q.seq >= p.seq)
        BY <1>1, <3>3, <3>4, <3>5 DEF Packet
      <4> QED BY <4>1, <4>2
    <3> QED BY <1>1, <3>3, <3>4, <3>6 DEF Packet, Build
  <2> QED BY <2>1, <2>2
<1> QED BY <1>1, <1>2, <1>3 DEF NoOlder, From, Packet, Build

\* Who may change the session, the network and the world.
LEMMA OutsideSteps ==
  ASSUME TypeOK, [Next]_vars
  PROVE  /\ session' = session \/ HandleAlreadyLiveStart
         /\ (net' = net /\ sent' = sent) \/ \E s \in 1 .. MaxSession : Send(s)
         /\ world' = world
<1>1. ASSUME NEW h \in Handler, Works(h) PROVE UNCHANGED <<session, net, sent, world>>
  BY <1>1, Worked
<1> QED
  BY <1>1 DEF Next, Handle, Works, Send, RestartSource, HandleAlreadyLiveStart, Crash, Receive,
     BeginRead, EndRead, vars, server, outside

\* Whoever is in the server after a step was there before, or has just come.
LEMMA HandSteps ==
  ASSUME TypeOK, world # "overlap", [Next]_vars, NEW g \in Handler, hand'[g].pc # "idle"
  PROVE  \/ Busy(g) /\ hand'[g].pkt = hand[g].pkt
         \/ /\ \A h \in Handler : ~Works(h)
            /\ \E p \in net : Receive(g, p) /\ Admitted(p) /\ hand'[g].pkt = p
<1>1. ASSUME NEW h \in Handler, NEW p \in net, Receive(h, p)
      PROVE  \/ Busy(g) /\ hand'[g].pkt = hand[g].pkt
             \/ /\ \A k \in Handler : ~Works(k)
                /\ Receive(g, p) /\ Admitted(p) /\ hand'[g].pkt = p
  <2>1. \A k \in Handler : ~Works(k)
    BY <1>1, QuietIsIdle, Worked DEF Receive
  <2>2. CASE g = h /\ Admitted(p)
    BY <1>1, <2>1, <2>2 DEF Receive, TypeOK, To, Idle
  <2>3. CASE g # h \/ ~Admitted(p)
    BY <1>1, <2>3 DEF Receive, TypeOK, To, Busy
  <2> QED BY <2>2, <2>3
<1>2. ASSUME NEW h \in Handler, Works(h) PROVE Busy(g) /\ hand'[g].pkt = hand[g].pkt
  BY <1>2, Worked DEF Busy
<1>3. CASE UNCHANGED hand
  BY <1>3 DEF Busy
<1>4. CASE Crash
  BY <1>4 DEF Crash, Idle
<1> QED
  BY <1>1, <1>2, <1>3, <1>4
     DEF Next, Handle, Works, Send, RestartSource, HandleAlreadyLiveStart, BeginRead, EndRead, vars

\* A step adds only the roster or the packet at work to the runtimes known.
LEMMA NewKnown ==
  ASSUME TypeOK, [Next]_vars, NEW b \in Known'
  PROVE  b \in Known \cup {Roster} \/ \E h \in Handler : Works(h) /\ b = From(hand[h].pkt)
BY KnownSteps DEF Known, Works

\* No step makes a runtime known that is newer than what was sent.
LEMMA NewerKept ==
  ASSUME Inv, world \in {"delayed", "ordered"}, [Next]_vars
  PROVE  Newer'
<1> USE DEF Inv
<1>2. net \subseteq net' /\ session <= session' /\ session \in Nat /\ session' \in Nat
  <2>1. session \in Nat
    BY PacketBoundsAssumption DEF TypeOK
  <2>2. session' \in {session, session + 1}
    BY OutsideSteps DEF HandleAlreadyLiveStart
  <2>3. net \subseteq net'
    BY OutsideSteps DEF Send
  <2> QED BY <2>1, <2>2, <2>3
<1>1. \A p \in net' : p.id <= sent' /\ p.sess <= session'
  <2>1. sent \in Nat /\ \A p \in net : p \in Packet
    BY PacketBoundsAssumption DEF TypeOK
  <2>2. ASSUME NEW s \in 1 .. MaxSession, Send(s) PROVE \A p \in net' : p.id <= sent' /\ p.sess <= session'
    BY <1>2, <2>1, <2>2 DEF Send, Newer, Packet, server
  <2>3. CASE net' = net /\ sent' = sent
    BY <1>2, <2>1, <2>3 DEF Newer, Packet
  <2> QED BY <2>2, <2>3, OutsideSteps
<1>3. \A g \in Handler : Busy(g)' => hand'[g].pkt \in net'
  BY <1>2, HandSteps DEF Newer, Busy
<1>4. ASSUME NEW b \in Known' PROVE b.sess <= session'
  <2>1. CASE b \in Known
    <3>1. b.sess <= session /\ b.sess \in Nat
      BY <2>1, KnownTyped DEF Newer, Build
    <3> QED BY <1>2, <3>1
  <2>2. CASE b = Roster
    BY <1>2, <2>2 DEF Roster
  <2>3. ASSUME NEW h \in Handler, Works(h), b = From(hand[h].pkt) PROVE b.sess <= session'
    <3>1. hand[h].pkt \in net /\ hand[h].pkt \in Packet /\ b.sess = hand[h].pkt.sess
      BY <2>3, Worked, KnownTyped DEF Newer
    <3>2. b.sess <= session /\ b.sess \in Nat
      BY <3>1 DEF Newer, Packet
    <3> QED BY <1>2, <3>2
  <2> QED BY <2>1, <2>2, <2>3, NewKnown
<1>5. ASSUME NEW g \in Handler, Busy(g)', NEW b \in Known'
      PROVE  NoOlder(From(hand'[g].pkt), b)
  <2>1. ASSUME Busy(g), hand'[g].pkt = hand[g].pkt PROVE NoOlder(From(hand'[g].pkt), b)
    <3>1. From(hand[g].pkt) \in Build
      BY <2>1, KnownTyped
    <3>2. CASE b \in Known
      BY <2>1, <3>2 DEF Newer
    <3>3. CASE b = Roster
      BY <2>1, <3>1, <3>3, NoOlderIsOrder
    <3>4. ASSUME NEW h \in Handler, Works(h), b = From(hand[h].pkt) PROVE NoOlder(From(hand'[g].pkt), b)
      <4>1. h = g
        BY <2>1, <3>4, Worked DEF OneAtATime
      <4> QED BY <2>1, <3>1, <3>4, <4>1, NoOlderIsOrder
    <3> QED BY <3>2, <3>3, <3>4, NewKnown
  <2>2. ASSUME \A h \in Handler : ~Works(h),
               NEW p \in net, Receive(g, p), Admitted(p), hand'[g].pkt = p
        PROVE  NoOlder(From(hand'[g].pkt), b)
    <3>1. From(p) \in Build
      BY DEF TypeOK, Packet, From, Build
    <3>2. CASE b \in Known
      BY <2>2, <3>2, ReceivedIsNewer
    <3>3. CASE b = Roster
      BY <2>2, <3>1, <3>3, NoOlderIsOrder
    <3> QED BY <2>2, <3>2, <3>3, NewKnown
  <2> QED BY <1>5, <2>1, <2>2, HandSteps DEF Busy
<1> QED BY <1>1, <1>3, <1>4, <1>5 DEF Newer

\* With packets in order, no step stores a runtime older than an applied one.
LEMMA InOrderKept ==
  ASSUME Inv, world \in {"delayed", "ordered"}, [Next]_vars
  PROVE  InOrder'
<1> USE DEF Inv
<1>1. SUFFICES ASSUME world = "ordered"
               PROVE  /\ \A b \in Known' : b.id <= history'.newest
                      /\ \A h \in Handler : Busy(h)' => hand'[h].pkt.id <= history'.newest
  BY OutsideSteps DEF InOrder
<1>2. history.newest \in Nat /\ history'.newest \in Nat /\ history.newest <= history'.newest
      /\ \A h \in Handler, p \in net : Receive(h, p) => p.id <= history'.newest
  <2>1. history \in History
    BY DEF TypeOK
  <2>2. ASSUME NEW h \in Handler, NEW p \in net, Receive(h, p)
        PROVE  history'.newest = Greater(history.newest, p.id)
    <3>1. Muted(p).newest = history.newest
      BY <2>1 DEF Muted, History
    <3>2. (IF Admitted(p) THEN history ELSE Muted(p)) \in History
      BY <2>1, MutedTyped DEF TypeOK
    <3> QED BY <2>2, <3>1, <3>2 DEF Receive, History
  <2>3. ASSUME NEW h \in Handler, NEW p \in net, Receive(h, p)
        PROVE  history'.newest \in Nat /\ history.newest <= history'.newest /\ p.id <= history'.newest
    BY <2>1, <2>2, <2>3 DEF TypeOK, Packet, Greater, History
  <2>4. (\A h \in Handler, p \in net : ~Receive(h, p)) => history'.newest = history.newest
    <3>1. ASSUME NEW h \in Handler, Works(h) PROVE history'.newest = history.newest
      BY <3>1, Worked
    <3>2. CASE RestartSource \/ HandleAlreadyLiveStart \/ Crash
      BY <2>1, <3>2 DEF RestartSource, HandleAlreadyLiveStart, Crash, History
    <3>3. CASE UNCHANGED history
      BY <3>3
    <3> QED BY <3>1, <3>2, <3>3 DEF Next, Handle, Works, Send, BeginRead, EndRead, vars
  <2> QED BY <2>1, <2>3, <2>4 DEF History
<1>3. ASSUME NEW b \in Known' PROVE b.id <= history'.newest
  <2>1. CASE b \in Known
    <3>1. b.id <= history.newest /\ b.id \in Nat
      BY <1>1, <2>1, KnownTyped DEF InOrder, Build
    <3> QED BY <1>2, <3>1
  <2>2. CASE b = Roster
    BY <1>2, <2>2 DEF Roster
  <2>3. ASSUME NEW h \in Handler, Works(h), b = From(hand[h].pkt) PROVE b.id <= history'.newest
    <3>1. hand[h].pkt \in Packet /\ b.id = hand[h].pkt.id /\ hand[h].pkt.id <= history.newest
      BY <1>1, <2>3, Worked, KnownTyped DEF InOrder
    <3> QED BY <1>2, <3>1 DEF Packet
  <2> QED BY <2>1, <2>2, <2>3, NewKnown
<1>4. ASSUME NEW g \in Handler, Busy(g)' PROVE hand'[g].pkt.id <= history'.newest
  <2>1. CASE Busy(g) /\ hand'[g].pkt = hand[g].pkt
    <3>1. hand[g].pkt \in Packet /\ hand[g].pkt.id <= history.newest
      BY <1>1, <2>1, KnownTyped DEF InOrder
    <3> QED BY <1>2, <2>1, <3>1 DEF Packet
  <2> QED BY <1>2, <1>4, <2>1, HandSteps DEF Busy
<1> QED BY <1>3, <1>4

\* The program location after each step of a packet in the server.
LEMMA Locations ==
  ASSUME TypeOK, NEW h \in Handler, Works(h)
  PROVE  /\ BeginGetState(h) => hand'[h].pc = "getting"
         /\ EndGetState(h) => hand'[h].pc \in {"reset", "apply", "cursor"}
         /\ ResetRuntimeForAcceptedRun(h) => hand'[h].pc = "apply"
         /\ ApplyAdapterSnapshot(h) => hand'[h].pc \in {"persist", "cursor"}
         /\ PersistState(h) => hand'[h].pc = "commit"
         /\ CommitTransition(h) => hand'[h].pc = "cursor"
         /\ PersistIngressCursor(h) \/ Fail(h) => hand'[h].pc = "idle"
<1>1. \A s \in Steps : Step(h, s) /\ hand[h].pc \notin {"get", "idle"} => hand'[h].pc = s
  BY HandFields DEF Step, To, TypeOK
<1>2. To(h, Idle) => hand'[h].pc = "idle"
  BY DEF To, TypeOK, Idle
<1>3. ResetRuntimeForAcceptedRun(h) => hand'[h].pc = "apply"
  BY HandFields DEF ResetRuntimeForAcceptedRun, To, TypeOK
<1>4. BeginGetState(h) => hand'[h].pc = "getting"
  <2> SUFFICES ASSUME BeginGetState(h) PROVE hand'[h].pc = "getting"
    OBVIOUS
  <2>1. hand[h] \in Hand /\ hand[h] # Idle
    BY DEF BeginGetState, TypeOK, Idle
  <2>2. hand[h] \in [pc: {"get"}, pkt: Packet, base: {Unloaded}, fresh: {FALSE}]
    BY <2>1 DEF BeginGetState, Hand, Steps
  <2> QED BY <2>2 DEF BeginGetState, TypeOK, To
<1> QED
  BY <1>1, <1>2, <1>3, <1>4
     DEF EndGetState, ApplyAdapterSnapshot, PersistState, CommitTransition,
         PersistIngressCursor, Fail, Steps

\* Taking a packet in changes nothing but the handler's hand and the history.
LEMMA Received ==
  ASSUME TypeOK, world # "overlap", NEW h \in Handler, NEW p \in net, Receive(h, p)
  PROVE  /\ ~reader.on
         /\ \A g \in Handler : ~Busy(g) /\ ~Works(g) /\ hand'[g].pc \in {"idle", "get"}
         /\ UNCHANGED <<session, cursor, snapshot, runtime, source, sent, net>>
         /\ UNCHANGED <<history.best, history.acked, history.unsaved>>
<1>1. ~reader.on /\ \A g \in Handler : ~Busy(g)
  BY QuietIsIdle DEF Receive
<1>2. \A g \in Handler : ~Works(g)
  BY <1>1, Worked
<1>3. [Idle EXCEPT !.pc = "get", !.pkt = p].pc = "get"
  BY DEF Idle
<1>4. \A g \in Handler : hand'[g].pc \in {"idle", "get"}
  BY <1>1, <1>3 DEF Receive, TypeOK, To, Busy
<1>5. history \in History /\ p \in Packet
  BY DEF TypeOK
<1>6. (IF Admitted(p) THEN history ELSE Muted(p)) \in History
  BY <1>5, MutedTyped
<1>7. Muted(p).best = history.best /\ Muted(p).acked = history.acked
                                   /\ Muted(p).unsaved = history.unsaved
  BY <1>5 DEF Muted, History
<1>8. UNCHANGED <<history.best, history.acked, history.unsaved>>
  BY <1>6, <1>7 DEF Receive, History
<1> QED BY <1>1, <1>2, <1>4, <1>8 DEF Receive, server, outside

\* No step acknowledges a packet whose runtime is not in the snapshot.
LEMMA SavedKept ==
  ASSUME Inv, world \in {"delayed", "ordered"}, [Next]_vars
  PROVE  Saved'
<1> USE DEF Inv
<1>1. snapshot \in Build /\ history \in History /\ history.acked \in Build /\ history.best \in Build
      /\ (runtime # Unloaded => runtime \in Build) /\ Unloaded \notin Build /\ Unloaded.id = -1
  BY DEF TypeOK, History, Build, Unloaded
<1>2. ASSUME UNCHANGED <<snapshot, runtime, history.best, history.acked, history.unsaved>>,
             \A g \in Handler : hand'[g].pc # "commit"
      PROVE  Saved'
  BY <1>2 DEF Saved
<1>3. ASSUME NEW h \in Handler, Works(h)
      PROVE  \A g \in Handler : g # h => hand'[g].pc = "idle"
  BY <1>3, Worked, Solo DEF Busy
<1>4. CASE UNCHANGED <<snapshot, runtime, hand, history.best, history.acked, history.unsaved>>
  BY <1>4 DEF Saved
<1>5. ASSUME NEW h \in Handler, NEW p \in net, Receive(h, p) PROVE Saved'
  BY <1>2, <1>5, Received
<1>6. ASSUME NEW h \in Handler, BeginGetState(h) \/ ApplyAdapterSnapshot(h) \/ Fail(h) PROVE Saved'
  <2>1. UNCHANGED <<snapshot, runtime, history.best, history.acked, history.unsaved>>
    BY <1>1, <1>6 DEF BeginGetState, ApplyAdapterSnapshot, Fail, server, History
  <2>2. \A g \in Handler : hand'[g].pc # "commit"
    BY <1>3, <1>6, Locations DEF Works
  <2> QED BY <1>2, <2>1, <2>2
<1>7. ASSUME NEW b \in {runtime, snapshot}, runtime = Unloaded => b = snapshot, b \in Build,
             runtime' = b, UNCHANGED <<snapshot, history.best, history.acked, history.unsaved>>,
             \A g \in Handler : hand'[g].pc # "commit"
      PROVE  Saved'
  BY <1>1, <1>7, NoOlderIsOrder DEF Saved
<1>8. ASSUME NEW h \in Handler, EndGetState(h) PROVE Saved'
  <2>1. hand[h].base \in {runtime, snapshot} /\ (runtime = Unloaded => hand[h].base = snapshot)
    BY <1>8 DEF EndGetState, Copies, Taken
  <2>2. hand[h].base \in Build
    BY <1>8, HandFields DEF EndGetState
  <2>3. UNCHANGED <<snapshot, history.best, history.acked, history.unsaved>>
    <3>1. \A p : Muted(p).best = history.best /\ Muted(p).acked = history.acked
                                              /\ Muted(p).unsaved = history.unsaved
      BY <1>1 DEF Muted, History
    <3> QED BY <1>8, <3>1 DEF EndGetState
  <2>4. \A g \in Handler : hand'[g].pc # "commit"
    BY <1>3, <1>8, Locations DEF Works
  <2> QED BY <1>7, <1>8, <2>1, <2>2, <2>3, <2>4 DEF EndGetState, Stored
<1>9. CASE EndRead
  <2>1. reader \in Reader /\ reader # NotReading
    BY <1>9 DEF EndRead, TypeOK, NotReading
  <2>2. reader.base \in Build
    BY <2>1 DEF Reader
  <2>3. reader.base \in {runtime, snapshot} /\ (runtime = Unloaded => reader.base = snapshot)
    BY <1>9 DEF EndRead, Copies, Taken
  <2>4. \A g \in Handler : hand'[g].pc # "commit"
    BY <1>9 DEF EndRead, OneAtATime, Busy
  <2> QED BY <1>7, <1>9, <2>2, <2>3, <2>4 DEF EndRead, Stored
<1>10. ASSUME NEW h \in Handler, ResetRuntimeForAcceptedRun(h) PROVE Saved'
  <2>1. \A g \in Handler : hand'[g].pc # "commit"
    BY <1>3, <1>10, Locations DEF Works
  <2> QED BY <1>1, <1>10, <2>1 DEF ResetRuntimeForAcceptedRun, Saved, Roster, Unloaded
<1>11. ASSUME NEW h \in Handler, PersistState(h) PROVE Saved'
  <2>1. /\ Busy(h) /\ hand'[h].pkt = hand[h].pkt
        /\ \A g \in Handler : g # h => hand'[g].pc = "idle"
    BY <1>3, <1>11, Worked, Locations DEF Works, Busy
  <2>2. UNCHANGED <<runtime, history.best, history.acked>>
    BY <1>1, <1>11 DEF PersistState, History
  <2>3. CASE history'.unsaved
    BY <2>2, <2>3 DEF Saved
  <2>4. CASE ~history'.unsaved
    <3>1. snapshot' = From(hand[h].pkt) /\ ~history.unsaved
      BY <1>1, <1>11, <2>4 DEF PersistState, History
    <3>2. From(hand[h].pkt) \in Build /\ NoOlder(From(hand[h].pkt), snapshot)
      BY <2>1, KnownTyped DEF Newer, Known
    <3>3. NoOlder(snapshot', history.acked)
      BY <1>1, <3>1, <3>2, NoOlderIsOrder DEF Saved
    <3>4. runtime.id > 0 => NoOlder(snapshot', runtime)
      <4> SUFFICES ASSUME runtime.id > 0 PROVE NoOlder(snapshot', runtime)
        OBVIOUS
      <4>1. runtime \in Build
        BY <1>1
      <4> QED BY <1>1, <3>1, <3>2, <4>1, NoOlderIsOrder DEF Saved
    <3> QED BY <2>1, <2>2, <3>1, <3>3, <3>4 DEF Saved
  <2> QED BY <2>3, <2>4
<1>12. ASSUME NEW h \in Handler, CommitTransition(h) PROVE Saved'
  <2>1. From(hand[h].pkt) \in Build
    BY <1>12, KnownTyped DEF CommitTransition, Busy
  <2>2. \A g \in Handler : hand'[g].pc # "commit"
    BY <1>3, <1>12, Locations DEF Works
  <2>3. UNCHANGED <<snapshot, history.acked, history.unsaved>> /\ runtime' = From(hand[h].pkt)
    BY <1>1, <1>12 DEF CommitTransition, History
  <2>4. runtime' # Unloaded
    BY <1>1, <2>1, <2>3
  <2>5. ~history.unsaved => NoOlder(snapshot', runtime')
    BY <1>12, <2>1, <2>3, NoOlderIsOrder DEF CommitTransition, Saved
  <2> QED BY <2>2, <2>3, <2>4, <2>5 DEF Saved
<1>13. ASSUME NEW h \in Handler, PersistIngressCursor(h) PROVE Saved'
  <2>1. UNCHANGED <<snapshot, runtime, history.best, history.unsaved>>
        /\ history'.acked \in {history.acked, runtime}
        /\ (history'.acked = runtime => history.acked = runtime \/ runtime = From(hand[h].pkt))
    BY <1>1, <1>13 DEF PersistIngressCursor, History
  <2>2. From(hand[h].pkt).id > 0
    BY <1>13, KnownTyped DEF PersistIngressCursor, Busy
  <2>3. \A g \in Handler : hand'[g].pc # "commit"
    BY <1>3, <1>13, Locations DEF Works
  <2> QED BY <2>1, <2>2, <2>3 DEF Saved
<1>14. CASE Crash
  <2>1. \A g \in Handler : hand'[g].pc = "idle"
    BY <1>14 DEF Crash, Idle
  <2> QED BY <1>1, <1>14, <2>1 DEF Crash, Saved, History
<1>15. CASE RestartSource \/ HandleAlreadyLiveStart \/ BeginRead
  BY <1>1, <1>4, <1>15 DEF RestartSource, HandleAlreadyLiveStart, BeginRead, server, History
<1>16. ASSUME NEW s \in 1 .. MaxSession, Send(s) PROVE Saved'
  BY <1>4, <1>16 DEF Send, server
<1> QED
  BY <1>4, <1>5, <1>6, <1>8, <1>9, <1>10, <1>11, <1>12, <1>13, <1>14, <1>15, <1>16
     DEF Next, Handle, vars, server

\* With delayed packets, sequences keep following the order of sending.
LEMMA NumberedKept ==
  ASSUME Inv, world = "delayed", [Next]_vars
  PROVE  Numbered'
<1> USE DEF Inv
<1>1. Numbered
  BY DEF Delayed
<1>2. sent \in Nat /\ source \in [1 .. MaxSession -> Nat] /\ (\A p \in net : p \in Packet)
  BY PacketBoundsAssumption DEF TypeOK
<1>3. CASE UNCHANGED <<net, source, cursor>>
  BY <1>1, <1>3 DEF Numbered
<1>4. ASSUME NEW s \in 1 .. MaxSession, Send(s) PROVE Numbered'
  <2> DEFINE new == [id |-> sent + 1, sess |-> s, seq |-> source[s] + 1]
  <2>1. net' = net \cup {new} /\ cursor' = cursor
    BY <1>4 DEF Send, server
  <2>2. source' \in [1 .. MaxSession -> Nat] /\ source'[s] = source[s] + 1
        /\ \A r \in 1 .. MaxSession : r # s => source'[r] = source[r]
    BY <1>2, <1>4 DEF Send
  <2>3. \A p \in net : p.id <= sent /\ p.id # new.id /\ ~(p.id >= new.id)
    BY <1>2 DEF Newer, Packet
  <2>4. \A p \in net : p.sess = s => p.seq <= new.seq
    BY <1>1, <1>2 DEF Numbered, Packet
  <2>5. \A p, q \in net' : p.sess = q.sess /\ p.id >= q.id => p.seq >= q.seq
    BY <1>1, <1>2, <2>1, <2>3, <2>4 DEF Numbered, Packet
  <2>6. \A p \in net' : p.sess \in 1 .. MaxSession /\ p.seq <= source'[p.sess]
    <3>1. ASSUME NEW p \in net PROVE p.sess \in 1 .. MaxSession /\ p.seq <= source'[p.sess]
      <4>1. p.sess \in 1 .. MaxSession /\ p.seq <= source[p.sess] /\ p.seq \in Nat
        BY <1>1, <1>2 DEF Numbered, Packet
      <4>2. source[p.sess] \in Nat /\ source'[p.sess] \in {source[p.sess], source[p.sess] + 1}
        BY <1>2, <2>2, <4>1
      <4> QED BY <4>1, <4>2
    <3>2. new.seq <= source'[new.sess] /\ new.sess \in 1 .. MaxSession
      BY <1>2, <2>2
    <3> QED BY <2>1, <3>1, <3>2
  <2>7. cursor.sess # 0 => cursor.sess \in 1 .. MaxSession /\ cursor.seq <= source'[cursor.sess]
    <3> SUFFICES ASSUME cursor.sess # 0
                 PROVE  cursor.sess \in 1 .. MaxSession /\ cursor.seq <= source'[cursor.sess]
      OBVIOUS
    <3>1. cursor.sess \in 1 .. MaxSession /\ cursor.seq <= source[cursor.sess] /\ cursor.seq \in Nat
      BY <1>1 DEF Numbered, TypeOK
    <3>2. source[cursor.sess] \in Nat
          /\ source'[cursor.sess] \in {source[cursor.sess], source[cursor.sess] + 1}
      BY <1>2, <2>2, <3>1
    <3> QED BY <3>1, <3>2
  <2>8. new.sess = cursor.sess => new.seq > cursor.seq
    <3> SUFFICES ASSUME s = cursor.sess PROVE new.seq > cursor.seq
      OBVIOUS
    <3>1. cursor.seq <= source[s] /\ cursor.seq \in Nat /\ source[s] \in Nat
      BY <1>1, <1>2 DEF Numbered, TypeOK
    <3> QED BY <3>1
  <2> QED BY <1>1, <2>1, <2>5, <2>6, <2>7, <2>8 DEF Numbered
<1>5. CASE HandleAlreadyLiveStart
  BY <1>1, <1>2, <1>5 DEF HandleAlreadyLiveStart, Numbered, NoCursor, outside, Packet
<1>6. ASSUME NEW h \in Handler, PersistIngressCursor(h) PROVE Numbered'
  <2>1. hand[h].pkt \in net /\ hand[h].pkt \in Packet
    BY <1>2, <1>6 DEF PersistIngressCursor, Newer, Busy
  <2>2. \A p \in net : ~(p.id > sent)
    BY <1>2 DEF Newer, Packet
  <2> QED BY <1>1, <1>6, <2>1, <2>2 DEF PersistIngressCursor, Numbered, outside
<1> QED
  BY <1>3, <1>4, <1>5, <1>6
     DEF Next, Handle, RestartSource, Crash, Receive, BeginGetState, EndGetState,
         ResetRuntimeForAcceptedRun, ApplyAdapterSnapshot, PersistState, CommitTransition,
         Fail, BeginRead, EndRead, vars, server, outside

\* What a step of h does to it and to the cursor, in "delayed".
LEMMA DelayedSteps ==
  ASSUME Inv, world = "delayed", [Next]_vars, session' = session,
         NEW g \in Handler, hand[g].pc \in {"commit", "cursor"}
  PROVE  \/ hand'[g].pc \in {"commit", "cursor"} /\ hand'[g].pkt = hand[g].pkt
         \/ PersistIngressCursor(g)
<1> USE DEF Inv
<1>1. Busy(g)
  BY DEF Busy
<1>2. CASE UNCHANGED hand
  BY <1>2
<1>3. ASSUME NEW h \in Handler, Works(h)
      PROVE  \/ hand'[g].pc \in {"commit", "cursor"} /\ hand'[g].pkt = hand[g].pkt
             \/ PersistIngressCursor(g)
  <2>1. g = h
    BY <1>1, <1>3, Worked DEF OneAtATime
  <2>2. CommitTransition(g) \/ PersistIngressCursor(g)
    BY <1>3, <2>1 DEF Works, BeginGetState, EndGetState, ResetRuntimeForAcceptedRun,
       ApplyAdapterSnapshot, PersistState, Fail
  <2> QED BY <1>3, <2>1, <2>2, Worked, Locations
<1> QED
  BY <1>1, <1>2, <1>3, Received
     DEF Next, Handle, Works, Send, RestartSource, HandleAlreadyLiveStart, Crash, BeginRead,
         EndRead, vars

\* With delayed packets, no step lets the cursor pass the runtime.
LEMMA DelayedKept ==
  ASSUME Inv, world \in {"delayed", "ordered"}, [Next]_vars
  PROVE  Delayed'
<1> USE DEF Inv
<1>1. SUFFICES ASSUME world = "delayed", NEW b \in Known', b.sess = session'
               PROVE  Covered(b)' \/ \E h \in Handler : /\ hand'[h].pc \in {"commit", "cursor"}
                                                        /\ b = From(hand'[h].pkt)
  BY OutsideSteps, NumberedKept DEF Delayed
<1>2. session' = session
  <2>1. CASE HandleAlreadyLiveStart
    <3>1. session' = session + 1 /\ session \in Nat
      BY <2>1, PacketBoundsAssumption DEF HandleAlreadyLiveStart, TypeOK
    <3>2. \A h \in Handler : ~Works(h)
      BY <3>1, Worked
    <3>3. b \in Known \cup {Roster}
      BY <3>2, NewKnown
    <3>4. b.sess <= session /\ b.sess \in Nat
      BY <3>1, <3>3, KnownTyped DEF Newer, Roster, Build
    <3> QED BY <1>1, <3>1, <3>4
  <2> QED BY <2>1, OutsideSteps
<1>3. b # Roster
  BY <1>1, <1>2 DEF TypeOK, Roster
<1>4. ASSUME NEW h \in Handler, PersistIngressCursor(h), b.sess = hand[h].pkt.sess, hand[h].pkt.id >= b.id
      PROVE  Covered(b)'
  <2>1. hand[h].pkt \in net /\ net' = net
        /\ cursor'.sess = hand[h].pkt.sess /\ cursor'.seq = hand[h].pkt.seq
    BY <1>4 DEF PersistIngressCursor, Newer, Busy, outside
  <2> QED BY <1>4, <2>1 DEF Covered
<1>5. CASE b \in Known
  <2>1. CASE \E h \in Handler : PersistIngressCursor(h)
    <3>1. PICK h \in Handler : PersistIngressCursor(h)
      BY <2>1
    <3>2. Busy(h) /\ hand[h].pkt \in Packet /\ hand[h].pkt \in net /\ b \in Build
          /\ NoOlder(From(hand[h].pkt), b)
      BY <1>5, <3>1, KnownTyped DEF PersistIngressCursor, Newer, Busy
    <3>3. hand[h].pkt.sess <= b.sess
      BY <1>1, <1>2, <3>2 DEF Newer
    <3>4. hand[h].pkt.sess = b.sess /\ hand[h].pkt.id >= b.id
      BY <3>2, <3>3 DEF NoOlder, From, Packet, Build
    <3> QED BY <1>4, <3>1, <3>4
  <2>2. CASE \A h \in Handler : ~PersistIngressCursor(h)
    <3>1. CASE Covered(b)
      <4>1. cursor' = cursor
        <5>1. ~HandleAlreadyLiveStart
          BY <1>2, PacketBoundsAssumption DEF HandleAlreadyLiveStart, TypeOK
        <5>2. ASSUME NEW h \in Handler, Works(h) PROVE cursor' = cursor
          BY <2>2, <5>2 DEF Works, BeginGetState, EndGetState, ResetRuntimeForAcceptedRun,
             ApplyAdapterSnapshot, PersistState, CommitTransition, Fail, server
        <5>3. ASSUME NEW h \in Handler, NEW p \in net, Receive(h, p) PROVE cursor' = cursor
          BY <5>3 DEF Receive, server
        <5> QED
          BY <5>1, <5>2, <5>3
             DEF Next, Handle, Works, Send, RestartSource, Crash, BeginRead, EndRead, vars, server
      <4>2. net \subseteq net'
        BY OutsideSteps DEF Send
      <4> QED BY <3>1, <4>1, <4>2 DEF Covered
    <3>2. ASSUME NEW g \in Handler, hand[g].pc \in {"commit", "cursor"}, b = From(hand[g].pkt)
          PROVE  \E h \in Handler : /\ hand'[h].pc \in {"commit", "cursor"}
                                    /\ b = From(hand'[h].pkt)
      BY <1>1, <1>2, <2>2, <3>2, DelayedSteps
    <3> QED BY <1>1, <1>2, <1>5, <3>1, <3>2 DEF Delayed
  <2> QED BY <2>1, <2>2
<1>6. CASE b \notin Known
  <2>1. \/ \E h \in Handler : PersistState(h) /\ b = From(hand[h].pkt)
        \/ \E h \in Handler : CommitTransition(h) /\ b = From(hand[h].pkt)
        \/ \E h \in Handler : PersistIngressCursor(h) /\ b = From(hand[h].pkt)
    BY <1>3, <1>6, KnownSteps DEF Known
  <2>2. ASSUME NEW h \in Handler, PersistState(h) \/ CommitTransition(h), b = From(hand[h].pkt)
        PROVE  hand'[h].pc \in {"commit", "cursor"} /\ b = From(hand'[h].pkt)
    BY <2>2, Worked, Locations DEF Works
  <2>3. ASSUME NEW h \in Handler, PersistIngressCursor(h), b = From(hand[h].pkt) PROVE Covered(b)'
    <3>1. b.sess = hand[h].pkt.sess /\ b.id = hand[h].pkt.id /\ b.id \in Nat
      BY <2>3, KnownTyped DEF PersistIngressCursor, Busy, Build
    <3> QED BY <1>4, <2>3, <3>1
  <2> QED BY <2>1, <2>2, <2>3
<1> QED BY <1>5, <1>6

-----------------------------------------------------------------------------
\* When packets do not overlap.
LEMMA Invariant == ASSUME "overlap" \notin Worlds PROVE Spec => []Inv
<1>1. ASSUME TypeOK PROVE world \in {"delayed", "ordered"}
  BY <1>1, WorldsAssumption DEF TypeOK, AllWorlds
<1>2. ASSUME Init, TypeOK PROVE Inv
  <2>1. OneAtATime /\ Copies
    BY <1>2 DEF Init, OneAtATime, Copies, Busy, Idle, NotReading
  <2>2. Known = {Roster} /\ snapshot = Roster /\ \A h \in Handler : hand[h].pc = "idle"
    BY <1>2 DEF Init, Known, Idle
  <2>3. Saved
    BY <1>2, <2>2 DEF Init, Saved, NoOlder, Roster, Unloaded
  <2>4. Newer
    BY <1>2, <2>2 DEF Init, Newer, Busy, Roster
  <2>5. InOrder
    BY <1>2, <2>2 DEF Init, InOrder, Busy, Roster
  <2>6. Delayed
    BY <1>2, <2>2 DEF Init, Delayed, Numbered, NoCursor, Roster
  <2> QED BY <1>2, <2>1, <2>3, <2>4, <2>5, <2>6 DEF Inv
<1>3. ASSUME Inv, [Next]_vars, TypeOK' PROVE Inv'
  <2>1. world \in {"delayed", "ordered"}
    BY <1>1, <1>3 DEF Inv
  <2>2. OneAtATime' /\ Copies'
    BY <1>3, <2>1, OneAtATimeKept, CopiesKept DEF Inv
  <2> QED BY <1>3, <2>1, <2>2, SavedKept, NewerKept, InOrderKept, DelayedKept DEF Inv
<1>4. Init /\ TypeOK => Inv
  BY <1>2
<1>5. Inv /\ [Next]_vars /\ TypeOK' => Inv'
  BY <1>3
<1> QED BY <1>4, <1>5, TypeCorrect, PTL DEF Spec

\* A packet that has its cursor is in the snapshot, or a newer one is, unless a
\* snapshot failed to be saved (commitTransition, persistIngressCursor).
THEOREM AcknowledgedSaved == ASSUME "overlap" \notin Worlds PROVE Spec => []AcknowledgedIsSaved
<1>1. Inv => AcknowledgedIsSaved
  BY DEF Inv, Saved, AcknowledgedIsSaved
<1> QED BY <1>1, Invariant, PTL

\* Telemetry that comes one packet at a time never takes the match back, however
\* late, often or in what order the packets arrive (applyAdapterTelemetryEnvelope,
\* the cursor of ingestAdapterTelemetryEnvelope).
THEOREM OneAtATimeNeverGoesBack == ASSUME "overlap" \notin Worlds PROVE Spec => NeverGoesBack
<1>1. ASSUME Inv, [Next]_vars
      PROVE  runtime' # runtime /\ runtime'.id > 0 => NoOlder(runtime', history.best)
  <2> USE DEF Inv
  <2>1. SUFFICES ASSUME runtime' # runtime, runtime'.id > 0 PROVE NoOlder(runtime', history.best)
    OBVIOUS
  <2>2. history.best \in Build /\ snapshot \in Build
    BY <1>1 DEF TypeOK, History
  <2>3. ASSUME NEW b, b = IF runtime = Unloaded THEN snapshot ELSE runtime, runtime' = b
        PROVE  NoOlder(runtime', history.best)
    BY <1>1, <2>1, <2>2, <2>3, NoOlderIsOrder DEF Saved
  <2>4. ASSUME NEW h \in Handler, EndGetState(h) PROVE NoOlder(runtime', history.best)
    BY <1>1, <2>3, <2>4 DEF EndGetState, Stored, Copies, Taken
  <2>5. CASE EndRead
    BY <1>1, <2>3, <2>5 DEF EndRead, Stored, Copies, Taken
  <2>6. ASSUME NEW h \in Handler, CommitTransition(h) PROVE NoOlder(runtime', history.best)
    BY <1>1, <2>6 DEF CommitTransition, Newer, Known, Busy
  <2>7. ASSUME NEW h \in Handler, ResetRuntimeForAcceptedRun(h) PROVE FALSE
    BY <2>1, <2>7 DEF ResetRuntimeForAcceptedRun, Roster
  <2>8. ~Crash
    BY <2>1 DEF Crash, Unloaded
  <2> QED
    BY <1>1, <2>1, <2>4, <2>5, <2>6, <2>7, <2>8
       DEF Next, Handle, Send, RestartSource, HandleAlreadyLiveStart, Receive, BeginGetState,
           ApplyAdapterSnapshot, PersistState, PersistIngressCursor, Fail, BeginRead, vars, server
<1>2. Inv /\ [Next]_vars => [runtime' # runtime /\ runtime'.id > 0 => NoOlder(runtime', history.best)]_vars
  BY <1>1
<1> QED BY <1>2, Invariant, PTL DEF Spec, NeverGoesBack
=============================================================================
