----------------------- MODULE TelemetryRestart_proofs -----------------------
(***************************************************************************)
(* Proof that a restarted source is heard, for every reset delta, number of*)
(* packets, sessions, restarts and crashes.  The invariant gives each      *)
(* packet that may still be counted the room that is left for it: how many *)
(* packets of its run can have been dropped before it.  The cursor drops   *)
(* those in a window of Delta numbers, and the accepted run one more.      *)
(***************************************************************************)
EXTENDS TelemetryIngress_proofs

\* The next packet of the bound source.
Following == [id |-> sent + 1, sess |-> session, seq |-> source[session] + 1]

\* The packets its source has sent since it started, and the next one.
OfThisRun == {p \in net \cup {Following} : p.sess = session /\ p.id > history.since}

\* Those that count if they are dropped.
Coming == {p \in OfThisRun : /\ p.id > history.judged /\ p.id > cursor.at
                             /\ p.id >= history.newest}

\* How many packets before p the cursor can have dropped.
Before(p) ==
  LET ahead == p.seq - 1 - (cursor.seq - Delta) IN
  IF cursor.sess # p.sess \/ ahead > Delta THEN Delta ELSE IF ahead < 0 THEN 0 ELSE ahead

\* The accepted run drops one packet at most; if it would drop p, none so far.
Room(p) == IF StaleAcceptedSequence(p, accepted) THEN Before(p) ELSE Before(p) + 1

Sent == \A p \in net : p.id <= sent /\ p.sess <= session

InHand == \A h \in Handler : Busy(h) => hand[h].pkt \in net /\ hand[h].pkt.id = history.newest

Marks ==
  /\ cursor.at <= sent /\ history.since <= sent
  /\ history.judged <= history.newest /\ history.newest <= sent
  /\ history.muted > 0 => history.since < history.judged

\* A source counts up.
Counting == \A p, q \in OfThisRun : p.id < q.id => p.seq < q.seq

RoomLeft == history.muted > 0 => \A p \in Coming : history.muted <= Room(p)

Hearing == Sent /\ InHand /\ Marks /\ Counting /\ RoomLeft
HearInv == TypeOK /\ (world = "ordered" => OneAtATime /\ Hearing)

-----------------------------------------------------------------------------
(* What is used of the state.                                              *)

\* The counters are numbers and the packets are packets.
LEMMA Numbers ==
  ASSUME TypeOK
  PROVE  /\ session \in Nat \ {0} /\ sent \in Nat /\ source[session] \in Nat
         /\ cursor.sess \in Nat /\ cursor.seq \in Nat /\ cursor.at \in Nat
         /\ accepted.sess \in Nat /\ accepted.seq \in Nat
         /\ history \in History /\ history.newest \in Nat /\ history.since \in Nat
         /\ history.judged \in Nat /\ history.muted \in Nat
         /\ Following \in Packet /\ net \subseteq Packet
         /\ OfThisRun \subseteq Packet /\ Coming \subseteq OfThisRun
<1>1. session \in Nat \ {0} /\ sent \in Nat /\ source[session] \in Nat
  BY PacketBoundsAssumption DEF TypeOK
<1>2. Following \in Packet /\ net \subseteq Packet
  BY <1>1 DEF Following, Packet, TypeOK
<1>3. OfThisRun \subseteq Packet /\ Coming \subseteq OfThisRun
  BY <1>2 DEF OfThisRun, Coming
<1> QED BY <1>1, <1>2, <1>3 DEF TypeOK, History

\* A later packet of a source has no less room.
LEMMA RoomMonotone ==
  ASSUME TypeOK, NEW p \in Packet, NEW q \in Packet, p.sess = q.sess, p.seq <= q.seq
  PROVE  /\ Before(p) \in 0 .. Delta /\ Before(p) <= Before(q) /\ Before(q) \in 0 .. Delta
         /\ Room(p) \in 0 .. Delta + 1 /\ Room(p) <= Room(q)
         /\ StaleAcceptedSequence(q, accepted) => StaleAcceptedSequence(p, accepted)
<1>1. p.seq \in Nat /\ q.seq \in Nat /\ cursor.seq \in Nat /\ Delta \in Nat
  BY Numbers, DeltaAssumption DEF Packet
<1>2. Before(p) \in 0 .. Delta /\ Before(p) <= Before(q) /\ Before(q) \in 0 .. Delta
  BY <1>1 DEF Before
<1>3. StaleAcceptedSequence(q, accepted) => StaleAcceptedSequence(p, accepted)
  BY <1>1, Numbers DEF StaleAcceptedSequence
<1> QED BY <1>1, <1>2, <1>3 DEF Room

\* A packet the cursor drops leaves the later ones more room than it had.
LEMMA DroppedIsInWindow ==
  ASSUME TypeOK, NEW p \in Packet, NEW q \in Packet, p.sess = session, q.sess = session,
         p.seq < q.seq, p.id > cursor.at, ~Admitted(p)
  PROVE  Before(p) + 1 <= Before(q) /\ Room(p) + 1 <= Room(q)
<1>1. p.seq \in Nat /\ q.seq \in Nat /\ cursor.seq \in Nat /\ Delta \in Nat
  BY Numbers, DeltaAssumption DEF Packet
<1>2. cursor.sess = p.sess /\ p.seq <= cursor.seq /\ cursor.seq - p.seq < Delta
  BY <1>1 DEF Admitted, ShouldResetIngressCursor
<1>3. Before(p) + 1 <= Before(q)
  BY <1>1, <1>2 DEF Before
<1>4. Before(p) \in Nat /\ Before(q) \in Nat
      /\ (StaleAcceptedSequence(q, accepted) => StaleAcceptedSequence(p, accepted))
  BY <1>1, RoomMonotone
<1> QED BY <1>3, <1>4 DEF Room

\* The next packet counts if it is dropped.
LEMMA FollowingIsComing ==
  ASSUME TypeOK, Marks
  PROVE  Following \in Coming
<1>1. /\ Following.id = sent + 1 /\ Following.sess = session
      /\ history.judged <= sent /\ history.since <= sent
      /\ cursor.at <= sent /\ history.newest <= sent
  BY Numbers DEF Marks, Following
<1>2. Following \in OfThisRun
  BY <1>1, Numbers DEF OfThisRun
<1> QED BY <1>1, <1>2, Numbers DEF Coming

\* The packet in hand is of this run if one of the run has been counted.
LEMMA InHandIsOfThisRun ==
  ASSUME TypeOK, InHand, Marks, history.muted > 0, NEW h \in Handler, Busy(h),
         hand[h].pkt.sess = session
  PROVE  hand[h].pkt \in OfThisRun
<1>1. hand[h].pkt \in net /\ hand[h].pkt.id = history.newest
  BY DEF InHand
<1>2. history.newest > history.since
  BY Numbers DEF Marks
<1> QED BY <1>1, <1>2 DEF OfThisRun

-----------------------------------------------------------------------------
(* Its parts are kept.                                                     *)

\* What a step does to the history's counters.
LEMMA Counters ==
  ASSUME TypeOK, [Next]_vars, ~RestartSource,
         \A h \in Handler, p \in net : ~Receive(h, p)
  PROVE  UNCHANGED history.newest /\ UNCHANGED history.since
<1>1. history \in History
  BY Numbers
<1>2. ASSUME NEW h \in Handler, Works(h)
      PROVE  UNCHANGED history.newest /\ UNCHANGED history.since
  BY <1>1, <1>2 DEF Works, BeginGetState, EndGetState, ResetRuntimeForAcceptedRun,
     ApplyAdapterSnapshot, PersistState, CommitTransition, PersistIngressCursor, Fail,
     History, Muted
<1> QED
  BY <1>1, <1>2 DEF Next, Handle, Works, Send, HandleAlreadyLiveStart, Crash, BeginRead,
     EndRead, History, vars

\* Receiving a packet makes it the newest, and counts it at most.
LEMMA ReceivedIsNewest ==
  ASSUME TypeOK, NEW h \in Handler, NEW p \in net, Receive(h, p), world = "ordered"
  PROVE  /\ history'.newest = p.id /\ history'.since = history.since
         /\ p.id >= history.newest
         /\ \/ history'.muted = history.muted /\ history'.judged = history.judged
            \/ /\ history'.muted = history.muted + 1 /\ history'.judged = p.id
               /\ ~Admitted(p) /\ p.sess = session /\ p.id > cursor.at
               /\ p.id > history.since /\ p.id > history.judged
<1>1. history \in History /\ p.id \in Nat /\ p.id >= history.newest /\ history.newest \in Nat
  BY Numbers DEF Receive, Packet
<1>2. Greater(history.newest, p.id) = p.id
  BY <1>1 DEF Greater
<1>3. CASE Admitted(p)
  BY <1>1, <1>2, <1>3 DEF Receive, History
<1>4. CASE ~Admitted(p) /\ Muted(p) = history
  BY <1>1, <1>2, <1>4 DEF Receive, History
<1>5. CASE ~Admitted(p) /\ Muted(p) # history
  <2>1. /\ Muted(p) = [history EXCEPT !.muted = history.muted + 1, !.judged = p.id]
        /\ p.sess = session /\ p.id > cursor.at /\ p.id > history.since /\ p.id > history.judged
    BY <1>5 DEF Muted
  <2>2. history' = [Muted(p) EXCEPT !.newest = Greater(@, p.id)]
    BY <1>5 DEF Receive
  <2> QED BY <1>1, <1>2, <1>5, <2>1, <2>2 DEF History
<1> QED BY <1>3, <1>4, <1>5

\* Packets have been sent, by sources of sessions there have been.
LEMMA SentKept ==
  ASSUME TypeOK, Sent, [Next]_vars
  PROVE  Sent'
<1>1. \A p \in net : p \in Packet
  BY Numbers
<1>2. session' \in {session, session + 1}
  BY OutsideSteps DEF HandleAlreadyLiveStart
<1>3. ASSUME NEW s \in 1 .. MaxSession, Send(s) PROVE Sent'
  BY <1>1, <1>3, Numbers DEF Sent, Send, Packet, server
<1>4. CASE net' = net /\ sent' = sent
  BY <1>1, <1>2, <1>4, Numbers DEF Sent, Packet
<1> QED BY <1>3, <1>4, OutsideSteps

\* The packet in hand is the newest received.
LEMMA InHandKept ==
  ASSUME TypeOK, InHand, OneAtATime, world = "ordered", [Next]_vars
  PROVE  InHand'
<1>1. net \subseteq net'
  BY OutsideSteps DEF Send
<1>2. SUFFICES ASSUME NEW g \in Handler, hand'[g].pc # "idle"
               PROVE  hand'[g].pkt \in net' /\ hand'[g].pkt.id = history'.newest
  BY DEF InHand, Busy
<1>3. CASE Busy(g) /\ hand'[g].pkt = hand[g].pkt
  <2>1. \A h \in Handler, p \in net : ~Receive(h, p)
    BY <1>3, QuietIsIdle DEF Receive
  <2>2. history'.newest = history.newest
    <3>1. CASE RestartSource
      BY <3>1, Numbers DEF RestartSource, History
    <3> QED BY <2>1, <3>1, Counters
  <2> QED BY <1>1, <1>3, <2>2 DEF InHand
<1>4. ASSUME NEW p \in net, Receive(g, p), Admitted(p), hand'[g].pkt = p
      PROVE  hand'[g].pkt \in net' /\ hand'[g].pkt.id = history'.newest
  BY <1>1, <1>4, ReceivedIsNewest
<1> QED BY <1>2, <1>3, <1>4, HandSteps

\* What a stale packet counts for.
LEMMA MutedCounts ==
  ASSUME TypeOK, NEW h \in Handler, EndGetState(h)
  PROVE  \/ history' = history
         \/ LET p == hand[h].pkt IN
            /\ history'.muted = history.muted + 1 /\ history'.judged = p.id
            /\ history'.newest = history.newest /\ history'.since = history.since
            /\ p.sess = session /\ p.id > cursor.at
            /\ p.id > history.since /\ p.id > history.judged
            /\ StaleAcceptedSequence(p, accepted) /\ accepted' = [sess |-> p.sess, seq |-> p.seq]
<1>1. history \in History /\ hand[h].pkt \in Packet
  BY Numbers, HandFields DEF EndGetState
<1>2. SUFFICES ASSUME history' # history
               PROVE  LET p == hand[h].pkt IN
            /\ history'.muted = history.muted + 1 /\ history'.judged = p.id
            /\ history'.newest = history.newest /\ history'.since = history.since
            /\ p.sess = session /\ p.id > cursor.at
            /\ p.id > history.since /\ p.id > history.judged
            /\ StaleAcceptedSequence(p, accepted) /\ accepted' = [sess |-> p.sess, seq |-> p.seq]
  OBVIOUS
<1>3. /\ history' = Muted(hand[h].pkt) /\ StaleAcceptedSequence(hand[h].pkt, Run(hand[h]))
      /\ accepted' = [sess |-> hand[h].pkt.sess, seq |-> hand[h].pkt.seq]
  BY <1>2 DEF EndGetState
<1>4. StaleAcceptedSequence(hand[h].pkt, accepted)
  BY <1>1, <1>3 DEF StaleAcceptedSequence, Run, NoRun, Packet
<1> QED BY <1>1, <1>2, <1>3, <1>4 DEF Muted, History

\* The marks stay in the order of the packets.
LEMMA MarksKept ==
  ASSUME TypeOK, Marks, InHand, Sent, world = "ordered", [Next]_vars
  PROVE  Marks'
<1> USE Numbers
<1>h. history \in History
  OBVIOUS
<1>1. ASSUME NEW h \in Handler, NEW p \in net, Receive(h, p) PROVE Marks'
  <2>1. cursor' = cursor /\ sent' = sent /\ p.id <= sent /\ p.id \in Nat
    BY <1>1 DEF Receive, server, outside, Sent, Packet
  <2> QED BY <1>1, <2>1, ReceivedIsNewest DEF Marks
<1>2. ASSUME NEW h \in Handler, EndGetState(h) PROVE Marks'
  <2>1. cursor' = cursor /\ sent' = sent
    BY <1>2 DEF EndGetState, outside
  <2>2. hand[h].pkt.id = history.newest
    BY <1>2 DEF EndGetState, InHand, Busy
  <2> QED BY <1>2, <2>1, <2>2, MutedCounts DEF Marks
<1>3. ASSUME NEW h \in Handler, ApplyAdapterSnapshot(h) PROVE Marks'
  <2>1. hand[h].pkt.id = history.newest
    BY <1>3 DEF ApplyAdapterSnapshot, InHand, Busy
  <2>2. /\ history'.muted = 0 /\ history'.newest = history.newest
        /\ history'.since = history.since /\ history'.judged \in {history.judged, hand[h].pkt.id}
        /\ cursor' = cursor /\ sent' = sent
    BY <1>h, <1>3 DEF ApplyAdapterSnapshot, Greater, outside, History
  <2> QED BY <2>1, <2>2 DEF Marks
<1>4. ASSUME NEW h \in Handler, PersistIngressCursor(h) PROVE Marks'
  BY <1>h, <1>4 DEF PersistIngressCursor, Marks, outside, History
<1>5. CASE RestartSource \/ HandleAlreadyLiveStart
  <2>1. /\ history'.muted = 0 /\ history'.newest = history.newest /\ history'.judged = history.judged
        /\ history'.since \in {history.since, sent}
    BY <1>h, <1>5 DEF RestartSource, HandleAlreadyLiveStart, History
  <2>2. sent' = sent /\ cursor'.at \in {cursor.at, 0}
    BY <1>5 DEF RestartSource, HandleAlreadyLiveStart, NoCursor, server, outside
  <2> QED BY <2>1, <2>2 DEF Marks
<1>6. ASSUME NEW s \in 1 .. MaxSession, Send(s) PROVE Marks'
  BY <1>6 DEF Send, Marks, server
<1>7. CASE /\ UNCHANGED <<cursor, sent>>
           /\ history'.newest = history.newest /\ history'.since = history.since
           /\ history'.judged = history.judged /\ history'.muted = history.muted
  BY <1>7 DEF Marks
<1>8. ASSUME NEW h \in Handler, BeginGetState(h) \/ ResetRuntimeForAcceptedRun(h) \/ PersistState(h)
                                \/ CommitTransition(h) \/ Fail(h) PROVE Marks'
  BY <1>h, <1>7, <1>8 DEF BeginGetState, ResetRuntimeForAcceptedRun, PersistState,
     CommitTransition, Fail, History, server, outside
<1>9. CASE Crash \/ BeginRead \/ EndRead \/ UNCHANGED vars
  BY <1>h, <1>7, <1>9 DEF Crash, BeginRead, EndRead, History, server, outside, vars
<1> QED BY <1>1, <1>2, <1>3, <1>4, <1>5, <1>6, <1>8, <1>9 DEF Next, Handle

\* What a packet that is sent makes of those of the run.
LEMMA SentOfThisRun ==
  ASSUME TypeOK, Sent, Marks, NEW s \in 1 .. MaxSession, Send(s)
  PROVE  /\ OfThisRun' \subseteq OfThisRun \cup {Following'}
         /\ Following'.id > Following.id /\ Following'.seq >= Following.seq
         /\ \A p \in OfThisRun : p.id <= Following.id
         /\ Following \in OfThisRun /\ Following' \in Packet
         /\ Following.sess = session /\ Following'.sess = session
         /\ Following'.seq = Following.seq => Following \notin OfThisRun'
<1> USE Numbers
<1> DEFINE new == [id |-> sent + 1, sess |-> s, seq |-> source[s] + 1]
<1>1. /\ net' = net \cup {new} /\ session' = session /\ history' = history /\ sent' = sent + 1
      /\ source' = [source EXCEPT ![s] = @ + 1]
  BY DEF Send, server
<1>2. session \in 1 .. MaxSession /\ source \in [1 .. MaxSession -> Nat]
  BY DEF TypeOK
<1>3. Following.id = sent + 1 /\ Following.sess = session /\ Following.seq = source[session] + 1
  BY DEF Following
<1>4. Following' = [id |-> sent + 2, sess |-> session, seq |-> source'[session] + 1]
  BY <1>1 DEF Following
<1>5. source'[session] = IF s = session THEN source[session] + 1 ELSE source[session]
  BY <1>1, <1>2
<1>6. \A p \in net : p \in Packet /\ p.id <= sent
  BY DEF Sent
<1>7. s = session => new = Following
  BY DEF Following
<1>8. OfThisRun' = {p \in net' \cup {Following'} : p.sess = session /\ p.id > history.since}
  BY <1>1 DEF OfThisRun
<1>9. Following \in OfThisRun
  BY <1>3 DEF OfThisRun, Marks
<1>10. OfThisRun' \subseteq OfThisRun \cup {Following'}
  <2> HIDE DEF Following
  <2>1. ASSUME NEW p \in OfThisRun', p # Following' PROVE p \in OfThisRun
    <3>1. p \in net \/ p = new
      BY <1>1, <1>8, <2>1
    <3>2. p.sess = session /\ p.id > history.since
      BY <1>8, <2>1
    <3>3. new.sess = s
      OBVIOUS
    <3> QED BY <1>7, <1>9, <3>1, <3>2, <3>3 DEF OfThisRun
  <2> QED BY <2>1
<1>11. s # session => Following \notin OfThisRun'
  <2>1. s # session => Following \notin net /\ Following # new /\ Following # Following'
    BY <1>3, <1>4, <1>6
  <2> QED BY <1>1, <1>8, <2>1
<1>12. \A p \in OfThisRun : p.id <= Following.id
  <2> SUFFICES ASSUME NEW p \in OfThisRun, p # Following PROVE p.id <= Following.id
    BY <1>3
  <2>1. p \in net /\ p.id \in Nat
    BY DEF OfThisRun, Packet
  <2> QED BY <1>3, <1>6, <2>1
<1>13. Following' \in Packet
  <2>1. source'[session] + 1 \in Nat \ {0} /\ sent + 2 \in Nat \ {0}
    BY <1>5
  <2> QED BY <1>4, <2>1 DEF Packet
<1> QED BY <1>3, <1>4, <1>5, <1>9, <1>10, <1>11, <1>12, <1>13

\* A run stays what it is while nothing is sent and no source or session starts.
LEMMA SameRun ==
  ASSUME UNCHANGED <<net, sent, source, session>>, history'.since = history.since
  PROVE  Following' = Following /\ OfThisRun' = OfThisRun
BY DEF Following, OfThisRun

\* Other steps leave the run alone.
LEMMA WhoTouchesTheRun ==
  ASSUME TypeOK, [Next]_vars, world = "ordered"
  PROVE  \/ \E s \in 1 .. MaxSession : Send(s)
         \/ RestartSource \/ HandleAlreadyLiveStart
         \/ UNCHANGED <<net, sent, source, session>> /\ history'.since = history.since
<1>1. ASSUME NEW h \in Handler, NEW p \in net, Receive(h, p)
      PROVE  UNCHANGED <<net, sent, source, session>> /\ history'.since = history.since
  BY <1>1, ReceivedIsNewest DEF Receive, server, outside
<1>2. CASE \A h \in Handler, p \in net : ~Receive(h, p)
  <2>1. ASSUME NEW h \in Handler, Works(h) PROVE UNCHANGED <<net, sent, source, session>>
    BY <2>1, Worked
  <2>2. ~RestartSource => history'.since = history.since
    BY <1>2, Counters
  <2> QED
    BY <1>2, <2>1, <2>2 DEF Next, Handle, Works, Crash, BeginRead, EndRead, vars, server, outside
<1> QED BY <1>1, <1>2

\* A source keeps counting up, and starts anew when it starts again.
LEMMA CountingKept ==
  ASSUME TypeOK, Counting, Sent, Marks, world = "ordered", [Next]_vars
  PROVE  Counting'
<1> USE Numbers
<1>1. ASSUME NEW s \in 1 .. MaxSession, Send(s) PROVE Counting'
  <2> SUFFICES ASSUME NEW p \in OfThisRun', NEW q \in OfThisRun', p.id < q.id
               PROVE  p.seq < q.seq
    BY DEF Counting
  <2>1. /\ p \in OfThisRun \cup {Following'} /\ q \in OfThisRun \cup {Following'}
        /\ Following'.id > Following.id /\ Following'.seq >= Following.seq
        /\ \A r \in OfThisRun : r.id <= Following.id
        /\ Following \in OfThisRun /\ Following' \in Packet
        /\ (Following'.seq = Following.seq => Following \notin OfThisRun')
    BY <1>1, SentOfThisRun
  <2> HIDE DEF Following
  <2>2. p \in Packet /\ q \in Packet /\ Following \in Packet
    BY <2>1
  <2>3. p \in OfThisRun
    <3>1. p # Following'
      BY <2>1, <2>2 DEF Packet
    <3> QED BY <2>1, <3>1
  <2>4. CASE q \in OfThisRun
    BY <2>3, <2>4 DEF Counting
  <2>5. CASE q = Following'
    <3>1. CASE p.id < Following.id
      <4>1. p.seq < Following.seq
        BY <2>1, <2>3, <3>1 DEF Counting
      <4> QED BY <2>1, <2>2, <2>5, <4>1 DEF Packet
    <3>2. CASE p.id = Following.id
      <4>1. p = Following
        BY <2>1, <2>3, <3>2, Numbers DEF OfThisRun, Sent, Following
      <4>2. Following'.seq # Following.seq
        BY <2>1, <4>1
      <4> QED BY <2>1, <2>2, <2>5, <4>1, <4>2 DEF Packet
    <3> QED BY <2>1, <2>2, <2>3, <3>1, <3>2 DEF Packet
  <2> QED BY <2>1, <2>4, <2>5
<1>2. CASE RestartSource \/ HandleAlreadyLiveStart
  <2>1. OfThisRun' \subseteq {Following'}
    <3>1. net' = net /\ \A p \in net : ~(p.id > sent) /\ ~(p.sess > session)
      BY <1>2 DEF RestartSource, HandleAlreadyLiveStart, outside, Sent, Packet
    <3>2. CASE RestartSource
      <4>1. history'.since = sent
        BY <3>2 DEF RestartSource, History
      <4> QED BY <3>1, <4>1 DEF OfThisRun
    <3>3. CASE HandleAlreadyLiveStart
      <4>1. session' = session + 1 /\ session' > session
        BY <3>3 DEF HandleAlreadyLiveStart
      <4> QED BY <3>1, <4>1 DEF OfThisRun
    <3> QED BY <1>2, <3>2, <3>3
  <2>2. Following'.id \in Nat
    BY <1>2 DEF RestartSource, HandleAlreadyLiveStart, Following, outside
  <2> HIDE DEF Following
  <2>3. ~(Following'.id < Following'.id)
    BY <2>2
  <2> QED BY <2>1, <2>3 DEF Counting
<1>3. CASE UNCHANGED <<net, sent, source, session>> /\ history'.since = history.since
  BY <1>3, SameRun DEF Counting
<1> QED BY <1>1, <1>2, <1>3, WhoTouchesTheRun

-----------------------------------------------------------------------------
(* The room that is left.                                                  *)

\* Nothing is counted, nobody has less room: those to come keep what they had.
LEMMA CalmStep ==
  ASSUME RoomLeft, history'.muted = history.muted, Coming' \subseteq Coming,
         \A p \in Coming' : Room(p) \in Int /\ Room(p)' \in Int /\ Room(p) <= Room(p)',
         history.muted \in Nat
  PROVE  RoomLeft'
BY DEF RoomLeft

\* The accepted run that is forgotten drops no packet.
LEMMA RoomGrows ==
  ASSUME TypeOK, TypeOK', NEW p \in Packet, cursor' = cursor,
         StaleAcceptedSequence(p, accepted') => StaleAcceptedSequence(p, accepted)
  PROVE  Room(p) \in Int /\ Room(p)' \in Int /\ Room(p) <= Room(p)'
<1>1. Before(p)' = Before(p)
  BY DEF Before
<1>2. p.sess = p.sess /\ p.seq <= p.seq
  BY DEF Packet
<1>3. Before(p) \in Int
  BY <1>2, RoomMonotone, DeltaAssumption
<1> QED BY <1>1, <1>3 DEF Room

\* A step that leaves the cursor alone and forgets an accepted run at most.
LEMMA QuietRoom ==
  ASSUME TypeOK, TypeOK', RoomLeft,
         UNCHANGED <<net, sent, source, session, cursor>>, accepted' \in {accepted, NoRun},
         history'.muted = history.muted, history'.judged = history.judged,
         history'.since = history.since, history'.newest >= history.newest
  PROVE  RoomLeft'
<1> USE Numbers
<1>1. Coming' \subseteq Coming
  <2>1. history'.newest \in Nat
    BY DEF TypeOK, History
  <2>2. OfThisRun' = OfThisRun /\ \A p \in OfThisRun : p.id \in Nat
    BY SameRun DEF Packet
  <2> QED BY <2>1, <2>2 DEF Coming
<1>2. ASSUME NEW p \in Coming' PROVE Room(p) \in Int /\ Room(p)' \in Int /\ Room(p) <= Room(p)'
  <2>1. p \in Packet /\ p.sess # 0
    BY <1>1, <1>2 DEF Packet
  <2>2. StaleAcceptedSequence(p, accepted') => StaleAcceptedSequence(p, accepted)
    BY <2>1 DEF StaleAcceptedSequence, NoRun
  <2> QED BY <2>1, <2>2, RoomGrows
<1> QED BY <1>1, <1>2, CalmStep

\* A packet that is sent has the room its source's next one had.
LEMMA SendKeepsRoom ==
  ASSUME TypeOK, TypeOK', Hearing, NEW s \in 1 .. MaxSession, Send(s)
  PROVE  RoomLeft'
<1> USE Numbers
<1>1. UNCHANGED <<session, cursor, accepted, history>>
  BY DEF Send, server
<1>2. SUFFICES ASSUME history.muted > 0, NEW q \in Coming' PROVE history.muted <= Room(q)'
  BY <1>1 DEF RoomLeft
<1>3. Room(q)' = Room(q) /\ q \in OfThisRun \cup {Following'} /\ q \in OfThisRun'
  BY <1>1, SentOfThisRun DEF Hearing, Room, Before, Coming
<1>4. CASE q \in OfThisRun
  <2>1. q \in Coming
    BY <1>1, <1>2, <1>4 DEF Coming
  <2> QED BY <1>2, <1>3, <2>1 DEF Hearing, RoomLeft
<1>5. CASE q = Following'
  <2>1. Following \in Coming
    BY FollowingIsComing DEF Hearing
  <2>2. Following.sess = q.sess /\ Following.seq <= q.seq /\ q \in Packet
    <3>1. Following.seq \in Nat /\ Following'.seq \in Nat /\ Following' \in Packet
      BY SentOfThisRun DEF Hearing, Packet
    <3> QED BY <1>5, <3>1, SentOfThisRun DEF Hearing
  <2> HIDE DEF Following
  <2>3. history.muted <= Room(Following)
    BY <1>2, <2>1 DEF Hearing, RoomLeft
  <2>4. Room(Following) <= Room(q) /\ Room(Following) \in Int /\ Room(q) \in Int
    <3>1. Room(Following) \in 0 .. Delta + 1 /\ Room(Following) <= Room(q)
      BY <2>2, RoomMonotone
    <3>2. q.sess = q.sess /\ q.seq <= q.seq
      BY <2>2 DEF Packet
    <3>3. Room(q) \in 0 .. Delta + 1
      BY <2>2, <3>2, RoomMonotone
    <3> QED BY <3>1, <3>3, DeltaAssumption
  <2> QED BY <1>3, <2>3, <2>4
<1> QED BY <1>3, <1>4, <1>5

\* A packet the cursor drops is counted, and the later ones have room for it.
LEMMA ReceiveKeepsRoom ==
  ASSUME TypeOK, TypeOK', Hearing, world = "ordered",
         NEW h \in Handler, NEW p \in net, Receive(h, p)
  PROVE  RoomLeft'
<1> USE Numbers
<1>1. UNCHANGED <<net, sent, source, session, cursor, accepted>>
  BY DEF Receive, server, outside
<1>2. /\ history'.newest = p.id /\ history'.since = history.since /\ p.id >= history.newest
      /\ p \in Packet
  BY ReceivedIsNewest
<1>3. CASE history'.muted = history.muted /\ history'.judged = history.judged
  BY <1>1, <1>2, <1>3, QuietRoom DEF Hearing
<1>4. CASE /\ history'.muted = history.muted + 1 /\ history'.judged = p.id
           /\ ~Admitted(p) /\ p.sess = session /\ p.id > cursor.at
           /\ p.id > history.since /\ p.id > history.judged
  <2>1. SUFFICES ASSUME NEW q \in Coming' PROVE history.muted + 1 <= Room(q)'
    BY <1>4 DEF RoomLeft
  <2>2. Room(q)' = Room(q)
    BY <1>1 DEF Room, Before
  <2>3. p \in Coming
    BY <1>2, <1>4 DEF Coming, OfThisRun
  <2>4. q \in OfThisRun /\ q.id > p.id /\ q \in Packet
    BY <1>1, <1>2, <1>4, <2>1, SameRun DEF Coming
  <2>5. p.seq < q.seq
    BY <1>2, <2>3, <2>4 DEF Hearing, Counting, Packet
  <2>6. Room(p) + 1 <= Room(q)
    <3>1. q.sess = session
      BY <2>4 DEF OfThisRun
    <3> QED BY <1>2, <1>4, <2>4, <2>5, <3>1, DroppedIsInWindow
  <2>7. Room(p) \in Nat /\ Room(q) \in Nat
    <3>1. p.sess = q.sess /\ p.seq <= q.seq /\ q.seq <= q.seq
      BY <1>2, <1>4, <2>4, <2>5 DEF OfThisRun, Packet
    <3> QED BY <1>2, <2>4, <3>1, RoomMonotone, DeltaAssumption
  <2>8. history.muted <= Room(p)
    BY <2>3, <2>7 DEF Hearing, RoomLeft
  <2> QED BY <2>2, <2>6, <2>7, <2>8
<1> QED BY <1>3, <1>4, ReceivedIsNewest

\* A packet the accepted run drops is counted, and the run drops no later one.
LEMMA StaleKeepsRoom ==
  ASSUME TypeOK, TypeOK', Hearing, NEW h \in Handler, EndGetState(h)
  PROVE  RoomLeft'
<1> USE Numbers
<1> DEFINE p == hand[h].pkt
<1>1. UNCHANGED <<net, sent, source, session, cursor>>
  BY DEF EndGetState, outside
<1>2. p \in net /\ p.id = history.newest /\ p \in Packet
  BY DEF EndGetState, Hearing, InHand, Busy
<1>3. CASE history' # history
  <2>1. /\ history'.muted = history.muted + 1 /\ history'.judged = p.id
        /\ history'.newest = history.newest /\ history'.since = history.since
        /\ p.sess = session /\ p.id > cursor.at
        /\ p.id > history.since /\ p.id > history.judged
        /\ StaleAcceptedSequence(p, accepted) /\ accepted' = [sess |-> p.sess, seq |-> p.seq]
    BY <1>3, MutedCounts
  <2>2. SUFFICES ASSUME NEW q \in Coming' PROVE history.muted + 1 <= Room(q)'
    BY <2>1 DEF RoomLeft
  <2>3. p \in Coming
    BY <1>2, <2>1 DEF Coming, OfThisRun
  <2>4. q \in OfThisRun /\ q.id > p.id /\ q \in Packet
    BY <1>1, <2>1, <2>2, SameRun DEF Coming
  <2>5. p.seq < q.seq /\ p.sess = q.sess
    BY <2>1, <2>3, <2>4 DEF Hearing, Counting, OfThisRun
  <2>6. Before(p) <= Before(q) /\ Before(p) \in Nat /\ Before(q) \in Nat
    <3>1. p.seq <= q.seq
      BY <1>2, <2>4, <2>5 DEF Packet
    <3> QED BY <1>2, <2>4, <2>5, <3>1, RoomMonotone, DeltaAssumption
  <2>7. Room(p) = Before(p)
    BY <2>1 DEF Room
  <2>8. history.muted <= Before(p)
    BY <2>3, <2>6, <2>7 DEF Hearing, RoomLeft
  <2>9. Room(q)' = Before(q) + 1
    <3>1. ~StaleAcceptedSequence(q, accepted')
      BY <1>2, <2>1, <2>4, <2>5 DEF StaleAcceptedSequence, Packet
    <3>2. Before(q)' = Before(q)
      BY <1>1 DEF Before
    <3> QED BY <3>1, <3>2 DEF Room
  <2> QED BY <2>6, <2>8, <2>9
<1>4. CASE history' = history /\ history.muted > 0 /\ accepted' \notin {accepted, NoRun}
  <2>1. accepted' = [sess |-> p.sess, seq |-> p.seq]
    BY <1>4 DEF EndGetState, Run
  <2>2. history' = Muted(p) /\ Muted(p) = history
    BY <1>4 DEF EndGetState, Run
  <2>3. ~(p.sess = session /\ p.id > cursor.at /\ p.id > history.since /\ p.id > history.judged)
    <3>1. history.muted + 1 # history.muted
      OBVIOUS
    <3>2. [history EXCEPT !.muted = history.muted + 1, !.judged = p.id] # history
      BY <3>1 DEF History
    <3> QED BY <2>2, <3>2 DEF Muted
  <2>4. Coming' = Coming
    BY <1>1, <1>4, SameRun DEF Coming
  <2>5. ASSUME NEW q \in Coming' PROVE ~StaleAcceptedSequence(q, accepted')
    <3>1. q \in OfThisRun /\ q \in Packet /\ q.sess = session /\ q.id >= p.id
          /\ q.id > history.judged /\ q.id > cursor.at /\ q.id > history.since
      BY <1>2, <2>4, <2>5 DEF Coming, OfThisRun
    <3>2. CASE p.sess # session
      BY <2>1, <3>1, <3>2 DEF StaleAcceptedSequence
    <3>3. CASE p.sess = session
      <4>1. p \in OfThisRun
        BY <1>4, <3>3, InHandIsOfThisRun DEF EndGetState, Hearing, Busy
      <4>2. p.id < q.id
        BY <1>2, <2>3, <3>1, <3>3 DEF Packet
      <4>3. p.seq < q.seq
        BY <3>1, <4>1, <4>2 DEF Hearing, Counting
      <4> QED BY <1>2, <2>1, <3>1, <4>3 DEF StaleAcceptedSequence, Packet
    <3> QED BY <3>2, <3>3
  <2>6. ASSUME NEW q \in Coming' PROVE Room(q) \in Int /\ Room(q)' \in Int /\ Room(q) <= Room(q)'
    <3>1. q \in Packet
      BY <2>4, <2>6
    <3> QED BY <1>1, <2>5, <2>6, <3>1, RoomGrows
  <2> QED BY <1>4, <2>4, <2>6, CalmStep DEF Hearing
<1>5. CASE history' = history /\ accepted' \in {accepted, NoRun}
  BY <1>1, <1>5, QuietRoom DEF Hearing
<1>6. CASE history' = history /\ ~(history.muted > 0)
  BY <1>6 DEF RoomLeft
<1> QED BY <1>3, <1>4, <1>5, <1>6

\* The cursor that is written drops none of the packets still to be sent.
LEMMA CursorKeepsRoom ==
  ASSUME TypeOK, TypeOK', Hearing, NEW h \in Handler, PersistIngressCursor(h)
  PROVE  RoomLeft'
<1> USE Numbers
<1> DEFINE p == hand[h].pkt
<1>1. UNCHANGED <<net, sent, source, session, accepted>>
      /\ cursor' = [sess |-> p.sess, seq |-> p.seq, at |-> sent]
  BY DEF PersistIngressCursor, outside
<1>2. /\ history'.muted = history.muted /\ history'.judged = history.judged
      /\ history'.since = history.since /\ history'.newest = history.newest
  BY DEF PersistIngressCursor, History
<1>3. p \in net /\ p \in Packet /\ p.id <= sent
  BY DEF PersistIngressCursor, Hearing, InHand, Busy, Sent
<1>4. SUFFICES ASSUME history.muted > 0, NEW q \in Coming' PROVE history.muted <= Room(q)'
  BY <1>2 DEF RoomLeft
<1>5. q = Following
  <2>1. q \in OfThisRun /\ q.id > sent
    BY <1>1, <1>2, <1>4, SameRun DEF Coming
  <2>2. \A r \in net : r.id <= sent /\ r.id \in Nat
    BY DEF Hearing, Sent, Packet
  <2> QED BY <2>1, <2>2 DEF OfThisRun
<1>6. q \in Coming /\ q.sess = session /\ q \in Packet
  <2>1. Following \in Coming
    BY FollowingIsComing DEF Hearing
  <2> QED BY <1>5, <2>1 DEF Following
<1>7. p.sess = session => p.seq < q.seq
  <2> SUFFICES ASSUME p.sess = session PROVE p.seq < q.seq
    OBVIOUS
  <2>1. p \in OfThisRun
    BY <1>4, InHandIsOfThisRun DEF PersistIngressCursor, Hearing, Busy
  <2>2. p.id < q.id
    BY <1>3, <1>5 DEF Following, Packet
  <2> QED BY <1>6, <2>1, <2>2 DEF Hearing, Counting
<1>8. Before(q)' = Delta
  <2>1. p.seq \in Nat /\ q.seq \in Nat /\ Delta \in Nat
    BY <1>3, <1>6, DeltaAssumption DEF Packet
  <2> QED BY <1>1, <1>6, <1>7, <2>1 DEF Before
<1>9. history.muted <= Room(q)
  BY <1>4, <1>6 DEF Hearing, RoomLeft
<1>10. Before(q) \in 0 .. Delta
  <2>1. q.sess = q.sess /\ q.seq <= q.seq
    BY <1>6 DEF Packet
  <2> QED BY <1>6, <2>1, RoomMonotone
<1> QED BY <1>1, <1>8, <1>9, <1>10, DeltaAssumption DEF Room

\* Every step keeps the room.
LEMMA RoomKept ==
  ASSUME TypeOK, TypeOK', Hearing, world = "ordered", [Next]_vars
  PROVE  RoomLeft'
<1> USE Numbers
<1>1. history \in History
  OBVIOUS
<1>2. ASSUME NEW h \in Handler, ApplyAdapterSnapshot(h) PROVE RoomLeft'
  BY <1>1, <1>2 DEF ApplyAdapterSnapshot, RoomLeft, History
<1>3. CASE RestartSource \/ HandleAlreadyLiveStart
  <2>1. history'.muted = 0
    BY <1>1, <1>3 DEF RestartSource, HandleAlreadyLiveStart, History
  <2> QED BY <2>1 DEF RoomLeft
<1>4. CASE /\ UNCHANGED <<net, sent, source, session, cursor>> /\ accepted' \in {accepted, NoRun}
           /\ history'.muted = history.muted /\ history'.judged = history.judged
           /\ history'.since = history.since /\ history'.newest = history.newest
  BY <1>4, QuietRoom DEF Hearing
<1>5. ASSUME NEW h \in Handler, BeginGetState(h) \/ ResetRuntimeForAcceptedRun(h) \/ PersistState(h)
                                \/ CommitTransition(h) \/ Fail(h)
      PROVE  RoomLeft'
  BY <1>1, <1>4, <1>5 DEF BeginGetState, ResetRuntimeForAcceptedRun, PersistState,
     CommitTransition, Fail, History, server, outside
<1>6. CASE Crash \/ BeginRead \/ EndRead \/ UNCHANGED vars
  BY <1>1, <1>4, <1>6 DEF Crash, BeginRead, EndRead, Run, History, server, outside, vars
<1> QED
  BY <1>2, <1>3, <1>5, <1>6, SendKeepsRoom, ReceiveKeepsRoom, StaleKeepsRoom, CursorKeepsRoom
     DEF Next, Handle

-----------------------------------------------------------------------------
\* A source that restarts is heard after at most Delta + 1 packets, however often
\* sources restart and the server fails, where packets do not overlap
\* (shouldResetIngressCursor, setAcceptedRun of a stale packet).
THEOREM RestartIsHeard == Spec => []RestartedSourceIsHeard
<1>1. ASSUME Init, TypeOK PROVE HearInv
  <2>1. OneAtATime /\ InHand
    BY <1>1 DEF Init, OneAtATime, InHand, Busy, Idle, NotReading
  <2>2. Sent /\ Marks /\ RoomLeft
    BY <1>1 DEF Init, Sent, Marks, RoomLeft, NoCursor
  <2>3. Counting
    <3>1. \A p \in OfThisRun : p = Following
      BY <1>1 DEF Init, OfThisRun
    <3>2. Following.id \in Nat
      BY <1>1, Numbers DEF Packet
    <3> HIDE DEF Following
    <3> QED BY <3>1, <3>2 DEF Counting
  <2> QED BY <1>1, <2>1, <2>2, <2>3 DEF HearInv, Hearing
<1>2. ASSUME HearInv, [Next]_vars, TypeOK' PROVE HearInv'
  <2>1. world' = world
    BY <1>2, OutsideSteps DEF HearInv
  <2>2. CASE world = "ordered"
    <3>1. OneAtATime'
      BY <1>2, <2>2, OneAtATimeKept DEF HearInv
    <3>2. Sent' /\ InHand' /\ Marks' /\ Counting' /\ RoomLeft'
      BY <1>2, <2>2, SentKept, InHandKept, MarksKept, CountingKept, RoomKept DEF HearInv, Hearing
    <3> QED BY <1>2, <2>1, <2>2, <3>1, <3>2 DEF HearInv, Hearing
  <2> QED BY <1>2, <2>1, <2>2 DEF HearInv
<1>3. ASSUME HearInv PROVE RestartedSourceIsHeard
  <2> SUFFICES ASSUME world = "ordered" PROVE history.muted <= Delta + 1
    BY DEF RestartedSourceIsHeard
  <2>1. TypeOK /\ Hearing /\ Following \in Coming
    BY <1>3, FollowingIsComing DEF HearInv, Hearing
  <2>2. Room(Following) \in 0 .. Delta + 1
    <3>1. Following \in Packet
      BY <2>1, Numbers
    <3>2. Following.sess = Following.sess /\ Following.seq <= Following.seq
      BY <3>1 DEF Packet
    <3> QED BY <2>1, <3>1, <3>2, RoomMonotone
  <2>3. history.muted > 0 => history.muted <= Room(Following)
    BY <2>1 DEF Hearing, RoomLeft
  <2> QED BY <2>1, <2>2, <2>3, Numbers, DeltaAssumption
<1>4. Init /\ TypeOK => HearInv
  BY <1>1
<1>5. HearInv /\ [Next]_vars /\ TypeOK' => HearInv'
  BY <1>2
<1>6. HearInv => RestartedSourceIsHeard
  BY <1>3
<1> QED BY <1>4, <1>5, <1>6, TypeCorrect, PTL DEF Spec

=============================================================================
