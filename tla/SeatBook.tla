------------------------------ MODULE SeatBook ------------------------------
(***************************************************************************)
(* What the registrations of a session promise: a seating plan and a queue,*)
(* changed by one request at a time.  A newcomer gets the lowest free      *)
(* normal seat, or a VIP seat if that was asked for, and joins the end of  *)
(* the queue only when no normal seat is free.  Nobody else is moved: the  *)
(* others keep their seats and their order in the queue.                   *)
(***************************************************************************)
EXTENDS Integers

CONSTANT Team

VARIABLES
  seat,     \* seat[t]: the seat of t, 0 if it has none
  waiting,  \* the teams in the queue
  ahead,    \* <<t, u>>: t is ahead of u in the queue
  normal,   \* the seats a newcomer may get
  vip       \* the VIP seats

vars == <<seat, waiting, ahead, normal, vip>>

Init == /\ seat = [t \in Team |-> 0] /\ waiting = {} /\ ahead = {}
        /\ normal \subseteq Nat /\ vip \subseteq Nat

Present(t) == seat[t] # 0 \/ t \in waiting
Free       == (normal \cup vip) \ {seat[t] : t \in Team}
Kept       == UNCHANGED <<normal, vip>>

\* The teams T leave the queue; t goes to its end.
Others(T)  == {x \in ahead : x[1] \notin T /\ x[2] \notin T}
Dequeue(T) == waiting' = waiting \ T /\ ahead' = Others(T)
ToTheEnd(t) == /\ waiting' = waiting \cup {t}
               /\ ahead' = Others({t}) \cup ((waiting \ {t}) \X {t})

\* A newcomer asks for a seat.
Join(t) ==
  /\ ~Present(t) /\ Kept
  /\ LET free == normal \cap Free
     IN  IF free # {}
         THEN /\ \E s \in free : (\A s2 \in free : s <= s2) /\ seat' = [seat EXCEPT ![t] = s]
              /\ UNCHANGED <<waiting, ahead>>
         ELSE ToTheEnd(t) /\ UNCHANGED seat

\* A newcomer gets a VIP seat; a team that has a seat or waits is given a free one.
Sit(t) ==
  /\ Kept
  /\ \E s \in Free : /\ Present(t) \/ s \in vip
                     /\ seat' = [seat EXCEPT ![t] = s]
  /\ Dequeue({t})

\* A team is sent to the end of the queue.
Wait(t) ==
  /\ Present(t) /\ Kept
  /\ seat' = [seat EXCEPT ![t] = 0]
  /\ ToTheEnd(t)

\* Some teams leave.
Leave(T) ==
  /\ Kept
  /\ seat' = [t \in Team |-> IF t \in T THEN 0 ELSE seat[t]]
  /\ Dequeue(T)

\* The seats on offer change; nobody loses one.
Resize == normal' \subseteq Nat /\ vip' \subseteq Nat /\ UNCHANGED <<seat, waiting, ahead>>

Next == \/ \E t \in Team : Join(t) \/ Sit(t) \/ Wait(t)
        \/ \E T \in SUBSET Team : Leave(T)
        \/ Resize

Spec == Init /\ [][Next]_vars
=============================================================================
