------------------------------- MODULE Channel -------------------------------
(***************************************************************************)
(* What a connection promises a client: while it is open, the messages the *)
(* client sends are met whole, one at a time and in order; each is         *)
(* accepted or refused, once.  When the connection closes, or the sender   *)
(* stops, others are lost.  But a part of some messages is left, and what  *)
(* is met then is none that was sent: of those behind it some are lost,    *)
(* until a message begins where another one ends again.                    *)
(***************************************************************************)
EXTENDS Naturals, Sequences

CONSTANTS Messages,
          Leaves,   \* the messages of which a part may be left
          None, Garbage

VARIABLES open,     \* whether there is a connection
          pending,  \* the messages sent on it of which nothing was met
          inStep,   \* whether what comes next is a message
          last      \* the last message that was accepted

vars == <<open, pending, inStep, last>>

Init == open = FALSE /\ pending = <<>> /\ inStep = TRUE /\ last = None

Connect == ~open /\ open' = TRUE /\ UNCHANGED <<pending, inStep, last>>

Send(m) == open /\ pending' = Append(pending, m) /\ UNCHANGED <<open, inStep, last>>

Closes == open' = FALSE /\ pending' = <<>> /\ inStep' = TRUE

\* The first message is met, and the connection stays.
Meets ==
  /\ pending' = Tail(pending) /\ UNCHANGED open
  /\ inStep' = TRUE \/ (Head(pending) \in Leaves /\ inStep' = FALSE)

Accept == inStep /\ pending # <<>> /\ last' = Head(pending) /\ (Meets \/ Closes)

Refuse == inStep /\ pending # <<>> /\ Meets /\ UNCHANGED last

\* What was left of a message is taken for another one, with any that follow.
Misread ==
  /\ ~inStep /\ last' \in {last, Garbage}
  /\ \/ Closes
     \/ /\ UNCHANGED open /\ inStep' \in BOOLEAN
        /\ \E n \in 0 .. Len(pending) : pending' = SubSeq(pending, n + 1, Len(pending))

\* The sender is gone, and the last messages with it.
Lose == /\ open /\ inStep' \in {inStep, TRUE} /\ UNCHANGED <<open, last>>
        /\ \E n \in 0 .. Len(pending) : pending' = SubSeq(pending, 1, n)

Close == open /\ Closes /\ UNCHANGED last

Next == \/ Connect \/ (\E m \in Messages : Send(m))
        \/ Accept \/ Refuse \/ Misread \/ Lose \/ Close

Spec == Init /\ [][Next]_vars
=============================================================================
