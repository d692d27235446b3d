----------------------------- MODULE Transport -----------------------------
(***************************************************************************)
(* What TcpTransport promises of one packet per connection, without        *)
(* sockets, threads or timeouts: the sender learns that the packet was     *)
(* accepted only when it was, it is dispatched at most once and only       *)
(* after that, and one that was refused never is.  A sender that gives up  *)
(* knows nothing.                                                          *)
(***************************************************************************)
CONSTANT Packets

VARIABLES
    answer,     \* answer[p]: what send_packet made of it, "none" while it waits
    fate        \* fate[p]: what the receiver made of it

vars == <<answer, fate>>

Init ==
    /\ answer = [p \in Packets |-> "none"]
    /\ fate = [p \in Packets |-> "open"]

Become(p, from, to) ==
    /\ fate[p] = from
    /\ fate' = [fate EXCEPT ![p] = to]
    /\ UNCHANGED answer

Accept(p)   == Become(p, "open", "accepted")
Dispatch(p) == Become(p, "accepted", "over")

\* The sender has closed the connection, which the receiver finds when it answers.
BreakOff(p) == answer[p] # "none" /\ Become(p, "open", "over")

Open == {p \in Packets : fate[p] = "open"}

\* Lost, malformed, with a bad signature, or reset with the listening socket.
Refuse ==
    /\ \E S \in SUBSET Open :
          fate' = [p \in Packets |-> IF p \in S THEN "refused" ELSE fate[p]]
    /\ UNCHANGED answer

\* The receiving process ends: what it had accepted is not dispatched any more.
Die ==
    /\ \E S \in SUBSET Open :
          fate' = [p \in Packets |-> IF p \in S THEN "refused"
                                     ELSE IF fate[p] = "accepted" THEN "over" ELSE fate[p]]
    /\ UNCHANGED answer

Learn(p, what) ==
    /\ answer[p] = "none"
    /\ answer' = [answer EXCEPT ![p] = what]
    /\ UNCHANGED fate

Succeed(p) == fate[p] \in {"accepted", "over"} /\ Learn(p, "ok")
Fail(p)    == Learn(p, "failed")

Next ==
    \/ \E p \in Packets : Accept(p) \/ Dispatch(p) \/ BreakOff(p) \/ Succeed(p) \/ Fail(p)
    \/ Refuse \/ Die

Spec == Init /\ [][Next]_vars
=============================================================================
