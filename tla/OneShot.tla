------------------------------ MODULE OneShot ------------------------------
(***************************************************************************)
(* What CameraQrScanner promises of the callback given to start(), without *)
(* readers, flags or threads: it is armed until the next start(), may be   *)
(* taken once while it is, and is called only after that, once, however    *)
(* much later.                                                             *)
(***************************************************************************)
EXTENDS Naturals

CONSTANT Scans

VARIABLES
    stage,      \* stage[s]: "new", "armed", "taken" or "over"
    calls       \* calls[s]: how often the callback of scan s has been called

vars == <<stage, calls>>

Init ==
    /\ stage = [s \in Scans |-> "new"]
    /\ calls = [s \in Scans |-> 0]

\* The callback of an earlier scan that nobody has taken is dropped.
Begin(s) ==
    /\ stage[s] = "new"
    /\ stage' = [r \in Scans |->
          IF r = s THEN "armed" ELSE IF stage[r] = "armed" THEN "over" ELSE stage[r]]
    /\ UNCHANGED calls

Take(s) ==
    /\ stage[s] = "armed"
    /\ stage' = [stage EXCEPT ![s] = "taken"]
    /\ UNCHANGED calls

Call(s) ==
    /\ stage[s] = "taken"
    /\ stage' = [stage EXCEPT ![s] = "over"]
    /\ calls' = [calls EXCEPT ![s] = @ + 1]

Next == \E s \in Scans : Begin(s) \/ Take(s) \/ Call(s)

Spec == Init /\ [][Next]_vars
=============================================================================
