---------------------------- MODULE FileDelivery ----------------------------
(***************************************************************************)
(* What FileTransferEngine promises of its transfers, without packets,     *)
(* threads or paths: the sender hands a file over or abandons it; the      *)
(* receiver puts the file in its place and then reports it saved, reports  *)
(* a failure, or, having died or never learned of the file, reports        *)
(* nothing for ever.  What lies in the downloads directory is lost to no   *)
(* other transfer than one of the same name that is put in its place, one  *)
(* file at a time.                                                         *)
(***************************************************************************)
CONSTANTS Files, NameOf

VARIABLES
    phase,      \* phase[f]: the sender's side of the transfer
    outcome,    \* outcome[f]: what the receiver has made of it
    downloads   \* transfers with a file in the downloads directory

vars == <<phase, outcome, downloads>>

Init ==
    /\ phase = [f \in Files |-> "open"]
    /\ outcome = [f \in Files |-> "none"]
    /\ downloads = {}

Leave(f, to) ==
    /\ phase[f] = "open"
    /\ phase' = [phase EXCEPT ![f] = to]
    /\ UNCHANGED <<outcome, downloads>>

HandOver(f) == Leave(f, "handed_over")
Abandon(f)  == Leave(f, "abandoned")

\* The receiver takes the file from one outcome to another.
Turn(f, from, to) ==
    /\ phase[f] = "handed_over"
    /\ outcome[f] \in from
    /\ outcome' = [outcome EXCEPT ![f] = to]
    /\ UNCHANGED phase

\* A copy is begun, or what there is of it is taken away again.
Prepare(f) ==
    /\ phase[f] = "handed_over" /\ outcome[f] = "none"
    /\ downloads' \in {downloads \cup {f}, downloads \ {f}}
    /\ UNCHANGED <<phase, outcome>>

Place(f) ==
    /\ Turn(f, {"none"}, "placed")
    /\ \/ downloads' = downloads \cup {f}
       \/ \E g \in downloads \ {f} :
             NameOf[g] = NameOf[f] /\ downloads' = (downloads \ {g}) \cup {f}

\* The file may have been displaced since it was placed.
Confirm(f) == Turn(f, {"placed"}, "saved") /\ UNCHANGED downloads

\* A copy may stay behind.
Reject(f) == Turn(f, {"none", "placed"}, "failed") /\ UNCHANGED downloads

\* The receiver dies, or its handler does, before anything is reported.
GiveUp ==
    \E S \in SUBSET {f \in Files : phase[f] = "handed_over"
                                   /\ outcome[f] \in {"none", "placed"}} :
        /\ outcome' = [f \in Files |-> IF f \in S THEN "over" ELSE outcome[f]]
        /\ UNCHANGED <<phase, downloads>>

Next ==
    \/ \E f \in Files :
          HandOver(f) \/ Abandon(f) \/ Prepare(f) \/ Place(f) \/ Confirm(f) \/ Reject(f)
    \/ GiveUp

Spec == Init /\ [][Next]_vars
=============================================================================
