----------------------------- MODULE BranchLog -----------------------------
(***************************************************************************)
(* What the queued commit path promises of one branch, between two admin   *)
(* commands: accepted entries are taken one at a time, in the order they   *)
(* were accepted, and each either adds its own change at the end of the    *)
(* branch's history or leaves the history as it is.  Nodes, leaders,       *)
(* workers, stashes and retries do not appear.                             *)
(***************************************************************************)
EXTENDS Naturals, Sequences

VARIABLES
    accepted,  \* how many entries were accepted; their ids are 0 .. accepted - 1
    pending,   \* ids of the entries that are not over, in order
    history    \* ids of the entries whose change the branch's head includes

logVars == <<accepted, pending, history>>

LogInit == accepted = 0 /\ pending = <<>> /\ history = <<>>

Accept ==
    /\ accepted' = accepted + 1
    /\ pending' = Append(pending, accepted)
    /\ UNCHANGED history

\* The entry at the front commits ...
Land ==
    /\ pending # <<>>
    /\ history' = Append(history, Head(pending))
    /\ pending' = Tail(pending)
    /\ UNCHANGED accepted

\* ... or it fails, or changes nothing.
Discard ==
    /\ pending # <<>>
    /\ pending' = Tail(pending)
    /\ UNCHANGED <<accepted, history>>

LogNext == Accept \/ Land \/ Discard

LogSpec == LogInit /\ [][LogNext]_logVars

=============================================================================
