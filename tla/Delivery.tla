------------------------------ MODULE Delivery ------------------------------
(***************************************************************************)
(* What one tracker process promises about its deployment messages, with   *)
(* the queues, goroutines and retries of tracker/tracker.go left out.      *)
(*                                                                         *)
(* While the deployment runs the process is "open" and accepts messages.   *)
(* When the KCD has finished the set of accepted messages is "sealed".     *)
(* The process ends by itself ("closed") only when every accepted message  *)
(* has been settled, that is acknowledged by every endpoint, and settles   *)
(* no message twice.  A process that dies ("lost") forgets everything.     *)
(***************************************************************************)
CONSTANT Payload            \* the messages that may be accepted

VARIABLES accepted,         \* messages put on an informer queue
          settled,          \* messages acknowledged by every endpoint
          phase             \* "open", "sealed", "closed" or "lost"

vars == <<accepted, settled, phase>>

Init ==
    /\ accepted = {}
    /\ settled = {}
    /\ phase = "open"

Accept(m) ==
    /\ phase = "open"
    /\ m \notin accepted
    /\ accepted' = accepted \cup {m}
    /\ UNCHANGED <<settled, phase>>

Settle(m) ==
    /\ phase \in {"open", "sealed"}
    /\ m \in accepted \ settled
    /\ settled' = settled \cup {m}
    /\ UNCHANGED <<accepted, phase>>

Seal ==
    /\ phase = "open"
    /\ phase' = "sealed"
    /\ UNCHANGED <<accepted, settled>>

Close ==
    /\ phase = "sealed"
    /\ accepted = settled
    /\ phase' = "closed"
    /\ UNCHANGED <<accepted, settled>>

Crash ==
    /\ phase # "lost"
    /\ phase' = "lost"
    /\ UNCHANGED <<accepted, settled>>

Restart ==
    /\ phase = "lost"
    /\ accepted' = {}
    /\ settled' = {}
    /\ phase' = "open"

Next ==
    \/ \E m \in Payload : Accept(m) \/ Settle(m)
    \/ Seal
    \/ Close
    \/ Crash
    \/ Restart

Spec == Init /\ [][Next]_vars

\* A sealed process settles what it accepted and closes, unless it dies.
Finishes == phase = "sealed" ~> phase \in {"closed", "lost"}

LiveSpec == Spec /\ Finishes

=============================================================================
