----------------------- MODULE AtLeastOnceDelivery -----------------------
(***************************************************************************)
(* What the actions queue promises about each webhook event, without its   *)
(* table, its workers or its timeouts.  An event that was submitted stays  *)
(* accounted for; it is reported as delivered only after the target        *)
(* acknowledged it; and the target acknowledges it a second time only when *)
(* something disturbed the delivery: a worker lost its claim, crashed or   *)
(* could not record the result, or an operator asked for a retry.          *)
(***************************************************************************)

CONSTANT Events

VARIABLES status, acked, disturbed

vars == <<status, acked, disturbed>>

Status == {"absent", "open", "delivered", "abandoned"}

TypeOK ==
    /\ status \in [Events -> Status]
    /\ acked \in SUBSET Events
    /\ disturbed \in SUBSET Events

Init ==
    /\ status = [e \in Events |-> "absent"]
    /\ acked = {}
    /\ disturbed = {}

\* A committed content mutation hands over a set of events.
Submit(S) ==
    /\ \A e \in S : status[e] = "absent"
    /\ status' = [e \in Events |-> IF e \in S THEN "open" ELSE status[e]]
    /\ UNCHANGED <<acked, disturbed>>

\* The target confirms a set of events; one it confirmed before only if disturbed.
Acknowledge(S) ==
    /\ \A e \in S : status[e] # "absent"
    /\ S \cap acked \subseteq disturbed
    /\ acked' = acked \cup S
    /\ UNCHANGED <<status, disturbed>>

\* Events change status, some of them because their delivery was disturbed.  None
\* appears or disappears, only an acknowledged one becomes delivered, and a delivered
\* one is opened again only if disturbed.
Settle ==
    /\ status' \in [Events -> Status]
    /\ \A e \in Events : status'[e] # status[e] =>
          /\ status[e] # "absent"
          /\ status'[e] # "absent"
          /\ status'[e] = "delivered" => e \in acked
          /\ status[e] = "delivered" => e \in disturbed' \/ status'[e] = "abandoned"
    /\ disturbed \subseteq disturbed'
    /\ disturbed' \subseteq Events
    /\ UNCHANGED acked

Next ==
    \/ \E S \in SUBSET Events : Submit(S) \/ Acknowledge(S)
    \/ Settle

Spec == Init /\ [][Next]_vars
=============================================================================
