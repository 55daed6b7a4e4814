--------------------------- MODULE CommandLedger ---------------------------
(***************************************************************************)
(* What the order client promises about its commands (docs/protocol.md,    *)
(* "No mutation is retried"): a command leaves the client at most once,    *)
(* one command is outstanding at a time, an acknowledged placement was     *)
(* placed exactly once, and after a command whose outcome is unknown no    *)
(* placement is ever issued again.  OrderClient implements this module.    *)
(***************************************************************************)
CONSTANTS Commands,    \* every command the client may be asked to issue
          Placements   \* those of them that place an order

VARIABLES status,      \* what the client knows of each command
          placed       \* the placements the venue has carried out

vars == <<status, placed>>

Statuses == {"new", "sent", "acked", "unknown"}

Init == /\ status = [c \in Commands |-> "new"]
        /\ placed = {}

Issue(c) == /\ status[c] = "new"
            /\ \A d \in Commands : status[d] # "sent"
            /\ c \in Placements => \A d \in Commands : status[d] # "unknown"
            /\ status' = [status EXCEPT ![c] = "sent"]
            /\ UNCHANGED placed

\* The venue may still carry out a placement the client has given up on.
Place(c) == /\ status[c] \in {"sent", "unknown"}
            /\ c \notin placed
            /\ placed' = placed \union {c}
            /\ UNCHANGED status

Acknowledge(c) == /\ status[c] = "sent"
                  /\ c \in Placements => c \in placed
                  /\ status' = [status EXCEPT ![c] = "acked"]
                  /\ UNCHANGED placed

GiveUp(c) == /\ status[c] = "sent"
             /\ status' = [status EXCEPT ![c] = "unknown"]
             /\ UNCHANGED placed

Next == \/ \E c \in Commands : Issue(c) \/ Acknowledge(c) \/ GiveUp(c)
        \/ \E c \in Placements : Place(c)

Spec == Init /\ [][Next]_vars
=============================================================================
