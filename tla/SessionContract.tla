--------------------------- MODULE SessionContract ---------------------------
(***************************************************************************)
(* What the session of a call promises to the rest of the bridge, however  *)
(* the caller, the network, the tools and the operators interfere: it runs *)
(* once, survives a bounded number of lost connections, and when it is     *)
(* over, and only then, one call detail record is put on its way.          *)
(***************************************************************************)
EXTENDS Naturals

CONSTANT MaxReconnects  \* len(_RECONNECT_BACKOFFS), a natural number

VARIABLES stage, losses, record

cvars == <<stage, losses, record>>

Init == stage = "waiting" /\ losses = 0 /\ record = "none"

Start == /\ stage = "waiting" /\ stage' = "running"
         /\ UNCHANGED <<losses, record>>

Lose == /\ stage = "running" /\ losses < MaxReconnects
        /\ losses' = losses + 1
        /\ UNCHANGED <<stage, record>>

End == /\ stage = "running" /\ stage' = "over" /\ record' = "pending"
       /\ UNCHANGED losses

\* The record is written, or the database refuses it.
Write == /\ record = "pending" /\ record' \in {"saved", "failed"}
         /\ UNCHANGED <<stage, losses>>

Next == Start \/ Lose \/ End \/ Write

Safety == Init /\ [][Next]_cvars

Spec == Safety /\ WF_cvars(Write)

=============================================================================
