--------------------------- MODULE StreamContract ---------------------------
(***************************************************************************)
(* What the window may rely on when it asks for a translation, whoever     *)
(* serves it: one Started, then events whose sequence numbers grow, then   *)
(* one end; or an end without any event when the request is rejected.      *)
(***************************************************************************)
EXTENDS Naturals

CONSTANT None

VARIABLES phase,   \* "idle", "asked" (nothing received yet), "open" or "ended"
          last     \* the last sequence number of this request, or None

Init == phase = "idle" /\ last = None

Ask == phase \in {"idle", "ended"} /\ phase' = "asked" /\ last' = None

Start == phase = "asked" /\ phase' = "open" /\ last' \in Nat

Text == phase = "open" /\ last' \in Nat /\ last' > last /\ phase' = phase

Finish == phase = "open" /\ last' \in Nat /\ last' > last /\ phase' = "ended"

\* Rejected before it began, or the stream broke off without a last event.
GiveUp == phase \in {"asked", "open"} /\ phase' = "ended" /\ last' = last

Spec == Init /\ [][Ask \/ Start \/ Text \/ Finish \/ GiveUp]_<<phase, last>>
============================================================================
