------------------------------ MODULE Ownership ------------------------------
(***************************************************************************)
(* What baseline.json promises, whatever happens to the processes that     *)
(* write it: the duty recorded for a channel never changes, and leaves the *)
(* record only together with the whole device's, or with everything when   *)
(* the host is reset.  There is no step in which half of a record is there.*)
(***************************************************************************)
CONSTANTS Chan, Dev, DevOf, Duty, None

VARIABLE kept      \* the recorded duty of each channel, or None

Init == kept = [c \in Chan |-> None]

(* More channels of one device are taken over. *)
Take(d) ==
  /\ kept' \in [Chan -> Duty \cup {None}]
  /\ \A c \in Chan : kept'[c] # kept[c] => kept[c] = None /\ DevOf[c] = d

Give(d) == kept' = [c \in Chan |-> IF DevOf[c] = d THEN None ELSE kept[c]]

Lose == kept' = [c \in Chan |-> None]

Next == Lose \/ \E d \in Dev : Take(d) \/ Give(d)

Spec == Init /\ [][Next]_kept
==============================================================================
