----------------------------- MODULE AtLeastOnce -----------------------------
(***************************************************************************)
(* What a consumer group of the raw-logs topic promises for one partition: *)
(* the committed offset only moves forward, and only over records that     *)
(* have been settled, that is, delivered to the group's sink or written to *)
(* the dead-letter topic.  Settling is repeatable and is never undone.     *)
(***************************************************************************)
EXTENDS Integers

CONSTANT LogEnd               (* offsets 1..LogEnd are on the partition    *)

VARIABLES settled,            (* offsets delivered or dead-lettered        *)
          committed           (* the group's committed offset              *)

aloVars == <<settled, committed>>

Init ==
    /\ settled = {}
    /\ committed = 0

Settle ==
    /\ settled' \in SUBSET (1..LogEnd)
    /\ settled \subseteq settled'
    /\ UNCHANGED committed

Commit ==
    /\ committed' \in committed..LogEnd
    /\ 1..committed' \subseteq settled
    /\ UNCHANGED settled

Next == Settle \/ Commit

Spec == Init /\ [][Next]_aloVars

\* No record that the group will not see again is lost.
NothingLost == 1..committed \subseteq settled
=============================================================================
