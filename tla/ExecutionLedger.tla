--------------------------- MODULE ExecutionLedger ---------------------------
(***************************************************************************)
(* What RuntimeStateDoc promises its readers about execution entries.      *)
(* Entries appear queued, in the order of their numbers.  From then on an  *)
(* entry is started or cancelled, and one that was started ends done or in *)
(* error.  One step may move several entries: an interrupt fails the       *)
(* running one and cancels the rest, and a completion starts the next.     *)
(***************************************************************************)
EXTENDS Integers

CONSTANT MaxExecs

VARIABLE ledger  \* status of each execution entry

Entries == 1 .. MaxExecs

Moves == { <<"absent", "queued">>, <<"queued", "running">>, <<"queued", "cancelled">>,
           <<"running", "done">>, <<"running", "error">> }

Init == ledger = [e \in Entries |-> "absent"]

MovesOnly == \A e \in Entries :
  ledger'[e] # ledger[e] => <<ledger[e], ledger'[e]>> \in Moves

Starts(e) == ledger[e] # "running" /\ ledger'[e] = "running"

\* Nothing starts beside or ahead of an earlier entry that still waits.
StartsInTurn == \A e \in Entries : Starts(e) =>
  \A d \in Entries : /\ d < e => ledger'[d] \notin {"absent", "queued"}
                     /\ d # e => ledger'[d] # "running"

Next ==
  /\ ledger' \in [Entries -> {"absent", "queued", "running", "done", "error", "cancelled"}]
  /\ MovesOnly
  /\ StartsInTurn

Spec == Init /\ [][Next]_ledger

=============================================================================
