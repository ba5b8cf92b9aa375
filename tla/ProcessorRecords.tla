-------------------------- MODULE ProcessorRecords --------------------------
(* What EventProcessor does to the ownership records, as seen by Ownership. *)
EXTENDS EventProcessor

\* The whole processor, with its clients and links, keeps to Ownership: a
\* dispatch that has returned from load_balance is between cycles as far as
\* the records are concerned, and a process that died has stopped.  What
\* Ownership guarantees of the records therefore holds here too.
RecordPhase ==
  [x \in Processors |-> CASE phase[x] \in {"closing", "adding"} -> "idle"
                         [] phase[x] = "crashed" -> "stopped"
                         [] OTHER -> phase[x]]
RecordWon == [x \in Processors |-> IF phase[x] = "claim" THEN won[x] ELSE {}]
Records == INSTANCE Ownership WITH phase <- RecordPhase, won <- RecordWon
KeepsToOwnership ==
  /\ Records!OwnershipInit
  /\ [][UNCHANGED Records!ownershipVars \/ Records!OwnershipNext]_(Records!ownershipVars)
=============================================================================
