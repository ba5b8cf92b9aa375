-------------------------- MODULE MCEventProcessor --------------------------
(* Instances of EventProcessor for TLC. *)
EXTENDS ProcessorRecords, TLC

\* Processors are interchangeable; clients and links are numbered.
ProcessorSymmetry == Permutations(Processors)

\* Reading: a process dies or run() ends while clients read, and the other
\* processor continues over a link of its own.
ReadOn == [changes |-> 1, cycles |-> 2, events |-> 2, origins |-> {0},
           clients |-> 2, links |-> 2]

\* Only new events: links attach at the end of the partition until there is a
\* checkpoint.
ReadNew == [changes |-> 0, cycles |-> 2, events |-> 2, origins |-> {Latest},
            clients |-> 2, links |-> 3]

\* Restart: run() is called again, and a new client meets one of the old run.
\* Reading starts at the second event.
Restart == [changes |-> 2, cycles |-> 2, events |-> 2, origins |-> {1},
            clients |-> 2, links |-> 1]

\* Revocation: the loser of a partition notices in its next dispatch.
LoseIt == [changes |-> 0, cycles |-> 3, events |-> 2, origins |-> {0},
           clients |-> 1, links |-> 1]

\* Losing and regaining: enough dispatches for the loser to get it back.
Regain == [changes |-> 0, cycles |-> 4, events |-> 0, origins |-> {0},
           clients |-> 3, links |-> 0]

AllLimits == {ReadOn, ReadNew, Restart, LoseIt, Regain}
LoseItOnly == {LoseIt}
=============================================================================
