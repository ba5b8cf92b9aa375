---------------------------- MODULE MCAccountSync ----------------------------
(* Instances of AccountSync for TLC. *)
EXTENDS AccountSync, TLC

\* The account changes while all its endpoints can be reached, its first version
\* with or without an ETag; or it changes and no version need have one; or
\* endpoints fail while it stays as it is.
AccountChanges ==
  [versions |-> MaxVersion, untagged |-> {1}, regions |-> Regions, failing |-> {}]
EtagsMissing ==
  [versions |-> MaxVersion, untagged |-> Versions, regions |-> {}, failing |-> {}]
EndpointsFail ==
  [versions |-> 1, untagged |-> {}, regions |-> Regions, failing |-> Endpoints]

AllLimits == {AccountChanges, EtagsMissing, EndpointsFail}
=============================================================================
