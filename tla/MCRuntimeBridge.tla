--------------------------- MODULE MCRuntimeBridge ---------------------------
(* Small instances of RuntimeBridge for TLC.                               *)
EXTENDS RuntimeBridge

\* Nothing orders or compares identifiers, so what holds of one of them in
\* every behaviour holds of each.
Followed == CHOOSE id \in CommandId : TRUE

\* Every command the bridge took for the runtime is settled in the end,
\* whatever shutdown, cancellation or crash it meets on the way:
\* OrdinarySettles, of one command among the others.
FollowedSettles ==
  (Pending(Followed) /\ kind[Followed] \in Ordinary) ~> ~Pending(Followed)
=============================================================================
