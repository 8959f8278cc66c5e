--------------------------- MODULE RolePackSwitch ---------------------------
(***************************************************************************)
(* The two-phase switch of external role packs                             *)
(* (pet_role_pack_switch.py): a candidate is built off-path, the old       *)
(* Track 0 is contained, the candidate is published and promoted, the old  *)
(* pack is closed and the first Relax confirmed.                           *)
(*                                                                         *)
(* The host (quiesce, publish, confirm, resume) is a protocol of the       *)
(* module; each of its answers is a choice, and each call may raise.  A    *)
(* resource whose close raises is closed for the module too: the exception *)
(* is suppressed.  A caller may close a candidate itself and may offer the *)
(* same object again, whatever became of it: promote() refuses one that is *)
(* closed or transferred, but only after the host was told to publish it.  *)
(***************************************************************************)
EXTENDS Naturals, Sequences, SequencesExt

CONSTANTS
    Packs,      \* role packs, the one active at the start among them
    First,      \* the pack active at the start
    Identity,   \* the validated identity of each pack
    Builders    \* how many resources a pack is built of

\* What the constants must satisfy.
PackAssumption ==
    First \in Packs /\ DOMAIN Identity = Packs /\ Builders \in Nat \ {0}

VARIABLES
    built,      \* pack -> how many of its resources were built
    owner,      \* pack -> what became of its candidate: nobody, candidate, active,
                \* closed, retired (promoted and replaced since) or failed
    closes,     \* the calls of close on resources, in order
    active,     \* the coordinator's active pack
    published,  \* the pack the host shows
    contained,  \* old Track 0 cleared and no Relax confirmed since
    autonomous, \* the host schedules autonomous actions
    outcome     \* of the last switch

vars == <<built, owner, closes, active, published, contained, autonomous, outcome>>

Resources == Packs \X (1..Builders)

Init ==
    /\ built = [p \in Packs |-> IF p = First THEN Builders ELSE 0]
    /\ owner = [p \in Packs |-> IF p = First THEN "active" ELSE "nobody"]
    /\ closes = <<>> /\ active = First /\ published = First
    /\ contained = FALSE /\ autonomous = TRUE /\ outcome = "none"

\* for resource in reversed(resources): resource.close()
CloseReversed(p, n) == closes \o [i \in 1..n |-> <<p, n + 1 - i>>]

\* close() of a candidate or an active pack runs once.
Close(p) == CloseReversed(p, Builders)

Prepare(p) ==
    /\ owner[p] = "nobody"
    /\ owner' = [owner EXCEPT ![p] = "candidate"]
    /\ built' = [built EXCEPT ![p] = Builders]
    /\ UNCHANGED <<closes, active, published, contained, autonomous, outcome>>

\* The builder after the first n raises: contain every partial resource.
PrepareFails(p, n) ==
    /\ owner[p] = "nobody" /\ n < Builders
    /\ owner' = [owner EXCEPT ![p] = "failed"]
    /\ built' = [built EXCEPT ![p] = n]
    /\ closes' = CloseReversed(p, n)
    /\ UNCHANGED <<active, published, contained, autonomous, outcome>>

\* RolePackCandidate.close: nothing for one that is closed or transferred.
DropCandidate(p) ==
    /\ owner' = IF owner[p] = "candidate" THEN [owner EXCEPT ![p] = "closed"] ELSE owner
    /\ closes' = IF owner[p] = "candidate" THEN Close(p) ELSE closes

\* Whoever prepared a candidate may close it.
CandidateClosed(p) ==
    /\ owner[p] = "candidate" /\ DropCandidate(p)
    /\ UNCHANGED <<built, active, published, contained, autonomous, outcome>>

\* switch is called with any candidate object there is.
CandidateOffered(p) == owner[p] \notin {"nobody", "failed"}

OtherCandidateOffered(p) == CandidateOffered(p) /\ Identity[p] # Identity[active]

\* A switch that ends before the active pack is replaced: the candidate is closed.
Refused(p, result) ==
    /\ DropCandidate(p) /\ outcome' = result /\ UNCHANGED <<built, active>>

SameIdentity(p) ==
    /\ CandidateOffered(p) /\ Identity[p] = Identity[active]
    /\ Refused(p, "no_op")
    /\ UNCHANGED <<published, contained, autonomous>>

\* quiesce_role_pack stops the schedule and answers something other than CLEARED.
ContainmentFails(p) ==
    /\ OtherCandidateOffered(p) /\ Refused(p, "containment_failed")
    /\ autonomous' = FALSE /\ UNCHANGED <<published, contained>>

\* It raises, with the schedule stopped or not; nobody closes the candidate.
QuiesceRaises(p) ==
    /\ OtherCandidateOffered(p) /\ outcome' = "raised" /\ autonomous' \in {autonomous, FALSE}
    /\ UNCHANGED <<built, owner, closes, active, published, contained>>

\* Track 0 is cleared; publish_role_pack raises and shows nothing new.
PublishFails(p) ==
    /\ OtherCandidateOffered(p) /\ Refused(p, "publish_failed")
    /\ contained' = TRUE /\ autonomous' = FALSE /\ UNCHANGED published

\* The host shows the pack, and then promote() refuses the candidate.
PromoteFails(p) ==
    /\ OtherCandidateOffered(p) /\ owner[p] # "candidate" /\ Refused(p, "publish_failed")
    /\ published' = p /\ contained' = TRUE /\ autonomous' = FALSE

\* Seeded fault: a candidate given up before is promoted like a fresh one.
PromotableAnyway(p) == OtherCandidateOffered(p)

\* promote() of a candidate that is neither closed nor transferred.
Promotable(p) == OtherCandidateOffered(p) /\ owner[p] = "candidate"

\* Published and promoted: the old pack is closed before the Relax is confirmed.
Replace(p) ==
    /\ Promotable(p) /\ published' = p /\ active' = p
    /\ owner' = [owner EXCEPT ![p] = "active", ![active] = "retired"]
    /\ closes' = Close(active) /\ UNCHANGED built

\* Autonomy resumes only when the Relax is confirmed.
Switch(p, relaxed) ==
    /\ Replace(p)
    /\ contained' = ~relaxed /\ autonomous' = relaxed
    /\ outcome' = IF relaxed THEN "switched" ELSE "relax_failed"

\* confirm_relax or resume_autonomous raises after the replacement.
RelaxRaises(p) ==
    /\ Replace(p)
    /\ contained' \in BOOLEAN /\ autonomous' \in {FALSE, ~contained'} /\ outcome' = "raised"

Next ==
    \E p \in Packs :
        \/ Prepare(p) \/ CandidateClosed(p)
        \/ \E n \in 0..(Builders - 1) : PrepareFails(p, n)
        \/ SameIdentity(p) \/ ContainmentFails(p) \/ QuiesceRaises(p)
        \/ PublishFails(p) \/ PromoteFails(p)
        \/ RelaxRaises(p) \/ \E relaxed \in BOOLEAN : Switch(p, relaxed)

Spec == Init /\ [][Next]_vars

TypeOK ==
    /\ built \in [Packs -> 0..Builders]
    /\ owner \in [Packs -> {"nobody", "candidate", "active", "closed", "retired", "failed"}]
    /\ closes \in Seq(Resources)
    /\ {active, published} \subseteq Packs
    /\ {contained, autonomous} \subseteq BOOLEAN
    /\ outcome \in {"none", "no_op", "containment_failed", "publish_failed", "switched", "relax_failed",
                    "raised"}

Built == {r \in Resources : r[2] <= built[r[1]]}

\* Whatever fails or raises on the way, and however often a candidate is offered again, each
\* resource that was built is closed exactly once, or belongs to the active pack or to a
\* candidate still to be switched, which are never closed.
EveryResourceOwnedOrClosedOnce ==
    /\ IsInjective(closes)
    /\ Range(closes) = {r \in Built : owner[r[1]] \notin {"active", "candidate"}}

\* The resources of a pack are closed in the reverse order of their construction: a later one
\* may use an earlier one.
ClosedInReverse ==
    \A i, j \in DOMAIN closes :
        i < j /\ closes[i][1] = closes[j][1] => closes[i][2] > closes[j][2]

\* Autonomous actions run only on the pack the coordinator holds and the host shows, after a
\* confirmed Relax of it: no way out of a failed switch resumes them.
AutonomousOnlyWhenRelaxed ==
    /\ owner[active] = "active"
    /\ autonomous => /\ published = active /\ ~contained
                     /\ outcome \in {"none", "no_op", "switched", "raised"}

\* The host shows another pack than the coordinator holds only after it was offered a candidate
\* whose resources are closed already; Track 0 stays contained until a later switch succeeds.
OnlyGivenUpPacksMislead ==
    published # active => contained /\ owner[published] \in {"closed", "retired"}

=============================================================================
