-------------------------- MODULE MCPullRequestJobs --------------------------
(***************************************************************************)
(* Finite instances of PullRequestJobs.  The delivery ids are named after  *)
(* what GitHub sent under them.                                            *)
(***************************************************************************)
EXTENDS PullRequestJobs, TLC

CONSTANTS w2, opened, reopened, closed, ping, forged, broken

EventsSent ==
    [d \in Deliveries |->
        [pullRequest |-> d # ping,
         signed |-> d # forged,
         analyzable |-> d # closed,
         wellFormed |-> d # broken]]

\* What the workers were started with: each with OpenAI, or one of them with
\* the provider that is not wired yet.
AllConfigured == [w \in Workers |-> [provider |-> "openai", key |-> TRUE]]
OneMisconfigured ==
    [AllConfigured EXCEPT ![w2] = [provider |-> "bedrock", key |-> FALSE]]

\* Interchangeable actors; deliveries are told apart by their events.
Symmetry ==
    Permutations(Jobs) \cup Permutations(Workers) \cup Permutations(Loops)
=============================================================================
