---------------------------- MODULE MCStaleReply ----------------------------
(***************************************************************************)
(* Five voters, of whom n1 leads terms 1 and 3 and n3 terms 2 and 4: a     *)
(* reply to n1 as leader of term 1 may be taken up in term 3.              *)
(***************************************************************************)
EXTENDS Raft, TLC

CONSTANTS n1, n2, n3, n4, n5, v1, noNode, nil

\* Who answers a RequestVote of each term; the other calls fail.
Answering == (1 :> {n3, n4} @@ 2 :> {n4, n5} @@ 3 :> {n3, n4} @@ 4 :> {n2, n5})

Ballots == {m \in rpcs : m.kind \in {"RequestVote", "RequestVoteReply"}}

\* An election, once begun, runs to its end.
ElectionNext ==
    \E m \in Ballots :
        \/ HandleRequestVote(m) /\ m.dst \in Answering[m.term]
        \/ RequestVoteFails(m) /\ m.kind = "RequestVote" /\ m.dst \notin Answering[m.term]
        \/ HandleRequestVoteReply(m)

\* The calls that matter reach their peers, when they will.
LeadingNext ==
    \/ StartElection(n1) /\ currentTerm[n1] \in {0, 2}
    \/ StartElection(n3) /\ currentTerm[n3] \in {1, 3}
    \/ Submit(n1, v1)
    \/ SendAppendEntries(n1, n2) \/ SendAppendEntries(n1, n4)
    \/ SendAppendEntries(n3, n1)
    \/ \E m \in rpcs : HandleAppendEntries(m) \/ HandleAppendEntriesReply(m)

\* Some of the steps of Next, so that every behaviour is one of Spec.
StaleReplySpec ==
    Init /\ [][IF Ballots # {} THEN ElectionNext ELSE LeadingNext]_vars

\* nextIndex and matchIndex of a node that does not lead are dead; nothing here
\* reads the votes cast.
LeaderView(f) == [i \in Node |-> IF state[i] = Leader THEN f[i] ELSE <<>>]

StaleReplyView ==
    <<persistent, state, commitIndex, hintLeaderID, LeaderView(nextIndex),
      LeaderView(matchIndex), appendInFlight, ballotVars, rpcs>>
=============================================================================
