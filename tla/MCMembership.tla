---------------------------- MODULE MCMembership ----------------------------
(* Instances of RaftMembership for TLC.  The runs start from a cluster at    *)
(* work, which Raft reaches without any membership change: n1 leads term 1,  *)
(* and every founding node has its founding entry and no-op, committed.      *)
EXTENDS RaftMembership, RaftElection, TLC

CONSTANTS n1, n2, n3, n4, noNode, nil

SteadyLog == <<Entry(EntryAddVoter, 1, Bootstrap), Entry(EntryNormal, 1, Nil)>>

SteadyInit ==
    /\ currentTerm    = [i \in Node |-> IF i \in Bootstrap THEN 1 ELSE 0]
    /\ votedFor       = [i \in Node |-> IF i \in Bootstrap THEN n1 ELSE NoNode]
    /\ log            = [i \in Node |-> IF i \in Bootstrap THEN SteadyLog ELSE <<>>]
    /\ state          = [i \in Node |-> IF i = n1 THEN Leader ELSE Follower]
    /\ commitIndex    = [i \in Node |-> IF i \in Bootstrap THEN 2 ELSE 0]
    /\ hintLeaderID   = [i \in Node |-> IF i \in Bootstrap THEN n1 ELSE NoNode]
    /\ nextIndex      = [i \in Node |-> [j \in Node |->
                            IF i = n1 /\ j \in Bootstrap \ {n1} THEN 3 ELSE 1]]
    /\ matchIndex     = [i \in Node |-> [j \in Node |->
                            IF i = n1 /\ j \in Bootstrap \ {n1} THEN 2 ELSE 0]]
    /\ appendInFlight = [i \in Node |-> {}]
    /\ votesReceived  = [i \in Node |-> {}]
    /\ quorumNeeded   = [i \in Node |-> 0]
    /\ rpcs           = {}
    /\ granted        = {<<1, i, n1>> : i \in Bootstrap}
    /\ elected        = {<<1, n1>>}
    /\ promoters      = {}
    /\ removals       = {}

SteadySpec == SteadyInit /\ [][MembershipNext]_allVars

\* Some of the steps of MembershipNext, so that a behaviour of two dozen of them
\* is in TLC's reach: n1 removes n4, is succeeded by n2, which removes n1, and
\* comes back.
RivalsNext ==
    \/ /\ \/ StartElection(n1) \/ StartElection(n2)
          \/ SendAppendEntries(n2, n4) \/ SendAppendEntries(n1, n3)
          \/ \E m \in rpcs : \/ HandleRequestVote(m) \/ HandleRequestVoteReply(m)
                             \/ RequestVoteFails(m)
                             \/ HandleAppendEntries(m) \/ HandleAppendEntriesReply(m)
       /\ UNCHANGED changing
    \/ RemoveNode(n1, n4) \/ RemoveNode(n2, n1)

RivalsSpec == SteadyInit /\ [][RivalsNext]_allVars

\* n1 leads at first; the other founding nodes are interchangeable.
FollowerSymmetry == Permutations(Bootstrap \ {n1})

\* nextIndex and matchIndex of a node that does not lead are dead: becomeLeader
\* sets both before they are read again.
LeaderView(f) == [i \in Node |-> IF state[i] = Leader THEN f[i] ELSE <<>>]

ChangeView ==
    <<persistent, state, commitIndex, hintLeaderID, LeaderView(nextIndex),
      LeaderView(matchIndex), appendInFlight, ballotVars, rpcs, history, changing>>
=============================================================================
