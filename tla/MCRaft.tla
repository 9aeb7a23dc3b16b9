------------------------------- MODULE MCRaft -------------------------------
(* Instances of Raft for TLC.                                               *)
EXTENDS RaftCommitment, RaftCommitted, TLC

CONSTANTS n1, n2, n3, v1, noNode, nil

\* Nodes are interchangeable: no definition of Raft orders them.
NodeSymmetry == Permutations(Node)

\* nextIndex and matchIndex of a node that does not lead are dead: becomeLeader
\* sets both before they are read again.
LeaderView(f) == [i \in Node |-> IF state[i] = Leader THEN f[i] ELSE <<>>]

\* Of the votes cast, those a candidate has in the election it runs in.
LiveVotes == {g \in granted : state[g[3]] = Candidate /\ currentTerm[g[3]] = g[1]}

\* The states that differ in what can happen next, or in what is secured.
ReplicationView ==
    <<persistent, state, commitIndex, hintLeaderID, LeaderView(nextIndex),
      LeaderView(matchIndex), appendInFlight, ballotVars, rpcs, elected, LiveVotes>>

\* For the safety of replication alone.  Only a candidate of a newer term asks
\* for hintLeaderID, and there is none for a node of the last term.
LiveHints == [i \in Node |-> IF currentTerm[i] < MaxTerm THEN hintLeaderID[i] ELSE NoNode]

SafetyView ==
    <<persistent, state, commitIndex, LiveHints, LeaderView(nextIndex),
      LeaderView(matchIndex), appendInFlight, ballotVars, rpcs>>

\* A cluster that has come apart: n2 led term 1, brought its no-op to everybody
\* without learning that, and took a command before n1 was elected in term 2 by
\* n3.  n2 does not know.  Init leads there.
FoundingLog == <<Entry(EntryAddVoter, 1, Bootstrap), Entry(EntryNormal, 1, Nil)>>

DivergedInit ==
    /\ currentTerm    = (n1 :> 2 @@ n2 :> 1 @@ n3 :> 2)
    /\ votedFor       = (n1 :> n1 @@ n2 :> n2 @@ n3 :> n1)
    /\ log            = (n1 :> Append(FoundingLog, Entry(EntryNormal, 2, Nil)) @@
                         n2 :> Append(FoundingLog, Entry(EntryNormal, 1, v1)) @@
                         n3 :> FoundingLog)
    /\ state          = (n1 :> Leader @@ n2 :> Leader @@ n3 :> Follower)
    /\ commitIndex    = [i \in Node |-> 0]
    /\ hintLeaderID   = (n1 :> n1 @@ n2 :> n2 @@ n3 :> n2)
    /\ nextIndex      = [i \in Node |-> [j \in Node |-> IF i = n1 /\ j # n1 THEN 3 ELSE 1]]
    /\ matchIndex     = [i \in Node |-> [j \in Node |-> 0]]
    /\ appendInFlight = [i \in Node |-> {}]
    /\ votesReceived  = [i \in Node |-> {}]
    /\ quorumNeeded   = [i \in Node |-> 0]
    /\ rpcs           = {}
    /\ granted        = {<<1, i, n2>> : i \in Node} \cup {<<2, n1, n1>>, <<2, n3, n1>>}
    /\ elected        = {<<1, n2>>, <<2, n1>>}

DivergedSpec == DivergedInit /\ [][Next]_vars

\* No election reads a commit index; the votes cast only the properties read.
ElectionView ==
    <<persistent, state, hintLeaderID, LeaderView(nextIndex), LeaderView(matchIndex),
      appendInFlight, ballotVars, history,
      {IF m.kind = "AppendEntries" THEN [m EXCEPT !.leaderCommit = 0] ELSE m : m \in rpcs}>>
=============================================================================
