--------------------------- MODULE RaftCommitted ---------------------------
(***************************************************************************)
(* Raft as an implementation of ReplicatedLog: what a node has learned is  *)
(* its log up to its commit index, what has been chosen is the longest of  *)
(* these.  And what a leader that is left alone brings about.              *)
(***************************************************************************)
EXTENDS Raft

\* What applier of node i may hand to its state machine.
learned == [i \in Node |-> SubSeq(log[i], 1, commitIndex[i])]

\* The node that knows most.
Foremost == CHOOSE i \in Node : \A j \in Node : commitIndex[j] <= commitIndex[i]

Promise == INSTANCE ReplicatedLog WITH
    chosen <- SubSeq(log[Foremost], 1, commitIndex[Foremost])

\* Every step of Raft chooses entries after all those that any node knows as
\* committed, or lets one node learn a prefix of them, or is invisible: neither
\* of two leaders of different terms, nor a node that comes back with another
\* leader's tail, makes a node know what is not chosen.
ImplementsReplicatedLog == Promise!Spec

-----------------------------------------------------------------------------
\* Nobody challenges the leader i.
Unchallenged(i) == state[i] = Leader /\ \A j \in Node : currentTerm[j] <= currentTerm[i]

\* A call of i to j has come back.
Reached(i, j) == \E m \in rpcs : m.src = j /\ m.dst = i /\ HandleAppendEntriesReply(m)

\* Node j has all of i's log, knows all of it as committed and redirects to i.
Follows(j, i) == log[j] = log[i] /\ commitIndex[j] = Len(log[i]) /\ hintLeaderID[j] = i

\* If a leader stays unchallenged and reaches each of the others again and again,
\* whatever is lost or late besides, all nodes come to follow it, however far their
\* logs have grown apart before: the search for the common prefix never goes round
\* in circles, and the no-op commits what earlier leaders have left.
Converges ==
    \A i \in Node :
        /\ <>[]Unchallenged(i)
        /\ \A j \in Node \ {i} : []<><<Reached(i, j)>>_vars
        => <>[](\A j \in Node : Follows(j, i))
=============================================================================
