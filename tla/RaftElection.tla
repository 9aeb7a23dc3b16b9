---------------------------- MODULE RaftElection ----------------------------
(***************************************************************************)
(* Why a node votes once in a term, and why two nodes are never elected in *)
(* one, as inductive invariants in three layers.  TermInv, what terms,     *)
(* logs and messages say of each other, depends neither on who the voters  *)
(* are nor on their memory: it holds while the membership changes as well. *)
(* VotingInv adds that a node remembers its vote, or has led since.        *)
(* ElectionInv adds what the ballots being counted say, when the founding  *)
(* members are the voters of every candidate.                              *)
(***************************************************************************)
EXTENDS Raft

-----------------------------------------------------------------------------
(* What holds whoever votes.                                                *)

\* Membership entries are about nodes, in logs and in requests under way.
AboutNodes(entries) ==
    \A k \in DOMAIN entries : entries[k].type # EntryNormal => entries[k].arg \subseteq Node

EntriesAboutNodes ==
    /\ \A i \in Node : AboutNodes(log[i])
    /\ \A m \in rpcs : m.kind = "AppendEntries" => AboutNodes(m.entries)

\* No log, and no message, is ahead of its term.
TermsBehind ==
    /\ \A i \in Node : \A k \in DOMAIN log[i] : log[i][k].term <= currentTerm[i]
    /\ \A m \in rpcs : m.kind = "AppendEntries" =>
          \A k \in DOMAIN m.entries : m.entries[k].term <= m.term

\* The sentinel before the first entry has term 0 on every node.
SentinelTerm ==
    \A m \in rpcs : m.kind = "AppendEntries" /\ m.prevLogIndex = 0 => m.prevLogTerm = 0

\* What a leader sends ends in its term, as the leader's log does: the entries,
\* or without any the entry they would follow.
LastSentTerm(m) == IF m.entries = <<>> THEN m.prevLogTerm ELSE LastTerm(m.entries)

RequestsEndInTerm ==
    \A m \in rpcs : m.kind = "AppendEntries" => LastSentTerm(m) = m.term

\* A candidate asks for votes with a log that ends before its term.
RequestsBehind ==
    \A m \in rpcs : m.kind = "RequestVote" => m.lastLogTerm < m.term

\* A reply that grants a vote stands for a vote cast.
RepliesGranted ==
    \A m \in rpcs : m.kind = "RequestVoteReply" /\ m.voteGranted
        => <<m.electionTerm, m.src, m.dst>> \in granted

\* Votes are cast in terms the voter has reached.
VotesBehind == \A g \in granted : g[1] <= currentTerm[g[2]]

\* Who was elected has reached that term.
ElectionsBehind == \A e \in elected : e[1] <= currentTerm[e[2]]

\* A node elected in its current term ends its log in that term, leader still
\* or not.
ElectedLogEnds ==
    \A e \in elected : e[1] = currentTerm[e[2]] => LastTerm(log[e[2]]) = e[1]

\* A leader was elected, and so was the sender of an AppendEntries.
LeadersElected ==
    /\ \A i \in Node : state[i] = Leader => <<currentTerm[i], i>> \in elected
    /\ \A m \in rpcs : m.kind = "AppendEntries" =>
          <<m.term, m.src>> \in elected /\ m.src # m.dst

\* The inductive invariant of terms, whoever votes and whatever for.
TermInv ==
    /\ TypeOK
    /\ EntriesAboutNodes
    /\ TermsBehind
    /\ SentinelTerm
    /\ RequestsEndInTerm
    /\ RequestsBehind
    /\ RepliesGranted
    /\ VotesBehind
    /\ ElectionsBehind
    /\ ElectedLogEnds
    /\ LeadersElected

\* votedFor remembers the vote of the current term, unless becomeFollower
\* cleared it on a leader of that term.
VotesRemembered ==
    \A g \in granted : g[1] = currentTerm[g[2]] =>
        \/ votedFor[g[2]] = g[3]
        \/ votedFor[g[2]] = NoNode /\ <<g[1], g[2]>> \in elected

\* The inductive invariant behind one vote per term: the vote becomeFollower
\* cleared is that of a former leader of the term, whose log ends in the term as
\* long as it stays in it, whatever any other leader of the term may send.
VotingInv == TermInv /\ VotesRemembered /\ OneVotePerTerm

-----------------------------------------------------------------------------
(* What holds as long as the founding members are the voters.               *)

\* The entries of a cluster without membership changes.
StaticEntry(e) ==
    /\ e.type \in {EntryNormal, EntryAddVoter}
    /\ e.type = EntryAddVoter => e.arg = Bootstrap

StaticConfig ==
    /\ \A i \in Node : \A k \in DOMAIN log[i] : StaticEntry(log[i][k])
    /\ \A m \in rpcs : m.kind = "AppendEntries" =>
          \A k \in DOMAIN m.entries : StaticEntry(m.entries[k])

\* Votes are cast by founding voters, in terms they have reached.
VotesReached ==
    \A g \in granted : g[2] \in Bootstrap /\ g[1] <= currentTerm[g[2]]

\* A candidate counts votes that were cast for it, towards a majority.
BallotsSound ==
    \A i \in Node : state[i] = Candidate =>
        /\ quorumNeeded[i] = QuorumVotes(Bootstrap)
        /\ \A j \in votesReceived[i] : <<currentTerm[i], j, i>> \in granted

\* Who was elected has had a majority, and has reached its term.
ElectedByQuorum ==
    \A e \in elected :
        /\ e[1] <= currentTerm[e[2]]
        /\ \E Q \in SUBSET Bootstrap :
              /\ Cardinality(Q) = QuorumVotes(Bootstrap)
              /\ \A j \in Q : <<e[1], j, e[2]>> \in granted

\* The inductive invariant of the election: every part above, with the two
\* properties they serve.
ElectionInv ==
    /\ TypeOK
    /\ StaticConfig
    /\ TermsBehind
    /\ SentinelTerm
    /\ RequestsEndInTerm
    /\ RequestsBehind
    /\ RepliesGranted
    /\ VotesReached
    /\ VotesRemembered
    /\ BallotsSound
    /\ ElectedByQuorum
    /\ ElectedLogEnds
    /\ LeadersElected
    /\ OneVotePerTerm
    /\ ElectionSafety
=============================================================================
