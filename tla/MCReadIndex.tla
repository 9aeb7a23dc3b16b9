---------------------------- MODULE MCReadIndex ----------------------------
(* Instances of RaftReadIndex for TLC.  The runs start when n1 has led term *)
(* 1 long enough to have its log on its peers, and knows alone that it is   *)
(* committed.  Either two commands have followed its no-op, or the removal  *)
(* of n3, which n3 has not heard of: Raft and RaftMembership reach this.    *)
EXTENDS RaftReadFreshness, TLC

CONSTANTS n1, n2, n3, v1, r1, noNode, nil, noReader

FoundingLog == <<Entry(EntryAddVoter, 1, Bootstrap), Entry(EntryNormal, 1, Nil)>>

TrioLog == FoundingLog \o <<Entry(EntryNormal, 1, v1), Entry(EntryNormal, 1, v1)>>
PairLog == Append(FoundingLog, Entry(EntryRemoveNode, 1, {n3}))

\* n1 has replicated lead to the nodes of others.
LedBy(lead, others) ==
    LET led(i, j) == i = n1 /\ j \in others IN
    /\ currentTerm    = [i \in Node |-> 1]
    /\ votedFor       = [i \in Node |-> n1]
    /\ log            = [i \in Node |-> IF i \in others \cup {n1} THEN lead ELSE FoundingLog]
    /\ state          = [i \in Node |-> IF i = n1 THEN Leader ELSE Follower]
    /\ commitIndex    = [i \in Node |-> IF i = n1 THEN Len(lead)
                                        ELSE IF i \in others THEN 2 ELSE 0]
    /\ hintLeaderID   = [i \in Node |-> n1]
    /\ nextIndex      = [i \in Node |-> [j \in Node |-> IF led(i, j) THEN Len(lead) + 1 ELSE 1]]
    /\ matchIndex     = [i \in Node |-> [j \in Node |-> IF led(i, j) THEN Len(lead) ELSE 0]]
    /\ appendInFlight = [i \in Node |-> {}]
    /\ votesReceived  = [i \in Node |-> {}]
    /\ quorumNeeded   = [i \in Node |-> 0]
    /\ rpcs           = {}
    /\ granted        = {<<1, i, n1>> : i \in Node}
    /\ elected        = {<<1, n1>>}
    /\ activeAge = [i \in Node |-> IF i = n1 THEN MinElectionTimeout ELSE 0]
    /\ ackAge = [i \in Node |-> [j \in Node |->
                    IF i = n1 /\ j # n1 THEN 0 ELSE LeaderQuorumLivenessTimeout]]
    /\ read = [r \in Reader |-> IdleRead]
    /\ readIndexMu = [i \in Node |-> NoReader]

LedInit == LedBy(TrioLog, Node \ {n1}) \/ LedBy(PairLog, {n2})

\* Where the voters are the founding members, a target that ReadIndex has chosen is
\* all that the read has to see, or its round of heartbeats can only fail.
FoundersFresh == StaticConfig => FreshInv

LedSpec == LedInit /\ [][ReadNext]_allVars

\* Next does not tell the nodes that follow n1 at first from one another.
FollowerSymmetry == Permutations(Node \ {n1})

\* Dead: what becomeLeader sets before it is read again, on nodes that do not
\* lead.  Redundant: the votes cast and the elections, which votedFor and the logs
\* tell of the last term.
LeaderView(f) == [i \in Node |-> IF state[i] = Leader THEN f[i] ELSE <<>>]

\* A reader that has returned may read again, like one that never did.
ReaderView(r) ==
    IF read[r].pc # "Returned" THEN read[r]
    ELSE IF read[r].result = "Ok" /\ read[r].targetIndex < read[r].floor
    THEN <<"Stale", read[r].via>>
    ELSE IdleRead

ReadView ==
    <<persistent, state, commitIndex, hintLeaderID, LeaderView(nextIndex),
      LeaderView(matchIndex), appendInFlight, ballotVars, rpcs, activeAge,
      LeaderView(ackAge), [r \in Reader |-> ReaderView(r)], readIndexMu>>
=============================================================================
