-------------------------------- MODULE Raft --------------------------------
(***************************************************************************)
(* Package internal/raft: leader election, log replication and commitment  *)
(* among the nodes of one cluster.                                         *)
(*                                                                         *)
(* Every handler of the code runs its critical section under rf.mu, so it  *)
(* is one action here.  What happens between two critical sections of one  *)
(* goroutine is another node's or another goroutine's step: an RPC is a    *)
(* record of `rpcs' that is a request until the callee's handler runs and  *)
(* a reply until the caller's goroutine takes it up.  RPCs are delivered   *)
(* in any order, late, or never.                                           *)
(*                                                                         *)
(* Time is abstracted: the election timer may fire whenever the node is    *)
(* not leader, an RPC may time out whenever it is under way, a leader that *)
(* needs others for its quorum may find that it did not hear from them.    *)
(*                                                                         *)
(* Spec has no membership change (module RaftMembership adds them): the    *)
(* voters are those of the founding cluster, read from bootstrapCluster    *)
(* and the log as the code does.                                           *)
(***************************************************************************)
EXTENDS RaftLog

CONSTANTS Node,          \* the processes
          Bootstrap,     \* the founding voters (-bootstrap)
          Value,         \* commands of clients
          NoNode,        \* types.go: NoNode
          Nil            \* the nil command of a no-op

\* Bounds of the model, in the guards of the actions they bound.
CONSTANTS MaxTerm,       \* no election starts a term beyond it
          MaxLogLen,     \* no command is appended to a log this long
          MaxRpcs,       \* no operation makes calls with this many awaited
          MaxLate        \* requests under way whose caller has timed out

ASSUME NodeAssumption ==
    /\ IsFiniteSet(Node)
    /\ Bootstrap \subseteq Node
    /\ NoNode \notin Node

ASSUME BoundAssumption == {MaxTerm, MaxLogLen, MaxRpcs, MaxLate} \subseteq Nat

\* types.go: State.
Follower  == "Follower"
Candidate == "Candidate"
Leader    == "Leader"

VARIABLES
    currentTerm,     \* per node, as in struct Raft
    votedFor,
    log,
    state,
    commitIndex,
    hintLeaderID,
    nextIndex,       \* per leader and peer
    matchIndex,
    appendInFlight,  \* per leader, the peers with an AppendEntries awaited
    votesReceived,   \* per candidate, the voters startElection has counted
    quorumNeeded,    \* per candidate, startElection's quorumVotes
    rpcs,            \* the RPCs under way
    granted,         \* history: <<term, voter, candidate>> of each vote cast
    elected          \* history: <<term, node>> of each becomeLeader

persistent == <<currentTerm, votedFor, log>>
leaderVars == <<nextIndex, matchIndex, appendInFlight>>
ballotVars == <<votesReceived, quorumNeeded>>
history    == <<granted, elected>>
vars == <<currentTerm, votedFor, log, state, commitIndex, hintLeaderID, nextIndex,
          matchIndex, appendInFlight, votesReceived, quorumNeeded, rpcs, granted, elected>>

-----------------------------------------------------------------------------
(* Configuration of a node, replayed from its log.                          *)

\* NewRaft: only a founding member is given the founding cluster.
BootstrapOf(i) == IF i \in Bootstrap THEN Bootstrap ELSE {}

VotersOf(i) == Voters(log[i], BootstrapOf(i))

\* rf.peers: the members other than the node itself.
PeersOf(i) == Members(log[i], BootstrapOf(i)) \ {i}

-----------------------------------------------------------------------------
(* RPC records.                                                             *)

\* startElection's RequestVoteArgs.
VoteRequest(src, dst, term, lastLogIndex, lastLogTerm) ==
    [kind |-> "RequestVote", src |-> src, dst |-> dst, term |-> term,
     lastLogIndex |-> lastLogIndex, lastLogTerm |-> lastLogTerm]

\* RequestVoteReply, with the `term' its goroutine in startElection closed over.
VoteReply(m, term, voteGranted) ==
    [kind |-> "RequestVoteReply", src |-> m.dst, dst |-> m.src, electionTerm |-> m.term,
     term |-> term, voteGranted |-> voteGranted]

\* AppendEntriesArgs; awaited until the sender has given up on the answer.
AppendRequest(src, dst, term, prevLogIndex, prevLogTerm, entries, leaderCommit) ==
    [kind |-> "AppendEntries", src |-> src, dst |-> dst, term |-> term,
     prevLogIndex |-> prevLogIndex, prevLogTerm |-> prevLogTerm, entries |-> entries,
     leaderCommit |-> leaderCommit, awaited |-> TRUE]

\* AppendEntriesReply, with what sendAppendEntries remembers of its request.
AppendReply(m, term, success, conflictIndex, conflictTerm) ==
    [kind |-> "AppendEntriesReply", src |-> m.dst, dst |-> m.src,
     lastSent |-> m.prevLogIndex + Len(m.entries),
     term |-> term, success |-> success,
     conflictIndex |-> conflictIndex, conflictTerm |-> conflictTerm]

\* The answer to m goes back to the caller that still waits for it.
Answer(m, reply) ==
    rpcs' = (rpcs \ {m}) \cup
            (IF m.kind = "AppendEntries" /\ ~m.awaited THEN {} ELSE {reply})

\* The requests nobody awaits any more, and the bound on the others.
Late == {m \in rpcs : m.kind = "AppendEntries" /\ ~m.awaited}

CallsLeft == Cardinality(rpcs \ Late) < MaxRpcs

-----------------------------------------------------------------------------
Init ==
    /\ currentTerm    = [i \in Node |-> 0]
    /\ votedFor       = [i \in Node |-> NoNode]
    /\ log            = [i \in Node |-> <<>>]
    /\ state          = [i \in Node |-> Follower]
    /\ commitIndex    = [i \in Node |-> 0]
    /\ hintLeaderID   = [i \in Node |-> NoNode]
    /\ nextIndex      = [i \in Node |-> [j \in Node |-> 1]]
    /\ matchIndex     = [i \in Node |-> [j \in Node |-> 0]]
    /\ appendInFlight = [i \in Node |-> {}]
    /\ votesReceived  = [i \in Node |-> {}]
    /\ quorumNeeded   = [i \in Node |-> 0]
    /\ rpcs           = {}
    /\ granted        = {}
    /\ elected        = {}

-----------------------------------------------------------------------------
(* State transitions of a node (state.go).                                  *)

\* becomeFollower: the vote is cleared even when the term stays the same.  The
\* count of an election is over when its candidate leaves that state.
BecomeFollower(i, term) ==
    /\ state'         = [state EXCEPT ![i] = Follower]
    /\ currentTerm'   = [currentTerm EXCEPT ![i] = term]
    /\ votedFor'      = [votedFor EXCEPT ![i] = NoNode]
    /\ votesReceived' = [votesReceived EXCEPT ![i] = {}]
    /\ quorumNeeded'  = [quorumNeeded EXCEPT ![i] = 0]

\* The founding cluster, on the first leader of an empty log.
FoundingEntries(i) ==
    IF log[i] = <<>> /\ BootstrapOf(i) # {}
    THEN <<Entry(EntryAddVoter, currentTerm[i], BootstrapOf(i))>>
    ELSE <<>>

\* A bug: a new leader appends no no-op of its term.
OpeningEntriesNoNoOp(i) == FoundingEntries(i)

\* What becomeLeader appends: the founding cluster if need be, and the no-op.
OpeningEntries(i) ==
    FoundingEntries(i) \o <<Entry(EntryNormal, currentTerm[i], Nil)>>

\* becomeLeader; the broadcast it ends with is SendAppendEntries to each peer.
BecomeLeader(i) ==
    /\ state'        = [state EXCEPT ![i] = Leader]
    /\ hintLeaderID' = [hintLeaderID EXCEPT ![i] = i]
    /\ log'          = [log EXCEPT ![i] = @ \o OpeningEntries(i)]
    /\ nextIndex'    = [nextIndex EXCEPT ![i] = [j \in Node |->
                           IF j \in PeersOf(i)
                           THEN Len(log[i] \o FoundingEntries(i)) + 1 ELSE @[j]]]
    /\ matchIndex'   = [matchIndex EXCEPT ![i] = [j \in Node |->
                           IF j \in PeersOf(i) THEN 0 ELSE @[j]]]
    /\ votesReceived' = [votesReceived EXCEPT ![i] = {}]
    /\ quorumNeeded'  = [quorumNeeded EXCEPT ![i] = 0]
    /\ elected'      = elected \cup {<<currentTerm[i], i>>}

-----------------------------------------------------------------------------
(* Election (election.go, service.go).                                      *)

\* The election timer of a voter fires: becomeCandidate, and a RequestVote to
\* every other voter.
StartElection(i) ==
    /\ state[i] # Leader
    /\ i \in VotersOf(i)
    /\ currentTerm[i] < MaxTerm
    /\ CallsLeft
    /\ LET term == currentTerm[i] + 1 IN
       /\ currentTerm' = [currentTerm EXCEPT ![i] = term]
       /\ rpcs'    = rpcs \cup {VoteRequest(i, j, term, Len(log[i]), LastTerm(log[i])) :
                                  j \in VotersOf(i) \ {i}}
       /\ granted' = granted \cup {<<term, i, i>>}
    /\ state'    = [state EXCEPT ![i] = Candidate]
    /\ votedFor' = [votedFor EXCEPT ![i] = i]
    /\ votesReceived' = [votesReceived EXCEPT ![i] = {i}]
    /\ quorumNeeded'  = [quorumNeeded EXCEPT ![i] = QuorumVotes(VotersOf(i))]
    /\ UNCHANGED <<log, commitIndex, hintLeaderID, leaderVars, elected>>

\* RequestVote of an older term.
RefuseStaleVote(m) ==
    /\ m.term < currentTerm[m.dst]
    /\ Answer(m, VoteReply(m, currentTerm[m.dst], FALSE))
    /\ UNCHANGED <<persistent, state, commitIndex, hintLeaderID, leaderVars, ballotVars,
                   history>>

\* RequestVote of a newer term while a leader has been heard from recently.
RefuseWhileLeaderAlive(m) ==
    /\ m.term > currentTerm[m.dst]
    /\ hintLeaderID[m.dst] \notin {NoNode, m.src}
    /\ Answer(m, VoteReply(m, currentTerm[m.dst], FALSE))
    /\ UNCHANGED <<persistent, state, commitIndex, hintLeaderID, leaderVars, ballotVars,
                   history>>

\* A bug: a voter that has voted in this term votes again.
MayVoteForgetful(i, m) == i \in VotersOf(i) /\ UpToDate(log[i], m.lastLogIndex, m.lastLogTerm)

\* A bug: the candidate's log does not matter.
MayVoteAnyLog(i, m) ==
    i \in VotersOf(i) /\ (m.term > currentTerm[i] \/ votedFor[i] \in {NoNode, m.src})

\* RequestVote's last three checks, on the vote cast so far in the term of m.
MayVote(i, m) ==
    /\ i \in VotersOf(i)
    /\ m.term > currentTerm[i] \/ votedFor[i] \in {NoNode, m.src}
    /\ UpToDate(log[i], m.lastLogIndex, m.lastLogTerm)

\* RequestVote of this term or a newer one, to which the node moves first.
DecideVote(m) ==
    LET i == m.dst IN
    /\ m.term >= currentTerm[i]
    /\ currentTerm' = [currentTerm EXCEPT ![i] = m.term]
    /\ Answer(m, VoteReply(m, m.term, MayVote(i, m)))
    /\ IF m.term > currentTerm[i]
       THEN /\ state' = [state EXCEPT ![i] = Follower]
            /\ votesReceived' = [votesReceived EXCEPT ![i] = {}]
            /\ quorumNeeded'  = [quorumNeeded EXCEPT ![i] = 0]
       ELSE UNCHANGED <<state, ballotVars>>
    /\ votedFor' = [votedFor EXCEPT ![i] = IF MayVote(i, m) THEN m.src
                                           ELSE IF m.term > currentTerm[i] THEN NoNode
                                           ELSE @]
    /\ granted' = granted \cup (IF MayVote(i, m) THEN {<<m.term, i, m.src>>} ELSE {})
    /\ UNCHANGED <<log, commitIndex, hintLeaderID, leaderVars, elected>>

HandleRequestVote(m) ==
    /\ m.kind = "RequestVote"
    /\ RefuseStaleVote(m) \/ RefuseWhileLeaderAlive(m) \/ DecideVote(m)

\* The goroutine of startElection takes up a reply.
HandleRequestVoteReply(m) ==
    LET i     == m.dst
        votes == votesReceived[i] \cup {m.src}
    IN
    /\ m.kind = "RequestVoteReply"
    /\ rpcs' = rpcs \ {m}
    /\ UNCHANGED <<commitIndex, appendInFlight, granted>>
    /\ \/ /\ state[i] # Candidate \/ currentTerm[i] # m.electionTerm
          /\ UNCHANGED <<persistent, state, hintLeaderID, nextIndex, matchIndex, ballotVars,
                         elected>>
       \/ /\ state[i] = Candidate /\ currentTerm[i] = m.electionTerm
          /\ m.term > m.electionTerm
          /\ BecomeFollower(i, m.term)
          /\ UNCHANGED <<log, hintLeaderID, nextIndex, matchIndex, elected>>
       \/ /\ state[i] = Candidate /\ currentTerm[i] = m.electionTerm
          /\ m.term <= m.electionTerm
          /\ m.voteGranted
          /\ UNCHANGED <<currentTerm, votedFor>>
          /\ IF Cardinality(votes) = quorumNeeded[i]
             THEN BecomeLeader(i)
             ELSE /\ votesReceived' = [votesReceived EXCEPT ![i] = votes]
                  /\ UNCHANGED <<log, state, hintLeaderID, nextIndex, matchIndex,
                                 quorumNeeded, elected>>
       \/ /\ state[i] = Candidate /\ currentTerm[i] = m.electionTerm
          /\ m.term <= m.electionTerm
          /\ ~m.voteGranted
          /\ UNCHANGED <<persistent, state, hintLeaderID, nextIndex, matchIndex, ballotVars,
                         elected>>

\* A RequestVote call fails or times out: its goroutine gives up.  (A request
\* still executed after that is one whose reply is lost.)
RequestVoteFails(m) ==
    /\ m.kind \in {"RequestVote", "RequestVoteReply"}
    /\ rpcs' = rpcs \ {m}
    /\ UNCHANGED <<persistent, state, commitIndex, hintLeaderID, leaderVars, ballotVars,
                   history>>

-----------------------------------------------------------------------------
(* Replication (replication.go, service.go).                                *)

\* sendAppendEntries up to the call.  A nextIndex beyond the end of the log plus
\* one would index rf.log out of range and end the process: no such step.
SendAppendEntries(i, j) ==
    /\ state[i] = Leader
    /\ j \in PeersOf(i)
    /\ j \notin appendInFlight[i]
    /\ CallsLeft
    /\ nextIndex[i][j] <= Len(log[i]) + 1
    /\ appendInFlight' = [appendInFlight EXCEPT ![i] = @ \cup {j}]
    /\ LET prev == nextIndex[i][j] - 1 IN
       rpcs' = rpcs \cup {AppendRequest(i, j, currentTerm[i], prev, TermAt(log[i], prev),
                              SubSeq(log[i], nextIndex[i][j], Len(log[i])), commitIndex[i])}
    /\ UNCHANGED <<persistent, state, commitIndex, hintLeaderID, nextIndex, matchIndex,
                   ballotVars, history>>

\* The call fails, or the request or its reply is lost until the timeout.
AppendEntriesFails(m) ==
    /\ \/ m.kind = "AppendEntries" /\ m.awaited /\ appendInFlight' =
             [appendInFlight EXCEPT ![m.src] = @ \ {m.dst}]
       \/ m.kind = "AppendEntriesReply" /\ appendInFlight' =
             [appendInFlight EXCEPT ![m.dst] = @ \ {m.src}]
    /\ rpcs' = rpcs \ {m}
    /\ UNCHANGED <<persistent, state, commitIndex, hintLeaderID, nextIndex, matchIndex,
                   ballotVars, history>>

\* The timeout passes with the request still on its way: it may yet be executed.
AppendEntriesTimeout(m) ==
    /\ m.kind = "AppendEntries" /\ m.awaited
    /\ Cardinality(Late) < MaxLate
    /\ rpcs' = (rpcs \ {m}) \cup {[m EXCEPT !.awaited = FALSE]}
    /\ appendInFlight' = [appendInFlight EXCEPT ![m.src] = @ \ {m.dst}]
    /\ UNCHANGED <<persistent, state, commitIndex, hintLeaderID, nextIndex, matchIndex,
                   ballotVars, history>>

\* A bug: the leader's commit index is taken over whatever the node's own is.
FollowerCommitUnguarded(i, m) ==
    LET lastNew == m.prevLogIndex + Len(m.entries) IN
    IF m.leaderCommit < lastNew THEN m.leaderCommit ELSE lastNew

\* AppendEntries, part 5: the commit index after the entries of m are in.
FollowerCommit(i, m) ==
    LET lastNew == m.prevLogIndex + Len(m.entries) IN
    IF m.leaderCommit <= commitIndex[i] THEN commitIndex[i]
    ELSE IF m.leaderCommit < lastNew THEN m.leaderCommit ELSE lastNew

\* AppendEntries of an older term.
RefuseStaleLeader(m) ==
    /\ m.term < currentTerm[m.dst]
    /\ Answer(m, AppendReply(m, currentTerm[m.dst], FALSE, 0, 0))
    /\ UNCHANGED <<persistent, state, commitIndex, hintLeaderID, ballotVars>>

\* AppendEntries of this term or a newer one.  A candidate of the same term
\* stays candidate.
AcceptLeader(m) ==
    LET i    == m.dst
        prev == m.prevLogIndex
    IN
    /\ m.term >= currentTerm[i]
    /\ IF m.term > currentTerm[i]
       THEN BecomeFollower(i, m.term)
       ELSE UNCHANGED <<currentTerm, votedFor, state, ballotVars>>
    /\ hintLeaderID' = [hintLeaderID EXCEPT ![i] = m.src]
    /\ \/ /\ prev > Len(log[i])
          /\ Answer(m, AppendReply(m, m.term, FALSE, Len(log[i]) + 1, 0))
          /\ UNCHANGED <<log, commitIndex>>
       \/ /\ prev <= Len(log[i])
          /\ TermAt(log[i], prev) # m.prevLogTerm
          /\ Answer(m, AppendReply(m, m.term, FALSE, ConflictIndex(log[i], prev),
                                   log[i][prev].term))
          /\ UNCHANGED <<log, commitIndex>>
       \/ /\ prev <= Len(log[i])
          /\ TermAt(log[i], prev) = m.prevLogTerm
          /\ log' = [log EXCEPT ![i] = Merge(@, prev, m.entries)]
          /\ commitIndex' = [commitIndex EXCEPT ![i] = FollowerCommit(i, m)]
          /\ Answer(m, AppendReply(m, m.term, TRUE, 0, 0))

HandleAppendEntries(m) ==
    /\ m.kind = "AppendEntries"
    /\ RefuseStaleLeader(m) \/ AcceptLeader(m)
    /\ UNCHANGED <<leaderVars, history>>

\* A bug: the follower is credited with one entry more than it was sent.
CreditedIndexOffByOne(m) == m.lastSent + 1

\* newMatchIndex of a successful reply.
CreditedIndex(m) == m.lastSent

\* The voters i counts for index n, with match as its matchIndex.
Holders(i, match, n) ==
    {j \in VotersOf(i) : j = i \/ match[j] >= n}

\* Can the leader i commit index n?
Committable(i, match, n) ==
    /\ log[i][n].term = currentTerm[i]
    /\ Cardinality(Holders(i, match, n)) >= QuorumVotes(VotersOf(i))

\* updateCommitIndex: the last such index, if there is one.
LeaderCommit(i, match) ==
    LET ready == {n \in (commitIndex[i] + 1)..Len(log[i]) : Committable(i, match, n)}
    IN  IF ready = {} THEN commitIndex[i]
        ELSE CHOOSE n \in ready : \A k \in ready : k <= n

\* sendAppendEntries after a reply.  That the node is leader is checked, that it
\* still leads in the term of the request is not.
HandleAppendEntriesReply(m) ==
    LET i == m.dst
        j == m.src
    IN
    /\ m.kind = "AppendEntriesReply"
    /\ rpcs' = rpcs \ {m}
    /\ appendInFlight' = [appendInFlight EXCEPT ![i] = @ \ {j}]
    /\ UNCHANGED <<log, hintLeaderID, history>>
    /\ \/ /\ state[i] # Leader
          /\ UNCHANGED <<currentTerm, votedFor, state, commitIndex, nextIndex, matchIndex,
                         ballotVars>>
       \/ /\ state[i] = Leader
          /\ m.term > currentTerm[i]
          /\ BecomeFollower(i, m.term)
          /\ UNCHANGED <<commitIndex, nextIndex, matchIndex>>
       \/ /\ state[i] = Leader
          /\ m.term <= currentTerm[i]
          /\ m.success
          /\ IF CreditedIndex(m) > matchIndex[i][j]
             THEN /\ matchIndex' = [matchIndex EXCEPT ![i][j] = CreditedIndex(m)]
                  /\ nextIndex'  = [nextIndex EXCEPT ![i][j] = CreditedIndex(m) + 1]
                  /\ commitIndex' = [commitIndex EXCEPT ![i] = LeaderCommit(i, matchIndex'[i])]
             ELSE UNCHANGED <<commitIndex, nextIndex, matchIndex>>
          /\ UNCHANGED <<currentTerm, votedFor, state, ballotVars>>
       \/ /\ state[i] = Leader
          /\ m.term <= currentTerm[i]
          /\ ~m.success
          /\ nextIndex' = [nextIndex EXCEPT ![i][j] =
                              NextAfterConflict(log[i], m.conflictIndex, m.conflictTerm)]
          /\ UNCHANGED <<currentTerm, votedFor, state, commitIndex, matchIndex, ballotVars>>

\* Submit on a leader.
Submit(i, v) ==
    /\ state[i] = Leader
    /\ Len(log[i]) < MaxLogLen
    /\ log' = [log EXCEPT ![i] = Append(@, Entry(EntryNormal, currentTerm[i], v))]
    /\ UNCHANGED <<currentTerm, votedFor, state, commitIndex, hintLeaderID, leaderVars,
                   ballotVars, rpcs, history>>

\* maybeStepDownLeader: no recent answer from enough voters.
StepDown(i) ==
    /\ state[i] = Leader
    /\ Cardinality(VotersOf(i) \cap {i}) < QuorumVotes(VotersOf(i))
    /\ BecomeFollower(i, currentTerm[i])
    /\ UNCHANGED <<log, commitIndex, hintLeaderID, leaderVars, rpcs, history>>

-----------------------------------------------------------------------------
Next ==
    \/ \E i \in Node : StartElection(i)
    \/ \E m \in rpcs : HandleRequestVote(m)
    \/ \E m \in rpcs : HandleRequestVoteReply(m)
    \/ \E m \in rpcs : RequestVoteFails(m)
    \/ \E i, j \in Node : SendAppendEntries(i, j)
    \/ \E m \in rpcs : HandleAppendEntries(m)
    \/ \E m \in rpcs : HandleAppendEntriesReply(m)
    \/ \E m \in rpcs : AppendEntriesFails(m)
    \/ \E m \in rpcs : AppendEntriesTimeout(m)
    \/ \E i \in Node, v \in Value : Submit(i, v)
    \/ \E i \in Node : StepDown(i)

Spec == Init /\ [][Next]_vars

-----------------------------------------------------------------------------
(* Types.                                                                   *)

EntryType == {EntryNormal, EntryAddLearner, EntryAddVoter, EntryRemoveNode}

EntryRecord == [type : EntryType, term : Nat, arg : Value \cup {Nil} \cup SUBSET Node]

VoteRequestType ==
    [kind : {"RequestVote"}, src : Node, dst : Node, term : Nat,
     lastLogIndex : Nat, lastLogTerm : Nat]

VoteReplyType ==
    [kind : {"RequestVoteReply"}, src : Node, dst : Node, electionTerm : Nat,
     term : Nat, voteGranted : BOOLEAN]

AppendRequestType ==
    [kind : {"AppendEntries"}, src : Node, dst : Node, term : Nat, prevLogIndex : Nat,
     prevLogTerm : Nat, entries : Seq(EntryRecord), leaderCommit : Nat, awaited : BOOLEAN]

AppendReplyType ==
    [kind : {"AppendEntriesReply"}, src : Node, dst : Node, lastSent : Nat, term : Nat,
     success : BOOLEAN, conflictIndex : Nat, conflictTerm : Nat]

MessageType ==
    VoteRequestType \cup VoteReplyType \cup AppendRequestType \cup AppendReplyType

\* The values each variable takes.  The one that a handler could miss: nextIndex
\* is never 0, or sendAppendEntries would read rf.log[nextIndex - 1] below the
\* log (a refusal of an older term carries no ConflictIndex).
TypeOK ==
    /\ currentTerm \in [Node -> Nat]
    /\ votedFor \in [Node -> Node \cup {NoNode}]
    /\ log \in [Node -> Seq(EntryRecord)]
    /\ state \in [Node -> {Follower, Candidate, Leader}]
    /\ commitIndex \in [Node -> Nat]
    /\ hintLeaderID \in [Node -> Node \cup {NoNode}]
    /\ nextIndex \in [Node -> [Node -> Nat \ {0}]]
    /\ matchIndex \in [Node -> [Node -> Nat]]
    /\ appendInFlight \in [Node -> SUBSET Node]
    /\ votesReceived \in [Node -> SUBSET Node]
    /\ quorumNeeded \in [Node -> Nat]
    /\ rpcs \subseteq MessageType
    /\ granted \subseteq Nat \X Node \X Node
    /\ elected \subseteq Nat \X Node

-----------------------------------------------------------------------------
(* Safety.                                                                  *)

\* A node votes for one candidate in a term.  becomeFollower clears votedFor
\* even when the term stays (a leader that steps down, run.go:61), so this
\* rests on the no-op at the end of that leader's log, which no other
\* candidate of the term can match.
OneVotePerTerm ==
    \A g, h \in granted : g[1] = h[1] /\ g[2] = h[2] => g[3] = h[3]

\* At most one node becomes leader in a term, now or ever.
ElectionSafety ==
    \A e, f \in elected : e[1] = f[1] => e[2] = f[2]

Agree(a, b, n) == n <= Len(a) /\ n <= Len(b) /\ \A k \in 1..n : a[k] = b[k]

\* Two logs with an entry of the same index and term agree up to that index:
\* the append loop of AppendEntries may keep a tail it did not compare.
LogMatching ==
    \A i, j \in Node : \A k \in DOMAIN log[i] \cap DOMAIN log[j] :
        log[i][k].term = log[j][k].term => Agree(log[i], log[j], k)

\* A leader of the highest term holds everything any node knows as committed.
LeaderCompleteness ==
    \A i, j \in Node :
        state[i] = Leader /\ (\A k \in Node : currentTerm[k] <= currentTerm[i])
            => Agree(log[i], log[j], commitIndex[j])

\* Nodes apply the same entries: their committed prefixes, which applier hands
\* to the state machine, agree as far as both go.
StateMachineSafety ==
    \A i, j \in Node :
        commitIndex[i] <= commitIndex[j] => Agree(log[i], log[j], commitIndex[i])

\* What a leader believes replicated is in the follower's log, as long as the
\* follower has not moved to another term: the reply handler checks only that
\* the node is leader, so a reply of an earlier leadership counts as well.
MatchIndexSound ==
    \A i, j \in Node :
        state[i] = Leader /\ i # j /\ currentTerm[j] = currentTerm[i]
            => Agree(log[i], log[j], matchIndex[i][j])

\* What a node knows as committed it never takes back, and the entries it
\* covers are never overwritten or cut off by an AppendEntries.
CommittedNeverLost ==
    [][\A i \in Node : /\ commitIndex'[i] >= commitIndex[i]
                       /\ Agree(log[i], log'[i], commitIndex[i])]_vars

\* When a leader declares an index committed, a majority of the voters of its
\* configuration hold its log up to there; no learner, and no member that the
\* same log has removed, makes up the number.
CommitBacked ==
    [][\A i \in Node : state'[i] = Leader /\ commitIndex'[i] > commitIndex[i] =>
         Cardinality({j \in VotersOf(i) : Agree(log[i], log[j], commitIndex'[i])})
             >= QuorumVotes(VotersOf(i))]_vars
=============================================================================
