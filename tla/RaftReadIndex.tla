---------------------------- MODULE RaftReadIndex ----------------------------
(***************************************************************************)
(* ReadIndex (readindex.go) over Raft with its timers: the lease that lets *)
(* a leader answer at once, and the round of heartbeats otherwise.         *)
(*                                                                         *)
(* Time passes in ticks, at one rate everywhere (time.Since is monotonic). *)
(* A node has no clock reading but ages: how many ticks ago it was last    *)
(* active, and when each peer last acknowledged.  An age stops at the      *)
(* longest span the node compares it with.                                 *)
(***************************************************************************)
EXTENDS Raft

CONSTANTS Reader,                       \* goroutines in ReadIndex
          NoReader,
          MinElectionTimeout,           \* config.go, in ticks
          LeaderQuorumLivenessTimeout   \* config.go, in ticks

ASSUME ReadAssumption ==
    /\ {MinElectionTimeout, LeaderQuorumLivenessTimeout} \subseteq Nat \ {0}
    /\ MinElectionTimeout <= LeaderQuorumLivenessTimeout
    /\ NoReader \notin Reader

VARIABLES
    activeAge,    \* per node: ticks since lastActivity
    ackAge,       \* per leader and peer: ticks since lastHeartbeatAck
    read,         \* per reader: its ReadIndex
    readIndexMu   \* per node: the reader that holds it, or NoReader

timers   == <<activeAge, ackAge>>
readVars == <<read, readIndexMu>>
allVars  == <<vars, timers, readVars>>

\* What became of the heartbeat to a peer: not run yet, called, its result in
\* votesCh, or its result counted.
HeartbeatState == {"None", "Starting", "Calling", "Success", "Failure", "Ack", "Denial"}

IdleRead == [pc |-> "Idle", node |-> NoNode, floor |-> 0, leaderTerm |-> 0, targetIndex |-> 0,
             quorum |-> 0, selfInCluster |-> FALSE,
             heartbeat |-> [j \in Node |-> "None"], via |-> "None", result |-> "None"]

TimerInit ==
    /\ activeAge = [i \in Node |-> 0]
    /\ ackAge = [i \in Node |-> [j \in Node |-> LeaderQuorumLivenessTimeout]]
    /\ read = [r \in Reader |-> IdleRead]
    /\ readIndexMu = [i \in Node |-> NoReader]

-----------------------------------------------------------------------------
(* Raft's steps with their timers.                                          *)

Older(age, limit) == IF age < limit THEN age + 1 ELSE age

\* A tick passes everywhere.
Tick ==
    /\ activeAge' = [i \in Node |-> Older(activeAge[i], MinElectionTimeout)]
    /\ ackAge' = [i \in Node |-> [j \in Node |->
                     Older(ackAge[i][j], LeaderQuorumLivenessTimeout)]]
    /\ UNCHANGED <<vars, readVars>>

\* resetElectionTimer, if the condition holds.
Active(i, condition) ==
    activeAge' = IF condition THEN [activeAge EXCEPT ![i] = 0] ELSE activeAge

\* The election timeout is at least MinElectionTimeout.
TimerStartsElection(i) ==
    /\ activeAge[i] >= MinElectionTimeout
    /\ StartElection(i)
    /\ Active(i, TRUE)
    /\ UNCHANGED <<ackAge, readVars>>

\* RequestVote: a newer term, and another leader has been heard from recently.
LeaderAlive(m) ==
    /\ m.term > currentTerm[m.dst]
    /\ hintLeaderID[m.dst] \notin {NoNode, m.src}
    /\ activeAge[m.dst] < MinElectionTimeout

TimedRequestVote(m) ==
    /\ m.kind = "RequestVote"
    /\ \/ RefuseStaleVote(m) /\ UNCHANGED activeAge
       \/ LeaderAlive(m) /\ RefuseWhileLeaderAlive(m) /\ UNCHANGED activeAge
       \/ /\ ~LeaderAlive(m)
          /\ DecideVote(m)
          /\ Active(m.dst, m.term > currentTerm[m.dst] \/ MayVote(m.dst, m))
    /\ UNCHANGED <<ackAge, readVars>>

\* becomeLeader takes every peer as having acknowledged just now.
TimedRequestVoteReply(m) ==
    LET i == m.dst IN
    /\ HandleRequestVoteReply(m)
    /\ Active(i, state[i] = Candidate /\ state'[i] = Follower)
    /\ ackAge' = IF state[i] = Candidate /\ state'[i] = Leader
                 THEN [ackAge EXCEPT ![i] = [j \in Node |-> IF j \in PeersOf(i) THEN 0
                                                           ELSE @[j]]]
                 ELSE ackAge
    /\ UNCHANGED readVars

TimedAppendEntries(m) ==
    /\ HandleAppendEntries(m)
    /\ Active(m.dst, m.term >= currentTerm[m.dst])
    /\ UNCHANGED <<ackAge, readVars>>

\* maybeStepDownLeader.
TimedStepDown(i) ==
    /\ Cardinality({j \in VotersOf(i) : j = i \/ ackAge[i][j] < LeaderQuorumLivenessTimeout})
          < QuorumVotes(VotersOf(i))
    /\ StepDown(i)
    /\ Active(i, TRUE)
    /\ UNCHANGED <<ackAge, readVars>>

-----------------------------------------------------------------------------
(* sendAppendEntries, on behalf of a reader or not.                         *)

\* A bug: no reader hears of the outcome of its call.
AwaitingNobody(i, j) == {}

\* The readers whose heartbeat from i to j is the call under way.
Awaiting(i, j) ==
    {r \in Reader : read[r].node = i /\ read[r].heartbeat[j] = "Calling"}

\* sendAppendEntries(j) on i returns.
HeartbeatReturns(i, j, success) ==
    read' = [r \in Reader |->
        IF r \in Awaiting(i, j)
        THEN [read[r] EXCEPT !.heartbeat[j] = IF success THEN "Success" ELSE "Failure"]
        ELSE read[r]]

\* A broadcast that is not a reader's.
TimedSend(i, j) == SendAppendEntries(i, j) /\ UNCHANGED <<timers, readVars>>

\* What sendAppendEntries makes of a reply.
Acknowledges(m) ==
    state[m.dst] = Leader /\ m.term <= currentTerm[m.dst] /\ m.success

TimedAppendEntriesReply(m) ==
    LET i == m.dst IN
    /\ HandleAppendEntriesReply(m)
    /\ ackAge' = IF Acknowledges(m) THEN [ackAge EXCEPT ![i][m.src] = 0] ELSE ackAge
    /\ Active(i, state[i] = Leader /\ m.term > currentTerm[i])
    /\ HeartbeatReturns(i, m.src, Acknowledges(m))
    /\ UNCHANGED readIndexMu

TimedCallFails(m) ==
    /\ AppendEntriesFails(m) \/ AppendEntriesTimeout(m)
    /\ IF m.kind = "AppendEntries"
       THEN HeartbeatReturns(m.src, m.dst, FALSE)
       ELSE HeartbeatReturns(m.dst, m.src, FALSE)
    /\ UNCHANGED <<timers, readIndexMu>>

RaftStep ==
    \/ Tick
    \/ \E i \in Node : TimerStartsElection(i)
    \/ \E m \in rpcs : TimedRequestVote(m)
    \/ \E m \in rpcs : TimedRequestVoteReply(m)
    \/ \E m \in rpcs : RequestVoteFails(m) /\ UNCHANGED <<timers, readVars>>
    \/ \E i, j \in Node : TimedSend(i, j)
    \/ \E m \in rpcs : TimedAppendEntries(m)
    \/ \E m \in rpcs : TimedAppendEntriesReply(m)
    \/ \E m \in rpcs : TimedCallFails(m)
    \/ \E i \in Node, v \in Value : Submit(i, v) /\ UNCHANGED <<timers, readVars>>
    \/ \E i \in Node : TimedStepDown(i)

-----------------------------------------------------------------------------
(* ReadIndex.                                                               *)

\* A return of ReadIndex, and of readIndexMu if the reader holds it.
Returns(r, i, rec, via, result) ==
    /\ read' = [read EXCEPT ![r] = [rec EXCEPT !.pc = "Returned", !.via = via,
                                               !.result = result,
                                               !.heartbeat = [j \in Node |-> "None"]]]
    /\ readIndexMu' = [readIndexMu EXCEPT ![i] = IF @ = r THEN NoReader ELSE @]

\* The greatest index that any node knows as committed.
Committed ==
    CHOOSE n \in {commitIndex[i] : i \in Node} : \A i \in Node : commitIndex[i] <= n

\* A bug: an inherited commit index is taken as it is.
CommittedOwnTermNoCheck(i) == TRUE

\* Is the entry at the commit index of the leader's own term?
CommittedOwnTerm(i) == TermAt(log[i], commitIndex[i]) = currentTerm[i]

\* hasLeaderLeaseLocked.
HasLease(i) ==
    Cardinality({j \in VotersOf(i) : j = i \/ ackAge[i][j] < MinElectionTimeout})
        >= QuorumVotes(VotersOf(i))

\* The first critical section of a new call; floor is what a read beginning here has to see.
BeginRead(r, i) ==
    LET rec == [IdleRead EXCEPT !.node = i, !.floor = Committed,
                                !.targetIndex = commitIndex[i]]
    IN
    /\ read[r].pc \in {"Idle", "Returned"}
    /\ \/ /\ state[i] # Leader
          /\ Returns(r, i, rec, "Lease", "ErrNotLeader")
       \/ /\ state[i] = Leader
          /\ CommittedOwnTerm(i) /\ HasLease(i)
          /\ Returns(r, i, rec, "Lease", "Ok")
       \/ /\ state[i] = Leader
          /\ ~(CommittedOwnTerm(i) /\ HasLease(i))
          /\ read' = [read EXCEPT ![r] = [rec EXCEPT !.pc = "Queued"]]
          /\ UNCHANGED readIndexMu
    /\ UNCHANGED <<vars, timers>>

LockReadIndexMu(r) ==
    LET i == read[r].node IN
    /\ read[r].pc = "Queued" /\ readIndexMu[i] = NoReader
    /\ readIndexMu' = [readIndexMu EXCEPT ![i] = r]
    /\ read' = [read EXCEPT ![r].pc = "AwaitingNoOp"]
    /\ UNCHANGED <<vars, timers>>

\* A round of the loop that waits for the no-op: it ends, or sleeps again.
FindTarget(r) ==
    LET i == read[r].node IN
    /\ read[r].pc = "AwaitingNoOp"
    /\ \/ /\ state[i] # Leader
          /\ Returns(r, i, read[r], "Quorum", "ErrNotLeader")
       \/ /\ state[i] = Leader /\ CommittedOwnTerm(i)
          /\ read' = [read EXCEPT ![r].pc = "Targets",
                                  ![r].leaderTerm = currentTerm[i],
                                  ![r].targetIndex = commitIndex[i]]
          /\ UNCHANGED readIndexMu
    /\ UNCHANGED <<vars, timers>>

\* A heartbeat to every other voter.  A lone voter is its own quorum.
SpawnHeartbeats(r) ==
    LET i   == read[r].node
        rec == [read[r] EXCEPT
                   !.pc = "Collecting",
                   !.quorum = QuorumVotes(VotersOf(i)),
                   !.selfInCluster = i \in VotersOf(i),
                   !.heartbeat = [j \in Node |->
                       IF j \in VotersOf(i) \cap PeersOf(i) THEN "Starting" ELSE "None"]]
    IN
    /\ read[r].pc = "Targets"
    /\ IF Cardinality(VotersOf(i) \cap {i}) >= QuorumVotes(VotersOf(i))
       THEN Returns(r, i, rec, "Quorum", "Ok")
       ELSE /\ read' = [read EXCEPT ![r] = rec]
            /\ UNCHANGED readIndexMu
    /\ UNCHANGED <<vars, timers>>

\* A bug: a heartbeat that finds a call under way counts as sent.
DeniedHeartbeatCounts == "Success"

DeniedHeartbeat == "Failure"

\* The goroutine of a heartbeat runs: it calls, or is denied because the node
\* does not lead any more or has a call to the peer under way.
RunHeartbeat(r, j) ==
    LET i == read[r].node IN
    /\ read[r].heartbeat[j] = "Starting"
    /\ \/ /\ SendAppendEntries(i, j)
          /\ read' = [read EXCEPT ![r].heartbeat[j] = "Calling"]
       \/ /\ state[i] # Leader \/ j \notin PeersOf(i) \/ j \in appendInFlight[i]
          /\ read' = [read EXCEPT ![r].heartbeat[j] = DeniedHeartbeat]
          /\ UNCHANGED vars
    /\ UNCHANGED <<timers, readIndexMu>>

Votes(rec, kind) == Cardinality({j \in Node : rec.heartbeat[j] = kind})

Acks(rec) == Votes(rec, "Ack") + (IF rec.selfInCluster THEN 1 ELSE 0)

\* maxPossibleAcks: the heartbeats spawned, whatever became of them, and the node.
MaxPossibleAcks(rec) ==
    Cardinality({j \in Node : rec.heartbeat[j] # "None"})
        + (IF rec.selfInCluster THEN 1 ELSE 0)

\* A bug: one denial too many is waited for.
NoQuorumLeftLate(rec) == MaxPossibleAcks(rec) - Votes(rec, "Denial") < rec.quorum - 1

NoQuorumLeft(rec) == MaxPossibleAcks(rec) - Votes(rec, "Denial") < rec.quorum

\* A result is taken from votesCh.
CountVote(r, j) ==
    LET i     == read[r].node
        ack   == [read[r] EXCEPT !.heartbeat[j] = "Ack"]
        denial == [read[r] EXCEPT !.heartbeat[j] = "Denial"]
    IN
    /\ read[r].pc = "Collecting"
    /\ \/ /\ read[r].heartbeat[j] = "Success"
          /\ Acks(ack) < ack.quorum
          /\ read' = [read EXCEPT ![r] = ack]
          /\ UNCHANGED readIndexMu
       \/ /\ read[r].heartbeat[j] = "Success"
          /\ Acks(ack) >= ack.quorum
          /\ Returns(r, i, ack, "Quorum",
                     IF state[i] # Leader \/ currentTerm[i] # ack.leaderTerm
                     THEN "ErrNotLeader" ELSE "Ok")
       \/ /\ read[r].heartbeat[j] = "Failure"
          /\ ~NoQuorumLeft(denial)
          /\ read' = [read EXCEPT ![r] = denial]
          /\ UNCHANGED readIndexMu
       \/ /\ read[r].heartbeat[j] = "Failure"
          /\ NoQuorumLeft(denial)
          /\ Returns(r, i, denial, "Quorum", "ErrReadIndexNoQuorum")
    /\ UNCHANGED <<vars, timers>>

\* The caller's context is done, where ReadIndex waits on it.
ContextDone(r) ==
    /\ read[r].pc \in {"AwaitingNoOp", "Collecting"}
    /\ Returns(r, read[r].node, read[r], "Quorum", "ContextError")
    /\ UNCHANGED <<vars, timers>>

ReadNext ==
    \/ RaftStep
    \/ \E r \in Reader, i \in Node : BeginRead(r, i)
    \/ \E r \in Reader : LockReadIndexMu(r)
    \/ \E r \in Reader : FindTarget(r)
    \/ \E r \in Reader : SpawnHeartbeats(r)
    \/ \E r \in Reader, j \in Node : RunHeartbeat(r, j)
    \/ \E r \in Reader, j \in Node : CountVote(r, j)
    \/ \E r \in Reader : ContextDone(r)

ReadSpec == Init /\ TimerInit /\ [][ReadNext]_allVars

-----------------------------------------------------------------------------
(* Properties.                                                              *)

ReadRecord ==
    [pc : {"Idle", "Queued", "AwaitingNoOp", "Targets", "Collecting", "Returned"},
     node : Node \cup {NoNode}, floor : Nat, leaderTerm : Nat, targetIndex : Nat,
     quorum : Nat, selfInCluster : BOOLEAN, heartbeat : [Node -> HeartbeatState],
     via : {"None", "Lease", "Quorum"},
     result : {"None", "Ok", "ErrNotLeader", "ErrReadIndexNoQuorum", "ContextError"}]

\* Types; a reader's heartbeat is Calling only while the call is awaited, and
\* readIndexMu is held by the one reader of a node that is past it.
ReadTypeOK ==
    /\ activeAge \in [Node -> 0..MinElectionTimeout]
    /\ ackAge \in [Node -> [Node -> 0..LeaderQuorumLivenessTimeout]]
    /\ read \in [Reader -> ReadRecord]
    /\ readIndexMu \in [Node -> Reader \cup {NoReader}]
    /\ \A r \in Reader, j \in Node :
          read[r].heartbeat[j] = "Calling" => j \in appendInFlight[read[r].node]
    /\ \A r \in Reader : read[r].pc \in {"AwaitingNoOp", "Targets", "Collecting"}
          => readIndexMu[read[r].node] = r

ServedBelow(via) ==
    \E r \in Reader : /\ read[r].result = "Ok" /\ read[r].via = via
                      /\ read[r].targetIndex < read[r].floor

\* A read confirmed by a round of heartbeats sees everything that any node knew
\* as committed when the read began, though the node may have been deposed by
\* then: of the heartbeats it counts none was sent before the target was chosen.
QuorumReadsFresh == ~ServedBelow("Quorum")

\* A reader that collects votes can still come to a decision: it is not left
\* waiting on votesCh for results that no heartbeat will send.
CollectingEnds ==
    \A r \in Reader : read[r].pc = "Collecting" =>
        \E j \in Node : read[r].heartbeat[j] \in {"Starting", "Calling", "Success", "Failure"}

-----------------------------------------------------------------------------
(* What the documentation says and the code does not do.                    *)

\* readindex.go, "linearizable lease read": so does a read served from the
\* lease.  But the leader counts the lease from the arrival of a reply, and the
\* follower its refusal to vote from the execution of the request.
LeaseReadsFresh == ~ServedBelow("Lease")
=============================================================================
