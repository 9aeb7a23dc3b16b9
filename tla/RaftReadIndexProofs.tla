------------------------ MODULE RaftReadIndexProofs ------------------------
(***************************************************************************)
(* RaftReadIndex only adds to Raft: what is proved of Spec holds while     *)
(* reads are served.  A reader that collects votes comes to a decision,    *)
(* for every set of nodes, founding cluster and readers; and what a round  *)
(* of heartbeats confirms is fresh, in every cluster of up to four voters: *)
(* FreshInv (module RaftReadFreshness) is inductive on top of ReadInv and  *)
(* of what RaftCommitmentProofs shows of Raft.                             *)
(***************************************************************************)
EXTENDS RaftReadFreshness, RaftCommitmentProofs

\* Who is not a follower is a founding member.
SpeakersFound == \A i \in Node : state[i] # Follower => i \in Bootstrap

\* Where a reader is; it has heartbeats only while it collects their results.
ReadersPlaced ==
    \A r \in Reader :
        /\ read[r].pc # "Idle" => read[r].node \in Node
        /\ read[r].pc \in {"Queued", "AwaitingNoOp", "Targets"} => read[r].node \in Bootstrap
        /\ read[r].pc # "Collecting" => \A j \in Node : read[r].heartbeat[j] = "None"

\* The votes counted are not enough, and enough may still come.
OpenRound(rec) == Acks(rec) < rec.quorum /\ ~NoQuorumLeft(rec)

RoundsOpen == \A r \in Reader : read[r].pc = "Collecting" => OpenRound(read[r])

\* The inductive invariant.
ReadInv == ReadTypeOK /\ SpeakersFound /\ ReadersPlaced /\ RoundsOpen

-----------------------------------------------------------------------------
(* Reading adds to Raft.                                                    *)

\* A step of Raft with its timers is one of Raft.
LEMMA RaftStepIsNext == ASSUME RaftStep PROVE [Next]_vars
<1>1. CASE Tick
  BY <1>1 DEF Tick
<1>2. CASE \E i \in Node : TimerStartsElection(i)
  BY <1>2 DEF TimerStartsElection, Next
<1>3. CASE \E m \in rpcs : TimedRequestVote(m)
  BY <1>3 DEF TimedRequestVote, HandleRequestVote, Next
<1>4. CASE \E m \in rpcs : TimedRequestVoteReply(m)
  BY <1>4 DEF TimedRequestVoteReply, Next
<1>5. CASE \E m \in rpcs : RequestVoteFails(m) /\ UNCHANGED <<timers, readVars>>
  BY <1>5 DEF Next
<1>6. CASE \E i, j \in Node : TimedSend(i, j)
  BY <1>6 DEF TimedSend, Next
<1>7. CASE \E m \in rpcs : TimedAppendEntries(m)
  BY <1>7 DEF TimedAppendEntries, Next
<1>8. CASE \E m \in rpcs : TimedAppendEntriesReply(m)
  BY <1>8 DEF TimedAppendEntriesReply, Next
<1>9. CASE \E m \in rpcs : TimedCallFails(m)
  BY <1>9 DEF TimedCallFails, Next
<1>10. CASE \E i \in Node, v \in Value : Submit(i, v) /\ UNCHANGED <<timers, readVars>>
  BY <1>10 DEF Next
<1>11. CASE \E i \in Node : TimedStepDown(i)
  BY <1>11 DEF TimedStepDown, Next
<1> QED BY <1>1, <1>2, <1>3, <1>4, <1>5, <1>6, <1>7, <1>8, <1>9, <1>10, <1>11 DEF RaftStep

\* Every step is one of Raft, or does not touch Raft's state.
LEMMA ReadNextIsNext == ReadersPlaced /\ [ReadNext]_allVars => [Next]_vars
<1> SUFFICES ASSUME ReadersPlaced, [ReadNext]_allVars PROVE [Next]_vars
  OBVIOUS
<1>1. CASE RaftStep
  BY <1>1, RaftStepIsNext
<1>2. CASE \E r \in Reader, i \in Node : BeginRead(r, i)
  BY <1>2 DEF BeginRead
<1>3. CASE \E r \in Reader : LockReadIndexMu(r)
  BY <1>3 DEF LockReadIndexMu
<1>4. CASE \E r \in Reader : FindTarget(r)
  BY <1>4 DEF FindTarget
<1>5. CASE \E r \in Reader : SpawnHeartbeats(r)
  BY <1>5 DEF SpawnHeartbeats
<1>6. CASE \E r \in Reader, j \in Node : RunHeartbeat(r, j)
  <2>1. PICK r \in Reader, j \in Node : RunHeartbeat(r, j)
    BY <1>6
  <2>2. CASE SendAppendEntries(read[r].node, j)
    <3>1. read[r].node \in Node
      BY <2>1 DEF RunHeartbeat, ReadersPlaced
    <3> QED BY <2>2, <3>1 DEF Next
  <2> QED BY <2>1, <2>2 DEF RunHeartbeat
<1>7. CASE \E r \in Reader, j \in Node : CountVote(r, j)
  BY <1>7 DEF CountVote
<1>8. CASE \E r \in Reader : ContextDone(r)
  BY <1>8 DEF ContextDone
<1>9. CASE UNCHANGED allVars
  BY <1>9 DEF allVars
<1> QED BY <1>1, <1>2, <1>3, <1>4, <1>5, <1>6, <1>7, <1>8, <1>9 DEF ReadNext

-----------------------------------------------------------------------------
(* Lemmas about Raft's state.                                               *)

\* Only a founding member becomes candidate, and only a candidate leader
\* (election.go:8-36, state.go:21-37).
LEMMA SpeakersStayFound ==
    ASSUME ElectionInv, SpeakersFound, [Next]_vars
    PROVE  SpeakersFound'
<1> USE DEF SpeakersFound, Follower, Candidate, Leader
<1> TypeOK /\ StaticConfig
  BY DEF ElectionInv
<1> state \in [Node -> {Follower, Candidate, Leader}]
  BY DEF TypeOK
<1>1. CASE \E i \in Node : StartElection(i)
  <2>1. PICK i \in Node : StartElection(i)
    BY <1>1
  <2>2. i \in Bootstrap
    BY <2>1, FoundingVoters DEF StartElection
  <2> QED BY <2>1, <2>2 DEF StartElection
<1>2. CASE \E m \in rpcs : HandleRequestVote(m)
  BY <1>2 DEF HandleRequestVote, RefuseStaleVote, RefuseWhileLeaderAlive, DecideVote
<1>3. CASE \E m \in rpcs : HandleRequestVoteReply(m)
  BY <1>3 DEF HandleRequestVoteReply, BecomeFollower, BecomeLeader
<1>4. CASE \E m \in rpcs : RequestVoteFails(m)
  BY <1>4 DEF RequestVoteFails
<1>5. CASE \E i, j \in Node : SendAppendEntries(i, j)
  BY <1>5 DEF SendAppendEntries
<1>6. CASE \E m \in rpcs : HandleAppendEntries(m)
  BY <1>6 DEF HandleAppendEntries, RefuseStaleLeader, AcceptLeader, BecomeFollower
<1>7. CASE \E m \in rpcs : HandleAppendEntriesReply(m)
  BY <1>7 DEF HandleAppendEntriesReply, BecomeFollower
<1>8. CASE \E m \in rpcs : AppendEntriesFails(m)
  BY <1>8 DEF AppendEntriesFails
<1>9. CASE \E m \in rpcs : AppendEntriesTimeout(m)
  BY <1>9 DEF AppendEntriesTimeout
<1>10. CASE \E i \in Node, v \in Value : Submit(i, v)
  BY <1>10 DEF Submit
<1>11. CASE \E i \in Node : StepDown(i)
  BY <1>11 DEF StepDown, BecomeFollower
<1>12. CASE UNCHANGED vars
  BY <1>12 DEF vars
<1> QED BY <1>1, <1>2, <1>3, <1>4, <1>5, <1>6, <1>7, <1>8, <1>9, <1>10, <1>11, <1>12 DEF Next

\* A voter is a member, so it has a peer's record on every other node
\* (membership.go:14-97).
LEMMA VotersAreMembers ==
    ASSUME NEW i \in Node
    PROVE  VotersOf(i) \ {i} \subseteq PeersOf(i)
<1>1. Voters(log[i], BootstrapOf(i)) \subseteq Members(log[i], BootstrapOf(i))
  BY DEF Voters, Members, VotingKept, EntryNormal, EntryAddVoter, EntryAddLearner,
         EntryRemoveNode
<1> QED BY <1>1 DEF VotersOf, PeersOf

\* A function from a finite set to the naturals has a greatest value.
LEMMA GreatestValue ==
    ASSUME NEW S, IsFiniteSet(S), S # {}, NEW f \in [S -> Nat]
    PROVE  \E x \in S : \A y \in S : f[y] <= f[x]
<1> DEFINE n == Cardinality(S)
<1>1. n \in Nat /\ ExistsBijection(1..n, S)
  BY FS_CardinalityType
<1>2. PICK g \in [1..n -> S] : \A y \in S : \E k \in 1..n : g[k] = y
  BY <1>1 DEF ExistsBijection, Bijection, Surjection
<1> HIDE DEF n
<1> DEFINE top(k) == \E m \in 1..k : \A l \in 1..k : f[g[l]] <= f[g[m]]
           bad == {k \in 1..n : ~top(k)}
<1>3. n >= 1
  BY <1>1, <1>2
<1>4. bad = {}
  <2> SUFFICES ASSUME bad # {} PROVE FALSE
    OBVIOUS
  <2>1. bad \in SUBSET Nat
    BY <1>1
  <2>2. PICK k \in bad : \A l \in bad : k <= l
    BY <2>1, LeastExists
  <2>3. k \in 1..n /\ ~top(k)
    OBVIOUS
  <2>4. \A l \in 1..n : f[g[l]] \in Nat
    BY <1>2
  <2>5. k # 1
    <3>1. SUFFICES ASSUME k = 1 PROVE FALSE
      OBVIOUS
    <3>2. 1 \in 1..k /\ \A l \in 1..k : l = 1
      BY <3>1
    <3>3. f[g[1]] <= f[g[1]]
      BY <2>3, <2>4, <3>1
    <3> QED BY <2>3, <3>2, <3>3
  <2>6. k - 1 \in 1..n /\ k - 1 < k
    BY <1>1, <2>3, <2>5
  <2>7. top(k - 1)
    <3>1. k - 1 \notin bad
      <4>1. SUFFICES ASSUME k - 1 \in bad PROVE FALSE
        OBVIOUS
      <4>2. k <= k - 1
        BY <2>2, <4>1
      <4> QED BY <2>3, <4>2
    <3> QED BY <2>6, <3>1
  <2>8. PICK m \in 1..(k - 1) : \A l \in 1..(k - 1) : f[g[l]] <= f[g[m]]
    BY <2>7
  <2>9. m \in 1..k /\ k \in 1..k /\ \A l \in 1..k : l = k \/ l \in 1..(k - 1)
    BY <2>3, <2>6
  <2> HIDE DEF bad
  <2>10. CASE f[g[k]] <= f[g[m]]
    BY <2>3, <2>8, <2>9, <2>10
  <2>11. CASE f[g[m]] <= f[g[k]]
    <3>1. ASSUME NEW l \in 1..k PROVE f[g[l]] <= f[g[k]]
      <4>1. f[g[l]] \in Nat /\ f[g[k]] \in Nat /\ f[g[m]] \in Nat
        BY <1>1, <2>3, <2>4, <2>6, <2>8
      <4>2. CASE l = k
        BY <4>1, <4>2
      <4>3. CASE l \in 1..(k - 1)
        BY <2>8, <2>11, <4>1, <4>3
      <4> QED BY <2>9, <4>2, <4>3
    <3> QED BY <2>3, <2>9, <3>1
  <2>12. f[g[m]] \in Nat /\ f[g[k]] \in Nat
    BY <1>1, <2>3, <2>4, <2>6, <2>8
  <2> QED BY <2>10, <2>11, <2>12
<1>5. n \in 1..n
  BY <1>1, <1>3
<1>6. top(n)
  BY <1>4, <1>5
<1>7. PICK m \in 1..n : \A l \in 1..n : f[g[l]] <= f[g[m]]
  BY <1>6
<1> QED BY <1>2, <1>7

\* The floor of a read is the commit index of some node.
LEMMA CommittedKnown ==
    ASSUME TypeOK, Node # {}
    PROVE  Committed \in {commitIndex[k] : k \in Node}
<1>1. commitIndex \in [Node -> Nat]
  BY DEF TypeOK
<1>2. PICK i \in Node : \A j \in Node : commitIndex[j] <= commitIndex[i]
  BY <1>1, NodeAssumption, GreatestValue
<1>3. \E n \in {commitIndex[k] : k \in Node} : \A k \in Node : commitIndex[k] <= n
  BY <1>2
<1> QED BY <1>3 DEF Committed

-----------------------------------------------------------------------------
(* Counting votes.                                                          *)

\* Acks depends on what is counted as acknowledged only.
LEMMA AcksKept ==
    ASSUME NEW rec, NEW new, new.selfInCluster = rec.selfInCluster,
           \A j \in Node : new.heartbeat[j] = "Ack" <=> rec.heartbeat[j] = "Ack"
    PROVE  Acks(new) = Acks(rec)
<1>1. {j \in Node : new.heartbeat[j] = "Ack"} = {j \in Node : rec.heartbeat[j] = "Ack"}
  OBVIOUS
<1> QED BY <1>1 DEF Acks, Votes

\* NoQuorumLeft depends on who was asked and what is counted as denied.
LEMMA QuorumLeftKept ==
    ASSUME NEW rec, NEW new, new.quorum = rec.quorum, new.selfInCluster = rec.selfInCluster,
           \A j \in Node : /\ new.heartbeat[j] = "Denial" <=> rec.heartbeat[j] = "Denial"
                           /\ new.heartbeat[j] = "None" <=> rec.heartbeat[j] = "None"
    PROVE  NoQuorumLeft(new) <=> NoQuorumLeft(rec)
<1>1. /\ {j \in Node : new.heartbeat[j] = "Denial"} = {j \in Node : rec.heartbeat[j] = "Denial"}
      /\ {j \in Node : new.heartbeat[j] # "None"} = {j \in Node : rec.heartbeat[j] # "None"}
  OBVIOUS
<1> QED BY <1>1 DEF NoQuorumLeft, MaxPossibleAcks, Votes

\* What is not counted yet does not matter for the count.
LEMMA CountsKept ==
    ASSUME NEW rec, NEW new, new.quorum = rec.quorum, new.selfInCluster = rec.selfInCluster,
           \A j \in Node : /\ new.heartbeat[j] = "Ack" <=> rec.heartbeat[j] = "Ack"
                           /\ new.heartbeat[j] = "Denial" <=> rec.heartbeat[j] = "Denial"
                           /\ new.heartbeat[j] = "None" <=> rec.heartbeat[j] = "None"
    PROVE  OpenRound(new) <=> OpenRound(rec)
<1> QED BY AcksKept, QuorumLeftKept DEF OpenRound

\* OpenRound means that a heartbeat is still out: were all of them counted, the
\* acknowledgements would be all that may come.
LEMMA OpenRoundWaits ==
    ASSUME NEW rec, rec.quorum \in Nat, rec.heartbeat \in [Node -> HeartbeatState],
           OpenRound(rec)
    PROVE  \E j \in Node : rec.heartbeat[j] \in {"Starting", "Calling", "Success", "Failure"}
<1> DEFINE of(kind) == {j \in Node : rec.heartbeat[j] = kind}
           spawned == {j \in Node : rec.heartbeat[j] # "None"}
<1> SUFFICES ASSUME \A j \in Node : rec.heartbeat[j] \notin
                        {"Starting", "Calling", "Success", "Failure"}
             PROVE  FALSE
  OBVIOUS
<1>1. spawned = of("Ack") \cup of("Denial") /\ of("Ack") \cap of("Denial") = {}
  BY DEF HeartbeatState
<1>2. IsFiniteSet(of("Ack")) /\ IsFiniteSet(of("Denial"))
  BY NodeAssumption, FS_Subset
<1>3. Cardinality(spawned) = Cardinality(of("Ack")) + Cardinality(of("Denial"))
  <2>1. Cardinality({}) = 0 /\ Cardinality(of("Ack")) \in Nat /\ Cardinality(of("Denial")) \in Nat
    BY <1>2, FS_CardinalityType, FS_EmptySet
  <2>2. Cardinality(of("Ack") \cup of("Denial"))
           = Cardinality(of("Ack")) + Cardinality(of("Denial"))
                - Cardinality(of("Ack") \cap of("Denial"))
    BY <1>2, FS_Union
  <2> HIDE DEF of, spawned
  <2>3. Cardinality(of("Ack") \cap of("Denial")) = 0
    BY <1>1, <2>1
  <2>4. Cardinality(spawned) = Cardinality(of("Ack") \cup of("Denial"))
    BY <1>1
  <2> QED BY <2>1, <2>2, <2>3, <2>4
<1>4. Cardinality(of("Ack")) \in Nat /\ Cardinality(of("Denial")) \in Nat
  BY <1>2, FS_CardinalityType
<1> HIDE DEF of, spawned
<1>5. /\ Votes(rec, "Ack") = Cardinality(of("Ack"))
      /\ Votes(rec, "Denial") = Cardinality(of("Denial"))
      /\ MaxPossibleAcks(rec) = Cardinality(spawned) + (IF rec.selfInCluster THEN 1 ELSE 0)
  BY DEF of, spawned, Votes, MaxPossibleAcks
<1>6. /\ Votes(rec, "Ack") + (IF rec.selfInCluster THEN 1 ELSE 0) < rec.quorum
      /\ ~(MaxPossibleAcks(rec) - Votes(rec, "Denial") < rec.quorum)
  BY DEF OpenRound, Acks, NoQuorumLeft
<1> QED BY <1>3, <1>4, <1>5, <1>6

\* A heartbeat's state is the only thing that changes in the record.
LEMMA HeartbeatSet ==
    ASSUME NEW rec \in ReadRecord, NEW j \in Node, NEW v \in HeartbeatState
    PROVE  LET new == [rec EXCEPT !.heartbeat[j] = v] IN
           /\ new \in ReadRecord
           /\ new.heartbeat = [rec.heartbeat EXCEPT ![j] = v]
           /\ new.pc = rec.pc /\ new.node = rec.node
           /\ new.quorum = rec.quorum /\ new.selfInCluster = rec.selfInCluster
<1> USE DEF ReadRecord
<1>1. rec.heartbeat \in [Node -> HeartbeatState]
  OBVIOUS
<1>2. [rec.heartbeat EXCEPT ![j] = v] \in [Node -> HeartbeatState]
  BY <1>1
<1> QED BY <1>2

-----------------------------------------------------------------------------
(* What a step does to the readers.                                         *)

TimersOK ==
    /\ activeAge \in [Node -> 0..MinElectionTimeout]
    /\ ackAge \in [Node -> [Node -> 0..LeaderQuorumLivenessTimeout]]

Holding(rec) == rec.pc \in {"AwaitingNoOp", "Targets", "Collecting"}

\* A reader's record on its own, with the calls under way.
RecordOK(rec, inFlight) ==
    /\ rec \in ReadRecord
    /\ rec.pc # "Idle" => rec.node \in Node
    /\ rec.pc \in {"Queued", "AwaitingNoOp", "Targets"} => rec.node \in Bootstrap
    /\ rec.pc # "Collecting" => \A j \in Node : rec.heartbeat[j] = "None"
    /\ \A j \in Node : rec.heartbeat[j] = "Calling" => j \in inFlight[rec.node]
    /\ rec.pc = "Collecting" => OpenRound(rec)

ReadersOK == ReadTypeOK /\ ReadersPlaced /\ RoundsOpen

\* The same, reader by reader.
EachReaderOK ==
    /\ TimersOK
    /\ read \in [Reader -> ReadRecord]
    /\ readIndexMu \in [Node -> Reader \cup {NoReader}]
    /\ \A r \in Reader : /\ RecordOK(read[r], appendInFlight)
                         /\ Holding(read[r]) => readIndexMu[read[r].node] = r

\* ReadersOK is a matter of each reader.
LEMMA ByReader == ReadersOK <=> EachReaderOK
BY DEF ReadersOK, ReadTypeOK, ReadersPlaced, RoundsOpen, TimersOK, RecordOK, Holding,
       EachReaderOK

\* More calls under way disturb no record.
LEMMA MoreInFlight ==
    ASSUME NEW rec, NEW inFlight, NEW more, RecordOK(rec, inFlight),
           \A k \in Node : inFlight[k] \subseteq more[k]
    PROVE  RecordOK(rec, more)
<1>1. ASSUME NEW j \in Node, rec.heartbeat[j] = "Calling" PROVE j \in more[rec.node]
  <2>1. rec.node \in Node
    BY <1>1 DEF RecordOK
  <2> QED BY <1>1, <2>1 DEF RecordOK
<1> QED BY <1>1 DEF RecordOK

\* The readers stand still.
LEMMA ReadersUntouched ==
    ASSUME ReadersOK, TimersOK', UNCHANGED readVars,
           \A k \in Node : appendInFlight[k] \subseteq appendInFlight'[k]
    PROVE  ReadersOK'
<1> USE DEF EachReaderOK
<1>1. read' = read /\ readIndexMu' = readIndexMu
  BY DEF readVars
<1>2. ASSUME NEW r \in Reader
      PROVE  /\ RecordOK(read'[r], appendInFlight')
             /\ Holding(read'[r]) => readIndexMu'[read'[r].node] = r
  BY <1>1, ByReader, MoreInFlight
<1>3. /\ read' \in [Reader -> ReadRecord]
      /\ readIndexMu' \in [Node -> Reader \cup {NoReader}]
  BY <1>1, ByReader
<1>4. EachReaderOK'
  BY <1>2, <1>3
<1> QED BY <1>4, ByReader, PTL

\* The calls awaited from i to j have come back.
LEMMA HeartbeatReturnsInv ==
    ASSUME ReadersOK, TimersOK', NEW i \in Node, NEW j \in Node, NEW success,
           HeartbeatReturns(i, j, success), readIndexMu' = readIndexMu,
           \A k \in Node : \A l \in appendInFlight[k] :
               l \in appendInFlight'[k] \/ (k = i /\ l = j)
    PROVE  ReadersOK'
<1> USE DEF EachReaderOK
<1> DEFINE v == IF success THEN "Success" ELSE "Failure"
<1>1. v \in HeartbeatState /\ v \in {"Success", "Failure"}
  BY DEF HeartbeatState
<1> HIDE DEF v
<1>2. ASSUME NEW r \in Reader
      PROVE  /\ RecordOK(read'[r], appendInFlight')
             /\ read'[r].pc = read[r].pc /\ read'[r].node = read[r].node
  <2>1. RecordOK(read[r], appendInFlight) /\ read[r] \in ReadRecord
    BY ByReader
  <2>2. CASE r \in Awaiting(i, j)
    <3>1. read'[r] = [read[r] EXCEPT !.heartbeat[j] = v]
      BY <2>2 DEF HeartbeatReturns, v
    <3>2. /\ read'[r] \in ReadRecord
          /\ read'[r].heartbeat = [read[r].heartbeat EXCEPT ![j] = v]
          /\ read'[r].pc = read[r].pc /\ read'[r].node = read[r].node
          /\ read'[r].quorum = read[r].quorum
          /\ read'[r].selfInCluster = read[r].selfInCluster
      BY <1>1, <2>1, <3>1, HeartbeatSet
    <3>3. read[r].node = i /\ read[r].heartbeat[j] = "Calling"
      BY <2>2 DEF Awaiting
    <3>4. read[r].pc = "Collecting"
      BY <2>1, <3>3 DEF RecordOK
    <3>5. read[r].heartbeat \in [Node -> HeartbeatState]
      BY <2>1 DEF ReadRecord
    <3>6. /\ read'[r].heartbeat[j] = v
          /\ \A k \in Node \ {j} : read'[r].heartbeat[k] = read[r].heartbeat[k]
      BY <3>2, <3>5
    <3>7. OpenRound(read'[r])
      <4>1. OpenRound(read[r])
        BY <2>1, <3>4 DEF RecordOK
      <4>2. \A k \in Node :
               /\ read'[r].heartbeat[k] = "Ack" <=> read[r].heartbeat[k] = "Ack"
               /\ read'[r].heartbeat[k] = "Denial" <=> read[r].heartbeat[k] = "Denial"
               /\ read'[r].heartbeat[k] = "None" <=> read[r].heartbeat[k] = "None"
        BY <1>1, <3>3, <3>6
      <4> QED BY <3>2, <4>1, <4>2, CountsKept
    <3>8. ASSUME NEW k \in Node, read'[r].heartbeat[k] = "Calling"
          PROVE  k \in appendInFlight'[read'[r].node]
      <4>1. k # j /\ read[r].heartbeat[k] = "Calling"
        BY <1>1, <3>6, <3>8
      <4>2. k \in appendInFlight[i]
        BY <2>1, <3>3, <4>1 DEF RecordOK
      <4> QED BY <3>2, <3>3, <4>1, <4>2
    <3> QED BY <2>1, <3>2, <3>4, <3>7, <3>8 DEF RecordOK
  <2>3. CASE r \notin Awaiting(i, j)
    <3>1. read'[r] = read[r]
      BY <2>3 DEF HeartbeatReturns
    <3>2. ASSUME NEW k \in Node, read[r].heartbeat[k] = "Calling"
          PROVE  k \in appendInFlight'[read[r].node]
      <4>1. read[r].node \in Node /\ k \in appendInFlight[read[r].node]
        BY <2>1, <3>2 DEF RecordOK
      <4>2. read[r].node # i \/ k # j
        BY <2>3, <3>2 DEF Awaiting
      <4> QED BY <4>1, <4>2
    <3> QED BY <2>1, <3>1, <3>2 DEF RecordOK
  <2> QED BY <2>2, <2>3
<1>3. read' \in [Reader -> ReadRecord]
  BY <1>2 DEF HeartbeatReturns, RecordOK
<1>4. \A r \in Reader : Holding(read'[r]) => readIndexMu'[read'[r].node] = r
  BY <1>2, ByReader DEF Holding
<1>5. readIndexMu' \in [Node -> Reader \cup {NoReader}]
  BY ByReader
<1>6. EachReaderOK'
  BY <1>2, <1>3, <1>4, <1>5
<1> QED BY <1>6, ByReader, PTL

\* One reader moves on to rec.
LEMMA OneReaderInv ==
    ASSUME ReadersOK, UNCHANGED timers, NEW r \in Reader, NEW rec,
           read' = [read EXCEPT ![r] = rec],
           RecordOK(rec, appendInFlight'),
           \A k \in Node : appendInFlight[k] \subseteq appendInFlight'[k],
           readIndexMu' \in [Node -> Reader \cup {NoReader}],
           Holding(rec) => readIndexMu'[rec.node] = r,
           \A k \in Node : readIndexMu[k] \notin {r, NoReader} => readIndexMu'[k] = readIndexMu[k]
    PROVE  ReadersOK'
<1> USE DEF EachReaderOK
<1>1. TimersOK'
  BY ByReader DEF timers, TimersOK
<1>2. read' \in [Reader -> ReadRecord]
  BY ByReader DEF RecordOK
<1>3. ASSUME NEW q \in Reader
      PROVE  /\ RecordOK(read'[q], appendInFlight')
             /\ Holding(read'[q]) => readIndexMu'[read'[q].node] = q
  <2>1. CASE q = r
    <3>1. read'[q] = rec
      BY <2>1, ByReader
    <3> QED BY <2>1, <3>1
  <2>2. CASE q # r
    <3>1. read'[q] = read[q] /\ RecordOK(read[q], appendInFlight)
      BY <2>2, ByReader
    <3>2. RecordOK(read[q], appendInFlight')
      BY <3>1, MoreInFlight
    <3>3. ASSUME Holding(read[q]) PROVE readIndexMu'[read[q].node] = q
      <4>1. read[q].node \in Node
        BY <3>1, <3>3 DEF RecordOK, Holding
      <4>2. readIndexMu[read[q].node] = q
        BY <3>3, ByReader
      <4> QED BY <2>2, <4>1, <4>2, ReadAssumption
    <3> QED BY <3>1, <3>2, <3>3
  <2> QED BY <2>1, <2>2
<1>4. EachReaderOK'
  BY <1>1, <1>2, <1>3
<1> QED BY <1>4, ByReader, PTL

\* A reader returns, wherever it was.
LEMMA ReturnsInv ==
    ASSUME ReadersOK, UNCHANGED <<timers, appendInFlight>>, NEW r \in Reader, NEW i \in Node,
           NEW rec \in ReadRecord, rec.node = i,
           NEW via \in {"None", "Lease", "Quorum"},
           NEW result \in {"Ok", "ErrNotLeader", "ErrReadIndexNoQuorum", "ContextError"},
           Returns(r, i, rec, via, result)
    PROVE  ReadersOK'
<1> USE DEF EachReaderOK
<1> DEFINE new == [rec EXCEPT !.pc = "Returned", !.via = via, !.result = result,
                              !.heartbeat = [j \in Node |-> "None"]]
<1>1. /\ new \in ReadRecord /\ new.pc = "Returned" /\ new.node = i
      /\ new.heartbeat = [j \in Node |-> "None"]
  BY DEF ReadRecord, HeartbeatState
<1>2. /\ read' = [read EXCEPT ![r] = new]
      /\ readIndexMu' = [readIndexMu EXCEPT ![i] = IF @ = r THEN NoReader ELSE @]
  BY DEF Returns
<1> HIDE DEF new
<1>3. RecordOK(new, appendInFlight')
  BY <1>1 DEF RecordOK
<1>4. readIndexMu \in [Node -> Reader \cup {NoReader}]
  BY ByReader
<1>5. /\ readIndexMu' \in [Node -> Reader \cup {NoReader}]
      /\ \A k \in Node : readIndexMu[k] \notin {r, NoReader} => readIndexMu'[k] = readIndexMu[k]
  BY <1>2, <1>4
<1>6. ~Holding(new)
  BY <1>1 DEF Holding
<1> QED BY <1>2, <1>3, <1>5, <1>6, OneReaderInv DEF timers

-----------------------------------------------------------------------------
(* Each action keeps the readers.                                           *)

\* resetElectionTimer, or not.
LEMMA ActiveTimer ==
    ASSUME TimersOK, NEW i \in Node, NEW condition, Active(i, condition)
    PROVE  activeAge' \in [Node -> 0..MinElectionTimeout]
<1>1. 0 \in 0..MinElectionTimeout
  BY ReadAssumption
<1> QED BY <1>1 DEF Active, TimersOK

\* An age stops at its limit.
LEMMA TickTimers == ASSUME TimersOK, Tick PROVE TimersOK'
<1>1. \A limit \in Nat : \A age \in 0..limit : Older(age, limit) \in 0..limit
  BY DEF Older
<1>2. activeAge' \in [Node -> 0..MinElectionTimeout]
  BY <1>1, ReadAssumption DEF Tick, TimersOK
<1>3. ackAge' \in [Node -> [Node -> 0..LeaderQuorumLivenessTimeout]]
  BY <1>1, ReadAssumption DEF Tick, TimersOK
<1> QED BY <1>2, <1>3 DEF TimersOK

\* Only the outcome of an AppendEntries call touches the readers.
LEMMA RaftStepReaders ==
    ASSUME TypeOK, ReadersOK, RaftStep
    PROVE  ReadersOK'
<1>1. TimersOK
  BY ByReader DEF EachReaderOK
<1>2. 0 \in 0..LeaderQuorumLivenessTimeout
  BY ReadAssumption
<1>3. CASE Tick
  <2>1. TimersOK'
    BY <1>1, <1>3, TickTimers
  <2> QED BY <1>3, <2>1, ReadersUntouched DEF Tick, vars
<1>4. CASE \E i \in Node : TimerStartsElection(i)
  <2>1. PICK i \in Node : TimerStartsElection(i)
    BY <1>4
  <2>2. TimersOK'
    BY <1>1, <2>1, ActiveTimer DEF TimerStartsElection, TimersOK
  <2> QED BY <2>1, <2>2, ReadersUntouched DEF TimerStartsElection, StartElection, leaderVars
<1>5. CASE \E m \in rpcs : TimedRequestVote(m)
  <2>1. PICK m \in rpcs : TimedRequestVote(m)
    BY <1>5
  <2>2. m.dst \in Node
    BY MessageKinds
  <2>3. TimersOK'
    BY <1>1, <2>1, <2>2, ActiveTimer DEF TimedRequestVote, TimersOK
  <2>4. UNCHANGED appendInFlight
    BY <2>1 DEF TimedRequestVote, RefuseStaleVote, RefuseWhileLeaderAlive, DecideVote,
                leaderVars
  <2> QED BY <2>1, <2>3, <2>4, ReadersUntouched DEF TimedRequestVote
<1>6. CASE \E m \in rpcs : TimedRequestVoteReply(m)
  <2>1. PICK m \in rpcs : TimedRequestVoteReply(m)
    BY <1>6
  <2>2. m.dst \in Node
    BY MessageKinds
  <2>3. activeAge' \in [Node -> 0..MinElectionTimeout]
    BY <1>1, <2>1, <2>2, ActiveTimer DEF TimedRequestVoteReply
  <2>4. ackAge' \in [Node -> [Node -> 0..LeaderQuorumLivenessTimeout]]
    <3>1. [j \in Node |-> IF j \in PeersOf(m.dst) THEN 0 ELSE ackAge[m.dst][j]]
             \in [Node -> 0..LeaderQuorumLivenessTimeout]
      BY <1>1, <1>2, <2>2 DEF TimersOK
    <3> QED BY <1>1, <2>1, <2>2, <3>1 DEF TimedRequestVoteReply, TimersOK
  <2>5. TimersOK'
    BY <2>3, <2>4 DEF TimersOK
  <2>6. UNCHANGED <<appendInFlight, readVars>>
    BY <2>1 DEF TimedRequestVoteReply, HandleRequestVoteReply
  <2> QED BY <2>5, <2>6, ReadersUntouched
<1>7. CASE \E m \in rpcs : RequestVoteFails(m) /\ UNCHANGED <<timers, readVars>>
  <2>1. TimersOK'
    BY <1>1, <1>7 DEF timers, TimersOK
  <2> QED BY <1>7, <2>1, ReadersUntouched DEF RequestVoteFails, leaderVars
<1>8. CASE \E i, j \in Node : TimedSend(i, j)
  <2>1. PICK i \in Node, j \in Node : TimedSend(i, j)
    BY <1>8
  <2>2. TimersOK'
    BY <1>1, <2>1 DEF TimedSend, timers, TimersOK
  <2>3. \A k \in Node : appendInFlight[k] \subseteq appendInFlight'[k]
    BY <2>1 DEF TimedSend, SendAppendEntries, TypeOK
  <2> QED BY <2>1, <2>2, <2>3, ReadersUntouched DEF TimedSend
<1>9. CASE \E m \in rpcs : TimedAppendEntries(m)
  <2>1. PICK m \in rpcs : TimedAppendEntries(m)
    BY <1>9
  <2>2. m.dst \in Node
    BY MessageKinds
  <2>3. TimersOK'
    BY <1>1, <2>1, <2>2, ActiveTimer DEF TimedAppendEntries, TimersOK
  <2>4. UNCHANGED appendInFlight
    BY <2>1 DEF TimedAppendEntries, HandleAppendEntries, leaderVars
  <2> QED BY <2>1, <2>3, <2>4, ReadersUntouched DEF TimedAppendEntries
<1>10. CASE \E m \in rpcs : TimedAppendEntriesReply(m)
  <2>1. PICK m \in rpcs : TimedAppendEntriesReply(m)
    BY <1>10
  <2>2. m.src \in Node /\ m.dst \in Node
    BY MessageKinds
  <2>3. activeAge' \in [Node -> 0..MinElectionTimeout]
    BY <1>1, <2>1, <2>2, ActiveTimer DEF TimedAppendEntriesReply
  <2>4. ackAge' \in [Node -> [Node -> 0..LeaderQuorumLivenessTimeout]]
    BY <1>1, <1>2, <2>1, <2>2 DEF TimedAppendEntriesReply, TimersOK
  <2>5. TimersOK'
    BY <2>3, <2>4 DEF TimersOK
  <2>6. appendInFlight' = [appendInFlight EXCEPT ![m.dst] = @ \ {m.src}]
    BY <2>1 DEF TimedAppendEntriesReply, HandleAppendEntriesReply
  <2>7. \A k \in Node : \A l \in appendInFlight[k] :
           l \in appendInFlight'[k] \/ (k = m.dst /\ l = m.src)
    BY <2>2, <2>6 DEF TypeOK
  <2>8. HeartbeatReturns(m.dst, m.src, Acknowledges(m)) /\ readIndexMu' = readIndexMu
    BY <2>1 DEF TimedAppendEntriesReply
  <2> HIDE DEF Acknowledges
  <2> QED BY <2>2, <2>5, <2>7, <2>8, HeartbeatReturnsInv
<1>11. CASE \E m \in rpcs : TimedCallFails(m)
  <2>1. PICK m \in rpcs : TimedCallFails(m)
    BY <1>11
  <2>2. m.src \in Node /\ m.dst \in Node
    BY MessageKinds
  <2>3. TimersOK' /\ readIndexMu' = readIndexMu
    BY <1>1, <2>1 DEF TimedCallFails, timers, TimersOK
  <2>4. CASE m.kind = "AppendEntries"
    <3>1. appendInFlight' = [appendInFlight EXCEPT ![m.src] = @ \ {m.dst}]
      BY <2>1, <2>4 DEF TimedCallFails, AppendEntriesFails, AppendEntriesTimeout
    <3>2. \A k \in Node : \A l \in appendInFlight[k] :
             l \in appendInFlight'[k] \/ (k = m.src /\ l = m.dst)
      BY <2>2, <3>1 DEF TypeOK
    <3>3. HeartbeatReturns(m.src, m.dst, FALSE)
      BY <2>1, <2>4 DEF TimedCallFails
    <3> QED BY <2>2, <2>3, <3>2, <3>3, HeartbeatReturnsInv
  <2>5. CASE m.kind # "AppendEntries"
    <3>1. appendInFlight' = [appendInFlight EXCEPT ![m.dst] = @ \ {m.src}]
      BY <2>1, <2>5 DEF TimedCallFails, AppendEntriesFails, AppendEntriesTimeout
    <3>2. \A k \in Node : \A l \in appendInFlight[k] :
             l \in appendInFlight'[k] \/ (k = m.dst /\ l = m.src)
      BY <2>2, <3>1 DEF TypeOK
    <3>3. HeartbeatReturns(m.dst, m.src, FALSE)
      BY <2>1, <2>5 DEF TimedCallFails
    <3> QED BY <2>2, <2>3, <3>2, <3>3, HeartbeatReturnsInv
  <2> QED BY <2>4, <2>5
<1>12. CASE \E i \in Node, v \in Value : Submit(i, v) /\ UNCHANGED <<timers, readVars>>
  <2>1. TimersOK'
    BY <1>1, <1>12 DEF timers, TimersOK
  <2> QED BY <1>12, <2>1, ReadersUntouched DEF Submit, leaderVars
<1>13. CASE \E i \in Node : TimedStepDown(i)
  <2>1. PICK i \in Node : TimedStepDown(i)
    BY <1>13
  <2>2. TimersOK'
    BY <1>1, <2>1, ActiveTimer DEF TimedStepDown, TimersOK
  <2> QED BY <2>1, <2>2, ReadersUntouched DEF TimedStepDown, StepDown, leaderVars
<1> QED BY <1>3, <1>4, <1>5, <1>6, <1>7, <1>8, <1>9, <1>10, <1>11, <1>12, <1>13 DEF RaftStep

\* Only a leader queues, and a leader is a founding member.
LEMMA BeginReadInv ==
    ASSUME TypeOK, SpeakersFound, ReadersOK, NEW r \in Reader, NEW i \in Node, BeginRead(r, i)
    PROVE  ReadersOK'
<1> DEFINE rec == [IdleRead EXCEPT !.node = i, !.floor = Committed,
                                   !.targetIndex = commitIndex[i]]
           queued == [rec EXCEPT !.pc = "Queued"]
<1>1. Committed \in Nat /\ commitIndex[i] \in Nat
  <2>1. \A k \in Node : commitIndex[k] \in Nat
    BY DEF TypeOK
  <2> QED BY <2>1, CommittedKnown
<1>2. IdleRead \in ReadRecord /\ IdleRead.heartbeat = [j \in Node |-> "None"]
  BY DEF IdleRead, ReadRecord, HeartbeatState
<1>3. rec \in ReadRecord /\ rec.node = i /\ rec.heartbeat = [j \in Node |-> "None"]
  BY <1>1, <1>2 DEF ReadRecord
<1>4. queued \in ReadRecord /\ queued.node = i /\ queued.pc = "Queued"
      /\ queued.heartbeat = [j \in Node |-> "None"]
  BY <1>3 DEF ReadRecord
<1>5. UNCHANGED <<timers, appendInFlight>>
  BY DEF BeginRead, vars
<1>6. \/ Returns(r, i, rec, "Lease", "ErrNotLeader")
      \/ Returns(r, i, rec, "Lease", "Ok")
      \/ /\ state[i] = Leader
         /\ read' = [read EXCEPT ![r] = queued]
         /\ UNCHANGED readIndexMu
  BY DEF BeginRead
<1> HIDE DEF rec, queued
<1>7. CASE Returns(r, i, rec, "Lease", "ErrNotLeader") \/ Returns(r, i, rec, "Lease", "Ok")
  BY <1>3, <1>5, <1>7, ReturnsInv
<1>8. CASE /\ state[i] = Leader
           /\ read' = [read EXCEPT ![r] = queued]
           /\ UNCHANGED readIndexMu
  <2>1. i \in Bootstrap
    BY <1>8 DEF SpeakersFound, Leader, Follower
  <2>2. RecordOK(queued, appendInFlight')
    BY <1>4, <2>1 DEF RecordOK
  <2>3. ~Holding(queued)
    BY <1>4 DEF Holding
  <2>4. readIndexMu' \in [Node -> Reader \cup {NoReader}]
    BY <1>8, ByReader DEF EachReaderOK
  <2> QED BY <1>5, <1>8, <2>2, <2>3, <2>4, OneReaderInv
<1> QED BY <1>6, <1>7, <1>8

\* readIndexMu was free.
LEMMA LockReadIndexMuInv ==
    ASSUME ReadersOK, NEW r \in Reader, LockReadIndexMu(r)
    PROVE  ReadersOK'
<1> DEFINE new == [read[r] EXCEPT !.pc = "AwaitingNoOp"]
<1>1. /\ RecordOK(read[r], appendInFlight) /\ read[r].pc = "Queued"
      /\ read \in [Reader -> ReadRecord]
      /\ readIndexMu \in [Node -> Reader \cup {NoReader}]
  BY ByReader DEF EachReaderOK, LockReadIndexMu
<1>2. /\ new \in ReadRecord /\ new.pc = "AwaitingNoOp" /\ new.node = read[r].node
      /\ new.heartbeat = read[r].heartbeat
  BY <1>1 DEF ReadRecord
<1>3. read' = [read EXCEPT ![r] = new]
  BY DEF LockReadIndexMu
<1> HIDE DEF new
<1>4. UNCHANGED <<timers, appendInFlight>>
  BY DEF LockReadIndexMu, vars
<1>5. RecordOK(new, appendInFlight')
  BY <1>1, <1>2, <1>4 DEF RecordOK
<1>6. read[r].node \in Node
  BY <1>1 DEF RecordOK
<1>7. /\ readIndexMu' \in [Node -> Reader \cup {NoReader}]
      /\ readIndexMu'[new.node] = r
      /\ \A k \in Node : readIndexMu[k] \notin {r, NoReader} => readIndexMu'[k] = readIndexMu[k]
  BY <1>1, <1>2, <1>6 DEF LockReadIndexMu
<1> QED BY <1>3, <1>4, <1>5, <1>7, OneReaderInv

\* The node and readIndexMu stay those of the reader.
LEMMA FindTargetInv ==
    ASSUME TypeOK, ReadersOK, NEW r \in Reader, FindTarget(r)
    PROVE  ReadersOK'
<1> DEFINE i == read[r].node
           new == [read[r] EXCEPT !.pc = "Targets", !.leaderTerm = currentTerm[i],
                                  !.targetIndex = commitIndex[i]]
<1>1. /\ RecordOK(read[r], appendInFlight) /\ read[r].pc = "AwaitingNoOp"
      /\ read \in [Reader -> ReadRecord] /\ readIndexMu[i] = r
      /\ readIndexMu \in [Node -> Reader \cup {NoReader}]
  BY ByReader DEF EachReaderOK, FindTarget, Holding
<1>2. i \in Node /\ i \in Bootstrap /\ read[r] \in ReadRecord
  BY <1>1 DEF RecordOK
<1>3. currentTerm[i] \in Nat /\ commitIndex[i] \in Nat
  BY <1>2 DEF TypeOK
<1>4. /\ new \in ReadRecord /\ new.pc = "Targets" /\ new.node = i
      /\ new.heartbeat = read[r].heartbeat
  BY <1>1, <1>2, <1>3 DEF ReadRecord
<1>5. UNCHANGED <<timers, appendInFlight>>
  BY DEF FindTarget, vars
<1>6. \/ Returns(r, i, read[r], "Quorum", "ErrNotLeader")
      \/ /\ read' = [read EXCEPT ![r] = new]
         /\ UNCHANGED readIndexMu
  BY <1>1 DEF FindTarget
<1> HIDE DEF new
<1>7. CASE Returns(r, i, read[r], "Quorum", "ErrNotLeader")
  BY <1>2, <1>5, <1>7, ReturnsInv
<1>8. CASE read' = [read EXCEPT ![r] = new] /\ UNCHANGED readIndexMu
  <2>1. RecordOK(new, appendInFlight')
    BY <1>1, <1>2, <1>4, <1>5 DEF RecordOK
  <2> QED BY <1>1, <1>4, <1>5, <1>8, <2>1, OneReaderInv
<1> QED BY <1>6, <1>7, <1>8

\* A round that begins can end: the other voters and the node are a quorum.
LEMMA SpawnHeartbeatsInv ==
    ASSUME TypeOK, StaticConfig, ReadersOK, NEW r \in Reader, SpawnHeartbeats(r)
    PROVE  ReadersOK'
<1> DEFINE i == read[r].node
           V == VotersOf(i)
           new == [read[r] EXCEPT
                      !.pc = "Collecting",
                      !.quorum = QuorumVotes(V),
                      !.selfInCluster = i \in V,
                      !.heartbeat = [j \in Node |->
                          IF j \in V \cap PeersOf(i) THEN "Starting" ELSE "None"]]
<1>1. /\ RecordOK(read[r], appendInFlight) /\ read[r].pc = "Targets"
      /\ read \in [Reader -> ReadRecord] /\ readIndexMu[i] = r
      /\ readIndexMu \in [Node -> Reader \cup {NoReader}]
  BY ByReader DEF EachReaderOK, SpawnHeartbeats, Holding
<1>2. i \in Node /\ i \in Bootstrap /\ read[r] \in ReadRecord
  BY <1>1 DEF RecordOK
<1>3. V = Bootstrap
  BY <1>2, FounderVoters
<1>4. IsFiniteSet(V) /\ i \in V /\ V \subseteq Node
  BY <1>2, <1>3, NodeAssumption, FS_Subset
<1>5. Cardinality(V) \in Nat /\ Cardinality(V) >= 1
      /\ Cardinality(V \ {i}) = Cardinality(V) - 1 /\ V # {}
  <2>1. IsFiniteSet(V \ {i}) /\ Cardinality(V \ {i}) = Cardinality(V) - 1
    BY <1>4, FS_RemoveElement
  <2>2. Cardinality(V) \in Nat /\ Cardinality(V \ {i}) \in Nat
    BY <1>4, <2>1, FS_CardinalityType
  <2>3. V # {}
    BY <1>4
  <2> HIDE DEF V
  <2> QED BY <2>1, <2>2, <2>3
<1>6. QuorumVotes(V) = Cardinality(V) \div 2 + 1 /\ QuorumVotes(V) \in Nat
  BY <1>5 DEF QuorumVotes
<1>7. V \cap {i} = {i} /\ Cardinality({i}) = 1
  BY <1>4, FS_Singleton
<1>8. V \cap PeersOf(i) = V \ {i}
  BY <1>2, VotersAreMembers DEF PeersOf
<1>9. /\ new.pc = "Collecting" /\ new.node = i
      /\ new.quorum = QuorumVotes(V) /\ new.selfInCluster = TRUE
      /\ new.heartbeat = [j \in Node |-> IF j \in V \ {i} THEN "Starting" ELSE "None"]
      /\ new \in ReadRecord
  <2>1. [j \in Node |-> IF j \in V \ {i} THEN "Starting" ELSE "None"]
           \in [Node -> HeartbeatState]
    BY DEF HeartbeatState
  <2> HIDE DEF V
  <2> QED BY <1>2, <1>4, <1>6, <1>8, <2>1 DEF ReadRecord
<1>10. UNCHANGED <<timers, appendInFlight>>
  BY DEF SpawnHeartbeats, vars
<1>11. IF Cardinality(V \cap {i}) >= QuorumVotes(V)
       THEN Returns(r, i, new, "Quorum", "Ok")
       ELSE read' = [read EXCEPT ![r] = new] /\ UNCHANGED readIndexMu
  BY DEF SpawnHeartbeats
<1> HIDE DEF new, V
<1>12. CASE Cardinality(V \cap {i}) >= QuorumVotes(V)
  BY <1>2, <1>9, <1>10, <1>11, <1>12, ReturnsInv
<1>13. CASE ~(Cardinality(V \cap {i}) >= QuorumVotes(V))
  <2>1. 1 < QuorumVotes(V)
    <3>1. ~(1 >= QuorumVotes(V))
      BY <1>7, <1>13
    <3> QED BY <1>6, <3>1
  <2>2. {j \in Node : new.heartbeat[j] # "None"} = V \ {i}
    BY <1>4, <1>9
  <2>3. /\ {j \in Node : new.heartbeat[j] = "Ack"} = {}
        /\ {j \in Node : new.heartbeat[j] = "Denial"} = {}
    BY <1>9
  <2>4. Votes(new, "Ack") = 0 /\ Votes(new, "Denial") = 0
    BY <2>3, FS_EmptySet DEF Votes
  <2>5. Acks(new) = 1 /\ MaxPossibleAcks(new) = Cardinality(V)
    <3>1. /\ Acks(new) = 0 + (IF TRUE THEN 1 ELSE 0)
          /\ MaxPossibleAcks(new) = Cardinality(V \ {i}) + (IF TRUE THEN 1 ELSE 0)
      BY <1>9, <2>2, <2>4 DEF Acks, MaxPossibleAcks
    <3> QED BY <1>5, <3>1
  <2>6. OpenRound(new)
    BY <1>5, <1>6, <1>9, <2>1, <2>4, <2>5 DEF OpenRound, NoQuorumLeft
  <2>7. RecordOK(new, appendInFlight')
    BY <1>2, <1>9, <2>6 DEF RecordOK
  <2> QED BY <1>1, <1>9, <1>10, <1>11, <1>13, <2>7, OneReaderInv
<1> QED BY <1>12, <1>13

\* A heartbeat that calls is under way, one that is denied waits to be counted.
LEMMA RunHeartbeatInv ==
    ASSUME TypeOK, ReadersOK, NEW r \in Reader, NEW j \in Node, RunHeartbeat(r, j)
    PROVE  ReadersOK'
<1> DEFINE i == read[r].node
<1>1. /\ RecordOK(read[r], appendInFlight) /\ read[r].heartbeat[j] = "Starting"
      /\ read \in [Reader -> ReadRecord]
      /\ readIndexMu \in [Node -> Reader \cup {NoReader}]
      /\ UNCHANGED <<timers, readIndexMu>>
  BY ByReader DEF EachReaderOK, RunHeartbeat
<1>2. read[r].pc = "Collecting"
  BY <1>1 DEF RecordOK
<1>3. i \in Node /\ read[r] \in ReadRecord /\ OpenRound(read[r]) /\ readIndexMu[i] = r
  BY <1>1, <1>2, ByReader DEF RecordOK, Holding, EachReaderOK
<1>4. PICK v \in {"Calling", "Failure"} :
         /\ read' = [read EXCEPT ![r] = [read[r] EXCEPT !.heartbeat[j] = v]]
         /\ v = "Calling" => SendAppendEntries(i, j)
         /\ v = "Failure" => UNCHANGED vars
  BY DEF RunHeartbeat, DeniedHeartbeat
<1> DEFINE new == [read[r] EXCEPT !.heartbeat[j] = v]
<1>5. /\ new \in ReadRecord
      /\ new.heartbeat = [read[r].heartbeat EXCEPT ![j] = v]
      /\ new.pc = read[r].pc /\ new.node = i
      /\ new.quorum = read[r].quorum /\ new.selfInCluster = read[r].selfInCluster
  <2>1. v \in HeartbeatState
    BY DEF HeartbeatState
  <2> QED BY <1>3, <2>1, HeartbeatSet
<1>6. read' = [read EXCEPT ![r] = new]
  BY <1>4
<1> HIDE DEF new
<1>7. /\ \A k \in Node : appendInFlight[k] \subseteq appendInFlight'[k]
      /\ v = "Calling" => j \in appendInFlight'[i]
  <2>1. CASE v = "Calling"
    <3>1. appendInFlight' = [appendInFlight EXCEPT ![i] = @ \cup {j}]
      BY <1>4, <2>1 DEF SendAppendEntries
    <3>2. appendInFlight \in [Node -> SUBSET Node]
      BY DEF TypeOK
    <3> QED BY <1>3, <3>1, <3>2
  <2>2. CASE v = "Failure"
    BY <1>4, <2>2 DEF vars
  <2> QED BY <2>1, <2>2
<1>8. read[r].heartbeat \in [Node -> HeartbeatState]
  BY <1>3 DEF ReadRecord
<1>9. /\ new.heartbeat[j] = v
      /\ \A k \in Node \ {j} : new.heartbeat[k] = read[r].heartbeat[k]
  BY <1>5, <1>8
<1>10. OpenRound(new)
  <2>1. \A k \in Node :
           /\ new.heartbeat[k] = "Ack" <=> read[r].heartbeat[k] = "Ack"
           /\ new.heartbeat[k] = "Denial" <=> read[r].heartbeat[k] = "Denial"
           /\ new.heartbeat[k] = "None" <=> read[r].heartbeat[k] = "None"
    BY <1>1, <1>4, <1>9
  <2> QED BY <1>3, <1>5, <2>1, CountsKept
<1>11. ASSUME NEW k \in Node, new.heartbeat[k] = "Calling"
       PROVE  k \in appendInFlight'[new.node]
  <2>1. CASE k = j
    BY <1>5, <1>7, <1>9, <1>11, <2>1
  <2>2. CASE k # j
    <3>1. k \in appendInFlight[i]
      BY <1>1, <1>9, <1>11, <2>2 DEF RecordOK
    <3> QED BY <1>3, <1>5, <1>7, <3>1
  <2> QED BY <2>1, <2>2
<1>12. RecordOK(new, appendInFlight')
  BY <1>2, <1>3, <1>5, <1>10, <1>11 DEF RecordOK
<1> QED BY <1>1, <1>3, <1>5, <1>6, <1>7, <1>12, OneReaderInv

\* A vote is counted: the round goes on only while it is undecided.
LEMMA CountVoteInv ==
    ASSUME ReadersOK, NEW r \in Reader, NEW j \in Node, CountVote(r, j)
    PROVE  ReadersOK'
<1> DEFINE i == read[r].node
           ack == [read[r] EXCEPT !.heartbeat[j] = "Ack"]
           denial == [read[r] EXCEPT !.heartbeat[j] = "Denial"]
<1>1. /\ RecordOK(read[r], appendInFlight) /\ read[r].pc = "Collecting"
      /\ readIndexMu[i] = r
      /\ readIndexMu \in [Node -> Reader \cup {NoReader}]
  BY ByReader DEF EachReaderOK, CountVote, Holding
<1>2. i \in Node /\ read[r] \in ReadRecord /\ OpenRound(read[r])
  BY <1>1 DEF RecordOK
<1>3. /\ ack \in ReadRecord
      /\ ack.heartbeat = [read[r].heartbeat EXCEPT ![j] = "Ack"]
      /\ ack.pc = read[r].pc /\ ack.node = i
      /\ ack.quorum = read[r].quorum /\ ack.selfInCluster = read[r].selfInCluster
  BY <1>2, HeartbeatSet DEF HeartbeatState
<1>4. /\ denial \in ReadRecord
      /\ denial.heartbeat = [read[r].heartbeat EXCEPT ![j] = "Denial"]
      /\ denial.pc = read[r].pc /\ denial.node = i
      /\ denial.quorum = read[r].quorum /\ denial.selfInCluster = read[r].selfInCluster
  BY <1>2, HeartbeatSet DEF HeartbeatState
<1>5. UNCHANGED <<timers, appendInFlight>>
  BY DEF CountVote, vars
<1>6. read[r].heartbeat \in [Node -> HeartbeatState]
  BY <1>2 DEF ReadRecord
<1>7. \/ /\ read[r].heartbeat[j] = "Success" /\ Acks(ack) < ack.quorum
         /\ read' = [read EXCEPT ![r] = ack] /\ UNCHANGED readIndexMu
      \/ /\ read[r].heartbeat[j] = "Failure" /\ ~NoQuorumLeft(denial)
         /\ read' = [read EXCEPT ![r] = denial] /\ UNCHANGED readIndexMu
      \/ \E result \in {"ErrNotLeader", "Ok"} : Returns(r, i, ack, "Quorum", result)
      \/ Returns(r, i, denial, "Quorum", "ErrReadIndexNoQuorum")
  BY DEF CountVote
<1> HIDE DEF ack, denial
<1>8. CASE /\ read[r].heartbeat[j] = "Success" /\ Acks(ack) < ack.quorum
           /\ read' = [read EXCEPT ![r] = ack] /\ UNCHANGED readIndexMu
  <2>1. \A k \in Node : /\ ack.heartbeat[k] = "Denial" <=> read[r].heartbeat[k] = "Denial"
                        /\ ack.heartbeat[k] = "None" <=> read[r].heartbeat[k] = "None"
                        /\ ack.heartbeat[k] = "Calling" <=> read[r].heartbeat[k] = "Calling"
    BY <1>3, <1>6, <1>8
  <2>2. OpenRound(ack)
    <3>1. NoQuorumLeft(ack) <=> NoQuorumLeft(read[r])
      BY <1>3, <2>1, QuorumLeftKept
    <3> QED BY <1>2, <1>8, <3>1 DEF OpenRound
  <2>3. RecordOK(ack, appendInFlight')
    BY <1>1, <1>2, <1>3, <1>5, <2>1, <2>2 DEF RecordOK
  <2> QED BY <1>1, <1>3, <1>5, <1>8, <2>3, OneReaderInv
<1>9. CASE /\ read[r].heartbeat[j] = "Failure" /\ ~NoQuorumLeft(denial)
           /\ read' = [read EXCEPT ![r] = denial] /\ UNCHANGED readIndexMu
  <2>1. \A k \in Node : /\ denial.heartbeat[k] = "Ack" <=> read[r].heartbeat[k] = "Ack"
                        /\ denial.heartbeat[k] = "Calling" <=> read[r].heartbeat[k] = "Calling"
    BY <1>4, <1>6, <1>9
  <2>2. OpenRound(denial)
    <3>1. Acks(denial) = Acks(read[r])
      BY <1>4, <2>1, AcksKept
    <3> QED BY <1>2, <1>4, <1>9, <3>1 DEF OpenRound
  <2>3. RecordOK(denial, appendInFlight')
    BY <1>1, <1>2, <1>4, <1>5, <2>1, <2>2 DEF RecordOK
  <2> QED BY <1>1, <1>4, <1>5, <1>9, <2>3, OneReaderInv
<1>10. CASE \/ \E result \in {"ErrNotLeader", "Ok"} : Returns(r, i, ack, "Quorum", result)
            \/ Returns(r, i, denial, "Quorum", "ErrReadIndexNoQuorum")
  BY <1>2, <1>3, <1>4, <1>5, <1>10, ReturnsInv
<1> QED BY <1>7, <1>8, <1>9, <1>10

\* The reader gives up.
LEMMA ContextDoneInv ==
    ASSUME ReadersOK, NEW r \in Reader, ContextDone(r)
    PROVE  ReadersOK'
<1>1. RecordOK(read[r], appendInFlight) /\ read[r].pc # "Idle"
  BY ByReader DEF EachReaderOK, ContextDone
<1>2. read[r].node \in Node /\ read[r] \in ReadRecord
  BY <1>1 DEF RecordOK
<1>3. UNCHANGED <<timers, appendInFlight>>
  BY DEF ContextDone, vars
<1>4. Returns(r, read[r].node, read[r], "Quorum", "ContextError")
  BY DEF ContextDone
<1> QED BY <1>2, <1>3, <1>4, ReturnsInv

-----------------------------------------------------------------------------
(* What was committed when a read began.                                    *)

\* Leaders of the term of the entry at c know it as committed.
LeadersKnow(w, c) ==
    \A l \in Node : state[l] = Leader /\ currentTerm[l] = log[w][c].term => c <= commitIndex[l]

\* What is known as committed stays known: a leader's commit index does not fall,
\* and nobody is elected again in a term that has entries.
LEMMA KnownKept ==
    ASSUME Grounded, Grounded', [Next]_vars, NEW c \in Nat, c > 0, KnownCommit(c)
    PROVE  KnownCommit(c)'
<1>0. ElectionInv /\ TypeOK /\ ElectionInv' /\ TypeOK' /\ LogInv /\ CommitWithinSent
  BY DEF Grounded, ElectionInv
<1>1. PICK w \in Node : \E n \in DOMAIN log[w] : c <= n /\ Fixed(w, n) /\ LeadersKnow(w, c)
  BY DEF KnownCommit, LeadersKnow
<1>2. PICK n \in DOMAIN log[w] : c <= n /\ Fixed(w, n) /\ LeadersKnow(w, c)
  BY <1>1
<1>3. /\ DOMAIN log[w] = 1..Len(log[w]) /\ Len(log[w]) \in Nat /\ c \in DOMAIN log[w]
      /\ log[w][n].term <= currentTerm[w]
  <2>1. DOMAIN log[w] = 1..Len(log[w]) /\ Len(log[w]) \in Nat
    BY <1>0, LogFacts
  <2> QED BY <1>0, <1>2, <2>1 DEF ElectionInv, TermsBehind
<1>4. n \in DOMAIN log'[w] /\ Fixed(w, n)'
  BY <1>2, FixedKept
<1>5. log'[w][c].term = log[w][c].term
  BY <1>0, <1>2, <1>3, CommittedKept
<1>6. ASSUME NEW l \in Node, state'[l] = Leader, currentTerm'[l] = log[w][c].term
      PROVE  c <= commitIndex'[l]
  <2>1. CASE state[l] = Leader /\ currentTerm'[l] = currentTerm[l]
    <3>1. c <= commitIndex[l]
      BY <1>2, <1>6, <2>1 DEF LeadersKnow
    <3>2. commitIndex[l] <= commitIndex'[l]
      BY <1>0, CommitGrows
    <3>3. commitIndex[l] \in Nat /\ commitIndex'[l] \in Nat
      BY <1>0 DEF TypeOK
    <3> QED BY <3>1, <3>2, <3>3
  <2>2. CASE Wins(l)
    <3> DEFINE a == <<c, TermAt(log[w], c - 1), log[w][c]>>
    <3>1. a \in Links /\ a[3].term = log[w][c].term
      BY <1>3, LogWithin, LinkOf
    <3>2. currentTerm'[l] = currentTerm[l]
      BY <2>2 DEF Wins
    <3> HIDE DEF a
    <3> QED BY <1>0, <1>6, <2>2, <3>1, <3>2, WinnersTermNew
  <2> QED BY <1>0, <1>6, <2>1, <2>2, LeaderOrigin
<1>7. c <= n /\ \A l \in Node : state'[l] = Leader /\ currentTerm'[l] = log'[w][c].term
                                  => c <= commitIndex'[l]
  BY <1>2, <1>5, <1>6
<1> QED BY <1>4, <1>7 DEF KnownCommit

\* A leader that counts an index is the only leader of its term.
LEMMA CountKnown ==
    ASSUME Grounded, Grounded', CommitSecured', [Next]_vars, NEW i \in Node,
           state[i] = Leader, currentTerm' = currentTerm,
           NEW c \in Nat, c > 0, c = commitIndex'[i], log'[i][c].term = currentTerm[i]
    PROVE  KnownCommit(c)'
<1>0. ElectionInv /\ TypeOK /\ ElectionInv' /\ TypeOK'
  BY DEF Grounded, ElectionInv
<1>1. Covered(i, c)'
  BY DEF CommitSecured, Covered
<1>2. PICK w \in Node : \E n \in DOMAIN log'[w] :
          c <= n /\ log'[w][c].term = log'[i][c].term /\ Fixed(w, n)'
  BY <1>1 DEF Covered
<1>3. PICK n \in DOMAIN log'[w] : c <= n /\ log'[w][c].term = log'[i][c].term /\ Fixed(w, n)'
  BY <1>2
<1>4. ASSUME NEW l \in Node, state'[l] = Leader, currentTerm'[l] = log'[w][c].term
      PROVE  c <= commitIndex'[l]
  <2> DEFINE e == <<currentTerm[i], i>>
             f == <<currentTerm'[l], l>>
  <2>1. e \in elected' /\ f \in elected'
    BY <1>0, <1>4, TermsGrow DEF ElectionInv, LeadersElected
  <2>2. e[1] = f[1]
    BY <1>3, <1>4
  <2>3. e[2] = f[2]
    BY <1>0, <2>1, <2>2 DEF ElectionInv, ElectionSafety
  <2>4. l = i
    BY <2>3
  <2> QED BY <1>0, <2>4
<1> QED BY <1>3, <1>4 DEF KnownCommit

\* A commit index moves by a leader's count or comes from a request.
LEMMA CommitsKnownKept ==
    ASSUME Grounded, Grounded', CommitSecured', CommitsKnown, [Next]_vars
    PROVE  CommitsKnown'
<1>0. ElectionInv /\ TypeOK /\ ElectionInv' /\ TypeOK' /\ CommitWithinSent
  BY DEF Grounded, ElectionInv
<1>1. \A i \in Node : \A c : c = commitIndex'[i] /\ c > 0 => KnownCommit(c)'
  <2> SUFFICES ASSUME NEW i \in Node, NEW c, c = commitIndex'[i], c > 0 PROVE KnownCommit(c)'
    OBVIOUS
  <2>1. c \in Nat /\ c > 0 /\ commitIndex[i] \in Nat
    BY <1>0 DEF TypeOK
  <2>2. CASE c = commitIndex[i]
    <3>1. KnownCommit(c)
      BY <2>1, <2>2 DEF CommitsKnown
    <3> QED BY <2>1, <3>1, KnownKept
  <2>3. CASE \E m \in rpcs : /\ Accepts(m) /\ m.dst = i
                             /\ commitIndex'[i] = FollowerCommit(i, m)
    <3>1. PICK m \in rpcs : /\ Accepts(m) /\ m.dst = i
                            /\ commitIndex'[i] = FollowerCommit(i, m)
      BY <2>3
    <3>2. m \in Requests /\ m.leaderCommit \in Nat /\ LastSent(m) \in Nat
      <4>1. m \in Requests
        BY <3>1 DEF Accepts
      <4>2. m.leaderCommit \in Nat /\ m.prevLogIndex \in Nat /\ m.entries \in Seq(EntryRecord)
        BY <1>0, <4>1, MessageKinds DEF Requests, AppendRequestType
      <4>3. Len(m.entries) \in Nat
        BY <4>2, LenProperties
      <4> QED BY <4>1, <4>2, <4>3 DEF LastSent
    <3>3. m.leaderCommit <= LastSent(m)
      BY <1>0, <3>2 DEF CommitWithinSent
    <3>4. c = commitIndex[i] \/ c = m.leaderCommit
      BY <3>1, <3>2, <3>3 DEF FollowerCommit, LastSent
    <3>5. CASE c = m.leaderCommit
      <4>1. KnownCommit(c)
        BY <2>1, <3>2, <3>5 DEF CommitsKnown
      <4> QED BY <2>1, <4>1, KnownKept
    <3> QED BY <2>2, <3>4, <3>5
  <2>4. CASE \E m \in rpcs : /\ m.kind = "AppendEntriesReply" /\ m.dst = i
                             /\ state[i] = Leader /\ state' = state
                             /\ log' = log /\ currentTerm' = currentTerm
                             /\ commitIndex'[i] = LeaderCommit(i, matchIndex'[i])
    <3>1. /\ state[i] = Leader /\ log' = log /\ currentTerm' = currentTerm
          /\ c = LeaderCommit(i, matchIndex'[i])
      BY <2>4
    <3>2. c = commitIndex[i] \/ Committable(i, matchIndex'[i], c)
      BY <1>0, <3>1, LeaderCommitCounted
    <3>3. CASE Committable(i, matchIndex'[i], c)
      <4>1. log'[i][c].term = currentTerm[i]
        BY <3>1, <3>3 DEF Committable
      <4> QED BY <2>1, <3>1, <4>1, CountKnown
    <3> QED BY <2>2, <3>2, <3>3
  <2> QED BY <1>0, <2>2, <2>3, <2>4, CommitOrigin
<1>2. \A m \in Requests' : \A c : c = m.leaderCommit /\ c > 0 => KnownCommit(c)'
  <2> SUFFICES ASSUME NEW m \in Requests', NEW c, c = m.leaderCommit, c > 0
               PROVE  KnownCommit(c)'
    OBVIOUS
  <2>1. c \in Nat /\ c > 0
    <3>1. m \in rpcs' /\ m.kind = "AppendEntries"
      BY DEF Requests
    <3>2. m \in MessageType
      BY <1>0, <3>1 DEF TypeOK
    <3> QED BY <3>1, <3>2 DEF MessageType, AppendRequestType, VoteRequestType,
                                  VoteReplyType, AppendReplyType
  <2>2. KnownCommit(c)
    <3>1. CASE \E q \in Requests : m.leaderCommit = q.leaderCommit
      BY <2>1, <3>1 DEF CommitsKnown
    <3>2. CASE m.src \in Node /\ m.leaderCommit = commitIndex[m.src]
      BY <2>1, <3>2 DEF CommitsKnown
    <3> QED BY <1>0, <3>1, <3>2, RequestOrigin
  <2> QED BY <2>1, <2>2, KnownKept
<1> QED BY <1>1, <1>2 DEF CommitsKnown, KnownCommit

\* Fewer calls, with their flags.
LEMMA CallsGone ==
    ASSUME CallsAwaited,
           \A q \in rpcs' : \A i, j \in Node : CallOf(q, i, j) =>
               q \in rpcs /\ (j \in appendInFlight[i] => j \in appendInFlight'[i])
    PROVE  CallsAwaited'
<1> HIDE DEF CallOf
<1>1. ASSUME NEW m \in rpcs', NEW i \in Node, NEW j \in Node, CallOf(m, i, j)
      PROVE  /\ j \in appendInFlight'[i]
             /\ \A q \in rpcs' : CallOf(q, i, j) => q = m
  BY <1>1 DEF CallsAwaited
<1> QED BY <1>1 DEF CallsAwaited, CallOf

\* The call that ends is the only one of its pair.
LEMMA CallEnds ==
    ASSUME CallsAwaited, appendInFlight \in [Node -> SUBSET Node],
           NEW m \in rpcs, NEW i \in Node, NEW j \in Node, CallOf(m, i, j),
           appendInFlight' = [appendInFlight EXCEPT ![i] = @ \ {j}],
           \A q \in rpcs' : q = m \/ q \notin rpcs => \A k, l \in Node : ~CallOf(q, k, l)
    PROVE  CallsAwaited'
<1>1. ASSUME NEW q \in rpcs', NEW k \in Node, NEW l \in Node, CallOf(q, k, l)
      PROVE  q \in rpcs /\ (l \in appendInFlight[k] => l \in appendInFlight'[k])
  <2>1. q \in rpcs /\ q # m
    BY <1>1
  <2>2. ~(k = i /\ l = j)
    BY <1>1, <2>1 DEF CallsAwaited
  <2> QED BY <2>1, <2>2
<1> QED BY <1>1, CallsGone

\* A call begins where none is under way, and its flag lasts until it ends.
LEMMA CallsAwaitedKept ==
    ASSUME TypeOK, CallsAwaited, [Next]_vars
    PROVE  CallsAwaited'
<1>0. appendInFlight \in [Node -> SUBSET Node]
  BY DEF TypeOK
<1>a. \A q : \A i, j \in Node : CallOf(q, i, j) =>
          q.kind \in {"AppendEntries", "AppendEntriesReply"}
  BY DEF CallOf
<1>b. ASSUME appendInFlight' = appendInFlight,
             \A q \in rpcs' : q.kind \in {"AppendEntries", "AppendEntriesReply"} => q \in rpcs
      PROVE  CallsAwaited'
  BY <1>a, <1>b, CallsGone
<1>1. CASE \E i \in Node : StartElection(i)
  <2>1. appendInFlight' = appendInFlight
    BY <1>1 DEF StartElection, leaderVars
  <2>2. \A q \in rpcs' : q \in rpcs \/ q.kind = "RequestVote"
    BY <1>1 DEF StartElection, VoteRequest
  <2> QED BY <1>b, <2>1, <2>2
<1>2. CASE \E m \in rpcs : HandleRequestVote(m)
  <2>1. appendInFlight' = appendInFlight
    BY <1>2 DEF HandleRequestVote, RefuseStaleVote, RefuseWhileLeaderAlive, DecideVote, leaderVars
  <2>2. \A q \in rpcs' : q \in rpcs \/ q.kind = "RequestVoteReply"
    BY <1>2 DEF HandleRequestVote, RefuseStaleVote, RefuseWhileLeaderAlive, DecideVote, Answer,
                VoteReply
  <2> QED BY <1>b, <2>1, <2>2
<1>3. CASE \E m \in rpcs : HandleRequestVoteReply(m)
  BY <1>b, <1>3 DEF HandleRequestVoteReply
<1>4. CASE \E m \in rpcs : RequestVoteFails(m)
  BY <1>b, <1>4 DEF RequestVoteFails, leaderVars
<1>5. CASE \E i, j \in Node : SendAppendEntries(i, j)
  <2>1. PICK i \in Node, j \in Node : SendAppendEntries(i, j)
    BY <1>5
  <2>2. /\ j \notin appendInFlight[i]
        /\ appendInFlight' = [appendInFlight EXCEPT ![i] = @ \cup {j}]
    BY <2>1 DEF SendAppendEntries
  <2>3. PICK m : rpcs' = rpcs \cup {m} /\ m.kind = "AppendEntries" /\ m.src = i /\ m.dst = j
    <3>1. PICK prev, prevTerm, entries, commit :
              rpcs' = rpcs \cup {AppendRequest(i, j, currentTerm[i], prev, prevTerm, entries,
                                               commit)}
      BY <2>1 DEF SendAppendEntries
    <3> DEFINE a == AppendRequest(i, j, currentTerm[i], prev, prevTerm, entries, commit)
    <3>2. rpcs' = rpcs \cup {a} /\ a.kind = "AppendEntries" /\ a.src = i /\ a.dst = j
      BY <3>1 DEF AppendRequest
    <3> HIDE DEF a
    <3> QED BY <3>2
  <2>4. ASSUME NEW q \in rpcs', NEW k \in Node, NEW l \in Node, CallOf(q, k, l)
        PROVE  /\ l \in appendInFlight'[k]
               /\ \A p \in rpcs' : CallOf(p, k, l) => p = q
    <3>1. CASE k = i /\ l = j
      <4>1. \A p \in rpcs : ~CallOf(p, i, j)
        BY <2>2 DEF CallsAwaited
      <4> QED BY <1>0, <2>2, <2>3, <2>4, <3>1, <4>1
    <3>2. CASE ~(k = i /\ l = j)
      <4>1. ~CallOf(m, k, l)
        BY <2>3, <3>2 DEF CallOf
      <4>2. q \in rpcs /\ \A p \in rpcs' : CallOf(p, k, l) => p \in rpcs
        BY <2>3, <2>4, <4>1
      <4>3. l \in appendInFlight[k] /\ \A p \in rpcs : CallOf(p, k, l) => p = q
        BY <2>4, <4>2 DEF CallsAwaited
      <4> QED BY <1>0, <2>2, <4>2, <4>3
    <3> QED BY <3>1, <3>2
  <2> QED BY <2>4 DEF CallsAwaited, CallOf
<1>6. CASE \E m \in rpcs : HandleAppendEntries(m)
  <2>1. PICK m \in rpcs : HandleAppendEntries(m)
    BY <1>6
  <2>2. appendInFlight' = appendInFlight /\ m.kind = "AppendEntries"
    BY <2>1 DEF HandleAppendEntries, leaderVars
  <2>3. PICK t, s, ci, ct : Answer(m, AppendReply(m, t, s, ci, ct))
    BY <2>1 DEF HandleAppendEntries, RefuseStaleLeader, AcceptLeader
  <2> DEFINE a == AppendReply(m, t, s, ci, ct)
  <2>4. /\ a.kind = "AppendEntriesReply" /\ a.src = m.dst /\ a.dst = m.src
        /\ rpcs' = (rpcs \ {m}) \cup (IF ~m.awaited THEN {} ELSE {a})
    BY <2>2, <2>3 DEF AppendReply, Answer
  <2> HIDE DEF a
  <2>5. CASE ~m.awaited
    BY <1>b, <2>2, <2>4, <2>5
  <2>6. CASE m.awaited
    <3>1. \A k, l \in Node : CallOf(a, k, l) <=> CallOf(m, k, l)
      BY <2>2, <2>4, <2>6 DEF CallOf
    <3>2. rpcs' = (rpcs \ {m}) \cup {a}
      BY <2>4, <2>6
    <3>3. ASSUME NEW q \in rpcs', NEW k \in Node, NEW l \in Node, CallOf(q, k, l)
          PROVE  /\ l \in appendInFlight'[k]
                 /\ \A p \in rpcs' : CallOf(p, k, l) => p = q
      <4>1. CASE CallOf(m, k, l)
        <5>1. l \in appendInFlight[k] /\ \A p \in rpcs : CallOf(p, k, l) => p = m
          BY <4>1 DEF CallsAwaited
        <5> QED BY <2>2, <3>2, <3>3, <5>1
      <4>2. CASE ~CallOf(m, k, l)
        <5>1. q \in rpcs /\ \A p \in rpcs' : CallOf(p, k, l) => p \in rpcs
          BY <3>1, <3>2, <3>3, <4>2
        <5> QED BY <2>2, <3>3, <5>1 DEF CallsAwaited
      <4> QED BY <4>1, <4>2
    <3> QED BY <3>3 DEF CallsAwaited, CallOf
  <2> QED BY <2>5, <2>6
<1>7. CASE \E m \in rpcs : HandleAppendEntriesReply(m)
  <2>1. PICK m \in rpcs : HandleAppendEntriesReply(m)
    BY <1>7
  <2>2. m.src \in Node /\ m.dst \in Node
    BY MessageKinds
  <2>3. /\ m.kind = "AppendEntriesReply" /\ rpcs' = rpcs \ {m}
        /\ appendInFlight' = [appendInFlight EXCEPT ![m.dst] = @ \ {m.src}]
    BY <2>1 DEF HandleAppendEntriesReply
  <2>4. CallOf(m, m.dst, m.src)
    BY <2>3 DEF CallOf
  <2> QED BY <1>0, <2>2, <2>3, <2>4, CallEnds
<1>8. CASE \E m \in rpcs : AppendEntriesFails(m)
  <2>1. PICK m \in rpcs : AppendEntriesFails(m)
    BY <1>8
  <2>2. m.src \in Node /\ m.dst \in Node /\ rpcs' = rpcs \ {m}
    BY <2>1, MessageKinds DEF AppendEntriesFails
  <2>3. \/ /\ CallOf(m, m.src, m.dst)
           /\ appendInFlight' = [appendInFlight EXCEPT ![m.src] = @ \ {m.dst}]
        \/ /\ CallOf(m, m.dst, m.src)
           /\ appendInFlight' = [appendInFlight EXCEPT ![m.dst] = @ \ {m.src}]
    BY <2>1 DEF AppendEntriesFails, CallOf
  <2> QED BY <1>0, <2>2, <2>3, CallEnds
<1>9. CASE \E m \in rpcs : AppendEntriesTimeout(m)
  <2>1. PICK m \in rpcs : AppendEntriesTimeout(m)
    BY <1>9
  <2>2. m \in AppendRequestType /\ m.src \in Node /\ m.dst \in Node
    BY <2>1, MessageKinds DEF AppendEntriesTimeout
  <2> DEFINE late == [m EXCEPT !.awaited = FALSE]
  <2>3. late.kind = "AppendEntries" /\ ~late.awaited
    BY <2>2 DEF AppendRequestType
  <2>4. /\ CallOf(m, m.src, m.dst)
        /\ rpcs' = (rpcs \ {m}) \cup {late}
        /\ appendInFlight' = [appendInFlight EXCEPT ![m.src] = @ \ {m.dst}]
    BY <2>1 DEF AppendEntriesTimeout, CallOf
  <2> HIDE DEF late
  <2>5. \A k, l \in Node : ~CallOf(late, k, l)
    BY <2>3 DEF CallOf
  <2>6. late # m
    BY <2>2, <2>4, <2>5
  <2>7. \A q \in rpcs' : q = m \/ q \notin rpcs => q = late
    BY <2>4, <2>6
  <2>8. ASSUME NEW q \in rpcs', q = m \/ q \notin rpcs
        PROVE  \A k, l \in Node : ~CallOf(q, k, l)
    BY <2>5, <2>7, <2>8
  <2> QED BY <1>0, <2>2, <2>4, <2>8, CallEnds
<1>10. CASE \E i \in Node, v \in Value : Submit(i, v)
  BY <1>b, <1>10 DEF Submit, leaderVars
<1>11. CASE \E i \in Node : StepDown(i)
  BY <1>b, <1>11 DEF StepDown, leaderVars
<1>12. CASE UNCHANGED vars
  BY <1>b, <1>12 DEF vars
<1> QED BY <1>1, <1>2, <1>3, <1>4, <1>5, <1>6, <1>7, <1>8, <1>9, <1>10, <1>11, <1>12 DEF Next

\* Terms only grow, and a node of a greater term accepts requests of greater terms
\* only: its acknowledgements are of a term the reader's leader is not of.
LEMMA AheadKept ==
    ASSUME ElectionInv, [Next]_vars, NEW rec \in ReadRecord, rec.node \in Node,
           NEW B \in SUBSET Node, Ahead(rec, B)
    PROVE  Ahead(rec, B)'
<1>0. TypeOK /\ ElectionInv' /\ TypeOK' /\ rec.leaderTerm \in Nat
  BY NextElectionInv DEF ElectionInv, ReadRecord
<1>1. \A v \in Node : /\ currentTerm[v] \in Nat /\ currentTerm'[v] \in Nat
                      /\ currentTerm[v] <= currentTerm'[v]
  BY <1>0, TermsGrow DEF TypeOK
<1>2. rec.leaderTerm <= currentTerm'[rec.node]
  BY <1>0, <1>1 DEF Ahead
<1>3. \A v \in B : currentTerm'[v] > rec.leaderTerm
  BY <1>0, <1>1 DEF Ahead
<1>4. ASSUME currentTerm'[rec.node] = rec.leaderTerm, NEW v \in B
      PROVE  /\ rec.heartbeat[v] \notin {"Success", "Ack"}
             /\ rec.heartbeat[v] = "Calling" =>
                    \A m \in rpcs' : /\ m.kind = "AppendEntriesReply" /\ m.success
                                     /\ m.src = v /\ m.dst = rec.node
                                     => m.term > rec.leaderTerm
  <2>1. currentTerm[rec.node] = rec.leaderTerm
    BY <1>0, <1>1, <1>4 DEF Ahead
  <2>2. ASSUME rec.heartbeat[v] = "Calling", NEW m \in rpcs', m.kind = "AppendEntriesReply",
               m.success, m.src = v, m.dst = rec.node
        PROVE  m.term > rec.leaderTerm
    <3>1. CASE m \in rpcs
      BY <2>1, <2>2, <3>1 DEF Ahead
    <3>2. CASE m \notin rpcs
      <4>1. PICK q \in rpcs : /\ HandleAppendEntries(q)
                              /\ \E t, s, ci, ct : /\ m = AppendReply(q, t, s, ci, ct)
                                                   /\ Answer(q, m)
        BY <2>2, <3>2, ReplyOrigin
      <4>2. PICK t, s, ci, ct : m = AppendReply(q, t, s, ci, ct) /\ Answer(q, m)
        BY <4>1
      <4>3. m.src = q.dst /\ m.success = s /\ q.kind = "AppendEntries"
        BY <4>1, <4>2 DEF AppendReply, HandleAppendEntries
      <4>4. m \in rpcs' /\ rpcs' \subseteq rpcs \cup {m}
        BY <2>2, <4>2 DEF Answer
      <4>5. CASE Accepts(q)
        <5>1. q.term >= currentTerm[v] /\ Answer(q, AppendReply(q, q.term, TRUE, 0, 0))
          BY <2>2, <4>3, <4>5 DEF Accepts
        <5>2. m = AppendReply(q, q.term, TRUE, 0, 0)
          BY <2>2, <3>2, <5>1 DEF Answer
        <5>3. m.term = q.term
          BY <5>2 DEF AppendReply
        <5>4. q.term \in Nat
          BY <1>0, <4>3, MessageKinds DEF AppendRequestType
        <5> QED BY <1>0, <1>1, <5>1, <5>3, <5>4 DEF Ahead
      <4>6. CASE \E u, di, dt : Answer(q, AppendReply(q, u, FALSE, di, dt))
        <5>1. PICK u, di, dt : Answer(q, AppendReply(q, u, FALSE, di, dt))
          BY <4>6
        <5>2. m = AppendReply(q, u, FALSE, di, dt)
          BY <2>2, <3>2, <5>1 DEF Answer
        <5>3. m.success = FALSE
          BY <5>2 DEF AppendReply
        <5> QED BY <2>2, <5>3
      <4> QED BY <1>0, <4>1, <4>5, <4>6, HandleOutcome
    <3> QED BY <3>1, <3>2
  <2>3. rec.heartbeat[v] \notin {"Success", "Ack"}
    BY <2>1 DEF Ahead
  <2> QED BY <2>2, <2>3
<1> QED BY <1>2, <1>3, <1>4 DEF Ahead

\* A reader that stands still while Raft moves.
LEMMA FloorKept ==
    ASSUME Grounded, Grounded', [Next]_vars, NEW rec \in ReadRecord,
           rec.pc # "Idle" => rec.node \in Node, FloorMet(rec)
    PROVE  FloorMet(rec)'
<1>0. ElectionInv /\ rec.floor \in Nat
  BY DEF Grounded, ReadRecord
<1>1. ASSUME rec.pc \in {"Queued", "AwaitingNoOp"}, rec.floor > 0 PROVE KnownCommit(rec.floor)'
  BY <1>0, <1>1, KnownKept DEF FloorMet
<1>2. ASSUME rec.pc \in {"Targets", "Collecting"} PROVE TargetSuffices(rec)'
  <2>1. rec.node \in Node /\ TargetSuffices(rec)
    BY <1>2 DEF FloorMet
  <2>2. CASE rec.floor <= rec.targetIndex
    BY <2>2 DEF TargetSuffices
  <2>3. CASE \E B \in SUBSET Bootstrap : Blocking(B) /\ Ahead(rec, B)
    <3>1. PICK B \in SUBSET Bootstrap : Blocking(B) /\ Ahead(rec, B)
      BY <2>3
    <3>2. Ahead(rec, B)'
      BY <1>0, <2>1, <3>1, BootstrapFacts, AheadKept
    <3> QED BY <3>1, <3>2 DEF TargetSuffices, Blocking
  <2> QED BY <2>1, <2>2, <2>3 DEF TargetSuffices
<1> QED BY <1>1, <1>2 DEF FloorMet

-----------------------------------------------------------------------------
(* Rounds and answers.                                                      *)

\* A finite set has a subset of every size up to its own.
LEMMA SubsetOfSize ==
    ASSUME NEW S, IsFiniteSet(S), NEW q \in Nat, q <= Cardinality(S)
    PROVE  \E Q \in SUBSET S : Cardinality(Q) = q
<1> DEFINE n == Cardinality(S)
<1>1. n \in Nat /\ ExistsBijection(1..n, S)
  BY FS_CardinalityType
<1>2. PICK g \in [1..n -> S] : \A k, l \in 1..n : g[k] = g[l] => k = l
  BY <1>1 DEF ExistsBijection, Bijection, Injection, IsInjective
<1> DEFINE Q == {g[k] : k \in 1..q}
           h == [k \in 1..q |-> g[k]]
<1>3. 1..q \subseteq 1..n
  BY <1>1
<1> HIDE DEF n
<1>4. Q \in SUBSET S
  BY <1>2, <1>3
<1>5. h \in Bijection(1..q, Q)
  BY <1>2, <1>3 DEF Bijection, Injection, IsInjective, Surjection
<1>6. Cardinality(Q) = q
  BY <1>5, FS_CountingElements DEF ExistsBijection
<1> QED BY <1>4, <1>6

\* A round that has enough acknowledgements has one from every blocking set that
\* the reader's node is not in.
LEMMA AckQuorumMeets ==
    ASSUME NEW rec, rec.node \in Bootstrap, rec.quorum = QuorumVotes(Bootstrap),
           \A j \in Node : rec.heartbeat[j] # "None" => j \in Bootstrap \ {rec.node},
           Acks(rec) >= rec.quorum,
           NEW B \in SUBSET Bootstrap, Blocking(B), rec.node \notin B
    PROVE  \E v \in B : rec.heartbeat[v] = "Ack"
<1> DEFINE acks == {j \in Node : rec.heartbeat[j] = "Ack"}
           S == acks \cup {rec.node}
<1>1. acks \subseteq Bootstrap \ {rec.node}
  OBVIOUS
<1>2. IsFiniteSet(acks) /\ rec.node \notin acks /\ S \subseteq Bootstrap
  BY <1>1, BootstrapFacts, FS_Subset
<1>3. Votes(rec, "Ack") = Cardinality(acks)
  BY DEF Votes
<1> HIDE DEF acks
<1>4. IsFiniteSet(S) /\ Cardinality(S) = Cardinality(acks) + 1
  BY <1>2, FS_AddElement
<1>5. Cardinality(acks) \in Nat /\ Cardinality(Bootstrap) \in Nat
  BY <1>2, BootstrapFacts, FS_CardinalityType
<1> DEFINE q == QuorumVotes(Bootstrap)
<1>6. q \in Nat
  BY <1>5 DEF QuorumVotes
<1> HIDE DEF S
<1>7. q <= Cardinality(S)
  <2>1. Acks(rec) >= q
    OBVIOUS
  <2> HIDE DEF q
  <2> QED BY <1>3, <1>4, <1>5, <1>6, <2>1 DEF Acks
<1>8. PICK Q \in SUBSET S : Cardinality(Q) = q
  BY <1>4, <1>6, <1>7, SubsetOfSize
<1>9. PICK v \in Q : v \in B
  BY <1>2, <1>8 DEF Blocking
<1> QED BY <1>9 DEF S, acks

\* The heartbeat to v has moved, if at all, neither to an acknowledgement nor to a
\* call that is answered already.
NoAnswer(rec, new, v) ==
    \/ new.heartbeat[v] = rec.heartbeat[v]
    \/ new.heartbeat[v] \notin {"Success", "Ack", "Calling"}
    \/ new.heartbeat[v] = "Calling" /\ \A m \in rpcs : ~CallOf(m, rec.node, v)

NoAnswers(rec, new, B) ==
    currentTerm[rec.node] = rec.leaderTerm => \A v \in B : NoAnswer(rec, new, v)

\* A round that has moved without an answer of a node of B.
LEMMA AheadMoves ==
    ASSUME NEW rec, NEW new, NEW B, Ahead(rec, B), NoAnswers(rec, new, B),
           new.node = rec.node, new.leaderTerm = rec.leaderTerm
    PROVE  Ahead(new, B)
<1>1. ASSUME currentTerm[new.node] = new.leaderTerm, NEW v \in B
      PROVE  /\ new.heartbeat[v] \notin {"Success", "Ack"}
             /\ new.heartbeat[v] = "Calling" =>
                    \A m \in rpcs : /\ m.kind = "AppendEntriesReply" /\ m.success
                                    /\ m.src = v /\ m.dst = new.node
                                    => m.term > new.leaderTerm
  <2>1. NoAnswer(rec, new, v)
    BY <1>1 DEF NoAnswers
  <2>2. currentTerm[rec.node] = rec.leaderTerm
    BY <1>1
  <2> QED BY <2>1, <2>2 DEF NoAnswer, Ahead, CallOf
<1> QED BY <1>1 DEF Ahead

\* A reader that collects votes has the target and the floor it had in rec.
Collects(rec, new) ==
    /\ new.pc = "Collecting" /\ new.node = rec.node /\ new.floor = rec.floor
    /\ new.leaderTerm = rec.leaderTerm /\ new.targetIndex = rec.targetIndex
    /\ new.result = rec.result

\* So the reader is still on its way to an answer that is fresh.
LEMMA FloorMoves ==
    ASSUME NEW rec, NEW new, FloorMet(rec), rec.pc \in {"Targets", "Collecting"},
           Collects(rec, new),
           \A B \in SUBSET Bootstrap : Ahead(rec, B) => Ahead(new, B)
    PROVE  FloorMet(new)
<1>1. TargetSuffices(rec)
  BY DEF FloorMet
<1>2. TargetSuffices(new)
  BY <1>1 DEF TargetSuffices, Collects
<1> QED BY <1>2 DEF FloorMet, Collects

\* Where the readers are after the step is fresh, as things stand before it.
MovesFresh == \A r \in Reader : \A rec : rec = read'[r] => FloorMet(rec) /\ Round(rec)

\* Raft's part of the step takes nothing from that.
LEMMA MovesKept ==
    ASSUME Grounded, Grounded', ReadTypeOK', ReadersPlaced', [Next]_vars, MovesFresh
    PROVE  FloorsMet' /\ RoundsOfFounders'
<1>1. ASSUME NEW r \in Reader PROVE FloorMet(read[r])'
  <2> SUFFICES ASSUME NEW rec, rec = read'[r] PROVE FloorMet(rec)'
    BY DEF FloorMet, TargetSuffices, Ahead, KnownCommit
  <2>1. rec \in ReadRecord /\ (rec.pc # "Idle" => rec.node \in Node)
    BY DEF ReadTypeOK, ReadersPlaced
  <2>2. FloorMet(rec)
    BY DEF MovesFresh
  <2> QED BY <2>1, <2>2, FloorKept
<1>2. ASSUME NEW r \in Reader PROVE Round(read[r])'
  BY DEF MovesFresh, Round
<1> QED BY <1>1, <1>2 DEF FloorsMet, RoundsOfFounders

\* The readers stand still.
LEMMA StillFresh ==
    ASSUME FloorsMet, RoundsOfFounders, read' = read
    PROVE  MovesFresh
BY DEF FloorsMet, RoundsOfFounders, MovesFresh

\* One reader moves on.
LEMMA OneMovesFresh ==
    ASSUME FloorsMet, RoundsOfFounders, read \in [Reader -> ReadRecord],
           NEW r \in Reader, NEW new, read' = [read EXCEPT ![r] = new],
           FloorMet(new), Round(new)
    PROVE  MovesFresh
<1> SUFFICES ASSUME NEW q \in Reader, NEW rec, rec = read'[q]
             PROVE  FloorMet(rec) /\ Round(rec)
  BY DEF MovesFresh
<1>1. CASE q = r
  <2>1. rec = new
    BY <1>1
  <2> QED BY <2>1
<1>2. CASE q # r
  <2>1. rec = read[q]
    BY <1>2
  <2> QED BY <2>1 DEF FloorsMet, RoundsOfFounders
<1> QED BY <1>1, <1>2

\* One reader returns.
LEMMA ReturnsFresh ==
    ASSUME FloorsMet, RoundsOfFounders, read \in [Reader -> ReadRecord],
           NEW r \in Reader, NEW i, NEW rec \in ReadRecord, NEW via, NEW result,
           Returns(r, i, rec, via, result),
           result = "Ok" /\ via = "Quorum" => rec.floor <= rec.targetIndex
    PROVE  MovesFresh
<1> DEFINE new == [rec EXCEPT !.pc = "Returned", !.via = via, !.result = result,
                              !.heartbeat = [j \in Node |-> "None"]]
<1>1. /\ new.pc = "Returned" /\ new.via = via /\ new.result = result
      /\ new.floor = rec.floor /\ new.targetIndex = rec.targetIndex
  BY DEF ReadRecord
<1>2. read' = [read EXCEPT ![r] = new]
  BY DEF Returns
<1> HIDE DEF new
<1>3. FloorMet(new) /\ Round(new)
  BY <1>1 DEF FloorMet, Round
<1> QED BY <1>2, <1>3, OneMovesFresh

-----------------------------------------------------------------------------
(* Each action keeps the readers fresh.                                     *)

\* A call to a reader's peer comes back: who is past the leader's term has not
\* acknowledged in it.
LEMMA HeartbeatReturnsFresh ==
    ASSUME FloorsMet, RoundsOfFounders, ReadersOK, currentTerm \in [Node -> Nat],
           NEW i \in Node, NEW j \in Node, NEW success, HeartbeatReturns(i, j, success),
           success => \E m \in rpcs : /\ m.kind = "AppendEntriesReply" /\ m.success
                                      /\ m.src = j /\ m.dst = i
                                      /\ m.term \in Nat /\ m.term <= currentTerm[i]
    PROVE  MovesFresh
<1> SUFFICES ASSUME NEW r \in Reader, NEW new, new = read'[r]
             PROVE  FloorMet(new) /\ Round(new)
  BY DEF MovesFresh
<1> DEFINE v == IF success THEN "Success" ELSE "Failure"
<1>1. v \in HeartbeatState /\ v \in {"Success", "Failure"} /\ (v = "Success" => success)
  BY DEF HeartbeatState
<1> DEFINE rec == read[r]
<1>2. RecordOK(rec, appendInFlight) /\ rec \in ReadRecord /\ FloorMet(rec) /\ Round(rec)
  BY ByReader DEF EachReaderOK, FloorsMet, RoundsOfFounders
<1>3. new = IF r \in Awaiting(i, j) THEN [rec EXCEPT !.heartbeat[j] = v] ELSE rec
  BY DEF HeartbeatReturns
<1>4. r \in Awaiting(i, j) => rec.node = i /\ rec.heartbeat[j] = "Calling"
  BY DEF Awaiting
<1> HIDE DEF v, rec
<1>5. CASE r \notin Awaiting(i, j)
  BY <1>2, <1>3, <1>5
<1>6. CASE r \in Awaiting(i, j)
  <2>1. new = [rec EXCEPT !.heartbeat[j] = v]
    BY <1>3, <1>6
  <2>2. /\ new.heartbeat = [rec.heartbeat EXCEPT ![j] = v]
        /\ new.pc = rec.pc /\ new.node = rec.node /\ new.quorum = rec.quorum
        /\ new.floor = rec.floor /\ new.leaderTerm = rec.leaderTerm
        /\ new.targetIndex = rec.targetIndex /\ new.result = rec.result
        /\ rec.heartbeat \in [Node -> HeartbeatState] /\ rec.leaderTerm \in Nat
    BY <1>1, <1>2, <2>1 DEF ReadRecord
  <2>3. rec.pc = "Collecting"
    BY <1>2, <1>4, <1>6 DEF RecordOK
  <2>4. /\ new.heartbeat[j] = v
        /\ \A k \in Node \ {j} : new.heartbeat[k] = rec.heartbeat[k]
    BY <2>2
  <2>5. Round(new)
    <3>1. \A k \in Node : new.heartbeat[k] # "None" => rec.heartbeat[k] # "None"
      BY <1>4, <1>6, <2>4
    <3> QED BY <1>2, <2>2, <2>3, <3>1 DEF Round
  <2>6. ASSUME NEW B \in SUBSET Bootstrap, Ahead(rec, B) PROVE Ahead(new, B)
    <3>1. ASSUME currentTerm[i] = rec.leaderTerm, NEW k \in B
          PROVE  NoAnswer(rec, new, k)
      <4>0. k \in Node
        BY BootstrapFacts
      <4>1. CASE k # j
        BY <2>4, <4>0, <4>1 DEF NoAnswer
      <4>2. CASE k = j
        <5>1. ~success
          <6>1. SUFFICES ASSUME success PROVE FALSE
            OBVIOUS
          <6>2. PICK m \in rpcs : /\ m.kind = "AppendEntriesReply" /\ m.success
                                  /\ m.src = j /\ m.dst = i
                                  /\ m.term \in Nat /\ m.term <= currentTerm[i]
            BY <6>1
          <6>3. m.term > rec.leaderTerm
            BY <1>4, <1>6, <2>6, <3>1, <4>2, <6>2 DEF Ahead
          <6> QED BY <2>2, <3>1, <6>2, <6>3
        <5> QED BY <1>1, <2>4, <4>2, <5>1 DEF NoAnswer
      <4> QED BY <4>1, <4>2
    <3>2. NoAnswers(rec, new, B)
      BY <1>4, <1>6, <3>1 DEF NoAnswers
    <3> QED BY <2>2, <2>6, <3>2, AheadMoves
  <2>7. Collects(rec, new)
    BY <2>2, <2>3 DEF Collects
  <2>8. FloorMet(new)
    BY <1>2, <2>3, <2>6, <2>7, FloorMoves
  <2> QED BY <2>5, <2>8
<1> QED BY <1>5, <1>6

\* A step of Raft moves the readers by the outcome of an AppendEntries call only.
LEMMA RaftStepFresh ==
    ASSUME TypeOK, ReadersOK, FloorsMet, RoundsOfFounders, RaftStep
    PROVE  MovesFresh
<1>1. CASE read' = read
  BY <1>1, StillFresh
<1>2. CASE \E m \in rpcs : TimedAppendEntriesReply(m)
  <2>1. PICK m \in rpcs : TimedAppendEntriesReply(m)
    BY <1>2
  <2>2. m.src \in Node /\ m.dst \in Node /\ m.kind = "AppendEntriesReply"
    BY <2>1, MessageKinds DEF TimedAppendEntriesReply, HandleAppendEntriesReply
  <2>3. m.term \in Nat /\ currentTerm \in [Node -> Nat]
    BY <2>2, MessageKinds DEF AppendReplyType, TypeOK
  <2> DEFINE success == Acknowledges(m)
  <2>4. HeartbeatReturns(m.dst, m.src, success)
    BY <2>1 DEF TimedAppendEntriesReply
  <2>5. success => m.success /\ m.term <= currentTerm[m.dst]
    BY DEF Acknowledges
  <2> HIDE DEF success
  <2> QED BY <2>2, <2>3, <2>4, <2>5, HeartbeatReturnsFresh
<1>3. CASE \E m \in rpcs : TimedCallFails(m)
  <2>1. PICK m \in rpcs : TimedCallFails(m)
    BY <1>3
  <2>2. m.src \in Node /\ m.dst \in Node /\ currentTerm \in [Node -> Nat]
    BY MessageKinds DEF TypeOK
  <2>3. \E i, j \in Node : HeartbeatReturns(i, j, FALSE)
    BY <2>1, <2>2 DEF TimedCallFails
  <2> QED BY <2>2, <2>3, HeartbeatReturnsFresh
<1> QED BY <1>1, <1>2, <1>3
        DEF RaftStep, Tick, TimerStartsElection, TimedRequestVote, TimedRequestVoteReply,
            TimedSend, TimedAppendEntries, TimedStepDown, readVars

\* A read begins: its floor is what some node knows as committed.
LEMMA BeginReadFresh ==
    ASSUME TypeOK, ReadersOK, FloorsMet, RoundsOfFounders, CommitsKnown,
           NEW r \in Reader, NEW i \in Node, BeginRead(r, i)
    PROVE  MovesFresh
<1> DEFINE rec == [IdleRead EXCEPT !.node = i, !.floor = Committed,
                                   !.targetIndex = commitIndex[i]]
           queued == [rec EXCEPT !.pc = "Queued"]
<1>0. read \in [Reader -> ReadRecord]
  BY ByReader DEF EachReaderOK
<1>1. Committed \in {commitIndex[k] : k \in Node} /\ commitIndex[i] \in Nat
  <2>1. commitIndex \in [Node -> Nat]
    BY DEF TypeOK
  <2> QED BY <2>1, CommittedKnown
<1>2. rec \in ReadRecord
  BY <1>1 DEF IdleRead, ReadRecord, HeartbeatState, TypeOK
<1>3. /\ queued.pc = "Queued" /\ queued.floor = Committed /\ queued.result = "None"
      /\ queued.via = "None"
  BY DEF IdleRead
<1>4. \/ \E result : Returns(r, i, rec, "Lease", result)
      \/ read' = [read EXCEPT ![r] = queued]
  BY DEF BeginRead
<1> HIDE DEF rec, queued
<1>5. CASE \E result : Returns(r, i, rec, "Lease", result)
  BY <1>0, <1>2, <1>5, ReturnsFresh
<1>6. CASE read' = [read EXCEPT ![r] = queued]
  <2>1. Committed > 0 => KnownCommit(Committed)
    BY <1>1 DEF CommitsKnown
  <2>2. FloorMet(queued) /\ Round(queued)
    BY <1>3, <2>1 DEF FloorMet, Round
  <2> QED BY <1>0, <1>6, <2>2, OneMovesFresh
<1> QED BY <1>4, <1>5, <1>6

\* The reader gets readIndexMu.
LEMMA LockReadIndexMuFresh ==
    ASSUME ReadersOK, FloorsMet, RoundsOfFounders, NEW r \in Reader, LockReadIndexMu(r)
    PROVE  MovesFresh
<1> DEFINE new == [read[r] EXCEPT !.pc = "AwaitingNoOp"]
<1>1. read \in [Reader -> ReadRecord] /\ FloorMet(read[r]) /\ read[r].pc = "Queued"
  BY ByReader DEF EachReaderOK, FloorsMet, LockReadIndexMu
<1>2. /\ read' = [read EXCEPT ![r] = new]
      /\ new.pc = "AwaitingNoOp" /\ new.floor = read[r].floor /\ new.result = read[r].result
  BY <1>1 DEF LockReadIndexMu, ReadRecord
<1> HIDE DEF new
<1>3. FloorMet(new) /\ Round(new)
  BY <1>1, <1>2 DEF FloorMet, Round
<1> QED BY <1>1, <1>2, <1>3, OneMovesFresh

\* What is known as committed is not beyond the commit index of a leader that has
\* committed in its own term, or all nodes of a blocking set are past its term.
LEMMA TargetFound ==
    ASSUME Grounded, CommitSecured, NEW i \in Node, state[i] = Leader, CommittedOwnTerm(i),
           NEW c \in Nat, c > 0, KnownCommit(c)
    PROVE  \/ c <= commitIndex[i]
           \/ \E B \in SUBSET Bootstrap :
                 Blocking(B) /\ \A v \in B : currentTerm[v] > currentTerm[i]
<1> DEFINE T == currentTerm[i]
           k == commitIndex[i]
<1>0. /\ ElectionInv /\ TypeOK /\ VotesAsked /\ LinksAscend
      /\ log[i] \in Seq(EntryRecord) /\ DOMAIN log[i] = 1..Len(log[i]) /\ Len(log[i]) \in Nat
      /\ \A n \in Node : currentTerm[n] \in Nat
      /\ \A n \in DOMAIN log[i] : log[i][n].term \in Nat
      /\ k \in Nat
  BY LogFacts DEF Grounded, ElectionInv, TypeOK
<1>1. T > 0
  <2> DEFINE e == <<T, i>>
  <2>1. e \in elected /\ e[1] = T
    BY <1>0 DEF ElectionInv, LeadersElected
  <2> QED BY <1>0, <2>1, ElectedFounder
<1>2. k \in DOMAIN log[i] /\ log[i][k].term = T
  <2>1. TermAt(log[i], k) = T
    BY DEF CommittedOwnTerm
  <2>2. k # 0
    BY <1>1, <2>1 DEF TermAt
  <2>3. k <= Len(log[i])
    BY <1>0, <2>2 DEF CommitSecured
  <2> HIDE DEF k, T
  <2> QED BY <1>0, <2>1, <2>2, <2>3 DEF TermAt
<1> HIDE DEF T, k
<1>3. PICK w \in Node : \E n \in DOMAIN log[w] : c <= n /\ Fixed(w, n) /\ LeadersKnow(w, c)
  BY DEF KnownCommit, LeadersKnow
<1>4. PICK n \in DOMAIN log[w] : c <= n /\ Fixed(w, n) /\ LeadersKnow(w, c)
  BY <1>3
<1>5. /\ DOMAIN log[w] = 1..Len(log[w]) /\ Len(log[w]) \in Nat
      /\ log[w][n].term \in Nat
  BY <1>0, LogFacts
<1>6. CASE log[w][n].term > T
  <2>1. PICK B \in SUBSET Bootstrap : Blocking(B) /\ Secured(B, n, TermAt(log[w], n))
    BY <1>4 DEF Fixed
  <2>2. ASSUME NEW v \in B PROVE currentTerm[v] > T
    <3>1. v \in Node
      BY BootstrapFacts
    <3>2. TermAt(log[w], n) = log[w][n].term
      BY <1>5 DEF TermAt
    <3>3. n \in DOMAIN log[v] /\ log[v][n].term = log[w][n].term
      BY <2>1, <3>2 DEF Secured, Has
    <3>4. log[v][n].term <= currentTerm[v]
      BY <1>0, <3>1, <3>3 DEF ElectionInv, TermsBehind
    <3> QED BY <1>0, <1>5, <1>6, <3>1, <3>3, <3>4 DEF T
  <2> QED BY <2>1, <2>2 DEF T
<1>7. CASE ~(log[w][n].term > T)
  <2>1. Agree(log[i], log[w], n)
    <3>1. log[w][n].term <= currentTerm[i]
      BY <1>0, <1>5, <1>7 DEF T
    <3> QED BY <1>4, <3>1, LeaderHoldsFixed
  <2>2. c \in 1..n /\ c \in DOMAIN log[i] /\ log[i][c].term = log[w][c].term
    BY <1>0, <1>4, <1>5, <2>1 DEF Agree
  <2>3. CASE c <= k
    BY <2>3 DEF k
  <2>4. CASE k < c
    <3>1. log[i][k].term <= log[i][c].term
      <4>1. Within(log[i], Links) /\ Ascending(Links) /\ k <= c
        BY <1>0, <2>2, <2>4, LogWithin DEF LinksAscend
      <4> QED BY <1>0, <1>2, <2>2, <4>1, LogAscends
    <3>2. log[i][c].term <= T
      BY <1>0, <2>2 DEF ElectionInv, TermsBehind, T
    <3>3. log[w][c].term = T
      BY <1>0, <1>2, <2>2, <3>1, <3>2 DEF T
    <3>4. c <= k
      BY <1>4, <3>3 DEF LeadersKnow, T, k
    <3> QED BY <1>0, <2>4, <3>4
  <2> QED BY <1>0, <2>3, <2>4
<1> QED BY <1>6, <1>7

\* The leader has its target, and no heartbeat is under way yet.
LEMMA FindTargetFresh ==
    ASSUME Grounded, CommitSecured, ReadersOK, FloorsMet, RoundsOfFounders,
           NEW r \in Reader, FindTarget(r)
    PROVE  MovesFresh
<1> DEFINE i == read[r].node
           new == [read[r] EXCEPT !.pc = "Targets", !.leaderTerm = currentTerm[i],
                                  !.targetIndex = commitIndex[i]]
<1>1. /\ read \in [Reader -> ReadRecord] /\ FloorMet(read[r])
      /\ read[r].pc = "AwaitingNoOp" /\ RecordOK(read[r], appendInFlight)
  BY ByReader DEF EachReaderOK, FloorsMet, FindTarget
<1>2. /\ i \in Bootstrap /\ i \in Node /\ \A j \in Node : read[r].heartbeat[j] = "None"
      /\ read[r] \in ReadRecord
  BY <1>1, BootstrapFacts DEF RecordOK
<1>3. CASE state[i] # Leader
  <2>1. Returns(r, i, read[r], "Quorum", "ErrNotLeader")
    BY <1>3 DEF FindTarget
  <2> QED BY <1>1, <1>2, <2>1, ReturnsFresh
<1>4. CASE state[i] = Leader
  <2>1. /\ new.pc = "Targets" /\ new.node = i /\ new.leaderTerm = currentTerm[i]
        /\ new.targetIndex = commitIndex[i] /\ new.floor = read[r].floor
        /\ new.heartbeat = read[r].heartbeat /\ new.result = read[r].result
        /\ new.floor \in Nat /\ commitIndex[i] \in Nat /\ currentTerm[i] \in Nat
    BY <1>2 DEF ReadRecord, Grounded, ElectionInv, TypeOK
  <2>2. read' = [read EXCEPT ![r] = new] /\ CommittedOwnTerm(i)
    BY <1>4 DEF FindTarget
  <2> HIDE DEF new, i
  <2>3. TargetSuffices(new)
    <3>1. CASE new.floor = 0
      BY <2>1, <3>1 DEF TargetSuffices
    <3>2. CASE new.floor > 0
      <4>1. KnownCommit(new.floor)
        BY <1>1, <2>1, <3>2 DEF FloorMet
      <4>2. CASE new.floor <= commitIndex[i]
        BY <2>1, <4>2 DEF TargetSuffices
      <4>3. CASE \E B \in SUBSET Bootstrap :
                    Blocking(B) /\ \A v \in B : currentTerm[v] > currentTerm[i]
        <5>1. PICK B \in SUBSET Bootstrap :
                  Blocking(B) /\ \A v \in B : currentTerm[v] > currentTerm[i]
          BY <4>3
        <5>2. Ahead(new, B)
          BY <1>2, <2>1, <5>1, BootstrapFacts DEF Ahead
        <5> QED BY <5>1, <5>2 DEF TargetSuffices
      <4> QED BY <1>2, <1>4, <2>1, <2>2, <3>2, <4>1, <4>2, <4>3, TargetFound
    <3> QED BY <2>1, <3>1, <3>2
  <2>4. FloorMet(new) /\ Round(new)
    BY <1>1, <2>1, <2>3 DEF FloorMet, Round
  <2> QED BY <1>1, <2>2, <2>4, OneMovesFresh
<1> QED BY <1>3, <1>4

\* The round begins, or a lone voter returns: it alone meets every blocking set.
LEMMA SpawnHeartbeatsFresh ==
    ASSUME Grounded, ReadersOK, FloorsMet, RoundsOfFounders, NEW r \in Reader,
           SpawnHeartbeats(r)
    PROVE  MovesFresh
<1> DEFINE i == read[r].node
           rec == [read[r] EXCEPT
                      !.pc = "Collecting",
                      !.quorum = QuorumVotes(VotersOf(i)),
                      !.selfInCluster = i \in VotersOf(i),
                      !.heartbeat = [j \in Node |->
                          IF j \in VotersOf(i) \cap PeersOf(i) THEN "Starting" ELSE "None"]]
<1>0. TypeOK /\ StaticConfig
  BY DEF Grounded, ElectionInv
<1>1. /\ read \in [Reader -> ReadRecord] /\ FloorMet(read[r])
      /\ read[r].pc = "Targets" /\ RecordOK(read[r], appendInFlight)
  BY ByReader DEF EachReaderOK, FloorsMet, SpawnHeartbeats
<1>2. i \in Bootstrap /\ i \in Node /\ read[r] \in ReadRecord
  BY <1>1, BootstrapFacts DEF RecordOK
<1>3. VotersOf(i) = Bootstrap
  BY <1>0, <1>2, FounderVoters
<1>4. /\ rec.pc = "Collecting" /\ rec.node = i /\ rec.floor = read[r].floor
      /\ rec.leaderTerm = read[r].leaderTerm /\ rec.targetIndex = read[r].targetIndex
      /\ rec.quorum = QuorumVotes(Bootstrap) /\ rec.result = read[r].result
      /\ \A j \in Node : rec.heartbeat[j] =
            IF j \in VotersOf(i) \cap PeersOf(i) THEN "Starting" ELSE "None"
  BY <1>2, <1>3 DEF ReadRecord
<1>5. IF Cardinality(VotersOf(i) \cap {i}) >= QuorumVotes(VotersOf(i))
      THEN Returns(r, i, rec, "Quorum", "Ok")
      ELSE read' = [read EXCEPT ![r] = rec]
  BY DEF SpawnHeartbeats
<1>6. rec \in ReadRecord
  <2>1. QuorumVotes(VotersOf(i)) \in Nat
    <3>1. Cardinality(Bootstrap) \in Nat
      BY BootstrapFacts, FS_CardinalityType
    <3> QED BY <1>3, <3>1 DEF QuorumVotes
  <2>2. [j \in Node |-> IF j \in VotersOf(i) \cap PeersOf(i) THEN "Starting" ELSE "None"]
           \in [Node -> HeartbeatState]
    BY DEF HeartbeatState
  <2> DEFINE q == QuorumVotes(VotersOf(i))
             s == i \in VotersOf(i)
             h == [j \in Node |->
                      IF j \in VotersOf(i) \cap PeersOf(i) THEN "Starting" ELSE "None"]
  <2>3. rec = [read[r] EXCEPT !.pc = "Collecting", !.quorum = q, !.selfInCluster = s,
                              !.heartbeat = h]
    OBVIOUS
  <2>4. q \in Nat /\ s \in BOOLEAN /\ h \in [Node -> HeartbeatState]
    BY <2>1, <2>2
  <2> HIDE DEF q, s, h, rec
  <2> QED BY <1>2, <2>3, <2>4 DEF ReadRecord
<1> HIDE DEF rec, i
<1>7. CASE Cardinality(VotersOf(i) \cap {i}) >= QuorumVotes(VotersOf(i))
  <2>1. QuorumVotes(Bootstrap) = 1 /\ Cardinality({i}) = 1
    <3>1. Cardinality({i}) = 1 /\ Cardinality(Bootstrap) \in Nat
      BY FS_Singleton, BootstrapFacts, FS_CardinalityType
    <3>2. VotersOf(i) \cap {i} = {i}
      BY <1>2, <1>3
    <3>3. 1 >= QuorumVotes(Bootstrap)
      BY <1>3, <1>7, <3>1, <3>2
    <3> QED BY <3>1, <3>3 DEF QuorumVotes
  <2>2. ~\E B \in SUBSET Bootstrap : Blocking(B) /\ Ahead(read[r], B)
    <3>1. SUFFICES ASSUME NEW B \in SUBSET Bootstrap, Blocking(B), Ahead(read[r], B)
                   PROVE  FALSE
      OBVIOUS
    <3>2. {i} \cap B # {}
      BY <1>2, <2>1, <3>1 DEF Blocking
    <3> QED BY <3>1, <3>2 DEF Ahead, i
  <2>3. rec.floor <= rec.targetIndex
    BY <1>1, <1>4, <2>2 DEF FloorMet, TargetSuffices
  <2>4. Returns(r, i, rec, "Quorum", "Ok")
    BY <1>5, <1>7
  <2> QED BY <1>1, <1>6, <2>3, <2>4, ReturnsFresh
<1>8. CASE ~(Cardinality(VotersOf(i) \cap {i}) >= QuorumVotes(VotersOf(i)))
  <2>1. read' = [read EXCEPT ![r] = rec]
    BY <1>5, <1>8
  <2>2. Round(rec)
    <3>1. \A j \in PeersOf(i) : j # i
      BY DEF PeersOf
    <3> QED BY <1>2, <1>3, <1>4, <3>1 DEF Round
  <2>3. ASSUME NEW B \in SUBSET Bootstrap, Ahead(read[r], B) PROVE Ahead(rec, B)
    <3>1. \A v \in B : rec.heartbeat[v] \notin {"Success", "Ack", "Calling"}
      BY <1>4, BootstrapFacts
    <3> QED BY <1>4, <2>3, <3>1 DEF Ahead, i
  <2>4. Collects(read[r], rec)
    BY <1>4 DEF Collects, i
  <2>5. FloorMet(rec)
    BY <1>1, <2>3, <2>4, FloorMoves
  <2> QED BY <1>1, <2>1, <2>2, <2>5, OneMovesFresh
<1> QED BY <1>7, <1>8

\* A heartbeat that is sent finds no reply of the peer under way: none that could
\* be taken for its own.
LEMMA RunHeartbeatFresh ==
    ASSUME ReadersOK, CallsAwaited, FloorsMet, RoundsOfFounders,
           NEW r \in Reader, NEW j \in Node, RunHeartbeat(r, j)
    PROVE  MovesFresh
<1> DEFINE rec == read[r]
<1>1. /\ read \in [Reader -> ReadRecord] /\ FloorMet(rec) /\ Round(rec)
      /\ rec.heartbeat[j] = "Starting" /\ RecordOK(rec, appendInFlight)
  BY ByReader DEF EachReaderOK, FloorsMet, RoundsOfFounders, RunHeartbeat
<1>2. PICK v \in {"Calling", "Failure"} :
         /\ read' = [read EXCEPT ![r] = [rec EXCEPT !.heartbeat[j] = v]]
         /\ v = "Calling" => j \notin appendInFlight[rec.node]
  BY DEF RunHeartbeat, DeniedHeartbeat, SendAppendEntries
<1> DEFINE new == [rec EXCEPT !.heartbeat[j] = v]
<1>3. rec.pc = "Collecting" /\ rec.node \in Node /\ rec \in ReadRecord
  BY <1>1 DEF RecordOK
<1>4. read' = [read EXCEPT ![r] = new]
  BY <1>2
<1> HIDE DEF rec
<1>5. /\ new.heartbeat = [rec.heartbeat EXCEPT ![j] = v]
      /\ new.pc = rec.pc /\ new.node = rec.node /\ new.quorum = rec.quorum
      /\ new.floor = rec.floor /\ new.leaderTerm = rec.leaderTerm
      /\ new.targetIndex = rec.targetIndex /\ new.result = rec.result
      /\ rec.heartbeat \in [Node -> HeartbeatState]
  BY <1>3 DEF ReadRecord
<1> HIDE DEF new
<1>6. /\ new.heartbeat[j] = v
      /\ \A k \in Node \ {j} : new.heartbeat[k] = rec.heartbeat[k]
  BY <1>5
<1>7. Round(new)
  <2>1. \A k \in Node : new.heartbeat[k] # "None" => rec.heartbeat[k] # "None"
    BY <1>1, <1>6
  <2> QED BY <1>1, <1>3, <1>5, <2>1 DEF Round
<1>8. ASSUME NEW B \in SUBSET Bootstrap, Ahead(rec, B) PROVE Ahead(new, B)
  <2>1. ASSUME NEW k \in B PROVE NoAnswer(rec, new, k)
    <3>0. k \in Node
      BY BootstrapFacts
    <3>1. CASE k # j
      BY <1>6, <3>0, <3>1 DEF NoAnswer
    <3>2. CASE k = j /\ v = "Failure"
      BY <1>6, <3>2 DEF NoAnswer
    <3>3. CASE k = j /\ v = "Calling"
      <4>1. \A m \in rpcs : ~CallOf(m, rec.node, j)
        BY <1>2, <1>3, <3>3 DEF CallsAwaited
      <4> QED BY <1>6, <3>3, <4>1 DEF NoAnswer
    <3> QED BY <3>1, <3>2, <3>3
  <2>2. NoAnswers(rec, new, B)
    BY <2>1 DEF NoAnswers
  <2> QED BY <1>5, <1>8, <2>2, AheadMoves
<1>9. Collects(rec, new)
  BY <1>3, <1>5 DEF Collects
<1>10. FloorMet(new)
  BY <1>1, <1>3, <1>8, <1>9, FloorMoves
<1> QED BY <1>1, <1>4, <1>7, <1>10, OneMovesFresh

\* A vote is counted.  If it makes a majority and the node leads in the term it led
\* in before, no blocking set is past that term.
LEMMA CountVoteFresh ==
    ASSUME ReadersOK, FloorsMet, RoundsOfFounders, NEW r \in Reader, NEW j \in Node,
           CountVote(r, j)
    PROVE  MovesFresh
<1> DEFINE i == read[r].node
           rec == read[r]
           ack == [rec EXCEPT !.heartbeat[j] = "Ack"]
           denial == [rec EXCEPT !.heartbeat[j] = "Denial"]
<1>1. /\ read \in [Reader -> ReadRecord] /\ FloorMet(rec) /\ Round(rec)
      /\ rec.pc = "Collecting" /\ rec \in ReadRecord
  BY ByReader DEF EachReaderOK, FloorsMet, RoundsOfFounders, CountVote
<1>2. \/ /\ rec.heartbeat[j] = "Success" /\ read' = [read EXCEPT ![r] = ack]
      \/ /\ rec.heartbeat[j] = "Success" /\ Acks(ack) >= ack.quorum
         /\ \E result : /\ Returns(r, i, ack, "Quorum", result)
                        /\ result = "Ok" => currentTerm[i] = ack.leaderTerm
      \/ rec.heartbeat[j] = "Failure" /\ read' = [read EXCEPT ![r] = denial]
      \/ Returns(r, i, denial, "Quorum", "ErrReadIndexNoQuorum")
  <2>1. IF state[i] # Leader \/ currentTerm[i] # ack.leaderTerm
        THEN "ErrNotLeader" # "Ok" ELSE currentTerm[i] = ack.leaderTerm
    OBVIOUS
  <2> HIDE DEF ack, denial
  <2> QED BY <2>1 DEF CountVote, ack, denial
<1>3. ASSUME NEW v \in HeartbeatState, NEW new, new = [rec EXCEPT !.heartbeat[j] = v]
      PROVE  /\ new \in ReadRecord /\ new.pc = rec.pc /\ new.node = rec.node
             /\ new.quorum = rec.quorum
             /\ new.floor = rec.floor /\ new.leaderTerm = rec.leaderTerm
             /\ new.targetIndex = rec.targetIndex /\ new.result = rec.result
             /\ new.heartbeat[j] = v
             /\ \A k \in Node \ {j} : new.heartbeat[k] = rec.heartbeat[k]
  BY <1>1, <1>3 DEF ReadRecord
<1>4. "Ack" \in HeartbeatState /\ "Denial" \in HeartbeatState
  BY DEF HeartbeatState
<1>5. ASSUME NEW v \in {"Ack", "Denial"}, NEW new, new = [rec EXCEPT !.heartbeat[j] = v],
             rec.heartbeat[j] \in {"Success", "Failure"}
      PROVE  Round(new)
  <2>1. \A k \in Node : new.heartbeat[k] # "None" => rec.heartbeat[k] # "None"
    BY <1>3, <1>4, <1>5
  <2> QED BY <1>1, <1>3, <1>4, <1>5, <2>1 DEF Round
<1>6. ASSUME NEW v \in {"Ack", "Denial"}, NEW new, new = [rec EXCEPT !.heartbeat[j] = v],
             v = "Ack" => rec.heartbeat[j] = "Success"
      PROVE  FloorMet(new)
  <2>1. ASSUME NEW B \in SUBSET Bootstrap, Ahead(rec, B) PROVE Ahead(new, B)
    <3>1. ASSUME currentTerm[rec.node] = rec.leaderTerm, NEW k \in B
          PROVE  NoAnswer(rec, new, k)
      <4>0. k \in Node
        BY BootstrapFacts
      <4>1. CASE k # j
        BY <1>3, <1>4, <1>6, <4>0, <4>1 DEF NoAnswer
      <4>2. CASE k = j
        <5>1. v = "Denial"
          BY <1>6, <2>1, <3>1, <4>2 DEF Ahead
        <5> QED BY <1>3, <1>4, <1>6, <4>2, <5>1 DEF NoAnswer
      <4> QED BY <4>1, <4>2
    <3>2. NoAnswers(rec, new, B)
      BY <3>1 DEF NoAnswers
    <3>3. new.node = rec.node /\ new.leaderTerm = rec.leaderTerm
      BY <1>3, <1>4, <1>6
    <3> QED BY <2>1, <3>2, <3>3, AheadMoves
  <2>2. Collects(rec, new)
    BY <1>1, <1>3, <1>4, <1>6 DEF Collects
  <2> QED BY <1>1, <2>1, <2>2, FloorMoves
<1>7. CASE rec.heartbeat[j] = "Success" /\ read' = [read EXCEPT ![r] = ack]
  <2>1. FloorMet(ack) /\ Round(ack)
    BY <1>5, <1>6, <1>7
  <2> QED BY <1>1, <1>7, <2>1, OneMovesFresh
<1>8. CASE rec.heartbeat[j] = "Failure" /\ read' = [read EXCEPT ![r] = denial]
  <2>1. FloorMet(denial) /\ Round(denial)
    BY <1>5, <1>6, <1>8
  <2> QED BY <1>1, <1>8, <2>1, OneMovesFresh
<1>9. CASE Returns(r, i, denial, "Quorum", "ErrReadIndexNoQuorum")
  <2>1. denial \in ReadRecord
    BY <1>3, <1>4
  <2> QED BY <1>1, <1>9, <2>1, ReturnsFresh
<1>10. CASE /\ rec.heartbeat[j] = "Success" /\ Acks(ack) >= ack.quorum
            /\ \E result : /\ Returns(r, i, ack, "Quorum", result)
                           /\ result = "Ok" => currentTerm[i] = ack.leaderTerm
  <2>1. PICK result : /\ Returns(r, i, ack, "Quorum", result)
                      /\ result = "Ok" => currentTerm[i] = ack.leaderTerm
    BY <1>10
  <2>2. /\ ack \in ReadRecord /\ ack.pc = "Collecting" /\ ack.node = i
        /\ ack.leaderTerm = rec.leaderTerm /\ ack.floor = rec.floor
        /\ ack.targetIndex = rec.targetIndex
        /\ \A k \in Node \ {j} : ack.heartbeat[k] = rec.heartbeat[k]
    BY <1>1, <1>3, <1>4
  <2>3. Round(ack)
    BY <1>5, <1>10
  <2> HIDE DEF ack
  <2>4. ASSUME result = "Ok" PROVE ack.floor <= ack.targetIndex
    <3>1. SUFFICES ASSUME NEW B \in SUBSET Bootstrap, Blocking(B), Ahead(rec, B) PROVE FALSE
      BY <1>1, <2>2 DEF FloorMet, TargetSuffices
    <3>2. PICK v \in B : ack.heartbeat[v] = "Ack"
      <4>1. ack.node \notin B
        BY <2>2, <3>1 DEF Ahead
      <4> QED BY <1>10, <2>2, <2>3, <3>1, <4>1, AckQuorumMeets DEF Round
    <3>3. rec.heartbeat[v] \in {"Success", "Ack"}
      BY <1>10, <2>2, <3>2, BootstrapFacts
    <3>4. currentTerm[rec.node] = rec.leaderTerm
      BY <2>1, <2>2, <2>4
    <3> QED BY <3>1, <3>3, <3>4 DEF Ahead
  <2> QED BY <1>1, <2>1, <2>2, <2>4, ReturnsFresh
<1> QED BY <1>2, <1>7, <1>8, <1>9, <1>10

\* The reader gives up.
LEMMA ContextDoneFresh ==
    ASSUME ReadersOK, FloorsMet, RoundsOfFounders, NEW r \in Reader, ContextDone(r)
    PROVE  MovesFresh
<1>1. read \in [Reader -> ReadRecord]
  BY ByReader DEF EachReaderOK
<1>2. Returns(r, read[r].node, read[r], "Quorum", "ContextError")
  BY DEF ContextDone
<1> QED BY <1>1, <1>2, ReturnsFresh

\* In the beginning nothing is committed and nobody reads.
LEMMA InitFreshInv == Init /\ TimerInit => FreshInv
<1> SUFFICES ASSUME Init, TimerInit PROVE FreshInv
  OBVIOUS
<1>1. CommitsKnown /\ CallsAwaited
  BY DEF Init, CommitsKnown, CallsAwaited, Requests
<1>2. \A r \in Reader : read[r] = IdleRead
  BY DEF TimerInit
<1>3. FloorMet(IdleRead) /\ Round(IdleRead)
  BY DEF FloorMet, Round, IdleRead
<1>4. FloorsMet /\ RoundsOfFounders
  BY <1>2, <1>3 DEF FloorsMet, RoundsOfFounders
<1> QED BY <1>1, <1>4 DEF FreshInv

\* What is known of Raft's state on either side of a step.
RaftInv == ElectionInv /\ LogInv /\ CommitCore

\* Every step moves the readers freshly.
LEMMA ReadNextFresh ==
    ASSUME RaftInv, ReadInv, FreshInv, [ReadNext]_allVars
    PROVE  MovesFresh
<1>1. /\ Grounded /\ CommitSecured /\ TypeOK /\ ReadersOK
      /\ FloorsMet /\ RoundsOfFounders /\ CommitsKnown /\ CallsAwaited
  BY DEF RaftInv, CommitCore, Grounded, ElectionInv, ReadInv, ReadersOK, FreshInv
<1>2. CASE RaftStep
  BY <1>1, <1>2, RaftStepFresh
<1>3. CASE \E r \in Reader, i \in Node : BeginRead(r, i)
  BY <1>1, <1>3, BeginReadFresh
<1>4. CASE \E r \in Reader : LockReadIndexMu(r)
  BY <1>1, <1>4, LockReadIndexMuFresh
<1>5. CASE \E r \in Reader : FindTarget(r)
  BY <1>1, <1>5, FindTargetFresh
<1>6. CASE \E r \in Reader : SpawnHeartbeats(r)
  BY <1>1, <1>6, SpawnHeartbeatsFresh
<1>7. CASE \E r \in Reader, j \in Node : RunHeartbeat(r, j)
  BY <1>1, <1>7, RunHeartbeatFresh
<1>8. CASE \E r \in Reader, j \in Node : CountVote(r, j)
  BY <1>1, <1>8, CountVoteFresh
<1>9. CASE \E r \in Reader : ContextDone(r)
  BY <1>1, <1>9, ContextDoneFresh
<1>10. CASE UNCHANGED allVars
  BY <1>1, <1>10, StillFresh DEF allVars, readVars
<1> QED BY <1>2, <1>3, <1>4, <1>5, <1>6, <1>7, <1>8, <1>9, <1>10 DEF ReadNext

\* Every step keeps the invariant.
LEMMA NextFreshInv ==
    ASSUME RaftInv, RaftInv', ReadInv, ReadInv', FreshInv, [ReadNext]_allVars
    PROVE  FreshInv'
<1>1. /\ Grounded /\ Grounded' /\ CommitSecured' /\ TypeOK
      /\ ReadersPlaced /\ ReadTypeOK' /\ ReadersPlaced'
      /\ CommitsKnown /\ CallsAwaited
  BY DEF RaftInv, CommitCore, Grounded, ElectionInv, ReadInv, FreshInv
<1>2. [Next]_vars
  BY <1>1, ReadNextIsNext
<1>3. CommitsKnown'
  BY <1>1, <1>2, CommitsKnownKept
<1>4. CallsAwaited'
  BY <1>1, <1>2, CallsAwaitedKept
<1>5. MovesFresh
  BY ReadNextFresh
<1>6. FloorsMet' /\ RoundsOfFounders'
  BY <1>1, <1>2, <1>5, MovesKept
<1> QED BY <1>3, <1>4, <1>6 DEF FreshInv

-----------------------------------------------------------------------------
(* The theorems.                                                            *)

\* In the beginning nobody reads.
LEMMA InitReadInv == Init /\ TimerInit => ReadInv
<1> SUFFICES ASSUME Init, TimerInit PROVE ReadInv
  OBVIOUS
<1>1. SpeakersFound
  BY DEF Init, SpeakersFound
<1>2. /\ IdleRead \in ReadRecord /\ IdleRead.pc = "Idle"
      /\ IdleRead.heartbeat = [j \in Node |-> "None"]
  BY DEF IdleRead, ReadRecord, HeartbeatState
<1>3. TimersOK
  BY ReadAssumption DEF TimerInit, TimersOK
<1>4. \A r \in Reader : read[r] = IdleRead
  BY DEF TimerInit
<1>5. \A r \in Reader : RecordOK(read[r], appendInFlight) /\ ~Holding(read[r])
  BY <1>2, <1>4 DEF RecordOK, Holding
<1>6. /\ read \in [Reader -> ReadRecord]
      /\ readIndexMu \in [Node -> Reader \cup {NoReader}]
  BY <1>2 DEF TimerInit
<1>7. ReadersOK
  BY <1>3, <1>5, <1>6, ByReader DEF EachReaderOK
<1> QED BY <1>1, <1>7 DEF ReadInv, ReadersOK

\* Every step keeps both invariants.
LEMMA NextReadInv ==
    ElectionInv /\ ReadInv /\ [ReadNext]_allVars => ElectionInv' /\ ReadInv'
<1> SUFFICES ASSUME ElectionInv, ReadInv, [ReadNext]_allVars PROVE ElectionInv' /\ ReadInv'
  OBVIOUS
<1>1. /\ TypeOK /\ StaticConfig /\ SpeakersFound /\ ReadersPlaced /\ ReadersOK
  BY DEF ElectionInv, ReadInv, ReadersOK
<1>2. [Next]_vars
  BY <1>1, ReadNextIsNext
<1>3. ElectionInv' /\ SpeakersFound'
  BY <1>1, <1>2, NextElectionInv, SpeakersStayFound
<1>4. ReadersOK'
  <2>1. CASE RaftStep
    BY <1>1, <2>1, RaftStepReaders
  <2>2. CASE \E r \in Reader, i \in Node : BeginRead(r, i)
    BY <1>1, <2>2, BeginReadInv
  <2>3. CASE \E r \in Reader : LockReadIndexMu(r)
    BY <1>1, <2>3, LockReadIndexMuInv
  <2>4. CASE \E r \in Reader : FindTarget(r)
    BY <1>1, <2>4, FindTargetInv
  <2>5. CASE \E r \in Reader : SpawnHeartbeats(r)
    BY <1>1, <2>5, SpawnHeartbeatsInv
  <2>6. CASE \E r \in Reader, j \in Node : RunHeartbeat(r, j)
    BY <1>1, <2>6, RunHeartbeatInv
  <2>7. CASE \E r \in Reader, j \in Node : CountVote(r, j)
    BY <1>1, <2>7, CountVoteInv
  <2>8. CASE \E r \in Reader : ContextDone(r)
    BY <1>1, <2>8, ContextDoneInv
  <2>9. CASE UNCHANGED allVars
    <3>1. TimersOK' /\ UNCHANGED <<readVars, appendInFlight>>
      BY <1>1, <2>9, ByReader DEF allVars, vars, timers, readVars, TimersOK, EachReaderOK
    <3> QED BY <1>1, <3>1, ReadersUntouched
  <2> QED BY <2>1, <2>2, <2>3, <2>4, <2>5, <2>6, <2>7, <2>8, <2>9 DEF ReadNext
<1>5. ReadInv'
  BY <1>3, <1>4 DEF ReadInv, ReadersOK
<1> QED BY <1>3, <1>5

\* The invariants hold throughout.
LEMMA ReadInvariant == ReadSpec => [](ElectionInv /\ ReadInv)
BY InitElectionInv, InitReadInv, NextReadInv, PTL DEF ReadSpec

\* Serving reads takes nothing from Raft: what is proved of Spec (one leader per
\* term, matching logs) holds with readers, whose heartbeats are AppendEntries of
\* the leader like any other, and with timers, which only restrict the steps.
THEOREM ReadsKeepRaft == ReadSpec => Spec
<1>1. ElectionInv /\ ReadInv /\ [ReadNext]_allVars => [Next]_vars
  BY ReadNextIsNext DEF ReadInv
<1> QED BY <1>1, ReadInvariant, PTL DEF ReadSpec, Spec

\* Every reader keeps its type, awaits a call only while sendAppendEntries is
\* under way, and holds readIndexMu from the wait for the no-op to its return.
THEOREM ReadTypeCorrect == ReadSpec => []ReadTypeOK
<1>1. ElectionInv /\ ReadInv => ReadTypeOK
  BY DEF ReadInv
<1> QED BY <1>1, ReadInvariant, PTL

\* ReadIndex never waits on votesCh for a result that no heartbeat is left to send.
THEOREM CollectingEndsHolds == ReadSpec => []CollectingEnds
<1>1. ElectionInv /\ ReadInv => CollectingEnds
  <2> SUFFICES ASSUME ReadInv, NEW r \in Reader, read[r].pc = "Collecting"
               PROVE  \E j \in Node :
                         read[r].heartbeat[j] \in {"Starting", "Calling", "Success", "Failure"}
    BY DEF CollectingEnds
  <2>1. read[r] \in ReadRecord /\ OpenRound(read[r])
    BY DEF ReadInv, ReadTypeOK, RoundsOpen
  <2>2. read[r].quorum \in Nat /\ read[r].heartbeat \in [Node -> HeartbeatState]
    BY <2>1 DEF ReadRecord
  <2> QED BY <2>1, <2>2, OpenRoundWaits
<1> QED BY <1>1, ReadInvariant, PTL

\* FreshInv, which is about readers between the critical sections of ReadIndex
\* (readindex.go:11-131), holds throughout in every cluster of up to four voters.
THEOREM FreshInvariant ==
    ASSUME Cardinality(Bootstrap) <= 4
    PROVE  ReadSpec => []FreshInv
<1>1. Init /\ TimerInit => FreshInv
  BY InitFreshInv
<1>2. /\ ElectionInv /\ LogInv /\ CommitCore /\ ElectionInv' /\ LogInv' /\ CommitCore'
      /\ ReadInv /\ ReadInv' /\ FreshInv /\ [ReadNext]_allVars
      => FreshInv'
  BY NextFreshInv DEF RaftInv
<1> QED BY <1>1, <1>2, ReadsKeepRaft, ReadInvariant, ElectionInvariant, LogInvariant,
           CommitInvariant, CommitInvCore, PTL DEF ReadSpec

\* And in a cluster of any size, as long as sendAppendEntries credits replies in
\* their term (replication.go:90-115).
THEOREM CreditedFreshInvariant == CreditReadSpec => []FreshInv
<1>1. Init /\ TimerInit => FreshInv
  BY InitFreshInv
<1>2. /\ ElectionInv /\ LogInv /\ CommitCore /\ ElectionInv' /\ LogInv' /\ CommitCore'
      /\ ReadInv /\ ReadInv' /\ FreshInv /\ [ReadNext]_allVars
      => FreshInv'
  BY NextFreshInv DEF RaftInv
<1> QED BY <1>1, <1>2, ReadsKeepRaft, ReadInvariant, ElectionInvariant, LogInvariant,
           CreditInvariant, CreditInvCore, PTL DEF CreditReadSpec, ReadSpec, CreditSpec

\* A round that meets its floor does not serve below it.
LEMMA FloorsMetFresh == ReadInv /\ FreshInv => QuorumReadsFresh
<1> SUFFICES ASSUME ReadInv, FreshInv, NEW r \in Reader,
                    read[r].result = "Ok", read[r].via = "Quorum",
                    read[r].targetIndex < read[r].floor
             PROVE  FALSE
  BY DEF QuorumReadsFresh, ServedBelow
<1>1. read[r] \in ReadRecord /\ FloorMet(read[r])
  BY DEF ReadInv, ReadTypeOK, FreshInv, FloorsMet
<1>2. read[r].floor \in Nat /\ read[r].targetIndex \in Nat
  BY <1>1 DEF ReadRecord
<1>3. read[r].floor <= read[r].targetIndex
  BY <1>1 DEF FloorMet
<1> QED BY <1>2, <1>3

\* A read that a round of heartbeats has confirmed sees all that was known as
\* committed anywhere when it began, in every cluster of up to four voters
\* (readindex.go:11-131).
THEOREM QuorumReadsFreshHolds ==
    ASSUME Cardinality(Bootstrap) <= 4
    PROVE  ReadSpec => []QuorumReadsFresh
BY FloorsMetFresh, ReadInvariant, FreshInvariant, PTL

\* And in a cluster of any size, as long as every reply that a leader credits in
\* sendAppendEntries is one of its term (replication.go:90-115): what may be stale
\* besides is only a read served on the lease.
THEOREM CreditedReadsFresh == CreditReadSpec => []QuorumReadsFresh
BY FloorsMetFresh, ReadInvariant, CreditedFreshInvariant, PTL DEF CreditReadSpec
=============================================================================
