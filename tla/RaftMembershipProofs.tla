------------------------ MODULE RaftMembershipProofs ------------------------
(***************************************************************************)
(* What the proofs of module Raft leave standing while the membership      *)
(* changes: terms and types always, the logs as long as no two nodes lead  *)
(* in one term, and one vote per term as long as only a leader steps down  *)
(* at the end of its own removal.                                          *)
(***************************************************************************)
EXTENDS RaftMembership, RaftLogMatchingProofs

-----------------------------------------------------------------------------
(* What the steps of a change are to the rest of the system.                *)

\* A leader appends an entry of its term, and may set up the peer it adds.
OwnAppend(i, e) ==
    /\ state[i] = Leader
    /\ e.term = currentTerm[i]
    /\ e.type # EntryNormal => e.arg \subseteq Node
    /\ log' = [log EXCEPT ![i] = Append(@, e)]
    /\ nextIndex' \in [Node -> [Node -> Nat \ {0}]]
    /\ matchIndex' \in [Node -> [Node -> Nat]]
    /\ UNCHANGED <<currentTerm, votedFor, state, commitIndex, hintLeaderID, appendInFlight,
                   ballotVars, rpcs, history>>

LEMMA ChangeAppends ==
    ASSUME TypeOK, NEW i \in Node, NEW j \in Node,
           AddNode(i, j) \/ PromoteLearner(i, j) \/ RemoveNode(i, j)
    PROVE  \E e \in EntryRecord : OwnAppend(i, e)
<1>1. ASSUME NEW type \in EntryType
      PROVE  /\ Entry(type, currentTerm[i], {j}) \in EntryRecord
             /\ Entry(type, currentTerm[i], {j}).term = currentTerm[i]
             /\ Entry(type, currentTerm[i], {j}).arg \subseteq Node
  BY DEF Entry, EntryRecord, TypeOK
<1>2. PICK type \in {EntryAddLearner, EntryAddVoter, EntryRemoveNode} : AppendChange(i, type, j)
  BY DEF AddNode, PromoteLearner, RemoveNode
<1> DEFINE e == Entry(type, currentTerm[i], {j})
<1>3. e \in EntryRecord /\ e.term = currentTerm[i] /\ e.arg \subseteq Node
  BY <1>1 DEF EntryType
<1>4. log' = [log EXCEPT ![i] = Append(@, e)]
  BY <1>2 DEF AppendChange
<1> HIDE DEF e
<1>5. CASE AddNode(i, j)
  <2>1. Len(log[i]) \in Nat /\ Len(log[i]) + 2 \in Nat \ {0}
    BY LogFacts
  <2>2. /\ nextIndex' = [nextIndex EXCEPT ![i][j] = Len(log[i]) + 2]
        /\ matchIndex' = [matchIndex EXCEPT ![i][j] = 0]
    BY <1>5 DEF AddNode, FirstNextIndex
  <2>3. /\ nextIndex' \in [Node -> [Node -> Nat \ {0}]]
        /\ matchIndex' \in [Node -> [Node -> Nat]]
    BY <2>1, <2>2 DEF TypeOK
  <2> QED BY <1>3, <1>4, <1>5, <2>3 DEF OwnAppend, AddNode
<1>6. CASE PromoteLearner(i, j) \/ RemoveNode(i, j)
  BY <1>3, <1>4, <1>6 DEF OwnAppend, PromoteLearner, RemoveNode, leaderVars, TypeOK
<1> QED BY <1>3, <1>5, <1>6

\* Each step is one of Raft, an entry appended by a leader, or the step down at
\* the end of a removal.
LEMMA ChangeSteps ==
    ASSUME MembershipTypeOK, [MembershipNext]_allVars
    PROVE  \/ [Next]_vars
           \/ \E i \in Node, e \in EntryRecord : OwnAppend(i, e)
           \/ \E i \in Node : \E n \in Nat : RemovedSelf(i, n)
<1>1. CASE \E i, j \in Node : AddNode(i, j) \/ PromoteLearner(i, j) \/ RemoveNode(i, j)
  BY <1>1, ChangeAppends DEF MembershipTypeOK
<1>2. CASE \E r \in removals : RemovedSelf(r[1], r[2])
  BY <1>2 DEF MembershipTypeOK
<1>3. CASE \E i, j \in Node : PromoterGivesUp(i, j)
  BY <1>3 DEF PromoterGivesUp
<1>4. CASE UNCHANGED allVars
  BY <1>4 DEF allVars
<1> QED BY <1>1, <1>2, <1>3, <1>4 DEF MembershipNext

\* Elections are never forgotten.
LEMMA ElectedGrows ==
    ASSUME [Next]_vars
    PROVE  elected \subseteq elected'
<1>1. CASE \E m \in rpcs : HandleRequestVoteReply(m)
  BY <1>1 DEF HandleRequestVoteReply, BecomeLeader
<1>2. CASE elected' = elected
  BY <1>2
<1> QED BY <1>1, <1>2 DEF Next, StartElection, HandleRequestVote, RefuseStaleVote,
      RefuseWhileLeaderAlive, DecideVote, RequestVoteFails, SendAppendEntries,
      HandleAppendEntries, HandleAppendEntriesReply, AppendEntriesFails,
      AppendEntriesTimeout, Submit, StepDown, vars, history

-----------------------------------------------------------------------------
(* Terms and types.                                                         *)

TermTypeInv == TermInv /\ MembershipTypeOK

LEMMA InitTermTypeInv == MembershipInit => TermTypeInv
BY InitTermInv DEF MembershipInit, TermTypeInv, MembershipTypeOK, TermInv

LEMMA RemovedSelfTerms ==
    ASSUME TermInv, NEW i \in Node, NEW n, RemovedSelf(i, n)
    PROVE  TermInv' /\ currentTerm' = currentTerm
BY SameTermFollower DEF RemovedSelf

LEMMA NextChanging ==
    ASSUME MembershipTypeOK, [MembershipNext]_allVars
    PROVE  promoters' \subseteq Node \X Node /\ removals' \subseteq Node \X (Nat \ {0})
<1> USE DEF MembershipTypeOK
<1>1. CASE \E i, j \in Node : AddNode(i, j) \/ PromoteLearner(i, j) \/ PromoterGivesUp(i, j)
  BY <1>1 DEF AddNode, PromoteLearner, PromoterGivesUp
<1>2. ASSUME NEW i \in Node, NEW j \in Node, RemoveNode(i, j)
      PROVE  promoters' \subseteq Node \X Node /\ removals' \subseteq Node \X (Nat \ {0})
  <2>1. Len(log[i]) \in Nat /\ Len(log[i]) + 1 \in Nat \ {0}
    BY LogFacts
  <2> QED BY <1>2, <2>1 DEF RemoveNode
<1>3. CASE \E r \in removals : RemovedSelf(r[1], r[2])
  BY <1>3 DEF RemovedSelf
<1>4. CASE UNCHANGED changing
  BY <1>4 DEF changing
<1> QED BY <1>1, <1>2, <1>3, <1>4 DEF MembershipNext, allVars

LEMMA NextTermTypeInv == TermTypeInv /\ [MembershipNext]_allVars => TermTypeInv'
<1> SUFFICES ASSUME TermTypeInv, [MembershipNext]_allVars PROVE TermTypeInv'
  OBVIOUS
<1> USE DEF TermTypeInv
<1>1. TermInv'
  <2>1. CASE [Next]_vars
    BY <2>1, NextTermInv
  <2>2. ASSUME NEW i \in Node, NEW e \in EntryRecord, OwnAppend(i, e) PROVE TermInv'
    BY <2>2, AppendsOwnTerm DEF OwnAppend
  <2>3. CASE \E i \in Node : \E n \in Nat : RemovedSelf(i, n)
    BY <2>3, RemovedSelfTerms
  <2> QED BY <2>1, <2>2, <2>3, ChangeSteps
<1>2. TypeOK'
  BY <1>1 DEF TermInv
<1>3. promoters' \subseteq Node \X Node /\ removals' \subseteq Node \X (Nat \ {0})
  BY NextChanging
<1> QED BY <1>1, <1>2, <1>3 DEF MembershipTypeOK

LEMMA TermTypeInvariant == MembershipSpec => []TermTypeInv
BY InitTermTypeInv, NextTermTypeInv, PTL DEF MembershipSpec

-----------------------------------------------------------------------------
(* Logs, as long as no term has had two leaders.                            *)

LogsIfElectionSafe == ElectionSafety => LogInv

LEMMA InitLogs == MembershipInit => LogsIfElectionSafe
BY InitLogInv DEF MembershipInit, LogsIfElectionSafe

\* Two leaders of a term stay elected: what was unsafe before a step is unsafe
\* after it.
LEMMA NextLogs ==
    TermTypeInv /\ TermTypeInv' /\ LogsIfElectionSafe /\ [MembershipNext]_allVars
        => LogsIfElectionSafe'
<1> SUFFICES ASSUME TermTypeInv, TermInv', LogsIfElectionSafe, [MembershipNext]_allVars,
                    ElectionSafety'
             PROVE  LogInv'
  BY DEF LogsIfElectionSafe, TermTypeInv
<1> USE DEF TermTypeInv
<1>1. ASSUME elected \subseteq elected' PROVE LogInv
  BY <1>1 DEF LogsIfElectionSafe, ElectionSafety
<1>2. CASE [Next]_vars
  <2>1. LogInv /\ ElectionSafety
    BY <1>1, <1>2, ElectedGrows DEF ElectionSafety
  <2> QED BY <1>2, <2>1, NextLogInv
<1>3. ASSUME NEW i \in Node, NEW e \in EntryRecord, OwnAppend(i, e) PROVE LogInv'
  <2>1. LogInv
    BY <1>1, <1>3 DEF OwnAppend, history
  <2> QED BY <1>3, <2>1, OwnEntryLogInv DEF OwnAppend, history
<1>4. ASSUME NEW i \in Node, NEW n \in Nat, RemovedSelf(i, n) PROVE LogInv'
  <2>1. elected' = elected /\ log' = log /\ Requests' \subseteq Requests
    BY <1>4 DEF RemovedSelf, history, Requests
  <2>2. LogInv
    BY <1>1, <2>1
  <2>3. currentTerm[i] \in Nat /\ currentTerm[i] >= currentTerm[i]
    BY DEF TermInv, TypeOK
  <2> QED BY <1>4, <2>1, <2>2, <2>3, FollowerStep DEF RemovedSelf
<1> QED BY <1>2, <1>3, <1>4, ChangeSteps

-----------------------------------------------------------------------------
(* Votes, as long as a node that steps down for its removal is leader.      *)

VotingTypeInv == VotingInv /\ MembershipTypeOK

LEMMA InitVotingTypeInv == MembershipInit => VotingTypeInv
<1>1. MembershipInit => TermTypeInv
  BY InitTermTypeInv
<1>2. MembershipInit => VotesRemembered /\ OneVotePerTerm
  BY DEF MembershipInit, Init, VotesRemembered, OneVotePerTerm
<1> QED BY <1>1, <1>2 DEF VotingTypeInv, VotingInv, TermTypeInv

LEMMA NextVotingTypeInv ==
    VotingTypeInv /\ [MembershipNext]_allVars /\ [RemovalsByLeaders]_allVars
        => VotingTypeInv'
<1> SUFFICES ASSUME VotingTypeInv, [MembershipNext]_allVars, [RemovalsByLeaders]_allVars
             PROVE  VotingTypeInv'
  OBVIOUS
<1> USE DEF VotingTypeInv, VotingInv
<1>1. TermTypeInv'
  BY NextTermTypeInv DEF TermTypeInv
<1>2. VotesRemembered' /\ OneVotePerTerm'
  <2>1. CASE [Next]_vars
    BY <2>1, NextVotes
  <2>2. ASSUME NEW i \in Node, NEW e \in EntryRecord, OwnAppend(i, e)
        PROVE  VotesRemembered' /\ OneVotePerTerm'
    BY <2>2, VotesKept DEF OwnAppend, history
  <2>3. ASSUME NEW i \in Node, NEW n \in Nat, RemovedSelf(i, n)
        PROVE  VotesRemembered' /\ OneVotePerTerm'
    <3>1. <<i, n>> \in removals \ removals' /\ <<i, n>>[1] = i
      BY <2>3 DEF RemovedSelf
    <3>2. state[i] = Leader
      BY <3>1 DEF RemovalsByLeaders, allVars, changing
    <3> QED BY <2>3, <3>2, LeaderFollowerVotes DEF RemovedSelf
  <2> QED BY <2>1, <2>2, <2>3, ChangeSteps
<1> QED BY <1>1, <1>2 DEF TermTypeInv

-----------------------------------------------------------------------------
(* The theorems.                                                            *)

\* What terms, logs and messages say of each other holds while members come and
\* go (the handlers of state.go, election.go, service.go and replication.go with
\* AddNode and RemoveNode of raft.go:165-250 and the promoter of membership.go):
\* in particular the log of a node elected in its current term ends in that term.
THEOREM ChangingTerms == MembershipSpec => []TermInv
<1>1. TermTypeInv => TermInv
  BY DEF TermTypeInv
<1> QED BY <1>1, TermTypeInvariant, PTL

\* So does the type of every variable: nextIndex of a peer that is added, promoted
\* or removed never falls below 1, where sendAppendEntries would index rf.log at -1
\* (membership.go:103-118, replication.go:29-41).
THEOREM ChangingTypeCorrect == MembershipSpec => []MembershipTypeOK
<1>1. TermTypeInv => MembershipTypeOK
  BY DEF TermTypeInv
<1> QED BY <1>1, TermTypeInvariant, PTL

\* Up to the first time two nodes have been elected in one term, two logs with an
\* entry of the same index and term agree up to it, membership entries included:
\* no change can break the append loop of service.go:42-86 by itself.
THEOREM ChangingLogMatching == MembershipSpec => [](ElectionSafety => LogMatching)
<1>1. TermTypeInv /\ LogsIfElectionSafe => (ElectionSafety => LogMatching)
  BY UniqueLinksMatch DEF TermTypeInv, TermInv, LogInv, LogsIfElectionSafe
<1> QED BY <1>1, InitLogs, NextLogs, TermTypeInvariant, PTL DEF MembershipSpec

\* With the check RemoveNode lacks after waitForApplied (raft.go:247-249), that
\* the node still leads, nobody votes twice in a term, whatever the changes.
THEOREM LeadingOneVotePerTerm == LeadSpec => []OneVotePerTerm
<1>1. LeadSpec => []VotingTypeInv
  BY InitVotingTypeInv, NextVotingTypeInv, PTL DEF LeadSpec, MembershipSpec
<1>2. VotingTypeInv => OneVotePerTerm
  BY DEF VotingTypeInv, VotingInv
<1> QED BY <1>1, <1>2, PTL
=============================================================================
