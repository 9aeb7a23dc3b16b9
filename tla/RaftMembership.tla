--------------------------- MODULE RaftMembership ---------------------------
(***************************************************************************)
(* Package internal/raft with AddNode, RemoveNode and the catch-up         *)
(* promoter: the cluster of module Raft while its membership changes.      *)
(*                                                                         *)
(* A node acts on the membership its log spells out, committed or not, so  *)
(* the handlers of Raft need no change: a configuration takes effect when  *)
(* its entry is appended and is taken back when the entry is cut off.      *)
(* What is added is two goroutines that outlive their critical section:    *)
(* runCatchUpPromoter, which runs on the leader AddNode was called on, and *)
(* a RemoveNode of the leader itself, which waits until the index of its   *)
(* entry is applied and then steps down in whatever term it finds.         *)
(***************************************************************************)
EXTENDS Raft

CONSTANTS CatchUpThreshold,  \* cfg.CatchUpPromoteThreshold
          MaxChanges         \* bound: no change in a log with as many changes

ASSUME ChangeAssumption == CatchUpThreshold \in Nat \ {0} /\ MaxChanges \in Nat

VARIABLES
    promoters,   \* <<i, j>>: runCatchUpPromoter(j) runs on i
    removals     \* <<i, n>>: RemoveNode(i) on i waits for index n to be applied

changing == <<promoters, removals>>
allVars  == <<vars, changing>>

-----------------------------------------------------------------------------
MembersOf(i)  == Members(log[i], BootstrapOf(i))
LearnersOf(i) == MembersOf(i) \ VotersOf(i)

\* The entries after commitIndex whose type is one of types.
Pending(i, types) ==
    \E n \in (commitIndex[i] + 1)..Len(log[i]) : log[i][n].type \in types

\* hasPendingAddVoterOrRemove, hasPendingMembershipCommit.
PendingAddVoterOrRemove(i)   == Pending(i, {EntryAddVoter, EntryRemoveNode})
PendingMembershipCommit(i) ==
    Pending(i, {EntryAddLearner, EntryAddVoter, EntryRemoveNode})

\* Bounds: the founding cluster and MaxChanges changes; nobody comes back.
ChangesLeft(i) ==
    Cardinality({n \in DOMAIN log[i] : log[i][n].type # EntryNormal}) <= MaxChanges

NeverRemoved(i, j) ==
    \A n \in DOMAIN log[i] : log[i][n].type = EntryRemoveNode => j \notin log[i][n].arg

AppendChange(i, type, j) ==
    log' = [log EXCEPT ![i] = Append(@, Entry(type, currentTerm[i], {j}))]

\* A bug: a peer that nothing was set up for has the zero of the map.
FirstNextIndexUnset(i) == 0

\* rebuildVolatilePeers: nextIndex of a peer that the entry just appended adds.
FirstNextIndex(i) == Len(log[i]) + 2

-----------------------------------------------------------------------------
MembershipInit == Init /\ promoters = {} /\ removals = {}

\* AddNode: j becomes a learner; rebuildVolatilePeers starts to track it.
AddNode(i, j) ==
    /\ state[i] = Leader
    /\ ~PendingAddVoterOrRemove(i)
    /\ j \notin MembersOf(i)
    /\ ChangesLeft(i) /\ NeverRemoved(i, j)
    /\ AppendChange(i, EntryAddLearner, j)
    /\ nextIndex'  = [nextIndex EXCEPT ![i][j] = FirstNextIndex(i)]
    /\ matchIndex' = [matchIndex EXCEPT ![i][j] = 0]
    /\ promoters'  = promoters \cup {<<i, j>>}
    /\ UNCHANGED <<currentTerm, votedFor, state, commitIndex, hintLeaderID, appendInFlight,
                   ballotVars, rpcs, history, removals>>

\* A tick of runCatchUpPromoter that ends it: no longer leader, or j no learner.
PromoterGivesUp(i, j) ==
    /\ <<i, j>> \in promoters
    /\ state[i] # Leader \/ j \notin LearnersOf(i) \ {i}
    /\ promoters' = promoters \ {<<i, j>>}
    /\ UNCHANGED <<vars, removals>>

\* A tick that finds the learner j close enough to the end of the log.
PromoteLearner(i, j) ==
    /\ <<i, j>> \in promoters
    /\ state[i] = Leader
    /\ j \in LearnersOf(i) \ {i}
    /\ ~PendingAddVoterOrRemove(i)
    /\ Len(log[i]) - matchIndex[i][j] < CatchUpThreshold
    /\ ChangesLeft(i)
    /\ AppendChange(i, EntryAddVoter, j)
    /\ promoters' = promoters \ {<<i, j>>}
    /\ UNCHANGED <<currentTerm, votedFor, state, commitIndex, hintLeaderID, leaderVars,
                   ballotVars, rpcs, history, removals>>

\* RemoveNode up to waitForApplied, whose return matters if i removes itself.
RemoveNode(i, j) ==
    /\ state[i] = Leader
    /\ j \in MembersOf(i)
    /\ ~PendingMembershipCommit(i)
    /\ ChangesLeft(i)
    /\ AppendChange(i, EntryRemoveNode, j)
    /\ removals' = removals \cup (IF i = j THEN {<<i, Len(log[i]) + 1>>} ELSE {})
    /\ UNCHANGED <<currentTerm, votedFor, state, commitIndex, hintLeaderID, leaderVars,
                   ballotVars, rpcs, history, promoters>>

\* RemoveNode after waitForApplied: some entry is applied at the index of the
\* removal, and the node steps down in the term it is now in.
RemovedSelf(i, n) ==
    /\ <<i, n>> \in removals
    /\ commitIndex[i] >= n
    /\ BecomeFollower(i, currentTerm[i])
    /\ removals' = removals \ {<<i, n>>}
    /\ UNCHANGED <<log, commitIndex, hintLeaderID, leaderVars, rpcs, history, promoters>>

MembershipNext ==
    \/ Next /\ UNCHANGED changing
    \/ \E i, j \in Node : AddNode(i, j)
    \/ \E i, j \in Node : PromoterGivesUp(i, j)
    \/ \E i, j \in Node : PromoteLearner(i, j)
    \/ \E i, j \in Node : RemoveNode(i, j)
    \/ \E r \in removals : RemovedSelf(r[1], r[2])

MembershipSpec == MembershipInit /\ [][MembershipNext]_allVars

\* The check RemoveNode lacks after waitForApplied: that the node still leads.
RemovalsByLeaders == \A r \in removals \ removals' : state[r[1]] = Leader

LeadSpec == MembershipSpec /\ [][RemovalsByLeaders]_allVars

-----------------------------------------------------------------------------
(* Properties.                                                              *)

\* Types: nextIndex in particular is never 0, for peers that come and go too.
MembershipTypeOK ==
    /\ TypeOK
    /\ promoters \subseteq Node \X Node
    /\ removals \subseteq Node \X (Nat \ {0})

\* The indices of a node point into its log, which shrinks when a leader's
\* membership entries are cut off: sendAppendEntries reads rf.log[nextIndex - 1],
\* the applier rf.log[..commitIndex].
IndicesWithinLogs ==
    /\ \A i \in Node : commitIndex[i] <= Len(log[i])
    /\ \A i, j \in Node : state[i] = Leader /\ j \in PeersOf(i) =>
          /\ nextIndex[i][j] <= Len(log[i]) + 1
          /\ matchIndex[i][j] <= Len(log[i])

\* Once any node knows the removal of j as committed, j is never elected again,
\* although j itself may never learn of it and goes on asking for votes.
RemovedNeverElected ==
    [][\A e \in elected' \ elected : \A i \in Node : \A n \in 1..commitIndex[i] :
          log[i][n].type = EntryRemoveNode => e[2] \notin log[i][n].arg]_allVars
=============================================================================
