------------------------------ MODULE RaftLog ------------------------------
(***************************************************************************)
(* The pure part of internal/raft: the replicated log as a value, and the  *)
(* computations its handlers make on it under rf.mu.  No variables here.   *)
(*                                                                         *)
(* A log is a sequence of entries; rf.log[0], the {Term: 0} sentinel       *)
(* NewRaft puts first, is not in the sequence, so that log[k] of the model *)
(* is rf.log[k] of the code for k >= 1 and TermAt(log, 0) = 0.             *)
(*                                                                         *)
(* An entry is [type, term, arg].  For EntryNormal arg is the command, or  *)
(* Nil for the no-op of a new leader; for a membership entry it is the set *)
(* of nodes concerned: one node, except that the run of EntryAddVoter      *)
(* entries becomeLeader appends for the founding cluster (one per node,    *)
(* same term, one critical section, never separated by a message because   *)
(* every message runs to the end of its sender's log) is ONE entry here.   *)
(***************************************************************************)
EXTENDS Integers, Sequences, FiniteSets

\* types.go: EntryType.
EntryNormal     == "EntryNormal"
EntryAddLearner == "EntryAddLearner"
EntryAddVoter   == "EntryAddVoter"
EntryRemoveNode == "EntryRemoveNode"

Entry(type, term, arg) == [type |-> type, term |-> term, arg |-> arg]

TermAt(log, k) == IF k = 0 THEN 0 ELSE log[k].term

\* getLastLogInfo's second result.
LastTerm(log) == TermAt(log, Len(log))

-----------------------------------------------------------------------------
(* Membership: bootstrap and every entry of the log, committed or not.      *)

\* No entry takes j's voting right away for good: each AddLearner or
\* RemoveNode of j is followed by an AddVoter of j.
VotingKept(log, j) ==
    \A r \in DOMAIN log :
        log[r].type \in {EntryAddLearner, EntryRemoveNode} /\ j \in log[r].arg
            => \E a \in (r + 1)..Len(log) :
                  log[a].type = EntryAddVoter /\ j \in log[a].arg

\* A bug: who was ever founding or added votes, learner or not.
VotersAndLearners(log, boot) == boot \cup UNION {log[k].arg : k \in
    {n \in DOMAIN log : log[n].type \in {EntryAddLearner, EntryAddVoter}}}

\* rebuildVolatilePeers: voterMembers, for a node started with the founding
\* set boot (empty on a node that joins later).
Voters(log, boot) ==
    {j \in boot \cup UNION {log[k].arg : k \in
                     {n \in DOMAIN log : log[n].type = EntryAddVoter}} :
        VotingKept(log, j)}

\* rebuildVolatilePeers: activeMembers, voters and learners: whoever was
\* founding or added, and not removed afterwards.
Members(log, boot) ==
    LET added(a) == log[a].type \in {EntryAddLearner, EntryAddVoter} IN
    {j \in boot \cup UNION {log[k].arg : k \in {n \in DOMAIN log : added(n)}} :
        \A r \in DOMAIN log :
            log[r].type = EntryRemoveNode /\ j \in log[r].arg
                => \E a \in (r + 1)..Len(log) : added(a) /\ j \in log[a].arg}

\* quorumVotes.
QuorumVotes(voters) ==
    IF voters = {} THEN 1 ELSE Cardinality(voters) \div 2 + 1

-----------------------------------------------------------------------------
(* Voting.                                                                  *)

\* A bug: the terms of the last entries are not compared.
UpToDateByLength(log, lastLogIndex, lastLogTerm) == lastLogIndex >= Len(log)

\* RequestVote: is the candidate's log at least as up to date as this one?
UpToDate(log, lastLogIndex, lastLogTerm) ==
    \/ lastLogTerm > LastTerm(log)
    \/ lastLogTerm = LastTerm(log) /\ lastLogIndex >= Len(log)

-----------------------------------------------------------------------------
(* AppendEntries on the follower.                                           *)

\* The loop that walks ConflictIndex back to the first entry of its term.
ConflictIndex(log, prev) ==
    CHOOSE c \in 1..prev :
        /\ \A k \in c..prev : log[k].term = log[prev].term
        /\ c = 1 \/ log[c - 1].term # log[prev].term

\* entries, sent for the positions after prev, contradict log at or before n.
ConflictUpTo(log, prev, entries, n) ==
    \E k \in 1..Len(entries) :
        /\ prev + k <= n
        /\ prev + k <= Len(log)
        /\ log[prev + k].term # entries[k].term

\* A bug: an entry already there is kept whatever its term.
MergeKeepingOld(log, prev, entries) ==
    LET last == prev + Len(entries)
    IN  [n \in 1..(IF last >= Len(log) THEN last ELSE Len(log)) |->
            IF n <= Len(log) THEN log[n] ELSE entries[n - prev]]

\* A bug: a longer log loses its tail, conflict or not.
MergeCutting(log, prev, entries) == SubSeq(log, 1, prev) \o entries

\* The append loop: an entry already there with the same term is kept, the
\* first one with another term cuts the log and everything after it is the
\* message's; without a conflict a longer log keeps its tail.
Merge(log, prev, entries) ==
    LET last == prev + Len(entries)
        len  == IF ConflictUpTo(log, prev, entries, last) \/ last >= Len(log)
                THEN last ELSE Len(log)
    IN  [n \in 1..len |->
            IF n <= Len(log) /\ ~ConflictUpTo(log, prev, entries, n)
            THEN log[n] ELSE entries[n - prev]]

-----------------------------------------------------------------------------
(* AppendEntries on the leader.                                             *)

\* A bug: the index is not kept above 0.
NextAfterConflictUnfloored(log, conflictIndex, conflictTerm) == conflictIndex

\* A bug: the follower's index is the one to go on from, not to send first.
NextAfterConflictLate(log, conflictIndex, conflictTerm) == conflictIndex + 1

\* The search from the end of the leader's log for the conflict term: the
\* index after its last entry of that term if the entries behind it all have
\* greater terms, otherwise the follower's index; at least 1.
NextAfterConflict(log, conflictIndex, conflictTerm) ==
    LET hits == {i \in DOMAIN log :
                    /\ log[i].term = conflictTerm
                    /\ \A k \in (i + 1)..Len(log) : log[k].term > conflictTerm}
        next == IF conflictTerm # 0 /\ hits # {}
                THEN (CHOOSE i \in hits : TRUE) + 1
                ELSE conflictIndex
    IN  IF next < 1 THEN 1 ELSE next
=============================================================================
