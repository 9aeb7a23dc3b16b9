-------------------------- MODULE RaftReadFreshness --------------------------
(***************************************************************************)
(* Why a round of heartbeats confirms a read, as an inductive invariant of *)
(* ReadSpec on top of ReadTypeOK and Raft's CommitCore: in clusters of at  *)
(* most four voters, and of any size while replies are credited in their   *)
(* term (CreditReadSpec).                                                  *)
(*                                                                         *)
(* When the reader chooses its target, the leader's commit index, what was *)
(* committed when the read began is either below it, or was committed in a *)
(* greater term: then every node of a set that blocks every majority has   *)
(* reached such a term, and none of them will acknowledge a heartbeat that *)
(* is sent from now on.                                                    *)
(***************************************************************************)
EXTENDS RaftReadIndex, RaftCommitment

\* The index c is part of what is fixed, and a leader of the term of the entry
\* there knows it as committed.
KnownCommit(c) ==
    \E w \in Node : \E n \in DOMAIN log[w] :
        /\ c <= n /\ Fixed(w, n)
        /\ \A l \in Node : state[l] = Leader /\ currentTerm[l] = log[w][c].term
                               => c <= commitIndex[l]

\* Whatever a node or a request tells as committed.
CommitsKnown ==
    /\ \A i \in Node : commitIndex[i] > 0 => KnownCommit(commitIndex[i])
    /\ \A m \in Requests : m.leaderCommit > 0 => KnownCommit(m.leaderCommit)

\* The call from i to j that i awaits: its request, or the reply.
CallOf(m, i, j) ==
    \/ m.kind = "AppendEntries" /\ m.awaited /\ m.src = i /\ m.dst = j
    \/ m.kind = "AppendEntriesReply" /\ m.dst = i /\ m.src = j

\* appendInFlight admits one call at a time.
CallsAwaited ==
    \A m \in rpcs : \A i, j \in Node : CallOf(m, i, j) =>
        /\ j \in appendInFlight[i]
        /\ \A q \in rpcs : CallOf(q, i, j) => q = m

\* The nodes of B are past the term of the reader's leader: while that term lasts,
\* they have acknowledged no heartbeat of the round, and will not.
Ahead(rec, B) ==
    /\ rec.node \notin B
    /\ rec.leaderTerm <= currentTerm[rec.node]
    /\ \A v \in B : currentTerm[v] > rec.leaderTerm
    /\ currentTerm[rec.node] = rec.leaderTerm =>
          \A v \in B :
              /\ rec.heartbeat[v] \notin {"Success", "Ack"}
              /\ rec.heartbeat[v] = "Calling" =>
                     \A m \in rpcs : /\ m.kind = "AppendEntriesReply" /\ m.success
                                     /\ m.src = v /\ m.dst = rec.node
                                     => m.term > rec.leaderTerm

\* The target is all the read has to see, or its leader is past.
TargetSuffices(rec) ==
    rec.floor <= rec.targetIndex \/ \E B \in SUBSET Bootstrap : Blocking(B) /\ Ahead(rec, B)

\* A reader on its way to an answer that is fresh.
FloorMet(rec) ==
    /\ rec.pc \in {"Queued", "AwaitingNoOp"} /\ rec.floor > 0 => KnownCommit(rec.floor)
    /\ rec.pc \in {"Targets", "Collecting"} => TargetSuffices(rec)
    /\ rec.pc # "Returned" => rec.result = "None"
    /\ rec.result = "Ok" /\ rec.via = "Quorum" => rec.floor <= rec.targetIndex

FloorsMet == \A r \in Reader : FloorMet(read[r])

\* A round asks the other founding voters, and wants a majority with the node itself.
Round(rec) ==
    rec.pc = "Collecting" =>
        /\ rec.node \in Bootstrap
        /\ rec.quorum = QuorumVotes(Bootstrap)
        /\ \A j \in Node : rec.heartbeat[j] # "None" => j \in Bootstrap \ {rec.node}

RoundsOfFounders == \A r \in Reader : Round(read[r])

\* Reads from a Raft in which every reply that counts is one of its term.
CreditReadSpec == ReadSpec /\ [][CreditsInTerm]_vars

\* The inductive invariant behind QuorumReadsFresh.
FreshInv ==
    /\ CommitsKnown
    /\ CallsAwaited
    /\ RoundsOfFounders
    /\ FloorsMet
=============================================================================
