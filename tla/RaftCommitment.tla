--------------------------- MODULE RaftCommitment ---------------------------
(***************************************************************************)
(* Why what is committed stays, as two inductive invariants of Raft's Spec *)
(* on top of ElectionInv and LogInv.                                       *)
(*                                                                         *)
(* By LogMatching the index and the term of an entry stand for it and for  *)
(* all that comes before it.  A position <<n, t>> is secured by a set B of *)
(* nodes that hold it if no log gets past it without going through it, and *)
(* none will unless a majority without B has gone to greater terms.        *)
(*                                                                         *)
(* With at most four voters any two of them block every majority, so a     *)
(* leader and one follower that has accepted its entries secure them for   *)
(* good, and it is harmless that sendAppendEntries counts replies of an    *)
(* earlier leadership: CommitInv.  In a cluster of five it is not.  As     *)
(* long as a leader counts only replies to requests of its term, those who *)
(* have accepted its entries secure them together, once a majority has, in *)
(* a cluster of any size: CreditInv.                                       *)
(***************************************************************************)
EXTENDS RaftLogMatching

-----------------------------------------------------------------------------
(* What the election and the links say besides.                             *)

\* Votes are asked for and cast by founding voters, in terms from 1 on that the
\* candidate has reached.
VotesAsked ==
    /\ \A m \in rpcs : m.kind = "RequestVote" =>
          m.src \in Bootstrap /\ m.term <= currentTerm[m.src]
    /\ \A g \in granted : g[1] > 0 /\ g[3] \in Bootstrap /\ g[1] <= currentTerm[g[3]]

\* As long as nobody is elected in its term, a candidate's log is the one its
\* requests describe.
VoteRequestsSound ==
    \A m \in rpcs :
        /\ m.kind = "RequestVote"
        /\ state[m.src] = Candidate /\ currentTerm[m.src] = m.term
        /\ \A n \in Node : <<m.term, n>> \notin elected
        => m.lastLogIndex = Len(log[m.src]) /\ m.lastLogTerm = LastTerm(log[m.src])

\* AppendEntries goes from one founding voter to another.
AmongFounders ==
    \A m \in rpcs : m.kind \in {"AppendEntries", "AppendEntriesReply"} =>
        m.src \in Bootstrap /\ m.dst \in Bootstrap /\ m.src # m.dst

\* The index of the last entry a request covers, as its reply reports it.
LastSent(m) == m.prevLogIndex + Len(m.entries)

\* A request runs to the end of its leader's log, and tells no commit index
\* beyond that.
CommitWithinSent == \A m \in Requests : m.leaderCommit <= LastSent(m)

\* Terms do not decrease along a log.
Ascending(links) == \A a \in links : a[2] <= a[3].term

LinksAscend == Ascending(Links)

\* The entries of a term follow one another: only the first of them comes
\* after an entry of another term.
Unbroken(links) ==
    \A a, b \in links : a[3].term = b[3].term /\ a[1] < b[1] => b[2] = b[3].term

TermsUnbroken == Unbroken(Links)

-----------------------------------------------------------------------------
(* Secured positions.                                                       *)

\* The position <<k, u>> is <<n, t>> or one past it: of a greater term, or
\* further on in the same.
Reaches(k, u, n, t) == u > t \/ (u = t /\ k >= n)

\* No link leads past <<n, t>> from before it, but the one that leads to it.
OnlyThrough(links, n, t) ==
    \A a \in links : Reaches(a[1], a[3].term, n, t) =>
        \/ a[1] = n /\ a[3].term = t
        \/ Reaches(a[1] - 1, a[2], n, t)

Has(i, n, t) == n \in DOMAIN log[i] /\ log[i][n].term = t

\* A candidate of a greater term with the vote of v has a log past <<n, t>>,
\* unless its election can no longer succeed.
BallotsReach(v, n, t) ==
    \A c \in Node :
        /\ state[c] = Candidate /\ currentTerm[c] > t
        /\ <<currentTerm[c], v, c>> \in granted
        /\ \A e \in Node : <<currentTerm[c], e>> \notin elected
        => Reaches(Len(log[c]), LastTerm(log[c]), n, t)

Secured(B, n, t) ==
    /\ \A v \in B : Has(v, n, t) /\ BallotsReach(v, n, t)
    /\ OnlyThrough(Links, n, t)

\* No majority has gone to terms past t without a member of B.
Undecided(B, t) ==
    \A Q \in SUBSET Bootstrap :
        Cardinality(Q) = QuorumVotes(Bootstrap) /\ Q \cap B = {}
            => \E q \in Q : ~(currentTerm[q] > t)

\* Every majority has a member in B.
Blocking(B) ==
    \A Q \in SUBSET Bootstrap : Cardinality(Q) = QuorumVotes(Bootstrap) => Q \cap B # {}

-----------------------------------------------------------------------------
(* What is secured.                                                         *)

\* The sender's, of a request whose addressee can still accept it.
PendingSecured ==
    \A m \in Requests :
        currentTerm[m.dst] <= m.term => Secured({m.src}, LastSent(m), m.term)

\* What a follower has accepted.
RepliesSecured ==
    \A m \in rpcs : m.kind = "AppendEntriesReply" /\ m.success =>
        Secured({m.src, m.dst}, m.lastSent, m.term)

\* What a leader has been told, in this leadership or an earlier one.
MatchSecured ==
    \A i, j \in Node : matchIndex[i][j] > 0 =>
        /\ i \in Bootstrap /\ j \in Bootstrap /\ i # j
        /\ Secured({i, j}, matchIndex[i][j], TermAt(log[i], matchIndex[i][j]))

\* Node w is one of a blocking set that secures its n-th entry.
Fixed(w, n) ==
    \E B \in SUBSET Bootstrap :
        w \in B /\ Blocking(B) /\ Secured(B, n, TermAt(log[w], n))

\* What a node knows as committed is part of what is fixed, in a term it has reached.
CommitSecured ==
    \A i \in Node : commitIndex[i] > 0 =>
        /\ commitIndex[i] <= Len(log[i])
        /\ \E w \in Node : \E n \in DOMAIN log[w] :
              /\ commitIndex[i] <= n /\ log[w][n].term <= currentTerm[i]
              /\ log[w][commitIndex[i]].term = log[i][commitIndex[i]].term
              /\ Fixed(w, n)

\* What a leader tells as committed.
RequestCommitsSecured ==
    \A m \in Requests : m.leaderCommit > 0 =>
        \E w \in Node : \E n \in DOMAIN log[w] :
            m.leaderCommit <= n /\ log[w][n].term <= m.term /\ Fixed(w, n)

\* What everything said about committed entries rests on.
CommitCore ==
    /\ VotesAsked
    /\ VoteRequestsSound
    /\ AmongFounders
    /\ CommitWithinSent
    /\ LinksAscend
    /\ TermsUnbroken
    /\ CommitSecured
    /\ RequestCommitsSecured

\* The inductive invariant of clusters of at most four voters.
CommitInv ==
    /\ CommitCore
    /\ PendingSecured
    /\ RepliesSecured
    /\ MatchSecured

-----------------------------------------------------------------------------
(* Clusters of any size, if replies are credited in their term.             *)

\* The check that sendAppendEntries lacks after its call: a leader credits a reply
\* only in the term of its request.
CreditsInTerm ==
    \A m \in rpcs :
        HandleAppendEntriesReply(m) /\ state[m.dst] = Leader /\ m.success
            => m.term = currentTerm[m.dst]

\* The behaviours of Raft in which every reply that counts is one of its term.
CreditSpec == Spec /\ [][CreditsInTerm]_vars

\* A reply to a request of the term that i is in.
Acknowledgement(m, i) ==
    m.kind = "AppendEntriesReply" /\ m.success /\ m.dst = i /\ m.term = currentTerm[i]

\* Who has accepted the log of the leader i up to n, by what i has been told or will be.
Acceptors(i, n) ==
    {i} \cup {j \in Node : \/ matchIndex[i][j] >= n
                           \/ \E m \in rpcs : /\ Acknowledgement(m, i) /\ m.src = j
                                              /\ m.lastSent >= n}

\* What a node has been told as a leader comes from other founding voters.
CreditsAmongFounders ==
    \A i, j \in Node : matchIndex[i][j] > 0 => i \in Bootstrap /\ j \in Bootstrap /\ i # j

\* Who is told that its entries were accepted was elected in the term it is told of.
AnswersElected ==
    \A m \in rpcs : m.kind = "AppendEntriesReply" /\ m.success
        => <<m.term, m.dst>> \in elected

\* A leader holds the end of all that it has sent in its term.
LeadersHoldSent ==
    \A i \in Node : state[i] = Leader =>
        /\ \A j \in Node : matchIndex[i][j] > 0 => Has(i, matchIndex[i][j], currentTerm[i])
        /\ \A m \in rpcs : Acknowledgement(m, i) => Has(i, m.lastSent, currentTerm[i])
        /\ \A m \in Requests : m.src = i /\ m.term = currentTerm[i]
                                   => Has(i, LastSent(m), currentTerm[i])

\* The acceptors of an entry have reached its leader's term, and hold the entry at
\* least until they leave that term.
AcceptorsHold ==
    \A i \in Node : state[i] = Leader => \A n \in DOMAIN log[i] :
        log[i][n].term = currentTerm[i] => \A j \in Acceptors(i, n) :
            /\ currentTerm[j] >= currentTerm[i]
            /\ currentTerm[j] = currentTerm[i] => Has(j, n, currentTerm[i])

\* The acceptors of an entry of their leader's term secure it, as long as no majority
\* without them has left that term.
AcceptorsSecure ==
    \A i \in Node : state[i] = Leader => \A n \in DOMAIN log[i] :
        log[i][n].term = currentTerm[i] /\ Undecided(Acceptors(i, n), currentTerm[i])
            => Secured(Acceptors(i, n), n, currentTerm[i])

\* The inductive invariant of clusters of any size, while CreditsInTerm.
CreditInv ==
    /\ CommitCore
    /\ CreditsAmongFounders
    /\ AnswersElected
    /\ LeadersHoldSent
    /\ AcceptorsHold
    /\ AcceptorsSecure
=============================================================================
