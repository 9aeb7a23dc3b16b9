----------------------- MODULE RaftLogMatchingProofs -----------------------
(***************************************************************************)
(* LogMatching is an invariant of Spec, for every set of nodes, founding   *)
(* cluster, set of commands and bound, with any requests lost, late or     *)
(* executed out of order.  And which action changes terms, votes, messages *)
(* and logs how, as the proofs about commitment need it.                   *)
(***************************************************************************)
EXTENDS RaftLogMatching, RaftElectionProofs

-----------------------------------------------------------------------------
(* About logs.                                                              *)

\* Every link of a merged log is one of the log or one of the message: at the
\* splice both have the same term before (service.go:42-86).
LEMMA MergeLinks ==
    ASSUME NEW S, NEW l \in Seq(S), NEW entries \in Seq(S), NEW prev \in 0..Len(l)
    PROVE  LogLinks(Merge(l, prev, entries))
               \subseteq LogLinks(l) \cup EntryLinks(prev, TermAt(l, prev), entries)
<1> DEFINE M == Merge(l, prev, entries)
           keep(n) == n <= Len(l) /\ ~ConflictUpTo(l, prev, entries, n)
           len == IF ConflictUpTo(l, prev, entries, prev + Len(entries))
                     \/ prev + Len(entries) >= Len(l)
                  THEN prev + Len(entries) ELSE Len(l)
<1>1. Len(l) \in Nat /\ Len(entries) \in Nat
      /\ DOMAIN l = 1..Len(l) /\ DOMAIN entries = 1..Len(entries)
  BY LenProperties
<1>2. len \in Nat /\ M = [n \in 1..len |-> IF keep(n) THEN l[n] ELSE entries[n - prev]]
  BY <1>1 DEF Merge
<1>3. /\ DOMAIN M = 1..len
      /\ \A n \in 1..len : /\ keep(n) => M[n] = l[n]
                           /\ ~keep(n) => M[n] = entries[n - prev]
  <2> HIDE DEF M, keep, len
  <2> QED BY <1>2
<1>4. ASSUME NEW k \in 1..len, ~keep(k)
      PROVE  k - prev \in 1..Len(entries) /\ M[k] = entries[k - prev]
  <2>1. M[k] = entries[k - prev]
    BY <1>3, <1>4
  <2>2. CASE k > Len(l)
    <3>1. k <= prev + Len(entries)
      BY <2>2, <1>1
    <3> QED BY <2>1, <2>2, <3>1, <1>1
  <2>3. CASE k <= Len(l)
    <3>1. PICK n \in 1..Len(entries) : prev + n <= k /\ prev + n <= Len(l)
                                       /\ l[prev + n].term # entries[n].term
      BY <1>4, <2>3 DEF ConflictUpTo
    <3>2. ConflictUpTo(l, prev, entries, prev + Len(entries))
      BY <1>1, <3>1 DEF ConflictUpTo
    <3>3. k <= prev + Len(entries) /\ k > prev
      BY <3>1, <3>2, <1>1
    <3> QED BY <2>1, <3>3, <1>1
  <2> QED BY <2>2, <2>3, <1>1
<1>5. ASSUME NEW k \in 1..len, keep(k), k > 1
      PROVE  k - 1 \in 1..len /\ keep(k - 1)
  <2>1. \A n \in 1..Len(entries) : prev + n <= k - 1 => prev + n <= k
    BY <1>1
  <2>2. ~ConflictUpTo(l, prev, entries, k - 1)
    BY <1>5, <2>1 DEF ConflictUpTo
  <2> QED BY <1>1, <1>2, <1>5, <2>2
<1>6. ASSUME NEW k \in DOMAIN M
      PROVE  <<k, TermAt(M, k - 1), M[k]>>
                 \in LogLinks(l) \cup EntryLinks(prev, TermAt(l, prev), entries)
  <2>1. k \in 1..len /\ k \in Nat /\ k >= 1
    BY <1>2, <1>3, <1>6
  <2>2. CASE keep(k)
    <3>1. M[k] = l[k] /\ k \in DOMAIN l
      BY <1>1, <1>3, <2>1, <2>2
    <3>2. TermAt(M, k - 1) = TermAt(l, k - 1)
      <4>1. CASE k = 1
        BY <4>1 DEF TermAt
      <4>2. CASE k > 1
        <5>1. M[k - 1] = l[k - 1] /\ k - 1 # 0
          BY <1>3, <1>5, <2>1, <2>2, <4>2
        <5> QED BY <5>1 DEF TermAt
      <4> QED BY <2>1, <4>1, <4>2
    <3> QED BY <3>1, <3>2 DEF LogLinks
  <2>3. CASE ~keep(k)
    <3> DEFINE n == k - prev
    <3>1. n \in DOMAIN entries /\ M[k] = entries[n] /\ k = prev + n /\ n \in Nat
      BY <1>1, <1>4, <2>1, <2>3
    <3>2. TermAt(M, k - 1) = IF n = 1 THEN TermAt(l, prev) ELSE entries[n - 1].term
      <4>1. CASE n = 1 /\ prev = 0
        BY <3>1, <4>1 DEF TermAt
      <4>2. CASE n = 1 /\ prev # 0
        <5>1. k - 1 = prev /\ prev \in 1..len
          BY <1>1, <1>2, <2>1, <3>1, <4>2
        <5>2. keep(prev)
          BY <1>1 DEF ConflictUpTo
        <5>3. M[prev] = l[prev]
          BY <1>3, <5>1, <5>2
        <5> QED BY <4>2, <5>1, <5>3 DEF TermAt
      <4>3. CASE n # 1
        <5>1. k - 1 \in 1..len /\ k - 1 = prev + (n - 1) /\ n - 1 \in 1..Len(entries)
          BY <1>1, <1>2, <2>1, <3>1, <4>3
        <5>2. M[k - 1].term = entries[n - 1].term
          <6>1. CASE keep(k - 1)
            <7>1. M[k - 1] = l[k - 1]
              BY <1>3, <5>1, <6>1
            <7>2. l[prev + (n - 1)].term = entries[n - 1].term
              BY <5>1, <6>1 DEF ConflictUpTo
            <7> QED BY <5>1, <7>1, <7>2
          <6>2. CASE ~keep(k - 1)
            <7>1. M[k - 1] = entries[(k - 1) - prev] /\ (k - 1) - prev = n - 1
              BY <1>1, <1>4, <5>1, <6>2
            <7> QED BY <7>1
          <6> QED BY <6>1, <6>2
        <5>3. k - 1 # 0
          BY <5>1
        <5> QED BY <4>3, <5>2, <5>3 DEF TermAt
      <4> QED BY <4>1, <4>2, <4>3
    <3> HIDE DEF n
    <3>3. <<k, TermAt(M, k - 1), M[k]>> = <<prev + n, TermAt(M, k - 1), entries[n]>>
      BY <3>1
    <3> QED BY <3>1, <3>2, <3>3 DEF EntryLinks
  <2> QED BY <2>2, <2>3
<1> HIDE DEF M
<1>7. LogLinks(M) \subseteq LogLinks(l) \cup EntryLinks(prev, TermAt(l, prev), entries)
  BY <1>6 DEF LogLinks
<1> QED BY <1>7 DEF M

\* What a leader sends has the links of its log (replication.go:29-41).
LEMMA TailLinks ==
    ASSUME NEW S, NEW l \in Seq(S), NEW next \in Nat, next >= 1, next <= Len(l) + 1
    PROVE  EntryLinks(next - 1, TermAt(l, next - 1), SubSeq(l, next, Len(l))) \subseteq LogLinks(l)
<1> DEFINE sent == SubSeq(l, next, Len(l))
<1>1. /\ sent \in Seq(S)
      /\ \A k \in DOMAIN sent : k + next - 1 \in DOMAIN l /\ sent[k] = l[k + next - 1]
  BY TailEntries
<1>2. DOMAIN sent = 1..Len(sent) /\ Len(sent) \in Nat
  BY <1>1, LenProperties
<1> HIDE DEF sent
<1>3. ASSUME NEW k \in DOMAIN sent
      PROVE  <<(next - 1) + k, IF k = 1 THEN TermAt(l, next - 1) ELSE sent[k - 1].term, sent[k]>>
                 \in LogLinks(l)
  <2>1. k \in Nat /\ k >= 1 /\ (next - 1) + k = k + next - 1
    BY <1>2, <1>3
  <2>2. TermAt(l, (k + next - 1) - 1) = IF k = 1 THEN TermAt(l, next - 1) ELSE sent[k - 1].term
    <3>1. CASE k = 1
      BY <2>1, <3>1
    <3>2. CASE k # 1
      <4>1. k - 1 \in DOMAIN sent /\ (k - 1) + next - 1 = (k + next - 1) - 1
            /\ (k + next - 1) - 1 # 0
        BY <1>2, <2>1, <3>2
      <4>2. sent[k - 1] = l[(k + next - 1) - 1]
        BY <1>1, <4>1
      <4> QED BY <3>2, <4>1, <4>2 DEF TermAt
    <3> QED BY <3>1, <3>2
  <2>3. k + next - 1 \in DOMAIN l /\ sent[k] = l[k + next - 1]
    BY <1>1
  <2> QED BY <2>1, <2>2, <2>3 DEF LogLinks
<1>4. EntryLinks(next - 1, TermAt(l, next - 1), sent) \subseteq LogLinks(l)
  BY <1>3 DEF EntryLinks
<1> QED BY <1>4 DEF sent

\* Where two logs have an entry of the same index and term, unique links make
\* them agree from there down.
LEMMA UniqueLinksMatch ==
    ASSUME TypeOK, LinksUnique
    PROVE  LogMatching
<1> SUFFICES ASSUME NEW i \in Node, NEW j \in Node,
                    NEW k \in DOMAIN log[i] \cap DOMAIN log[j],
                    log[i][k].term = log[j][k].term
             PROVE  Agree(log[i], log[j], k)
  BY DEF LogMatching
<1>1. /\ DOMAIN log[i] = 1..Len(log[i]) /\ DOMAIN log[j] = 1..Len(log[j])
      /\ Len(log[i]) \in Nat /\ Len(log[j]) \in Nat
  BY LogFacts
<1>2. k \in Nat /\ k >= 1 /\ k <= Len(log[i]) /\ k <= Len(log[j])
  BY <1>1
<1>3. ASSUME NEW n \in 1..k, log[i][n].term = log[j][n].term
      PROVE  log[i][n] = log[j][n] /\ TermAt(log[i], n - 1) = TermAt(log[j], n - 1)
  <2> DEFINE a == <<n, TermAt(log[i], n - 1), log[i][n]>>
             b == <<n, TermAt(log[j], n - 1), log[j][n]>>
  <2>1. n \in DOMAIN log[i] /\ n \in DOMAIN log[j]
    BY <1>1, <1>2
  <2>2. a \in LogLinks(log[i]) /\ b \in LogLinks(log[j])
    BY <2>1 DEF LogLinks
  <2>3. a \in Links /\ b \in Links
    BY <2>2 DEF Links
  <2>4. a = b
    BY <1>3, <2>3 DEF LinksUnique
  <2> QED BY <2>4
<1> DEFINE differ == {n \in 1..k : log[i][n] # log[j][n]}
<1>4. differ = {}
  <2> SUFFICES ASSUME differ # {} PROVE FALSE
    OBVIOUS
  <2>1. differ \in SUBSET Nat /\ \A n \in differ : n <= k
    BY <1>2
  <2>2. PICK g \in differ : \A n \in differ : n <= g
    <3> HIDE DEF differ
    <3> QED BY <2>1, <1>2, GreatestExists
  <2>3. g \in 1..k /\ log[i][g] # log[j][g]
    BY <2>2
  <2>4. g # k
    BY <1>2, <1>3, <2>3
  <2>5. g + 1 \in 1..k /\ g + 1 \notin differ /\ (g + 1) - 1 = g /\ g # 0
    BY <1>2, <2>2, <2>3, <2>4
  <2>6. log[i][g + 1] = log[j][g + 1]
    BY <2>5
  <2>7. TermAt(log[i], g) = TermAt(log[j], g)
    BY <1>3, <2>5, <2>6
  <2>8. log[i][g].term = log[j][g].term
    BY <2>5, <2>7 DEF TermAt
  <2> QED BY <1>3, <2>3, <2>8
<1> QED BY <1>2, <1>4 DEF Agree

-----------------------------------------------------------------------------
(* What most steps have in common.                                          *)

\* A step that makes no link keeps what is known of the links there are.
LEMMA NoNewLinks ==
    ASSUME TermInv, LogInv, Links' \subseteq Links, elected' = elected,
           \A e \in elected : e[1] = currentTerm'[e[2]] =>
               e[1] = currentTerm[e[2]] /\ log'[e[2]] = log[e[2]]
    PROVE  LinksUnique' /\ LinksElected' /\ LeaderHolds'
<1>1. LinksUnique'
  BY DEF LogInv, LinksUnique
<1>2. LinksElected'
  BY DEF LogInv, LinksElected
<1>3. LeaderHolds'
  BY DEF LogInv, LeaderHolds
<1> QED BY <1>1, <1>2, <1>3

\* In particular one that leaves the logs alone and sends only what is there.
LEMMA LogsUnchanged ==
    ASSUME TermInv, LogInv, log' = log, elected' = elected,
           \A n \in Node : currentTerm[n] <= currentTerm'[n],
           currentTerm' \in [Node -> Nat],
           \A m \in Requests' : SentLinks(m) \subseteq Links
    PROVE  LinksUnique' /\ LinksElected' /\ LeaderHolds'
<1>1. Links' = (UNION {LogLinks(log[n]) : n \in Node})
                  \cup (UNION {SentLinks(m) : m \in Requests'})
  BY DEF Links
<1>2. UNION {LogLinks(log[n]) : n \in Node} \subseteq Links
  BY DEF Links
<1>3. Links' \subseteq Links
  BY <1>1, <1>2
<1>4. ASSUME NEW e \in elected, e[1] = currentTerm'[e[2]]
      PROVE  e[1] = currentTerm[e[2]] /\ log'[e[2]] = log[e[2]]
  <2>1. e[2] \in Node /\ e[1] \in Nat
    BY DEF TermInv, TypeOK
  <2>2. e[1] <= currentTerm[e[2]] /\ currentTerm[e[2]] \in Nat
    BY <2>1 DEF TermInv, ElectionsBehind, TypeOK
  <2> QED BY <1>4, <2>1, <2>2
<1> QED BY <1>3, <1>4, NoNewLinks

\* The links of a request under way are known.
LEMMA KnownLinks ==
    ASSUME NEW m \in Requests
    PROVE  SentLinks(m) \subseteq Links
BY DEF Links

\* Without an election a candidate is one that was there, or has begun a term.
LEMMA CandidatesStayFresh ==
    ASSUME TermInv, CandidatesFresh, elected' = elected,
           currentTerm' \in [Node -> Nat],
           \A n \in Node : state'[n] = Candidate =>
               \/ state[n] = Candidate /\ currentTerm'[n] = currentTerm[n]
               \/ currentTerm'[n] > currentTerm[n]
    PROVE  CandidatesFresh'
<1> SUFFICES ASSUME NEW n \in Node, state'[n] = Candidate,
                    <<currentTerm'[n], n>> \in elected
             PROVE  FALSE
  BY DEF CandidatesFresh
<1>1. CASE state[n] = Candidate /\ currentTerm'[n] = currentTerm[n]
  BY <1>1 DEF CandidatesFresh
<1>2. CASE currentTerm'[n] > currentTerm[n]
  <2>1. currentTerm'[n] <= currentTerm[n]
    BY DEF TermInv, ElectionsBehind
  <2>2. currentTerm[n] \in Nat /\ currentTerm'[n] \in Nat
    BY DEF TermInv, TypeOK
  <2> QED BY <1>2, <2>1, <2>2
<1> QED BY <1>1, <1>2

\* A step in which no log changes, nobody is elected and no request is made.
LEMMA QuietStep ==
    ASSUME TermInv, LogInv, log' = log, elected' = elected,
           currentTerm' \in [Node -> Nat],
           \A n \in Node : currentTerm[n] <= currentTerm'[n],
           \A m \in Requests' : SentLinks(m) \subseteq Links,
           \A n \in Node : state'[n] = Candidate =>
               \/ state[n] = Candidate /\ currentTerm'[n] = currentTerm[n]
               \/ currentTerm'[n] > currentTerm[n]
    PROVE  LogInv'
<1>1. LinksUnique' /\ LinksElected' /\ LeaderHolds'
  BY LogsUnchanged
<1>2. CandidatesFresh'
  BY CandidatesStayFresh DEF LogInv
<1> QED BY <1>1, <1>2 DEF LogInv

-----------------------------------------------------------------------------
(* Init and the actions.                                                    *)

LEMMA InitLogInv == Init => LogInv
<1> SUFFICES ASSUME Init PROVE LogInv
  OBVIOUS
<1>1. \A n \in Node : LogLinks(log[n]) = {}
  BY DEF Init, LogLinks
<1>2. Requests = {}
  BY DEF Init, Requests
<1>3. Links = {}
  BY <1>1, <1>2 DEF Links
<1> QED BY <1>3 DEF Init, LogInv, LinksUnique, LinksElected, LeaderHolds, CandidatesFresh,
                    Follower, Candidate

\* What StartElection, a lost vote and a vote asked for have in common: no request
\* for entries appears.
LEMMA RequestsGone ==
    ASSUME Requests' \subseteq Requests
    PROVE  \A m \in Requests' : SentLinks(m) \subseteq Links
BY KnownLinks

LEMMA StartElectionLogInv ==
    ASSUME TermInv, LogInv, NEW i \in Node, StartElection(i)
    PROVE  LogInv'
<1> USE DEF StartElection
<1>1. currentTerm \in [Node -> Nat] /\ state \in [Node -> {Follower, Candidate, Leader}]
  BY DEF TermInv, TypeOK
<1>2. /\ currentTerm' = [currentTerm EXCEPT ![i] = currentTerm[i] + 1]
      /\ state' = [state EXCEPT ![i] = Candidate]
      /\ log' = log /\ elected' = elected
      /\ rpcs' = rpcs \cup {VoteRequest(i, j, currentTerm[i] + 1, Len(log[i]), LastTerm(log[i])) :
                              j \in VotersOf(i) \ {i}}
  OBVIOUS
<1>3. \A j : VoteRequest(i, j, currentTerm[i] + 1, Len(log[i]), LastTerm(log[i])).kind
                 = "RequestVote"
  BY DEF VoteRequest
<1>4. Requests' \subseteq Requests
  BY <1>2, <1>3 DEF Requests
<1>5. \A m \in Requests' : SentLinks(m) \subseteq Links
  BY <1>4, RequestsGone
<1>6. currentTerm' \in [Node -> Nat] /\ \A n \in Node : currentTerm[n] <= currentTerm'[n]
  BY <1>1, <1>2
<1>7. ASSUME NEW n \in Node, state'[n] = Candidate
      PROVE  \/ state[n] = Candidate /\ currentTerm'[n] = currentTerm[n]
             \/ currentTerm'[n] > currentTerm[n]
  BY <1>1, <1>2, <1>7
<1> HIDE DEF StartElection
<1> QED BY <1>2, <1>5, <1>6, <1>7, QuietStep

\* A node that becomes follower makes no candidate.
LEMMA FollowerStep ==
    ASSUME TermInv, LogInv, NEW i \in Node, NEW term \in Nat, term >= currentTerm[i],
           BecomeFollower(i, term), log' = log, elected' = elected,
           Requests' \subseteq Requests
    PROVE  LogInv'
<1>1. currentTerm \in [Node -> Nat] /\ state \in [Node -> {Follower, Candidate, Leader}]
  BY DEF TermInv, TypeOK
<1>2. /\ currentTerm' = [currentTerm EXCEPT ![i] = term]
      /\ state' = [state EXCEPT ![i] = Follower]
  BY DEF BecomeFollower
<1>3. currentTerm' \in [Node -> Nat] /\ \A n \in Node : currentTerm[n] <= currentTerm'[n]
  BY <1>1, <1>2
<1>4. \A m \in Requests' : SentLinks(m) \subseteq Links
  BY RequestsGone
<1>5. \A n \in Node : state'[n] = Candidate =>
         state[n] = Candidate /\ currentTerm'[n] = currentTerm[n]
  BY <1>1, <1>2 DEF Follower, Candidate
<1> QED BY <1>3, <1>4, <1>5, QuietStep

\* A step that leaves terms, states and logs alone.
LEMMA MessageStep ==
    ASSUME TermInv, LogInv, currentTerm' = currentTerm, state' = state, log' = log,
           elected' = elected, \A m \in Requests' : SentLinks(m) \subseteq Links
    PROVE  LogInv'
<1>1. currentTerm \in [Node -> Nat]
  BY DEF TermInv, TypeOK
<1>2. currentTerm' \in [Node -> Nat] /\ \A n \in Node : currentTerm[n] <= currentTerm'[n]
  BY <1>1
<1> QED BY <1>2, QuietStep

\* No answer is a request.
LEMMA AnswerNoRequest ==
    ASSUME NEW m, NEW r, r.kind # "AppendEntries", Answer(m, r)
    PROVE  Requests' \subseteq Requests
BY DEF Answer, Requests

LEMMA HandleRequestVoteLogInv ==
    ASSUME TermInv, LogInv, NEW m \in rpcs, HandleRequestVote(m)
    PROVE  LogInv'
<1> DEFINE i == m.dst
<1>1. m \in VoteRequestType /\ i \in Node /\ m.term \in Nat
  BY MessageKinds DEF HandleRequestVote, VoteRequestType, TermInv
<1>2. currentTerm \in [Node -> Nat] /\ state \in [Node -> {Follower, Candidate, Leader}]
  BY DEF TermInv, TypeOK
<1>3. \A t, g : VoteReply(m, t, g).kind # "AppendEntries"
  BY DEF VoteReply
<1>4. CASE RefuseStaleVote(m) \/ RefuseWhileLeaderAlive(m)
  <2>1. Answer(m, VoteReply(m, currentTerm[i], FALSE))
    BY <1>4 DEF RefuseStaleVote, RefuseWhileLeaderAlive
  <2>2. Requests' \subseteq Requests
    BY <1>3, <2>1, AnswerNoRequest
  <2>3. currentTerm' = currentTerm /\ state' = state /\ log' = log /\ elected' = elected
    BY <1>4 DEF RefuseStaleVote, RefuseWhileLeaderAlive, persistent, history
  <2> QED BY <2>2, <2>3, RequestsGone, MessageStep
<1>5. CASE DecideVote(m)
  <2>1. Answer(m, VoteReply(m, m.term, MayVote(i, m)))
    BY <1>5 DEF DecideVote
  <2>2. Requests' \subseteq Requests
    BY <1>3, <2>1, AnswerNoRequest
  <2>3. /\ currentTerm' = [currentTerm EXCEPT ![i] = m.term] /\ m.term >= currentTerm[i]
        /\ log' = log /\ elected' = elected
        /\ m.term > currentTerm[i] => state' = [state EXCEPT ![i] = Follower]
        /\ ~(m.term > currentTerm[i]) => state' = state
    BY <1>5 DEF DecideVote
  <2>4. currentTerm' \in [Node -> Nat] /\ \A n \in Node : currentTerm[n] <= currentTerm'[n]
    BY <1>1, <1>2, <2>3
  <2>5. ASSUME NEW n \in Node, state'[n] = Candidate
        PROVE  state[n] = Candidate /\ currentTerm'[n] = currentTerm[n]
    BY <1>1, <1>2, <2>3, <2>5 DEF Follower, Candidate
  <2>6. \A r \in Requests' : SentLinks(r) \subseteq Links
    BY <2>2, RequestsGone
  <2> QED BY <2>3, <2>4, <2>5, <2>6, QuietStep
<1> QED BY <1>4, <1>5 DEF HandleRequestVote

LEMMA RequestVoteFailsLogInv ==
    ASSUME TermInv, LogInv, NEW m \in rpcs, RequestVoteFails(m)
    PROVE  LogInv'
<1>1. /\ Requests' \subseteq Requests
      /\ currentTerm' = currentTerm /\ state' = state /\ log' = log /\ elected' = elected
  BY DEF RequestVoteFails, persistent, history, Requests
<1> QED BY <1>1, RequestsGone, MessageStep

\* A leader sends links of its own log.
LEMMA SendAppendEntriesLogInv ==
    ASSUME TermInv, LogInv, NEW i \in Node, NEW j \in Node, SendAppendEntries(i, j)
    PROVE  LogInv'
<1> DEFINE next == nextIndex[i][j]
           sent == SubSeq(log[i], next, Len(log[i]))
           r == AppendRequest(i, j, currentTerm[i], next - 1, TermAt(log[i], next - 1),
                              sent, commitIndex[i])
<1>1. next \in Nat /\ next >= 1 /\ next <= Len(log[i]) + 1 /\ log[i] \in Seq(EntryRecord)
  BY SentFrom, LogFacts DEF TermInv
<1>2. /\ currentTerm' = currentTerm /\ state' = state /\ log' = log /\ elected' = elected
      /\ rpcs' = rpcs \cup {r}
  BY DEF SendAppendEntries, persistent, history
<1>3. r.prevLogIndex = next - 1 /\ r.prevLogTerm = TermAt(log[i], next - 1) /\ r.entries = sent
  BY DEF AppendRequest
<1>4. SentLinks(r) = EntryLinks(next - 1, TermAt(log[i], next - 1), sent)
  BY <1>3 DEF SentLinks
<1> HIDE DEF next
<1>5. EntryLinks(next - 1, TermAt(log[i], next - 1), sent) \subseteq LogLinks(log[i])
  BY <1>1, TailLinks
<1>6. LogLinks(log[i]) \subseteq Links
  BY DEF Links
<1> HIDE DEF r, sent
<1>7. ASSUME NEW m \in Requests' PROVE SentLinks(m) \subseteq Links
  <2>1. m \in Requests \/ m = r
    BY <1>2 DEF Requests
  <2> QED BY <1>4, <1>5, <1>6, <2>1, KnownLinks
<1> QED BY <1>2, <1>7, MessageStep

LEMMA AppendEntriesFailsLogInv ==
    ASSUME TermInv, LogInv, NEW m \in rpcs, AppendEntriesFails(m)
    PROVE  LogInv'
<1>1. /\ Requests' \subseteq Requests
      /\ currentTerm' = currentTerm /\ state' = state /\ log' = log /\ elected' = elected
  BY DEF AppendEntriesFails, persistent, history, Requests
<1> QED BY <1>1, RequestsGone, MessageStep

\* A request nobody awaits has the links it had.
LEMMA AppendEntriesTimeoutLogInv ==
    ASSUME TermInv, LogInv, NEW m \in rpcs, AppendEntriesTimeout(m)
    PROVE  LogInv'
<1> DEFINE late == [m EXCEPT !.awaited = FALSE]
<1>1. m \in AppendRequestType /\ m.kind = "AppendEntries"
  BY MessageKinds DEF AppendEntriesTimeout, TermInv
<1>2. /\ late.prevLogIndex = m.prevLogIndex /\ late.prevLogTerm = m.prevLogTerm
      /\ late.entries = m.entries
  BY <1>1 DEF AppendRequestType
<1>3. /\ rpcs' = (rpcs \ {m}) \cup {late}
      /\ currentTerm' = currentTerm /\ state' = state /\ log' = log /\ elected' = elected
  BY DEF AppendEntriesTimeout, persistent, history
<1>4. m \in Requests
  BY <1>1 DEF Requests
<1> HIDE DEF late
<1>5. SentLinks(late) = SentLinks(m)
  BY <1>2 DEF SentLinks
<1>6. ASSUME NEW r \in Requests' PROVE SentLinks(r) \subseteq Links
  <2>1. r \in Requests \/ r = late
    BY <1>3 DEF Requests
  <2> QED BY <1>4, <1>5, <2>1, KnownLinks
<1> QED BY <1>3, <1>6, MessageStep

LEMMA HandleAppendEntriesReplyLogInv ==
    ASSUME TermInv, LogInv, NEW m \in rpcs, HandleAppendEntriesReply(m)
    PROVE  LogInv'
<1>1. /\ m.dst \in Node /\ m.term \in Nat /\ currentTerm[m.dst] \in Nat
  BY MessageKinds DEF HandleAppendEntriesReply, AppendReplyType, TermInv, TypeOK
<1>2. log' = log /\ elected' = elected /\ rpcs' = rpcs \ {m}
  BY DEF HandleAppendEntriesReply, history
<1>3. Requests' \subseteq Requests
  BY <1>2 DEF Requests
<1>4. \/ currentTerm' = currentTerm /\ state' = state
      \/ m.term > currentTerm[m.dst] /\ BecomeFollower(m.dst, m.term)
  BY DEF HandleAppendEntriesReply
<1>5. CASE currentTerm' = currentTerm /\ state' = state
  BY <1>2, <1>3, <1>5, RequestsGone, MessageStep
<1>6. CASE m.term > currentTerm[m.dst] /\ BecomeFollower(m.dst, m.term)
  <2>1. m.term >= currentTerm[m.dst]
    BY <1>1, <1>6
  <2> QED BY <1>1, <1>2, <1>3, <1>6, <2>1, FollowerStep
<1> QED BY <1>4, <1>5, <1>6

LEMMA StepDownLogInv ==
    ASSUME TermInv, LogInv, NEW i \in Node, StepDown(i)
    PROVE  LogInv'
<1>1. currentTerm[i] \in Nat /\ currentTerm[i] >= currentTerm[i]
  BY DEF TermInv, TypeOK
<1>2. /\ BecomeFollower(i, currentTerm[i]) /\ log' = log /\ elected' = elected
      /\ Requests' \subseteq Requests
  BY DEF StepDown, history, Requests
<1> QED BY <1>1, <1>2, FollowerStep

\* Entries a node appends in the term it was elected in are the term's only ones
\* beyond what its log held, and there is one for each index.
LEMMA OwnEntries ==
    ASSUME TermInv, LogInv, NEW i \in Node,
           log'[i] \in Seq(EntryRecord), Len(log'[i]) >= Len(log[i]),
           \A k \in 1..Len(log[i]) : log'[i][k] = log[i][k],
           \A k \in 1..Len(log'[i]) : k > Len(log[i]) => log'[i][k].term = currentTerm[i],
           \A n \in Node \ {i} : log'[n] = log[n],
           currentTerm' = currentTerm, Requests' \subseteq Requests, ElectionSafety',
           elected' = elected \cup {<<currentTerm[i], i>>},
           \A a \in Links : a[3].term = currentTerm[i] => a[1] <= Len(log[i])
    PROVE  LinksUnique' /\ LinksElected' /\ LeaderHolds'
<1> DEFINE own(k) == <<k, TermAt(log'[i], k - 1), log'[i][k]>>
<1>1. /\ Len(log[i]) \in Nat /\ DOMAIN log[i] = 1..Len(log[i])
      /\ Len(log'[i]) \in Nat /\ DOMAIN log'[i] = 1..Len(log'[i])
  BY LogFacts, LenProperties DEF TermInv
<1>2. \A a \in Links : a[1] \in Nat
  <2>1. ASSUME NEW n \in Node, NEW a \in LogLinks(log[n]) PROVE a[1] \in Nat
    BY LogFacts DEF LogLinks, TermInv
  <2>2. ASSUME NEW m \in Requests, NEW a \in SentLinks(m) PROVE a[1] \in Nat
    <3>1. m.prevLogIndex \in Nat /\ m.entries \in Seq(EntryRecord)
      BY MessageKinds DEF Requests, AppendRequestType, TermInv
    <3>2. \A k \in DOMAIN m.entries : k \in Nat
      BY <3>1, LenProperties
    <3> QED BY <3>1, <3>2 DEF SentLinks, EntryLinks
  <2> QED BY <2>1, <2>2 DEF Links
<1>3. ASSUME NEW k \in DOMAIN log'[i]
      PROVE  \/ own(k) \in Links
             \/ k > Len(log[i]) /\ k <= Len(log'[i]) /\ log'[i][k].term = currentTerm[i]
  <2>1. CASE k > Len(log[i])
    BY <1>1, <2>1
  <2>2. CASE k <= Len(log[i])
    <3>1. k \in DOMAIN log[i] /\ log'[i][k] = log[i][k]
      BY <1>1, <2>2
    <3>2. TermAt(log'[i], k - 1) = TermAt(log[i], k - 1)
      <4>1. k = 1 \/ k - 1 \in 1..Len(log[i])
        BY <1>1, <3>1
      <4> QED BY <4>1 DEF TermAt
    <3>3. own(k) \in LogLinks(log[i])
      BY <3>1, <3>2 DEF LogLinks
    <3> QED BY <3>3 DEF Links
  <2> QED BY <1>1, <2>1, <2>2
<1>4. ASSUME NEW a \in Links'
      PROVE  \/ a \in Links
             \/ /\ a[1] \in Nat /\ a[1] > Len(log[i]) /\ a[1] <= Len(log'[i])
                /\ a[3].term = currentTerm[i]
                /\ a = own(a[1])
  <2>1. CASE \E m \in Requests' : a \in SentLinks(m)
    BY <2>1 DEF Links
  <2>2. CASE \E n \in Node \ {i} : a \in LogLinks(log'[n])
    BY <2>2 DEF Links
  <2>3. CASE a \in LogLinks(log'[i])
    <3>1. PICK k \in DOMAIN log'[i] : a = own(k)
      BY <2>3 DEF LogLinks
    <3>2. a[1] = k /\ a[3] = log'[i][k]
      BY <3>1
    <3> QED BY <1>1, <1>3, <3>1, <3>2
  <2> QED BY <2>1, <2>2, <2>3 DEF Links
<1> HIDE DEF own
<1>5. LinksUnique'
  <2>1. ASSUME NEW a \in Links', NEW b \in Links', a[1] = b[1], a[3].term = b[3].term
        PROVE  a = b
    <3>1. CASE a \in Links /\ b \in Links
      BY <2>1, <3>1 DEF LogInv, LinksUnique
    <3>2. CASE a \notin Links /\ b \notin Links
      BY <1>4, <2>1, <3>2
    <3>3. CASE a \in Links /\ b \notin Links
      BY <1>1, <1>2, <1>4, <2>1, <3>3
    <3>4. CASE a \notin Links /\ b \in Links
      BY <1>1, <1>2, <1>4, <2>1, <3>4
    <3> QED BY <3>1, <3>2, <3>3, <3>4
  <2> QED BY <2>1 DEF LinksUnique
<1>6. LinksElected'
  <2>1. ASSUME NEW a \in Links' PROVE \E n \in Node : <<a[3].term, n>> \in elected'
    <3>1. CASE a \in Links
      BY <3>1 DEF LogInv, LinksElected
    <3>2. CASE a \notin Links
      BY <1>4, <3>2
    <3> QED BY <3>1, <3>2
  <2> QED BY <2>1 DEF LinksElected
<1>7. LeaderHolds'
  <2>1. ASSUME NEW e \in elected', e[1] = currentTerm[e[2]], NEW a \in Links', a[3].term = e[1]
        PROVE  a[1] <= Len(log'[e[2]])
    <3>1. CASE e[2] = i
      <4>1. e[1] = currentTerm[i]
        BY <2>1, <3>1
      <4>2. CASE a \in Links
        <5>1. a[1] <= Len(log[i]) /\ a[1] \in Nat
          BY <1>2, <2>1, <4>1, <4>2
        <5> QED BY <1>1, <3>1, <5>1
      <4>3. CASE a \notin Links
        BY <1>4, <3>1, <4>3
      <4> QED BY <4>2, <4>3
    <3>2. CASE e[2] # i
      <4>1. e \in elected /\ e[2] \in Node
        BY <3>2 DEF TermInv, TypeOK
      <4>2. a \in Links
        <5>1. SUFFICES ASSUME a \notin Links PROVE FALSE
          OBVIOUS
        <5>2. e[1] = currentTerm[i]
          BY <1>4, <2>1, <5>1
        <5>3. <<currentTerm[i], i>> \in elected' /\ <<currentTerm[i], i>>[1] = e[1]
              /\ <<currentTerm[i], i>>[2] = i
          BY <5>2
        <5> QED BY <3>2, <5>3 DEF ElectionSafety
      <4>3. a[1] <= Len(log[e[2]])
        BY <2>1, <4>1, <4>2 DEF LogInv, LeaderHolds
      <4> QED BY <3>2, <4>1, <4>3
    <3> QED BY <3>1, <3>2
  <2> QED BY <2>1 DEF LeaderHolds
<1> QED BY <1>5, <1>6, <1>7

\* A leader appends an entry of its term: a command, or a change of membership.
LEMMA OwnEntryLogInv ==
    ASSUME TermInv, TermInv', ElectionSafety', LogInv, NEW i \in Node, state[i] = Leader,
           NEW e, e.term = currentTerm[i], log' = [log EXCEPT ![i] = Append(@, e)],
           UNCHANGED <<currentTerm, state, elected, rpcs>>
    PROVE  LogInv'
<1>1. Requests' \subseteq Requests
  BY DEF Requests
<1>2. e \in EntryRecord
  <2>1. /\ log[i] \in Seq(EntryRecord) /\ log'[i] \in Seq(EntryRecord)
        /\ log'[i] = Append(log[i], e)
    BY DEF TermInv, TypeOK
  <2>2. Len(log[i]) \in Nat /\ Len(log'[i]) = Len(log[i]) + 1
        /\ log'[i][Len(log[i]) + 1] = e
    BY <2>1
  <2>3. Len(log[i]) + 1 \in 1..Len(log'[i])
    BY <2>2
  <2> QED BY <2>1, <2>2, <2>3, ElementOfSeq
<1>3. log \in [Node -> Seq(EntryRecord)] /\ log[i] \in Seq(EntryRecord) /\ Len(log[i]) \in Nat
  BY LogFacts DEF TermInv, TypeOK
<1>4. log'[i] \in Seq(EntryRecord)
  BY DEF TermInv, TypeOK
<1>5. log'[i] = Append(log[i], e) /\ \A n \in Node \ {i} : log'[n] = log[n]
  BY <1>3
<1>6. /\ Len(log'[i]) = Len(log[i]) + 1
      /\ \A k \in 1..Len(log[i]) : log'[i][k] = log[i][k]
      /\ log'[i][Len(log[i]) + 1] = e
  BY <1>2, <1>3, <1>5
<1>7. \A k \in 1..Len(log'[i]) : k > Len(log[i]) => log'[i][k].term = currentTerm[i]
  BY <1>3, <1>6
<1>8. <<currentTerm[i], i>> \in elected
  BY DEF TermInv, LeadersElected
<1>9. \A a \in Links : a[3].term = currentTerm[i] => a[1] <= Len(log[i])
  <2>1. <<currentTerm[i], i>>[1] = currentTerm[<<currentTerm[i], i>>[2]]
    OBVIOUS
  <2> QED BY <1>8, <2>1 DEF LogInv, LeaderHolds
<1>10. LinksUnique' /\ LinksElected' /\ LeaderHolds'
  <2>1. elected' = elected \cup {<<currentTerm[i], i>>}
    BY <1>8
  <2>2. Len(log'[i]) >= Len(log[i]) /\ currentTerm' = currentTerm
    BY <1>3, <1>6
  <2> QED BY <1>1, <1>4, <1>5, <1>6, <1>7, <1>9, <2>1, <2>2, OwnEntries
<1>11. CandidatesFresh'
  BY DEF LogInv, CandidatesFresh
<1> QED BY <1>10, <1>11 DEF LogInv

LEMMA SubmitLogInv ==
    ASSUME TermInv, TermInv', ElectionSafety', LogInv, NEW i \in Node, NEW v \in Value,
           Submit(i, v)
    PROVE  LogInv'
<1> DEFINE e == Entry(EntryNormal, currentTerm[i], v)
<1>1. /\ log' = [log EXCEPT ![i] = Append(@, e)] /\ state[i] = Leader
      /\ UNCHANGED <<currentTerm, state, elected, rpcs>>
  BY DEF Submit, history
<1>2. e.term = currentTerm[i]
  BY DEF Entry
<1> HIDE DEF e
<1> QED BY <1>1, <1>2, OwnEntryLogInv

\* Nobody has been elected in the term an election is won in, so nothing of it
\* is in a log or on its way.
LEMMA WinElectionLogInv ==
    ASSUME TermInv, TermInv', ElectionSafety', LogInv, NEW i \in Node, state[i] = Candidate,
           BecomeLeader(i), currentTerm' = currentTerm, Requests' \subseteq Requests
    PROVE  LogInv'
<1> DEFINE opening == OpeningEntries(i)
<1>1. /\ log' = [log EXCEPT ![i] = @ \o opening] /\ state' = [state EXCEPT ![i] = Leader]
      /\ elected' = elected \cup {<<currentTerm[i], i>>}
  BY DEF BecomeLeader
<1>2. /\ opening \in Seq(EntryRecord) /\ Len(opening) \in Nat
      /\ \A k \in 1..Len(opening) : opening[k].term = currentTerm[i]
  BY OpeningOwnTerm, LenProperties DEF TermInv
<1>3. log \in [Node -> Seq(EntryRecord)] /\ log[i] \in Seq(EntryRecord) /\ Len(log[i]) \in Nat
  BY LogFacts DEF TermInv, TypeOK
<1>4. log'[i] \in Seq(EntryRecord) /\ ElectionSafety'
  BY DEF TermInv, TypeOK
<1> HIDE DEF opening
<1>5. log'[i] = log[i] \o opening /\ \A n \in Node \ {i} : log'[n] = log[n]
  BY <1>1, <1>3
<1>6. /\ Len(log'[i]) = Len(log[i]) + Len(opening)
      /\ \A k \in 1..Len(log[i]) + Len(opening) : log'[i][k] =
            IF k <= Len(log[i]) THEN log[i][k] ELSE opening[k - Len(log[i])]
  BY <1>2, <1>3, <1>5, ConcatProperties
<1>7. /\ Len(log'[i]) >= Len(log[i])
      /\ \A k \in 1..Len(log[i]) : log'[i][k] = log[i][k]
  <2>1. \A k \in 1..Len(log[i]) : k \in 1..Len(log[i]) + Len(opening) /\ k <= Len(log[i])
    BY <1>2, <1>3
  <2> QED BY <1>2, <1>3, <1>6, <2>1
<1>8. ASSUME NEW k \in 1..Len(log'[i]), k > Len(log[i])
      PROVE  log'[i][k].term = currentTerm[i]
  <2>1. k - Len(log[i]) \in 1..Len(opening) /\ log'[i][k] = opening[k - Len(log[i])]
    BY <1>2, <1>3, <1>6, <1>8
  <2> QED BY <1>2, <2>1
<1>9. ASSUME NEW a \in Links, a[3].term = currentTerm[i] PROVE FALSE
  <2>1. PICK n \in Node : <<currentTerm[i], n>> \in elected
    BY <1>9 DEF LogInv, LinksElected
  <2>2. n = i
    <3> DEFINE e == <<currentTerm[i], n>>
               f == <<currentTerm[i], i>>
    <3>1. e \in elected' /\ f \in elected' /\ e[1] = f[1]
      BY <1>1, <2>1
    <3>2. e[2] = f[2]
      BY <1>4, <3>1 DEF ElectionSafety
    <3> QED BY <3>2
  <2> QED BY <2>1, <2>2 DEF LogInv, CandidatesFresh
<1>10. LinksUnique' /\ LinksElected' /\ LeaderHolds'
  BY <1>1, <1>4, <1>5, <1>7, <1>8, <1>9, OwnEntries
<1>11. CandidatesFresh'
  <2>1. ASSUME NEW n \in Node, state'[n] = Candidate
        PROVE  n # i /\ state[n] = Candidate
    BY <1>1, <2>1 DEF TermInv, TypeOK, Candidate, Leader
  <2>2. ASSUME NEW n \in Node, state'[n] = Candidate
        PROVE  <<currentTerm'[n], n>> \notin elected'
    BY <1>1, <2>1, <2>2 DEF LogInv, CandidatesFresh
  <2> QED BY <2>2 DEF CandidatesFresh
<1> QED BY <1>10, <1>11 DEF LogInv

LEMMA HandleRequestVoteReplyLogInv ==
    ASSUME TermInv, TermInv', ElectionSafety', LogInv, NEW m \in rpcs, HandleRequestVoteReply(m)
    PROVE  LogInv'
<1> DEFINE i == m.dst
<1>1. i \in Node /\ m.term \in Nat /\ currentTerm[i] \in Nat
  BY MessageKinds DEF HandleRequestVoteReply, VoteReplyType, TermInv, TypeOK
<1>2. Requests' \subseteq Requests
  BY DEF HandleRequestVoteReply, Requests
<1>3. \/ currentTerm' = currentTerm /\ state' = state /\ log' = log /\ elected' = elected
      \/ /\ m.term > currentTerm[i] /\ BecomeFollower(i, m.term)
         /\ log' = log /\ elected' = elected
      \/ state[i] = Candidate /\ BecomeLeader(i) /\ currentTerm' = currentTerm
  BY DEF HandleRequestVoteReply, persistent
<1>4. CASE currentTerm' = currentTerm /\ state' = state /\ log' = log /\ elected' = elected
  BY <1>2, <1>4, RequestsGone, MessageStep
<1>5. CASE /\ m.term > currentTerm[i] /\ BecomeFollower(i, m.term)
           /\ log' = log /\ elected' = elected
  <2>1. m.term >= currentTerm[i]
    BY <1>1, <1>5
  <2> QED BY <1>1, <1>2, <1>5, <2>1, FollowerStep
<1>6. CASE state[i] = Candidate /\ BecomeLeader(i) /\ currentTerm' = currentTerm
  BY <1>1, <1>2, <1>6, WinElectionLogInv
<1> QED BY <1>3, <1>4, <1>5, <1>6

\* AppendEntries takes over the links of its request where the term before them
\* is the same, and comes from the only node elected in that term.
LEMMA HandleAppendEntriesLogInv ==
    ASSUME TermInv, ElectionSafety, LogInv, NEW m \in rpcs, HandleAppendEntries(m)
    PROVE  LogInv'
<1> DEFINE i == m.dst
           prev == m.prevLogIndex
<1>1. /\ m \in AppendRequestType /\ m \in Requests /\ i \in Node /\ m.term \in Nat
      /\ prev \in Nat /\ m.entries \in Seq(EntryRecord)
      /\ currentTerm[i] \in Nat /\ log[i] \in Seq(EntryRecord)
  BY MessageKinds, LogFacts
     DEF HandleAppendEntries, AppendRequestType, TermInv, TypeOK, Requests
<1>2. elected' = elected
  BY DEF HandleAppendEntries, history
<1>3. \A t, s, ci, ct : AppendReply(m, t, s, ci, ct).kind # "AppendEntries"
  BY DEF AppendReply
<1>4. CASE RefuseStaleLeader(m)
  <2>1. Answer(m, AppendReply(m, currentTerm[i], FALSE, 0, 0))
    BY <1>4 DEF RefuseStaleLeader
  <2>2. Requests' \subseteq Requests
    BY <1>3, <2>1, AnswerNoRequest
  <2>3. currentTerm' = currentTerm /\ state' = state /\ log' = log
    BY <1>4 DEF RefuseStaleLeader, persistent
  <2> QED BY <1>2, <2>2, <2>3, RequestsGone, MessageStep
<1>5. CASE AcceptLeader(m)
  <2>1. /\ m.term >= currentTerm[i]
        /\ currentTerm' = [currentTerm EXCEPT ![i] = m.term]
        /\ state' = state \/ state' = [state EXCEPT ![i] = Follower]
    <3>1. m.term > currentTerm[i] => BecomeFollower(i, m.term)
      BY <1>5 DEF AcceptLeader
    <3>2. ~(m.term > currentTerm[i]) => currentTerm' = currentTerm /\ state' = state
      BY <1>5 DEF AcceptLeader
    <3>3. m.term >= currentTerm[i]
      BY <1>5 DEF AcceptLeader
    <3>4. ~(m.term > currentTerm[i]) => m.term = currentTerm[i]
      BY <1>1, <3>3
    <3>5. currentTerm = [currentTerm EXCEPT ![i] = currentTerm[i]]
      BY <1>1 DEF TermInv, TypeOK
    <3> QED BY <3>1, <3>2, <3>3, <3>4, <3>5 DEF BecomeFollower
  <2>2. /\ \/ log' = log
           \/ /\ prev <= Len(log[i]) /\ TermAt(log[i], prev) = m.prevLogTerm
              /\ log' = [log EXCEPT ![i] = Merge(@, prev, m.entries)]
        /\ \E t, s, ci, ct : Answer(m, AppendReply(m, t, s, ci, ct))
    BY <1>5 DEF AcceptLeader
  <2>3. Requests' \subseteq Requests
    BY <1>3, <2>2, AnswerNoRequest
  <2>4. \A n \in Node \ {i} : log'[n] = log[n]
    BY <1>1, <2>2 DEF TermInv, TypeOK
  <2>5. LogLinks(log'[i]) \subseteq Links
    <3>1. CASE log' = log
      BY <1>1, <3>1 DEF Links
    <3>2. CASE /\ prev <= Len(log[i]) /\ TermAt(log[i], prev) = m.prevLogTerm
               /\ log' = [log EXCEPT ![i] = Merge(@, prev, m.entries)]
      <4>1. prev \in 0..Len(log[i])
        BY <1>1, <3>2, LenProperties
      <4>2. log'[i] = Merge(log[i], prev, m.entries)
        BY <1>1, <3>2 DEF TermInv, TypeOK
      <4>3. LogLinks(log'[i]) \subseteq LogLinks(log[i])
                \cup EntryLinks(prev, TermAt(log[i], prev), m.entries)
        <5> DEFINE l == log[i]
                   es == m.entries
                   p == prev
        <5>1. l \in Seq(EntryRecord) /\ es \in Seq(EntryRecord) /\ p \in 0..Len(l)
              /\ log'[i] = Merge(l, p, es)
          BY <1>1, <4>1, <4>2
        <5> HIDE DEF l, es, p
        <5>2. LogLinks(log'[i]) \subseteq LogLinks(l) \cup EntryLinks(p, TermAt(l, p), es)
          BY <5>1, MergeLinks
        <5> QED BY <5>2 DEF l, es, p
      <4>4. EntryLinks(prev, TermAt(log[i], prev), m.entries) = SentLinks(m)
        BY <3>2 DEF SentLinks
      <4>5. LogLinks(log[i]) \subseteq Links /\ SentLinks(m) \subseteq Links
        BY <1>1 DEF Links
      <4> QED BY <4>3, <4>4, <4>5
    <3> QED BY <2>2, <3>1, <3>2
  <2>6. Links' \subseteq Links
    <3>1. Links' = (UNION {LogLinks(log'[n]) : n \in Node})
                       \cup (UNION {SentLinks(r) : r \in Requests'})
      BY DEF Links
    <3>2. \A n \in Node : LogLinks(log'[n]) \subseteq Links
      BY <2>4, <2>5 DEF Links
    <3>3. \A r \in Requests' : SentLinks(r) \subseteq Links
      BY <2>3, RequestsGone
    <3> QED BY <3>1, <3>2, <3>3
  <2>7. /\ currentTerm' \in [Node -> Nat] /\ currentTerm \in [Node -> Nat]
        /\ \A n \in Node \ {i} : currentTerm'[n] = currentTerm[n]
        /\ currentTerm'[i] = m.term
    BY <1>1, <2>1 DEF TermInv, TypeOK
  <2>8. ASSUME NEW e \in elected, e[1] = currentTerm'[e[2]]
        PROVE  e[1] = currentTerm[e[2]] /\ log'[e[2]] = log[e[2]]
    <3>1. e[2] \in Node
      BY DEF TermInv, TypeOK
    <3>2. ASSUME e[2] = i PROVE FALSE
      <4>1. e[1] = m.term
        BY <2>7, <2>8, <3>2
      <4>2. <<m.term, m.src>> \in elected /\ m.src # i
        BY <1>1 DEF TermInv, LeadersElected, Requests
      <4>3. <<m.term, m.src>>[1] = m.term /\ <<m.term, m.src>>[2] = m.src
        OBVIOUS
      <4>4. e[2] = <<m.term, m.src>>[2]
        BY <4>1, <4>2, <4>3 DEF ElectionSafety
      <4> QED BY <3>2, <4>2, <4>3, <4>4
    <3> QED BY <2>4, <2>7, <2>8, <3>1, <3>2
  <2>9. LinksUnique' /\ LinksElected' /\ LeaderHolds'
    BY <1>2, <2>6, <2>8, NoNewLinks
  <2>10. CandidatesFresh'
    <3>1. ASSUME NEW n \in Node, state'[n] = Candidate
          PROVE  \/ state[n] = Candidate /\ currentTerm'[n] = currentTerm[n]
                 \/ currentTerm'[n] > currentTerm[n]
      <4>1. state[n] = Candidate
        BY <2>1, <3>1 DEF TermInv, TypeOK, Follower, Candidate
      <4>2. currentTerm'[n] = currentTerm[n] \/ currentTerm'[n] > currentTerm[n]
        BY <1>1, <2>1, <2>7
      <4> QED BY <4>1, <4>2
    <3> QED BY <1>2, <2>7, <3>1, CandidatesStayFresh DEF LogInv
  <2> QED BY <2>9, <2>10 DEF LogInv
<1> QED BY <1>4, <1>5 DEF HandleAppendEntries

-----------------------------------------------------------------------------
(* The invariant and the property it implies.                               *)

\* Every step of Raft keeps links unique, as long as no term has two leaders.
LEMMA NextLogInv ==
    /\ TermInv /\ TermInv' /\ ElectionSafety /\ ElectionSafety' /\ LogInv
    /\ [Next]_vars
    => LogInv'
<1> SUFFICES ASSUME TermInv, TermInv', ElectionSafety, ElectionSafety', LogInv, [Next]_vars
             PROVE  LogInv'
  OBVIOUS
<1>1. CASE \E i \in Node : StartElection(i)
  BY <1>1, StartElectionLogInv
<1>2. CASE \E m \in rpcs : HandleRequestVote(m)
  BY <1>2, HandleRequestVoteLogInv
<1>3. CASE \E m \in rpcs : HandleRequestVoteReply(m)
  BY <1>3, HandleRequestVoteReplyLogInv
<1>4. CASE \E m \in rpcs : RequestVoteFails(m)
  BY <1>4, RequestVoteFailsLogInv
<1>5. CASE \E i, j \in Node : SendAppendEntries(i, j)
  BY <1>5, SendAppendEntriesLogInv
<1>6. CASE \E m \in rpcs : HandleAppendEntries(m)
  BY <1>6, HandleAppendEntriesLogInv
<1>7. CASE \E m \in rpcs : HandleAppendEntriesReply(m)
  BY <1>7, HandleAppendEntriesReplyLogInv
<1>8. CASE \E m \in rpcs : AppendEntriesFails(m)
  BY <1>8, AppendEntriesFailsLogInv
<1>9. CASE \E m \in rpcs : AppendEntriesTimeout(m)
  BY <1>9, AppendEntriesTimeoutLogInv
<1>10. CASE \E i \in Node, v \in Value : Submit(i, v)
  BY <1>10, SubmitLogInv
<1>11. CASE \E i \in Node : StepDown(i)
  BY <1>11, StepDownLogInv
<1>12. CASE UNCHANGED vars
  <2>1. /\ currentTerm' = currentTerm /\ state' = state /\ log' = log /\ elected' = elected
        /\ Requests' \subseteq Requests
    BY <1>12 DEF vars, Requests
  <2> QED BY <2>1, RequestsGone, MessageStep
<1> QED BY <1>1, <1>2, <1>3, <1>4, <1>5, <1>6, <1>7, <1>8, <1>9, <1>10, <1>11, <1>12 DEF Next

-----------------------------------------------------------------------------
(* What a step changes, and which action does.                              *)

\* A record that appears was put there by the action that makes its kind.
LEMMA NewMessages ==
    ASSUME [Next]_vars, NEW r \in rpcs', r \notin rpcs
    PROVE  \/ \E i \in Node : /\ StartElection(i)
                              /\ \E j \in VotersOf(i) \ {i} :
                                    r = VoteRequest(i, j, currentTerm[i] + 1, Len(log[i]),
                                                    LastTerm(log[i]))
           \/ r.kind = "RequestVoteReply"
           \/ \E i, j \in Node :
                 /\ SendAppendEntries(i, j)
                 /\ r = AppendRequest(i, j, currentTerm[i], nextIndex[i][j] - 1,
                                      TermAt(log[i], nextIndex[i][j] - 1),
                                      SubSeq(log[i], nextIndex[i][j], Len(log[i])),
                                      commitIndex[i])
           \/ \E m \in rpcs : AppendEntriesTimeout(m) /\ r = [m EXCEPT !.awaited = FALSE]
           \/ \E m \in rpcs : /\ HandleAppendEntries(m)
                              /\ \E t, s, ci, ct : /\ r = AppendReply(m, t, s, ci, ct)
                                                   /\ Answer(m, r)
<1>1. CASE \E i \in Node : StartElection(i)
  <2>1. PICK i \in Node : StartElection(i)
    BY <1>1
  <2>2. PICK j \in VotersOf(i) \ {i} :
           r = VoteRequest(i, j, currentTerm[i] + 1, Len(log[i]), LastTerm(log[i]))
    BY <2>1 DEF StartElection
  <2> QED BY <2>1, <2>2
<1>2. CASE \E m \in rpcs : HandleRequestVote(m)
  BY <1>2 DEF HandleRequestVote, RefuseStaleVote, RefuseWhileLeaderAlive, DecideVote, Answer,
              VoteReply
<1>3. CASE \E m \in rpcs : HandleRequestVoteReply(m)
  BY <1>3 DEF HandleRequestVoteReply
<1>4. CASE \E m \in rpcs : RequestVoteFails(m)
  BY <1>4 DEF RequestVoteFails
<1>5. CASE \E i, j \in Node : SendAppendEntries(i, j)
  <2>1. PICK i \in Node, j \in Node : SendAppendEntries(i, j)
    BY <1>5
  <2>2. r = AppendRequest(i, j, currentTerm[i], nextIndex[i][j] - 1,
                          TermAt(log[i], nextIndex[i][j] - 1),
                          SubSeq(log[i], nextIndex[i][j], Len(log[i])), commitIndex[i])
    BY <2>1 DEF SendAppendEntries
  <2> QED BY <2>1, <2>2
<1>6. CASE \E m \in rpcs : HandleAppendEntries(m)
  <2>1. PICK m \in rpcs : HandleAppendEntries(m)
    BY <1>6
  <2>2. PICK t, s, ci, ct : Answer(m, AppendReply(m, t, s, ci, ct))
    BY <2>1 DEF HandleAppendEntries, RefuseStaleLeader, AcceptLeader
  <2>3. r = AppendReply(m, t, s, ci, ct)
    BY <2>2 DEF Answer
  <2> QED BY <2>1, <2>2, <2>3
<1>7. CASE \E m \in rpcs : HandleAppendEntriesReply(m)
  BY <1>7 DEF HandleAppendEntriesReply
<1>8. CASE \E m \in rpcs : AppendEntriesFails(m)
  BY <1>8 DEF AppendEntriesFails
<1>9. CASE \E m \in rpcs : AppendEntriesTimeout(m)
  BY <1>9 DEF AppendEntriesTimeout
<1>10. CASE \E i \in Node, v \in Value : Submit(i, v)
  BY <1>10 DEF Submit
<1>11. CASE \E i \in Node : StepDown(i)
  BY <1>11 DEF StepDown
<1>12. CASE UNCHANGED vars
  BY <1>12 DEF vars
<1> QED BY <1>1, <1>2, <1>3, <1>4, <1>5, <1>6, <1>7, <1>8, <1>9, <1>10, <1>11, <1>12 DEF Next

\* A vote is cast by the candidate for itself, or for one that asks for it.
LEMMA NewVotes ==
    ASSUME [Next]_vars, NEW g \in granted', g \notin granted
    PROVE  \/ \E i \in Node : StartElection(i) /\ g = <<currentTerm[i] + 1, i, i>>
           \/ \E m \in rpcs : /\ m.kind = "RequestVote" /\ DecideVote(m) /\ MayVote(m.dst, m)
                              /\ g = <<m.term, m.dst, m.src>>
<1>1. CASE \E i \in Node : StartElection(i)
  BY <1>1 DEF StartElection
<1>2. CASE \E m \in rpcs : HandleRequestVote(m)
  <2>1. PICK m \in rpcs : HandleRequestVote(m)
    BY <1>2
  <2>2. CASE DecideVote(m)
    BY <2>1, <2>2 DEF HandleRequestVote, DecideVote
  <2>3. CASE RefuseStaleVote(m) \/ RefuseWhileLeaderAlive(m)
    BY <2>3 DEF RefuseStaleVote, RefuseWhileLeaderAlive, history
  <2> QED BY <2>1, <2>2, <2>3 DEF HandleRequestVote
<1>3. CASE \E m \in rpcs : HandleRequestVoteReply(m)
  BY <1>3 DEF HandleRequestVoteReply
<1>4. CASE \E m \in rpcs : RequestVoteFails(m)
  BY <1>4 DEF RequestVoteFails, history
<1>5. CASE \E i, j \in Node : SendAppendEntries(i, j)
  BY <1>5 DEF SendAppendEntries, history
<1>6. CASE \E m \in rpcs : HandleAppendEntries(m)
  BY <1>6 DEF HandleAppendEntries, history
<1>7. CASE \E m \in rpcs : HandleAppendEntriesReply(m)
  BY <1>7 DEF HandleAppendEntriesReply, history
<1>8. CASE \E m \in rpcs : AppendEntriesFails(m)
  BY <1>8 DEF AppendEntriesFails, history
<1>9. CASE \E m \in rpcs : AppendEntriesTimeout(m)
  BY <1>9 DEF AppendEntriesTimeout, history
<1>10. CASE \E i \in Node, v \in Value : Submit(i, v)
  BY <1>10 DEF Submit, history
<1>11. CASE \E i \in Node : StepDown(i)
  BY <1>11 DEF StepDown, history
<1>12. CASE UNCHANGED vars
  BY <1>12 DEF vars
<1> QED BY <1>1, <1>2, <1>3, <1>4, <1>5, <1>6, <1>7, <1>8, <1>9, <1>10, <1>11, <1>12 DEF Next

\* The actions in which a candidate wins, and a node takes up entries.
Wins(i) ==
    /\ state[i] = Candidate /\ BecomeLeader(i)
    /\ currentTerm' = currentTerm /\ commitIndex' = commitIndex /\ granted' = granted
    /\ rpcs' \subseteq rpcs

Accepts(m) ==
    /\ m \in Requests
    /\ m.term >= currentTerm[m.dst]
    /\ currentTerm' = [currentTerm EXCEPT ![m.dst] = m.term]
    /\ m.prevLogIndex \in 0..Len(log[m.dst])
    /\ TermAt(log[m.dst], m.prevLogIndex) = m.prevLogTerm
    /\ log' = [log EXCEPT ![m.dst] = Merge(@, m.prevLogIndex, m.entries)]
    /\ commitIndex' = [commitIndex EXCEPT ![m.dst] = FollowerCommit(m.dst, m)]
    /\ elected' = elected /\ granted' = granted
    /\ Answer(m, AppendReply(m, m.term, TRUE, 0, 0))

\* AppendEntries accepts, or refuses and leaves the log and the commit index alone.
LEMMA HandleOutcome ==
    ASSUME TypeOK, NEW m \in rpcs, HandleAppendEntries(m)
    PROVE  \/ Accepts(m)
           \/ /\ log' = log /\ commitIndex' = commitIndex /\ elected' = elected
              /\ \E t, ci, ct : Answer(m, AppendReply(m, t, FALSE, ci, ct))
<1>1. /\ elected' = elected /\ granted' = granted /\ m \in Requests
      /\ m.dst \in Node /\ m.prevLogIndex \in Nat /\ m.term \in Nat
      /\ currentTerm \in [Node -> Nat] /\ Len(log[m.dst]) \in Nat
  BY MessageKinds, LogFacts
     DEF HandleAppendEntries, history, Requests, TypeOK, AppendRequestType
<1>2. CASE RefuseStaleLeader(m)
  BY <1>1, <1>2 DEF RefuseStaleLeader, persistent
<1>3. CASE AcceptLeader(m)
  <2>1. m.term >= currentTerm[m.dst]
    BY <1>3 DEF AcceptLeader
  <2>2. currentTerm' = [currentTerm EXCEPT ![m.dst] = m.term]
    <3>1. CASE m.term > currentTerm[m.dst]
      BY <1>3, <3>1 DEF AcceptLeader, BecomeFollower
    <3>2. CASE ~(m.term > currentTerm[m.dst])
      <4>1. currentTerm' = currentTerm /\ m.term = currentTerm[m.dst]
        BY <1>1, <1>3, <2>1, <3>2 DEF AcceptLeader
      <4> QED BY <1>1, <4>1
    <3> QED BY <3>1, <3>2
  <2>3. \/ /\ log' = log /\ commitIndex' = commitIndex
           /\ \E t, ci, ct : Answer(m, AppendReply(m, t, FALSE, ci, ct))
        \/ /\ m.prevLogIndex <= Len(log[m.dst])
           /\ TermAt(log[m.dst], m.prevLogIndex) = m.prevLogTerm
           /\ log' = [log EXCEPT ![m.dst] = Merge(@, m.prevLogIndex, m.entries)]
           /\ commitIndex' = [commitIndex EXCEPT ![m.dst] = FollowerCommit(m.dst, m)]
           /\ Answer(m, AppendReply(m, m.term, TRUE, 0, 0))
    BY <1>3 DEF AcceptLeader
  <2>4. CASE /\ log' = log /\ commitIndex' = commitIndex
             /\ \E t, ci, ct : Answer(m, AppendReply(m, t, FALSE, ci, ct))
    BY <1>1, <2>4
  <2>5. CASE /\ m.prevLogIndex <= Len(log[m.dst])
             /\ TermAt(log[m.dst], m.prevLogIndex) = m.prevLogTerm
             /\ log' = [log EXCEPT ![m.dst] = Merge(@, m.prevLogIndex, m.entries)]
             /\ commitIndex' = [commitIndex EXCEPT ![m.dst] = FollowerCommit(m.dst, m)]
             /\ Answer(m, AppendReply(m, m.term, TRUE, 0, 0))
    <3>1. m.prevLogIndex \in 0..Len(log[m.dst])
      BY <1>1, <2>5
    <3> QED BY <1>1, <2>1, <2>2, <2>5, <3>1 DEF Accepts
  <2> QED BY <2>3, <2>4, <2>5
<1> QED BY <1>2, <1>3 DEF HandleAppendEntries

\* A log changes when a candidate wins, a leader takes a command or a node takes
\* up entries; nobody else is elected.
LEMMA NewLogs ==
    ASSUME TypeOK, [Next]_vars
    PROVE  \/ log' = log /\ elected' = elected
           \/ \E i \in Node : Wins(i)
           \/ \E i \in Node, v \in Value : Submit(i, v)
           \/ \E m \in rpcs : Accepts(m)
<1>1. CASE \E i \in Node : StartElection(i)
  BY <1>1 DEF StartElection
<1>2. CASE \E m \in rpcs : HandleRequestVote(m)
  BY <1>2 DEF HandleRequestVote, RefuseStaleVote, RefuseWhileLeaderAlive, DecideVote, persistent,
              history
<1>3. CASE \E m \in rpcs : HandleRequestVoteReply(m)
  <2>1. PICK m \in rpcs : HandleRequestVoteReply(m)
    BY <1>3
  <2>2. m.dst \in Node
    BY MessageKinds
  <2>3. (log' = log /\ elected' = elected) \/ Wins(m.dst)
    BY <2>1 DEF HandleRequestVoteReply, Wins, persistent
  <2> QED BY <2>2, <2>3
<1>4. CASE \E m \in rpcs : RequestVoteFails(m)
  BY <1>4 DEF RequestVoteFails, persistent, history
<1>5. CASE \E i, j \in Node : SendAppendEntries(i, j)
  BY <1>5 DEF SendAppendEntries, persistent, history
<1>6. CASE \E m \in rpcs : HandleAppendEntries(m)
  BY <1>6, HandleOutcome
<1>7. CASE \E m \in rpcs : HandleAppendEntriesReply(m)
  BY <1>7 DEF HandleAppendEntriesReply, history
<1>8. CASE \E m \in rpcs : AppendEntriesFails(m)
  BY <1>8 DEF AppendEntriesFails, persistent, history
<1>9. CASE \E m \in rpcs : AppendEntriesTimeout(m)
  BY <1>9 DEF AppendEntriesTimeout, persistent, history
<1>10. CASE \E i \in Node, v \in Value : Submit(i, v)
  BY <1>10
<1>11. CASE \E i \in Node : StepDown(i)
  BY <1>11 DEF StepDown, history
<1>12. CASE UNCHANGED vars
  BY <1>12 DEF vars
<1> QED BY <1>1, <1>2, <1>3, <1>4, <1>5, <1>6, <1>7, <1>8, <1>9, <1>10, <1>11, <1>12 DEF Next

\* Terms only grow, and what has been voted and elected stays on record.
LEMMA TermsGrow ==
    ASSUME TypeOK, [Next]_vars
    PROVE  /\ \A n \in Node : currentTerm[n] <= currentTerm'[n]
           /\ elected \subseteq elected' /\ granted \subseteq granted'
<1>0. currentTerm \in [Node -> Nat] /\ \A n \in Node : currentTerm[n] \in Nat
  BY DEF TypeOK
<1>1. CASE \E i \in Node : StartElection(i)
  BY <1>0, <1>1 DEF StartElection
<1>2. CASE \E m \in rpcs : HandleRequestVote(m)
  <2>1. PICK m \in rpcs : HandleRequestVote(m)
    BY <1>2
  <2>2. m.dst \in Node /\ m.term \in Nat
    BY <2>1, MessageKinds DEF HandleRequestVote, VoteRequestType
  <2>3. CASE DecideVote(m)
    <3>1. m.term >= currentTerm[m.dst] /\ currentTerm' = [currentTerm EXCEPT ![m.dst] = m.term]
          /\ granted \subseteq granted' /\ elected' = elected
      BY <2>3 DEF DecideVote
    <3> QED BY <1>0, <2>2, <3>1
  <2>4. CASE RefuseStaleVote(m) \/ RefuseWhileLeaderAlive(m)
    <3>1. currentTerm' = currentTerm /\ granted' = granted /\ elected' = elected
      BY <2>4 DEF RefuseStaleVote, RefuseWhileLeaderAlive, persistent, history
    <3> QED BY <1>0, <3>1
  <2> QED BY <2>1, <2>3, <2>4 DEF HandleRequestVote
<1>3. CASE \E m \in rpcs : HandleRequestVoteReply(m)
  <2>1. PICK m \in rpcs : HandleRequestVoteReply(m)
    BY <1>3
  <2>2. m.dst \in Node /\ m.term \in Nat
    BY <2>1, MessageKinds DEF HandleRequestVoteReply, VoteReplyType
  <2>3. granted' = granted /\ elected \subseteq elected'
    BY <2>1 DEF HandleRequestVoteReply, BecomeLeader
  <2>4. \/ currentTerm' = currentTerm
        \/ /\ currentTerm[m.dst] = m.electionTerm /\ m.term > m.electionTerm
           /\ currentTerm' = [currentTerm EXCEPT ![m.dst] = m.term]
    BY <2>1 DEF HandleRequestVoteReply, BecomeFollower, persistent
  <2> QED BY <1>0, <2>2, <2>3, <2>4
<1>4. CASE \E m \in rpcs : RequestVoteFails(m)
  BY <1>0, <1>4 DEF RequestVoteFails, persistent, history
<1>5. CASE \E i, j \in Node : SendAppendEntries(i, j)
  BY <1>0, <1>5 DEF SendAppendEntries, persistent, history
<1>6. CASE \E m \in rpcs : HandleAppendEntries(m)
  <2>1. PICK m \in rpcs : HandleAppendEntries(m)
    BY <1>6
  <2>2. m.dst \in Node /\ m.term \in Nat /\ elected' = elected /\ granted' = granted
    BY <2>1, MessageKinds DEF HandleAppendEntries, AppendRequestType, history
  <2>3. \/ currentTerm' = currentTerm
        \/ m.term > currentTerm[m.dst] /\ currentTerm' = [currentTerm EXCEPT ![m.dst] = m.term]
    BY <2>1 DEF HandleAppendEntries, RefuseStaleLeader, AcceptLeader, BecomeFollower, persistent
  <2> QED BY <1>0, <2>2, <2>3
<1>7. CASE \E m \in rpcs : HandleAppendEntriesReply(m)
  <2>1. PICK m \in rpcs : HandleAppendEntriesReply(m)
    BY <1>7
  <2>2. m.dst \in Node /\ m.term \in Nat /\ elected' = elected /\ granted' = granted
    BY <2>1, MessageKinds DEF HandleAppendEntriesReply, AppendReplyType, history
  <2>3. \/ currentTerm' = currentTerm
        \/ m.term > currentTerm[m.dst] /\ currentTerm' = [currentTerm EXCEPT ![m.dst] = m.term]
    BY <2>1 DEF HandleAppendEntriesReply, BecomeFollower
  <2> QED BY <1>0, <2>2, <2>3
<1>8. CASE \E m \in rpcs : AppendEntriesFails(m)
  BY <1>0, <1>8 DEF AppendEntriesFails, persistent, history
<1>9. CASE \E m \in rpcs : AppendEntriesTimeout(m)
  BY <1>0, <1>9 DEF AppendEntriesTimeout, persistent, history
<1>10. CASE \E i \in Node, v \in Value : Submit(i, v)
  BY <1>0, <1>10 DEF Submit, history
<1>11. CASE \E i \in Node : StepDown(i)
  BY <1>0, <1>11 DEF StepDown, BecomeFollower, history
<1>12. CASE UNCHANGED vars
  BY <1>0, <1>12 DEF vars
<1> QED BY <1>1, <1>2, <1>3, <1>4, <1>5, <1>6, <1>7, <1>8, <1>9, <1>10, <1>11, <1>12 DEF Next

\* Only StartElection makes a candidate, and a candidate's log changes only by
\* entries of a leader elected in its term.
LEMMA CandidatesKept ==
    ASSUME ElectionInv, [Next]_vars, NEW c \in Node, state'[c] = Candidate
    PROVE  \/ StartElection(c)
           \/ /\ state[c] = Candidate /\ currentTerm'[c] = currentTerm[c]
              /\ log'[c] = log[c] \/ \E e \in Node : <<currentTerm[c], e>> \in elected
<1> USE DEF Follower, Candidate, Leader
<1>0. /\ TypeOK /\ currentTerm \in [Node -> Nat] /\ log \in [Node -> Seq(EntryRecord)]
      /\ state \in [Node -> {Follower, Candidate, Leader}]
  BY DEF ElectionInv, TypeOK
<1>1. CASE \E i \in Node : StartElection(i)
  <2>1. PICK i \in Node : StartElection(i)
    BY <1>1
  <2>2. /\ currentTerm' = [currentTerm EXCEPT ![i] = currentTerm[i] + 1]
        /\ state' = [state EXCEPT ![i] = Candidate] /\ log' = log
    BY <2>1 DEF StartElection
  <2>3. CASE c = i
    BY <2>1, <2>3
  <2>4. CASE c # i
    BY <1>0, <2>2, <2>4
  <2> QED BY <2>3, <2>4
<1>2. CASE \E m \in rpcs : HandleRequestVote(m)
  <2>1. PICK m \in rpcs : HandleRequestVote(m)
    BY <1>2
  <2>2. m.dst \in Node /\ m.term \in Nat
    BY <1>0, <2>1, MessageKinds DEF HandleRequestVote, VoteRequestType
  <2>3. CASE DecideVote(m)
    <3>1. /\ m.term >= currentTerm[m.dst] /\ currentTerm' = [currentTerm EXCEPT ![m.dst] = m.term]
          /\ log' = log
          /\ m.term > currentTerm[m.dst] => state' = [state EXCEPT ![m.dst] = Follower]
          /\ ~(m.term > currentTerm[m.dst]) => state' = state
      BY <2>3 DEF DecideVote
    <3> QED BY <1>0, <2>2, <3>1
  <2>4. CASE RefuseStaleVote(m) \/ RefuseWhileLeaderAlive(m)
    BY <1>0, <2>4 DEF RefuseStaleVote, RefuseWhileLeaderAlive, persistent
  <2> QED BY <2>1, <2>3, <2>4 DEF HandleRequestVote
<1>3. CASE \E m \in rpcs : HandleRequestVoteReply(m)
  <2>1. PICK m \in rpcs : HandleRequestVoteReply(m)
    BY <1>3
  <2>2. m.dst \in Node
    BY <1>0, MessageKinds
  <2>3. \/ currentTerm' = currentTerm /\ log' = log /\ state' = state
        \/ BecomeFollower(m.dst, m.term) /\ log' = log
        \/ currentTerm' = currentTerm /\ BecomeLeader(m.dst)
    BY <2>1 DEF HandleRequestVoteReply, persistent
  <2> QED BY <1>0, <2>2, <2>3 DEF BecomeFollower, BecomeLeader
<1>4. CASE \E m \in rpcs : RequestVoteFails(m)
  BY <1>0, <1>4 DEF RequestVoteFails, persistent
<1>5. CASE \E i, j \in Node : SendAppendEntries(i, j)
  BY <1>0, <1>5 DEF SendAppendEntries, persistent
<1>6. CASE \E m \in rpcs : HandleAppendEntries(m)
  <2>1. PICK m \in rpcs : HandleAppendEntries(m)
    BY <1>6
  <2>2. m.dst \in Node /\ m.src \in Node /\ m.term \in Nat /\ <<m.term, m.src>> \in elected
    BY <1>0, <2>1, MessageKinds
       DEF HandleAppendEntries, AppendRequestType, ElectionInv, LeadersElected
  <2>3. CASE RefuseStaleLeader(m)
    BY <1>0, <2>3 DEF RefuseStaleLeader, persistent
  <2>4. CASE AcceptLeader(m)
    <3>1. /\ m.term >= currentTerm[m.dst]
          /\ m.term > currentTerm[m.dst] => BecomeFollower(m.dst, m.term)
          /\ ~(m.term > currentTerm[m.dst]) => currentTerm' = currentTerm /\ state' = state
          /\ log' = log \/ log' = [log EXCEPT ![m.dst] = Merge(@, m.prevLogIndex, m.entries)]
      BY <2>4 DEF AcceptLeader
    <3>2. CASE m.term > currentTerm[m.dst]
      BY <1>0, <2>2, <3>1, <3>2 DEF BecomeFollower
    <3>3. CASE ~(m.term > currentTerm[m.dst])
      <4>1. m.term = currentTerm[m.dst] /\ currentTerm' = currentTerm /\ state' = state
        BY <1>0, <2>2, <3>1, <3>3
      <4> QED BY <1>0, <2>2, <3>1, <4>1
    <3> QED BY <3>2, <3>3
  <2> QED BY <2>1, <2>3, <2>4 DEF HandleAppendEntries
<1>7. CASE \E m \in rpcs : HandleAppendEntriesReply(m)
  <2>1. PICK m \in rpcs : HandleAppendEntriesReply(m)
    BY <1>7
  <2>2. m.dst \in Node
    BY <1>0, MessageKinds
  <2>3. \/ currentTerm' = currentTerm /\ log' = log /\ state' = state
        \/ BecomeFollower(m.dst, m.term) /\ log' = log
    BY <2>1 DEF HandleAppendEntriesReply
  <2> QED BY <1>0, <2>2, <2>3 DEF BecomeFollower
<1>8. CASE \E m \in rpcs : AppendEntriesFails(m)
  BY <1>0, <1>8 DEF AppendEntriesFails, persistent
<1>9. CASE \E m \in rpcs : AppendEntriesTimeout(m)
  BY <1>0, <1>9 DEF AppendEntriesTimeout, persistent
<1>10. CASE \E i \in Node, v \in Value : Submit(i, v)
  BY <1>0, <1>10 DEF Submit
<1>11. CASE \E i \in Node : StepDown(i)
  BY <1>0, <1>11 DEF StepDown, BecomeFollower
<1>12. CASE UNCHANGED vars
  BY <1>0, <1>12 DEF vars
<1> QED BY <1>1, <1>2, <1>3, <1>4, <1>5, <1>6, <1>7, <1>8, <1>9, <1>10, <1>11, <1>12 DEF Next

-----------------------------------------------------------------------------
(* The links a step makes.                                                  *)

\* Indices of links are positive, terms are numbers.
LEMMA LinkTypes ==
    ASSUME TypeOK, NEW a \in Links
    PROVE  a[1] \in Nat /\ a[1] > 0 /\ a[2] \in Nat /\ a[3].term \in Nat
<1>1. CASE \E i \in Node : a \in LogLinks(log[i])
  <2>1. PICK i \in Node : a \in LogLinks(log[i])
    BY <1>1
  <2>2. PICK k \in DOMAIN log[i] : a = <<k, TermAt(log[i], k - 1), log[i][k]>>
    BY <2>1 DEF LogLinks
  <2>3. k \in 1..Len(log[i]) /\ k - 1 \in 0..Len(log[i]) /\ Len(log[i]) \in Nat
    BY LogFacts
  <2>4. TermAt(log[i], k - 1) \in Nat /\ log[i][k].term \in Nat
    BY <2>3, LogFacts
  <2> QED BY <2>2, <2>3, <2>4
<1>2. CASE \E m \in Requests : a \in SentLinks(m)
  <2>1. PICK m \in Requests : a \in SentLinks(m)
    BY <1>2
  <2>2. /\ m.prevLogIndex \in Nat /\ m.prevLogTerm \in Nat
        /\ m.entries \in Seq(EntryRecord)
    BY MessageKinds DEF Requests, AppendRequestType
  <2>3. PICK k \in DOMAIN m.entries :
           a = <<m.prevLogIndex + k,
                 IF k = 1 THEN m.prevLogTerm ELSE m.entries[k - 1].term, m.entries[k]>>
    BY <2>1 DEF SentLinks, EntryLinks
  <2>4. DOMAIN m.entries = 1..Len(m.entries) /\ Len(m.entries) \in Nat
    BY <2>2, LenProperties
  <2>5. \A x \in 1..Len(m.entries) : m.entries[x].term \in Nat
    <3>1. TAKE x \in 1..Len(m.entries)
    <3>2. m.entries[x] \in EntryRecord
      BY <2>2, ElementOfSeq
    <3> QED BY <3>2 DEF EntryRecord
  <2>6. k \in Nat /\ k > 0 /\ (k # 1 => k - 1 \in 1..Len(m.entries))
    BY <2>4
  <2>7. /\ a[1] = m.prevLogIndex + k /\ a[3].term = m.entries[k].term
        /\ a[2] = IF k = 1 THEN m.prevLogTerm ELSE m.entries[k - 1].term
    BY <2>3
  <2>8. a[2] \in Nat
    BY <2>2, <2>5, <2>6, <2>7
  <2> QED BY <2>2, <2>4, <2>5, <2>6, <2>7, <2>8
<1> QED BY <1>1, <1>2 DEF Links

\* Requests bring only links that were there.
LEMMA SentKept ==
    ASSUME ElectionInv, [Next]_vars, NEW m \in Requests'
    PROVE  SentLinks(m) \subseteq Links
<1>1. CASE m \in rpcs
  BY <1>1 DEF Requests, Links
<1>2. CASE m \notin rpcs
  <2>1. m \in rpcs' /\ m.kind = "AppendEntries"
    BY DEF Requests
  <2>2. \/ \E i, j \in Node :
              /\ SendAppendEntries(i, j)
              /\ m = AppendRequest(i, j, currentTerm[i], nextIndex[i][j] - 1,
                                   TermAt(log[i], nextIndex[i][j] - 1),
                                   SubSeq(log[i], nextIndex[i][j], Len(log[i])),
                                   commitIndex[i])
        \/ \E r \in rpcs : AppendEntriesTimeout(r) /\ m = [r EXCEPT !.awaited = FALSE]
    <3>1. \A i, j, t, k, u : VoteRequest(i, j, t, k, u).kind # m.kind
      BY <2>1 DEF VoteRequest
    <3>2. \A r, t, s, ci, ct : AppendReply(r, t, s, ci, ct).kind # m.kind
      BY <2>1 DEF AppendReply
    <3> QED BY <1>2, <2>1, <3>1, <3>2, NewMessages
  <2>3. CASE \E i, j \in Node :
              /\ SendAppendEntries(i, j)
              /\ m = AppendRequest(i, j, currentTerm[i], nextIndex[i][j] - 1,
                                   TermAt(log[i], nextIndex[i][j] - 1),
                                   SubSeq(log[i], nextIndex[i][j], Len(log[i])),
                                   commitIndex[i])
    <3>1. PICK i \in Node, j \in Node :
              /\ SendAppendEntries(i, j)
              /\ m = AppendRequest(i, j, currentTerm[i], nextIndex[i][j] - 1,
                                   TermAt(log[i], nextIndex[i][j] - 1),
                                   SubSeq(log[i], nextIndex[i][j], Len(log[i])),
                                   commitIndex[i])
      BY <2>3
    <3> DEFINE next == nextIndex[i][j]
    <3>2. next \in Nat /\ next >= 1 /\ next <= Len(log[i]) + 1 /\ log[i] \in Seq(EntryRecord)
      BY <3>1, SentFrom, LogFacts DEF ElectionInv
    <3>3. SentLinks(m) = EntryLinks(next - 1, TermAt(log[i], next - 1),
                                    SubSeq(log[i], next, Len(log[i])))
      BY <3>1 DEF SentLinks, AppendRequest
    <3> HIDE DEF next
    <3>4. SentLinks(m) \subseteq LogLinks(log[i])
      BY <3>2, <3>3, TailLinks
    <3> QED BY <3>4 DEF Links
  <2>4. CASE \E r \in rpcs : AppendEntriesTimeout(r) /\ m = [r EXCEPT !.awaited = FALSE]
    <3>1. PICK r \in rpcs : AppendEntriesTimeout(r) /\ m = [r EXCEPT !.awaited = FALSE]
      BY <2>4
    <3>2. r \in AppendRequestType /\ r \in Requests
      BY <3>1, MessageKinds DEF AppendEntriesTimeout, ElectionInv, Requests
    <3>3. m.prevLogIndex = r.prevLogIndex /\ m.prevLogTerm = r.prevLogTerm
          /\ m.entries = r.entries
      BY <3>1, <3>2 DEF AppendRequestType
    <3> QED BY <3>2, <3>3 DEF SentLinks, Links
  <2> QED BY <2>2, <2>3, <2>4
<1> QED BY <1>1, <1>2

\* The log l2 is l with entries of term t after it.
Grown(l, l2, t) ==
    /\ Len(l2) >= Len(l)
    /\ \A k \in 1..Len(l) : l2[k] = l[k]
    /\ \A k \in 1..Len(l2) : k > Len(l) => l2[k].term = t

\* What an extended log's new links are.
LEMMA ExtendedLinks ==
    ASSUME NEW S, NEW l \in Seq(S), NEW l2 \in Seq(S), NEW t, Grown(l, l2, t),
           NEW a \in LogLinks(l2), a \notin LogLinks(l)
    PROVE  /\ a[1] \in Nat /\ a[1] > Len(l) /\ a[3].term = t
           /\ a[2] = t \/ (a[1] = Len(l) + 1 /\ a[2] = LastTerm(l))
<1> USE DEF Grown
<1>1. /\ DOMAIN l = 1..Len(l) /\ Len(l) \in Nat
      /\ DOMAIN l2 = 1..Len(l2) /\ Len(l2) \in Nat
  BY LenProperties
<1>2. PICK k \in DOMAIN l2 : a = <<k, TermAt(l2, k - 1), l2[k]>>
  BY DEF LogLinks
<1>3. k \in Nat /\ k >= 1 /\ k <= Len(l2)
  BY <1>1, <1>2
<1>4. a[1] = k /\ a[2] = TermAt(l2, k - 1) /\ a[3] = l2[k]
  BY <1>2
<1>5. k > Len(l)
  <2>1. SUFFICES ASSUME k <= Len(l) PROVE a \in LogLinks(l)
    BY <1>1, <1>3
  <2>2. k \in DOMAIN l /\ l2[k] = l[k]
    BY <1>1, <1>3, <2>1
  <2>3. TermAt(l2, k - 1) = TermAt(l, k - 1)
    <3>1. CASE k = 1
      BY <3>1 DEF TermAt
    <3>2. CASE k # 1
      <4>1. k - 1 \in 1..Len(l) /\ k - 1 # 0
        BY <1>1, <1>3, <2>1, <3>2
      <4> QED BY <4>1 DEF TermAt
    <3> QED BY <3>1, <3>2
  <2> QED BY <1>2, <2>2, <2>3 DEF LogLinks
<1>6. l2[k].term = t
  BY <1>1, <1>3, <1>5
<1>7. CASE k = Len(l) + 1
  <2>1. TermAt(l2, k - 1) = LastTerm(l)
    <3>1. k - 1 = Len(l)
      BY <1>1, <1>7
    <3>2. CASE Len(l) = 0
      BY <3>1, <3>2 DEF TermAt, LastTerm
    <3>3. CASE Len(l) # 0
      <4>1. l2[Len(l)] = l[Len(l)]
        BY <1>1, <3>3
      <4> QED BY <3>1, <4>1 DEF TermAt, LastTerm
    <3> QED BY <3>2, <3>3
  <2> QED BY <1>3, <1>4, <1>5, <1>6, <1>7, <2>1
<1>8. CASE k # Len(l) + 1
  <2>1. k - 1 \in 1..Len(l2) /\ k - 1 > Len(l) /\ k - 1 # 0
    BY <1>1, <1>3, <1>5, <1>8
  <2>2. TermAt(l2, k - 1) = t
    BY <2>1 DEF TermAt
  <2> QED BY <1>3, <1>4, <1>5, <1>6, <2>2
<1> QED BY <1>7, <1>8

\* The log of i grows by entries of the term it was elected in, and no other log
\* changes.
Extends(i) ==
    /\ currentTerm' = currentTerm /\ elected' = elected \cup {<<currentTerm[i], i>>}
    /\ granted' = granted
    /\ log'[i] \in Seq(EntryRecord) /\ Grown(log[i], log'[i], currentTerm[i])
    /\ \A n \in Node \ {i} : log'[n] = log[n]

\* Submit appends one entry of the leader's term (raft.go:138-160).
LEMMA SubmitExtends ==
    ASSUME ElectionInv, ElectionInv', NEW i \in Node, NEW v \in Value, Submit(i, v)
    PROVE  Extends(i) /\ <<currentTerm[i], i>> \in elected
<1> DEFINE e == Entry(EntryNormal, currentTerm[i], v)
<1>1. /\ log' = [log EXCEPT ![i] = Append(@, e)] /\ state[i] = Leader
      /\ currentTerm' = currentTerm /\ elected' = elected /\ granted' = granted
  BY DEF Submit, history
<1>2. e.term = currentTerm[i]
  BY DEF Entry
<1>3. log \in [Node -> Seq(EntryRecord)] /\ log[i] \in Seq(EntryRecord) /\ Len(log[i]) \in Nat
  BY LogFacts DEF ElectionInv, TypeOK
<1>4. log'[i] \in Seq(EntryRecord)
  BY DEF ElectionInv, TypeOK
<1> HIDE DEF e
<1>5. log'[i] = Append(log[i], e) /\ \A n \in Node \ {i} : log'[n] = log[n]
  BY <1>1, <1>3
<1>6. /\ Len(log'[i]) = Len(log[i]) + 1
      /\ \A k \in 1..Len(log[i]) : log'[i][k] = log[i][k]
      /\ log'[i][Len(log[i]) + 1] = e
  BY <1>3, <1>5
<1>7. \A k \in 1..Len(log'[i]) : k > Len(log[i]) => log'[i][k].term = currentTerm[i]
  BY <1>2, <1>3, <1>6
<1>8. <<currentTerm[i], i>> \in elected
  BY <1>1 DEF ElectionInv, LeadersElected
<1>9. Len(log'[i]) >= Len(log[i]) /\ elected' = elected \cup {<<currentTerm[i], i>>}
  BY <1>1, <1>3, <1>6, <1>8
<1> QED BY <1>1, <1>4, <1>5, <1>6, <1>7, <1>8, <1>9 DEF Extends, Grown

\* An election appends the opening entries, of the term won (state.go:30-71).
LEMMA WinExtends ==
    ASSUME ElectionInv, ElectionInv', NEW i \in Node, Wins(i)
    PROVE  Extends(i)
<1> DEFINE opening == OpeningEntries(i)
<1>1. /\ log' = [log EXCEPT ![i] = @ \o opening] /\ currentTerm' = currentTerm
      /\ elected' = elected \cup {<<currentTerm[i], i>>} /\ granted' = granted
  BY DEF Wins, BecomeLeader
<1>2. /\ opening \in Seq(EntryRecord) /\ Len(opening) \in Nat
      /\ \A k \in 1..Len(opening) : opening[k].term = currentTerm[i]
  BY OpeningOwnTerm, LenProperties DEF ElectionInv
<1>3. log \in [Node -> Seq(EntryRecord)] /\ log[i] \in Seq(EntryRecord) /\ Len(log[i]) \in Nat
  BY LogFacts DEF ElectionInv, TypeOK
<1>4. log'[i] \in Seq(EntryRecord)
  BY DEF ElectionInv, TypeOK
<1> HIDE DEF opening
<1>5. log'[i] = log[i] \o opening /\ \A n \in Node \ {i} : log'[n] = log[n]
  BY <1>1, <1>3
<1>6. /\ Len(log'[i]) = Len(log[i]) + Len(opening)
      /\ \A k \in 1..Len(log[i]) + Len(opening) : log'[i][k] =
            IF k <= Len(log[i]) THEN log[i][k] ELSE opening[k - Len(log[i])]
  BY <1>2, <1>3, <1>5, ConcatProperties
<1>7. /\ Len(log'[i]) >= Len(log[i])
      /\ \A k \in 1..Len(log[i]) : log'[i][k] = log[i][k]
  <2>1. \A k \in 1..Len(log[i]) : k \in 1..Len(log[i]) + Len(opening) /\ k <= Len(log[i])
    BY <1>2, <1>3
  <2> QED BY <1>2, <1>3, <1>6, <2>1
<1>8. ASSUME NEW k \in 1..Len(log'[i]), k > Len(log[i])
      PROVE  log'[i][k].term = currentTerm[i]
  <2>1. k - Len(log[i]) \in 1..Len(opening) /\ log'[i][k] = opening[k - Len(log[i])]
    BY <1>2, <1>3, <1>6, <1>8
  <2> QED BY <1>2, <2>1
<1> QED BY <1>1, <1>4, <1>5, <1>7, <1>8 DEF Extends, Grown

\* Who leads after a step led before it in the same term, or has just won.
LEMMA LeaderOrigin ==
    ASSUME TypeOK, [Next]_vars, NEW i \in Node, state'[i] = Leader
    PROVE  (state[i] = Leader /\ currentTerm'[i] = currentTerm[i]) \/ Wins(i)
<1> USE DEF Follower, Candidate, Leader
<1>0. state \in [Node -> {Follower, Candidate, Leader}] /\ currentTerm \in [Node -> Nat]
  BY DEF TypeOK
<1>1. CASE \E x \in Node : StartElection(x)
  BY <1>0, <1>1 DEF StartElection
<1>2. CASE \E m \in rpcs : HandleRequestVote(m)
  <2>1. PICK m \in rpcs : HandleRequestVote(m)
    BY <1>2
  <2>2. m.dst \in Node /\ m.term \in Nat
    BY <2>1, MessageKinds DEF HandleRequestVote, VoteRequestType
  <2>3. CASE DecideVote(m)
    <3>1. /\ m.term >= currentTerm[m.dst]
          /\ currentTerm' = [currentTerm EXCEPT ![m.dst] = m.term]
          /\ m.term > currentTerm[m.dst] => state' = [state EXCEPT ![m.dst] = Follower]
          /\ ~(m.term > currentTerm[m.dst]) => state' = state
      BY <2>3 DEF DecideVote
    <3> QED BY <1>0, <2>2, <3>1
  <2>4. CASE RefuseStaleVote(m) \/ RefuseWhileLeaderAlive(m)
    BY <2>4 DEF RefuseStaleVote, RefuseWhileLeaderAlive, persistent
  <2> QED BY <2>1, <2>3, <2>4 DEF HandleRequestVote
<1>3. CASE \E m \in rpcs : HandleRequestVoteReply(m)
  <2>1. PICK m \in rpcs : HandleRequestVoteReply(m)
    BY <1>3
  <2>2. m.dst \in Node
    BY MessageKinds
  <2>3. \/ state' = state /\ currentTerm' = currentTerm
        \/ state' = [state EXCEPT ![m.dst] = Follower]
           /\ \A x \in Node \ {m.dst} : currentTerm'[x] = currentTerm[x]
        \/ Wins(m.dst)
    BY <1>0, <2>1 DEF HandleRequestVoteReply, Wins, persistent, BecomeFollower
  <2>4. CASE Wins(m.dst)
    <3>1. state' = [state EXCEPT ![m.dst] = Leader] /\ currentTerm' = currentTerm
      BY <2>4 DEF Wins, BecomeLeader
    <3>2. CASE i = m.dst
      BY <2>4, <3>2
    <3>3. CASE i # m.dst
      BY <1>0, <3>1, <3>3
    <3> QED BY <3>2, <3>3
  <2> QED BY <1>0, <2>2, <2>3, <2>4
<1>4. CASE \E m \in rpcs : RequestVoteFails(m)
  BY <1>4 DEF RequestVoteFails, persistent
<1>5. CASE \E x, y \in Node : SendAppendEntries(x, y)
  BY <1>5 DEF SendAppendEntries, persistent
<1>6. CASE \E m \in rpcs : HandleAppendEntries(m)
  <2>1. PICK m \in rpcs : HandleAppendEntries(m)
    BY <1>6
  <2>2. m.dst \in Node
    BY MessageKinds
  <2>3. \/ state' = state /\ currentTerm' = currentTerm
        \/ /\ state' = [state EXCEPT ![m.dst] = Follower]
           /\ currentTerm' = [currentTerm EXCEPT ![m.dst] = m.term]
    BY <2>1 DEF HandleAppendEntries, RefuseStaleLeader, AcceptLeader, BecomeFollower, persistent
  <2> QED BY <1>0, <2>2, <2>3
<1>7. CASE \E m \in rpcs : HandleAppendEntriesReply(m)
  <2>1. PICK m \in rpcs : HandleAppendEntriesReply(m)
    BY <1>7
  <2>2. m.dst \in Node
    BY MessageKinds
  <2>3. \/ state' = state /\ currentTerm' = currentTerm
        \/ /\ state' = [state EXCEPT ![m.dst] = Follower]
           /\ currentTerm' = [currentTerm EXCEPT ![m.dst] = m.term]
    BY <2>1 DEF HandleAppendEntriesReply, BecomeFollower
  <2> QED BY <1>0, <2>2, <2>3
<1>8. CASE \E m \in rpcs : AppendEntriesFails(m)
  BY <1>8 DEF AppendEntriesFails, persistent
<1>9. CASE \E m \in rpcs : AppendEntriesTimeout(m)
  BY <1>9 DEF AppendEntriesTimeout, persistent
<1>10. CASE \E x \in Node, v \in Value : Submit(x, v)
  BY <1>10 DEF Submit
<1>11. CASE \E x \in Node : StepDown(x)
  BY <1>0, <1>11 DEF StepDown, BecomeFollower
<1>12. CASE UNCHANGED vars
  BY <1>12 DEF vars
<1> QED BY <1>1, <1>2, <1>3, <1>4, <1>5, <1>6, <1>7, <1>8, <1>9, <1>10, <1>11, <1>12 DEF Next

\* Nothing of the term an election is won in is in a log or on its way.
LEMMA WinnersTermNew ==
    ASSUME ElectionInv', LogInv, NEW i \in Node, Wins(i), NEW a \in Links
    PROVE  a[3].term # currentTerm[i]
<1> SUFFICES ASSUME a[3].term = currentTerm[i] PROVE FALSE
  OBVIOUS
<1>1. PICK n \in Node : <<currentTerm[i], n>> \in elected
  BY DEF LogInv, LinksElected
<1>2. n = i
  <2> DEFINE e == <<currentTerm[i], n>>
             f == <<currentTerm[i], i>>
  <2>1. e \in elected' /\ f \in elected' /\ e[1] = f[1]
    BY <1>1 DEF Wins, BecomeLeader
  <2>2. e[2] = f[2]
    BY <2>1 DEF ElectionInv, ElectionSafety
  <2> QED BY <2>2
<1> QED BY <1>1, <1>2 DEF LogInv, CandidatesFresh, Wins

\* How a link comes into being: who is elected in its term appends it, after an
\* entry of the same term unless it is the first of them.
MadeBy(i, a) ==
    /\ a[3].term = currentTerm[i] /\ <<currentTerm[i], i>> \in elected'
    /\ \A b \in Links : b[3].term = currentTerm[i] => b[1] <= Len(log[i])
    /\ a[1] \in Nat /\ a[1] > Len(log[i])
    /\ \/ a[2] = currentTerm[i]
       \/ /\ state[i] = Candidate /\ granted' = granted
          /\ a[1] = Len(log[i]) + 1 /\ a[2] = LastTerm(log[i])
          /\ \A b \in Links : b[3].term # currentTerm[i]

\* A node that takes up entries has their links, and no other new ones.
LEMMA AcceptedLinks ==
    ASSUME TypeOK, NEW m \in rpcs, Accepts(m)
    PROVE  /\ LogLinks(log'[m.dst]) \subseteq Links
           /\ \A v \in Node \ {m.dst} : log'[v] = log[v]
           /\ log'[m.dst] = Merge(log[m.dst], m.prevLogIndex, m.entries)
<1> DEFINE i == m.dst
           p == m.prevLogIndex
<1>1. /\ m \in Requests /\ p \in 0..Len(log[i])
      /\ TermAt(log[i], p) = m.prevLogTerm
      /\ log' = [log EXCEPT ![i] = Merge(@, p, m.entries)]
  BY DEF Accepts
<1>2. /\ i \in Node /\ m.entries \in Seq(EntryRecord) /\ log \in [Node -> Seq(EntryRecord)]
      /\ log[i] \in Seq(EntryRecord)
  BY <1>1, MessageKinds DEF Requests, AppendRequestType, TypeOK
<1>3. log'[i] = Merge(log[i], p, m.entries) /\ \A v \in Node \ {i} : log'[v] = log[v]
  BY <1>1, <1>2
<1>4. LogLinks(Merge(log[i], p, m.entries))
         \subseteq LogLinks(log[i]) \cup EntryLinks(p, TermAt(log[i], p), m.entries)
  BY <1>1, <1>2, MergeLinks
<1>5. EntryLinks(p, TermAt(log[i], p), m.entries) = SentLinks(m)
  BY <1>1 DEF SentLinks
<1>6. LogLinks(log[i]) \subseteq Links /\ SentLinks(m) \subseteq Links
  BY <1>1, <1>2 DEF Links
<1> QED BY <1>3, <1>4, <1>5, <1>6

\* Every new link is made by who was elected in its term: AppendEntries makes none,
\* and of the steps that append, one wins the term and the others come after it.
LEMMA MadeLinks ==
    ASSUME ElectionInv, ElectionInv', LogInv, [Next]_vars, NEW a \in Links', a \notin Links
    PROVE  \E i \in Node : MadeBy(i, a)
<1>0. TypeOK
  BY DEF ElectionInv
<1>1. PICK v \in Node : a \in LogLinks(log'[v])
  BY SentKept DEF Links
<1>2. log[v] \in Seq(EntryRecord) /\ LogLinks(log[v]) \subseteq Links
  BY <1>0, LogFacts DEF Links
<1>3. CASE log' = log
  BY <1>1, <1>2, <1>3
<1>4. ASSUME NEW i \in Node, Extends(i), Wins(i) \/ <<currentTerm[i], i>> \in elected
      PROVE  MadeBy(i, a)
  <2>1. v = i
    BY <1>1, <1>2, <1>4 DEF Extends
  <2>2. /\ a[1] \in Nat /\ a[1] > Len(log[i]) /\ a[3].term = currentTerm[i]
        /\ a[2] = currentTerm[i] \/ (a[1] = Len(log[i]) + 1 /\ a[2] = LastTerm(log[i]))
    <3>1. a \in LogLinks(log'[i]) /\ a \notin LogLinks(log[i]) /\ log[i] \in Seq(EntryRecord)
      BY <1>1, <1>2, <2>1
    <3>2. log'[i] \in Seq(EntryRecord) /\ Grown(log[i], log'[i], currentTerm[i])
      BY <1>4 DEF Extends
    <3> QED BY <3>1, <3>2, ExtendedLinks
  <2>3. <<currentTerm[i], i>> \in elected'
    BY <1>4 DEF Extends
  <2>4. CASE <<currentTerm[i], i>> \in elected
    <3>1. \A b \in Links : b[3].term = currentTerm[i] => b[1] <= Len(log[i])
      <4>1. <<currentTerm[i], i>>[1] = currentTerm[<<currentTerm[i], i>>[2]]
        OBVIOUS
      <4> QED BY <2>4, <4>1 DEF LogInv, LeaderHolds
    <3>2. LastTerm(log[i]) = currentTerm[i]
      <4>1. <<currentTerm[i], i>>[1] = currentTerm[<<currentTerm[i], i>>[2]]
        OBVIOUS
      <4> QED BY <2>4, <4>1 DEF ElectionInv, ElectedLogEnds
    <3> QED BY <2>2, <2>3, <3>1, <3>2 DEF MadeBy
  <2>5. CASE Wins(i)
    <3>1. \A b \in Links : b[3].term # currentTerm[i]
      BY <2>5, WinnersTermNew
    <3>2. state[i] = Candidate /\ granted' = granted
      BY <2>5 DEF Wins
    <3> QED BY <2>2, <2>3, <3>1, <3>2 DEF MadeBy
  <2> QED BY <1>4, <2>4, <2>5
<1>5. CASE \E i \in Node : Wins(i)
  BY <1>4, <1>5, WinExtends
<1>6. CASE \E i \in Node, w \in Value : Submit(i, w)
  BY <1>4, <1>6, SubmitExtends
<1>7. CASE \E m \in rpcs : Accepts(m)
  BY <1>0, <1>1, <1>2, <1>7, AcceptedLinks
<1> QED BY <1>0, <1>3, <1>5, <1>6, <1>7, NewLogs

\* A log keeps what it holds, unless its node takes up entries.
LEMMA LogsKept ==
    ASSUME ElectionInv, ElectionInv', [Next]_vars, NEW v \in Node
    PROVE  \/ \E m \in rpcs : Accepts(m) /\ m.dst = v
           \/ /\ Len(log'[v]) >= Len(log[v])
              /\ \A k \in DOMAIN log[v] : k \in DOMAIN log'[v] /\ log'[v][k] = log[v][k]
<1>0. TypeOK /\ TypeOK'
  BY DEF ElectionInv
<1>1. /\ DOMAIN log[v] = 1..Len(log[v]) /\ Len(log[v]) \in Nat
      /\ DOMAIN log'[v] = 1..Len(log'[v]) /\ Len(log'[v]) \in Nat
  <2>1. log[v] \in Seq(EntryRecord) /\ log'[v] \in Seq(EntryRecord)
    BY <1>0 DEF TypeOK
  <2> QED BY <2>1, LenProperties
<1>2. CASE log'[v] = log[v]
  BY <1>1, <1>2
<1>3. CASE \E i \in Node : Extends(i)
  <2>1. PICK i \in Node : Extends(i)
    BY <1>3
  <2>2. CASE i = v
    <3>1. /\ Len(log'[v]) >= Len(log[v])
          /\ \A k \in 1..Len(log[v]) : log'[v][k] = log[v][k]
      BY <2>1, <2>2 DEF Extends, Grown
    <3> QED BY <1>1, <3>1
  <2>3. CASE i # v
    <3>1. log'[v] = log[v]
      BY <2>1, <2>3 DEF Extends
    <3> QED BY <1>2, <3>1
  <2> QED BY <2>2, <2>3
<1>4. CASE \E m \in rpcs : Accepts(m)
  <2>1. PICK m \in rpcs : Accepts(m)
    BY <1>4
  <2>2. CASE m.dst # v
    <3>1. log'[v] = log[v]
      BY <1>0, <2>1, <2>2, AcceptedLinks
    <3> QED BY <1>2, <3>1
  <2> QED BY <2>1, <2>2
<1> QED BY <1>0, <1>2, <1>3, <1>4, NewLogs, WinExtends, SubmitExtends

-----------------------------------------------------------------------------
(* The theorems.                                                            *)

\* The links of every reachable state are unique, and a term's are its leader's
\* (state.go:30-71, replication.go:29-41, service.go:42-86).
THEOREM LogInvariant == Spec => []LogInv
<1>1. ElectionInv => TermInv /\ ElectionSafety
  BY ElectionInvVotes DEF VotingInv, ElectionInv
<1> QED BY <1>1, InitLogInv, NextLogInv, ElectionInvariant, PTL DEF Spec

\* Two logs with an entry of the same index and term are the same up to it, in
\* every reachable state, whatever tails AppendEntries keeps or cuts.
THEOREM LogMatchingHolds == Spec => []LogMatching
<1>1. ElectionInv /\ LogInv => LogMatching
  BY UniqueLinksMatch DEF ElectionInv, LogInv
<1> QED BY <1>1, ElectionInvariant, LogInvariant, PTL
=============================================================================
