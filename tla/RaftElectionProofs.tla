------------------------- MODULE RaftElectionProofs -------------------------
(***************************************************************************)
(* The invariants of the election.  TermInv and VotingInv are kept by      *)
(* every handler of Raft whoever the voters are; ElectionInv is an         *)
(* invariant of Spec, for every set of nodes, every founding cluster and   *)
(* every bound; with it, so are type correctness, one vote per node and    *)
(* term, and one leader per term.  Before that, what the operators of      *)
(* RaftLog return, for every log.                                          *)
(***************************************************************************)
EXTENDS RaftElection, TLAPS, WellFoundedInduction, FiniteSetTheorems, SequenceTheorems

-----------------------------------------------------------------------------
(* Least and greatest elements of sets of naturals.  The loops of the code  *)
(* that search for the first or the last index with a property are          *)
(* modelled by a CHOOSE of it, which is one only if there is one.           *)

\* A non-empty set of naturals has a least element.
LEMMA LeastExists ==
    ASSUME NEW S \in SUBSET Nat, S # {}
    PROVE  \E x \in S : \A y \in S : x <= y
<1> DEFINE less == {p \in Nat \X Nat : p[1] < p[2]}
<1>1. IsWellFoundedOn(less, Nat)
  BY NatLessThanWellFounded DEF OpToRel
<1> HIDE DEF less
<1>2. PICK x \in S : \A y \in S : <<y, x>> \notin less
  BY <1>1, WFMin
<1>3. ASSUME NEW y \in S PROVE x <= y
  <2>1. <<y, x>> \in Nat \X Nat /\ <<y, x>>[1] = y /\ <<y, x>>[2] = x
    OBVIOUS
  <2>2. CASE y < x
    <3>1. <<y, x>> \in less
      BY <2>1, <2>2 DEF less
    <3> QED BY <3>1, <1>2
  <2> QED BY <2>2
<1> QED BY <1>3

\* A non-empty set of naturals with a bound has a greatest element.
LEMMA GreatestExists ==
    ASSUME NEW S \in SUBSET Nat, S # {}, NEW b \in Nat, \A y \in S : y <= b
    PROVE  \E x \in S : \A y \in S : y <= x
<1> DEFINE T == {b - y : y \in S}
<1>1. T \in SUBSET Nat /\ T # {}
  <2>1. \A y \in S : b - y \in Nat
    OBVIOUS
  <2> QED BY <2>1
<1>2. PICK t \in T : \A u \in T : t <= u
  BY <1>1, LeastExists
<1>3. PICK x \in S : t = b - x
  OBVIOUS
<1>4. ASSUME NEW y \in S PROVE y <= x
  BY <1>2, <1>3
<1> QED BY <1>4
-----------------------------------------------------------------------------
(* What the operators of RaftLog return, for every log.                     *)

\* The follower's conflict index is an index of its log, that of the first
\* entry of the term it has at prev (service.go:42-64).
LEMMA ConflictIndexIsFirst ==
    ASSUME NEW S, NEW l \in Seq(S), NEW prev \in 1..Len(l)
    PROVE  /\ ConflictIndex(l, prev) \in 1..prev
           /\ \A k \in ConflictIndex(l, prev)..prev : l[k].term = l[prev].term
<1> DEFINE Run == {c \in 1..prev : \A k \in c..prev : l[k].term = l[prev].term}
           IsFirst(c) == /\ \A k \in c..prev : l[k].term = l[prev].term
                         /\ c = 1 \/ l[c - 1].term # l[prev].term
<1>1. Run \in SUBSET Nat /\ prev \in Run
  <2>1. \A k \in prev..prev : k = prev
    OBVIOUS
  <2>2. prev \in 1..prev
    OBVIOUS
  <2>3. \A k \in prev..prev : l[k].term = l[prev].term
    BY <2>1
  <2> QED BY <2>2, <2>3
<1>2. PICK c \in Run : \A d \in Run : c <= d
  BY <1>1, LeastExists
<1>3. c = 1 \/ l[c - 1].term # l[prev].term
  <2>1. SUFFICES ASSUME c # 1, l[c - 1].term = l[prev].term PROVE FALSE
    OBVIOUS
  <2>2. c - 1 \in 1..prev /\ \A k \in (c - 1)..prev : k = c - 1 \/ k \in c..prev
    BY <2>1
  <2>3. \A k \in (c - 1)..prev : l[k].term = l[prev].term
    BY <2>1, <2>2
  <2>4. c - 1 \in Run
    BY <2>2, <2>3
  <2> QED BY <1>2, <2>4
<1>4. \E d \in 1..prev : IsFirst(d)
  BY <1>3
<1>5. ConflictIndex(l, prev) = CHOOSE d \in 1..prev : IsFirst(d)
  BY DEF ConflictIndex
<1> HIDE DEF IsFirst
<1>6. ConflictIndex(l, prev) \in 1..prev /\ IsFirst(ConflictIndex(l, prev))
  BY <1>4, <1>5
<1> QED BY <1>6 DEF IsFirst

\* What a leader sends, the log from nextIndex on, has the log's entries
\* (replication.go:33-37).
LEMMA TailEntries ==
    ASSUME NEW S, NEW l \in Seq(S), NEW next \in Nat, next >= 1, next <= Len(l) + 1
    PROVE  /\ SubSeq(l, next, Len(l)) \in Seq(S)
           /\ \A k \in DOMAIN SubSeq(l, next, Len(l)) :
                 /\ k + next - 1 \in DOMAIN l
                 /\ SubSeq(l, next, Len(l))[k] = l[k + next - 1]
<1> DEFINE sent == SubSeq(l, next, Len(l))
<1>1. Len(l) \in Nat /\ DOMAIN l = 1..Len(l)
  BY LenProperties
<1>2. \A k \in next..Len(l) : l[k] \in S
  BY <1>1, ElementOfSeq
<1>3. /\ sent \in Seq(S)
      /\ Len(sent) = IF next <= Len(l) THEN Len(l) - next + 1 ELSE 0
      /\ \A k \in 1..(Len(l) - next + 1) : sent[k] = l[next + k - 1]
  BY <1>1, <1>2, SubSeqProperties
<1>4. DOMAIN sent = 1..Len(sent)
  BY <1>3, LenProperties
<1> HIDE DEF sent
<1>5. ASSUME NEW k \in DOMAIN sent
      PROVE  k + next - 1 \in DOMAIN l /\ sent[k] = l[k + next - 1]
  <2>1. k \in 1..(Len(l) - next + 1) /\ next + k - 1 = k + next - 1
    BY <1>1, <1>3, <1>4
  <2>2. k + next - 1 \in 1..Len(l)
    BY <1>1, <2>1
  <2>3. sent[k] = l[next + k - 1]
    BY <1>3, <2>1
  <2> QED BY <1>1, <2>1, <2>2, <2>3
<1> QED BY <1>3, <1>5 DEF sent

\* The merge of a message into a log is a log, and every entry of it is the
\* log's or the message's at the same position (service.go:68-86).
LEMMA MergeEntries ==
    ASSUME NEW S, NEW l \in Seq(S), NEW entries \in Seq(S), NEW prev \in 0..Len(l)
    PROVE  /\ Merge(l, prev, entries) \in Seq(S)
           /\ \A k \in DOMAIN Merge(l, prev, entries) :
                 \/ k \in DOMAIN l /\ Merge(l, prev, entries)[k] = l[k]
                 \/ k - prev \in DOMAIN entries
                    /\ Merge(l, prev, entries)[k] = entries[k - prev]
<1> DEFINE last == prev + Len(entries)
           keep(n) == n <= Len(l) /\ ~ConflictUpTo(l, prev, entries, n)
           len == IF ConflictUpTo(l, prev, entries, last) \/ last >= Len(l)
                  THEN last ELSE Len(l)
           e(n) == IF keep(n) THEN l[n] ELSE entries[n - prev]
           M == [n \in 1..len |-> e(n)]
<1>1. Merge(l, prev, entries) = M
  BY DEF Merge
<1>2. Len(l) \in Nat /\ Len(entries) \in Nat /\ len \in Nat
      /\ DOMAIN l = 1..Len(l) /\ DOMAIN entries = 1..Len(entries)
  BY LenProperties
<1>3. ASSUME NEW n \in 1..len
      PROVE  \/ n \in DOMAIN l /\ e(n) = l[n]
             \/ n - prev \in DOMAIN entries /\ e(n) = entries[n - prev]
  <2>1. CASE keep(n)
    BY <2>1, <1>2
  <2>2. CASE ~keep(n)
    <3>1. e(n) = entries[n - prev]
      BY <2>2
    <3>2. CASE n > Len(l)
      <4>1. n <= last
        BY <3>2, <1>2
      <4> QED BY <3>1, <3>2, <4>1, <1>2
    <3>3. CASE n <= Len(l)
      <4>1. PICK k \in 1..Len(entries) : prev + k <= n /\ prev + k <= Len(l)
                                         /\ l[prev + k].term # entries[k].term
        BY <2>2, <3>3 DEF ConflictUpTo
      <4>2. ConflictUpTo(l, prev, entries, last)
        <5>1. prev + k <= last
          BY <1>2
        <5> HIDE DEF last, keep, len, e, M
        <5> QED BY <4>1, <5>1 DEF ConflictUpTo
      <4>3. n <= last /\ n > prev
        BY <4>1, <4>2, <1>2
      <4> QED BY <3>1, <4>3, <1>2
    <3> QED BY <3>2, <3>3, <1>2
  <2> QED BY <2>1, <2>2
<1>4. \A n \in 1..len : e(n) \in S
  BY <1>2, <1>3, ElementOfSeq
<1> HIDE DEF e, len
<1>5. M \in [1..len -> S] /\ DOMAIN M = 1..len /\ \A n \in 1..len : M[n] = e(n)
  BY <1>4
<1>6. M \in Seq(S)
  BY <1>5, <1>2, SeqDef
<1> QED BY <1>1, <1>3, <1>5, <1>6

\* A log and a message that end in one term, the message fitting the log, merge
\* into a log that ends in the term: no tail of another term is left or uncovered
\* (service.go:68-86).
LEMMA MergeEndsInTerm ==
    ASSUME NEW S, NEW l \in Seq(S), NEW entries \in Seq(S), NEW prev \in 0..Len(l),
           NEW t, LastTerm(l) = t,
           (IF entries = <<>> THEN TermAt(l, prev) ELSE LastTerm(entries)) = t
    PROVE  LastTerm(Merge(l, prev, entries)) = t
<1> DEFINE a == Len(l)
           b == Len(entries)
           last == prev + b
           clash == ConflictUpTo(l, prev, entries, last)
           len == IF clash \/ last >= a THEN last ELSE a
           e(n) == IF n <= a /\ ~ConflictUpTo(l, prev, entries, n)
                   THEN l[n] ELSE entries[n - prev]
           M == [n \in 1..len |-> e(n)]
<1>1. Merge(l, prev, entries) = M
  BY DEF Merge
<1>2. /\ a \in Nat /\ b \in Nat /\ prev \in Nat /\ prev <= a /\ last = prev + b /\ last \in Nat
      /\ entries # <<>> => b >= 1 /\ entries[b].term = t
      /\ entries = <<>> => b = 0 /\ TermAt(l, prev) = t
      /\ a # 0 => l[a].term = t
  <2>1. a \in Nat /\ b \in Nat
    BY LenProperties
  <2>2. b = 0 <=> entries = <<>>
    BY EmptySeq
  <2>3. entries # <<>> => entries[b].term = t
    BY <2>1, <2>2 DEF LastTerm, TermAt
  <2>4. a # 0 => l[a].term = t
    BY <2>1 DEF LastTerm, TermAt
  <2> QED BY <2>1, <2>2, <2>3, <2>4
<1>3. Len(M) = len /\ len \in Nat /\ (len # 0 => M[len] = e(len))
  <2>1. len \in Nat
    BY <1>2
  <2> HIDE DEF len
  <2>2. len # 0 => len \in 1..len
    BY <2>1
  <2>3. M \in [1..len -> {e(n) : n \in 1..len}] /\ DOMAIN M = 1..len
    OBVIOUS
  <2>4. Len(M) = len
    BY <2>1, <2>3
  <2> QED BY <2>1, <2>2, <2>4
<1>4. \A n \in Nat : ConflictUpTo(l, prev, entries, n) <=>
         \E k \in 1..b : prev + k <= n /\ prev + k <= a /\ l[prev + k].term # entries[k].term
  BY DEF ConflictUpTo
<1>5. CASE len = 0
  <2>1. a = 0
    <3>1. CASE clash
      <4>1. b # 0
        BY <1>2, <1>4, <3>1
      <4> QED BY <1>2, <1>5, <3>1, <4>1
    <3>2. CASE ~clash
      BY <1>2, <1>5, <3>2
    <3> QED BY <3>1, <3>2
  <2>2. t = 0
    BY <2>1 DEF LastTerm, TermAt
  <2> QED BY <1>1, <1>3, <1>5, <2>2 DEF LastTerm, TermAt
<1>6. CASE len # 0
  <2>1. e(len).term = t
    <3>1. CASE clash \/ last >= a
      <4>1. len = last
        BY <3>1
      <4>2. CASE entries = <<>>
        <5>1. b = 0 /\ last = prev /\ ~ConflictUpTo(l, prev, entries, last)
          BY <1>2, <1>4, <4>2
        <5>2. last = a /\ a # 0
          BY <1>2, <1>6, <3>1, <4>1, <5>1
        <5>3. e(len) = l[a]
          BY <4>1, <5>1, <5>2
        <5> QED BY <1>2, <5>2, <5>3
      <4>3. CASE entries # <<>>
        <5>1. last - prev = b /\ b \in 1..b /\ prev + b = last
          BY <1>2, <4>3
        <5>2. CASE last <= a /\ ~ConflictUpTo(l, prev, entries, last)
          <6>1. ~\E k \in 1..b : /\ prev + k <= last /\ prev + k <= a
                                 /\ l[prev + k].term # entries[k].term
            BY <1>2, <1>4, <5>2
          <6>2. l[last].term = entries[b].term
            <7> HIDE DEF a, b, last, clash, len, e, M
            <7>1. ~(last <= last /\ last <= a /\ l[last].term # entries[b].term)
              BY <5>1, <6>1
            <7> QED BY <1>2, <5>2, <7>1
          <6> QED BY <1>2, <4>1, <4>3, <5>2, <6>2
        <5>3. CASE ~(last <= a /\ ~ConflictUpTo(l, prev, entries, last))
          <6>1. e(len) = entries[b]
            BY <4>1, <5>1, <5>3
          <6> QED BY <1>2, <4>3, <6>1
        <5> QED BY <5>2, <5>3
      <4> QED BY <4>2, <4>3
    <3>2. CASE ~(clash \/ last >= a)
      <4>1. len = a /\ last < a
        BY <1>2, <3>2
      <4>2. ~ConflictUpTo(l, prev, entries, a)
        <5>1. ~ConflictUpTo(l, prev, entries, last)
          BY <3>2
        <5> QED BY <1>2, <1>4, <4>1, <5>1
      <4>3. e(len) = l[a]
        BY <1>2, <4>1, <4>2
      <4> QED BY <1>2, <1>6, <4>1, <4>3
    <3> QED BY <3>1, <3>2
  <2> HIDE DEF e, M
  <2> QED BY <1>1, <1>3, <1>6, <2>1 DEF LastTerm, TermAt
<1> QED BY <1>5, <1>6

\* The next index after a conflict is the index of an entry (replication.go:120-141).
LEMMA NextAfterConflictPositive ==
    ASSUME NEW S, NEW l \in Seq(S), NEW ci \in Nat, NEW ct \in Nat
    PROVE  NextAfterConflict(l, ci, ct) \in Nat \ {0}
<1> DEFINE hits == {i \in DOMAIN l :
                       /\ l[i].term = ct
                       /\ \A k \in (i + 1)..Len(l) : l[k].term > ct}
           hit == CHOOSE i \in hits : TRUE
           next == IF ct # 0 /\ hits # {} THEN hit + 1 ELSE ci
<1>1. NextAfterConflict(l, ci, ct) = IF next < 1 THEN 1 ELSE next
  BY DEF NextAfterConflict
<1>2. hits \subseteq Nat
  BY LenProperties
<1> HIDE DEF hits
<1>3. hits # {} => hit \in Nat
  BY <1>2
<1> HIDE DEF hit
<1>4. next \in Nat
  BY <1>3
<1> HIDE DEF next
<1> QED BY <1>1, <1>4

\* Two quorums of the same voters have a common member (util.go:36-42).
LEMMA QuorumsIntersect ==
    ASSUME NEW V, IsFiniteSet(V), NEW P \in SUBSET V, NEW Q \in SUBSET V,
           Cardinality(P) = QuorumVotes(V), Cardinality(Q) = QuorumVotes(V)
    PROVE  P \cap Q # {}
<1>1. Cardinality(V) \in Nat /\ Cardinality(P) <= Cardinality(V)
  BY FS_CardinalityType, FS_Subset
<1>2. V # {}
  <2>1. V = {} => Cardinality(V) = 0
    BY FS_EmptySet
  <2> QED BY <1>1, <2>1 DEF QuorumVotes
<1>3. Cardinality(P) + Cardinality(Q) > Cardinality(V)
  BY <1>1, <1>2 DEF QuorumVotes
<1> QED BY <1>3, FS_MajoritiesIntersect

\* Without membership changes the voters are the founding ones: every entry of
\* the log is a command or the founding cluster B itself (membership.go:14-73).
LEMMA StaticVoters ==
    ASSUME NEW l, NEW B, NEW boot, boot = B \/ boot = {},
           \A k \in DOMAIN l : /\ l[k].type \in {EntryNormal, EntryAddVoter}
                               /\ l[k].type = EntryAddVoter => l[k].arg = B
    PROVE  /\ Voters(l, boot) \subseteq B
           /\ boot = B => Voters(l, boot) = B
<1>1. \A j : VotingKept(l, j)
  BY DEF VotingKept, EntryNormal, EntryAddVoter, EntryAddLearner, EntryRemoveNode
<1>2. UNION {l[k].arg : k \in {n \in DOMAIN l : l[n].type = EntryAddVoter}} \subseteq B
  OBVIOUS
<1> QED BY <1>1, <1>2 DEF Voters

-----------------------------------------------------------------------------
(* Facts the steps below share.                                             *)

\* A node's log is a sequence of entries with natural terms.
LEMMA LogFacts ==
    ASSUME TypeOK, NEW i \in Node
    PROVE  /\ log[i] \in Seq(EntryRecord)
           /\ Len(log[i]) \in Nat
           /\ DOMAIN log[i] = 1..Len(log[i])
           /\ \A k \in 1..Len(log[i]) : log[i][k] \in EntryRecord /\ log[i][k].term \in Nat
           /\ \A k \in 0..Len(log[i]) : TermAt(log[i], k) \in Nat
           /\ LastTerm(log[i]) \in Nat
<1>1. log[i] \in Seq(EntryRecord)
  BY DEF TypeOK
<1>2. Len(log[i]) \in Nat /\ DOMAIN log[i] = 1..Len(log[i])
  BY <1>1, LenProperties
<1>3. \A k \in 1..Len(log[i]) : log[i][k] \in EntryRecord
  BY <1>1, ElementOfSeq
<1>4. \A k \in 1..Len(log[i]) : log[i][k].term \in Nat
  BY <1>3 DEF EntryRecord
<1>5. \A k \in 0..Len(log[i]) : TermAt(log[i], k) \in Nat
  BY <1>2, <1>4 DEF TermAt
<1> QED BY <1>1, <1>2, <1>3, <1>4, <1>5 DEF LastTerm

\* No log ends beyond the term of its node.
LEMMA LastTermBehind ==
    ASSUME TypeOK, TermsBehind, NEW i \in Node
    PROVE  LastTerm(log[i]) <= currentTerm[i]
<1>1. currentTerm[i] \in Nat
  BY DEF TypeOK
<1> QED BY <1>1, LogFacts DEF TermsBehind, LastTerm, TermAt

\* The kind of a record tells its type.
LEMMA MessageKinds ==
    ASSUME TypeOK, NEW m \in rpcs
    PROVE  /\ m.src \in Node /\ m.dst \in Node
           /\ m.kind = "RequestVote" => m \in VoteRequestType
           /\ m.kind = "RequestVoteReply" => m \in VoteReplyType
           /\ m.kind = "AppendEntries" => m \in AppendRequestType
           /\ m.kind = "AppendEntriesReply" => m \in AppendReplyType
<1>1. m \in MessageType
  BY DEF TypeOK
<1> QED BY <1>1 DEF MessageType, VoteRequestType, VoteReplyType, AppendRequestType,
                   AppendReplyType

\* The voters of a log are nodes, finitely many: a quorum of them is a number.
LEMMA VotersNodes ==
    ASSUME TypeOK, EntriesAboutNodes, NEW i \in Node
    PROVE  VotersOf(i) \subseteq Node /\ QuorumVotes(VotersOf(i)) \in Nat
<1>1. \A k \in DOMAIN log[i] : log[i][k].type = EntryAddVoter => log[i][k].arg \subseteq Node
  BY DEF EntriesAboutNodes, AboutNodes, EntryAddVoter, EntryNormal
<1>2. VotersOf(i) \subseteq BootstrapOf(i) \cup
         UNION {log[i][k].arg : k \in {n \in DOMAIN log[i] : log[i][n].type = EntryAddVoter}}
  BY DEF VotersOf, Voters
<1>3. VotersOf(i) \subseteq Node
  BY <1>1, <1>2, NodeAssumption DEF BootstrapOf
<1>4. Cardinality(VotersOf(i)) \in Nat
  BY <1>3, NodeAssumption, FS_Subset, FS_CardinalityType
<1> QED BY <1>3, <1>4 DEF QuorumVotes

\* Every node's voters are founding members, and all of them where a node
\* counts itself.
LEMMA FoundingVoters ==
    ASSUME TypeOK, StaticConfig, NEW i \in Node
    PROVE  /\ VotersOf(i) \subseteq Bootstrap
           /\ i \in VotersOf(i) => VotersOf(i) = Bootstrap
<1>1. \A k \in DOMAIN log[i] : /\ log[i][k].type \in {EntryNormal, EntryAddVoter}
                               /\ log[i][k].type = EntryAddVoter => log[i][k].arg = Bootstrap
  BY DEF StaticConfig, StaticEntry
<1>2. BootstrapOf(i) = Bootstrap \/ BootstrapOf(i) = {}
  BY DEF BootstrapOf
<1>3. /\ VotersOf(i) \subseteq Bootstrap
      /\ BootstrapOf(i) = Bootstrap => VotersOf(i) = Bootstrap
  <2>1. /\ Voters(log[i], BootstrapOf(i)) \subseteq Bootstrap
        /\ BootstrapOf(i) = Bootstrap => Voters(log[i], BootstrapOf(i)) = Bootstrap
    BY <1>1, <1>2, StaticVoters
  <2> QED BY <2>1 DEF VotersOf
<1> QED BY <1>3 DEF BootstrapOf

\* The voters of a founding member are the founding members.
LEMMA FounderVoters ==
    ASSUME StaticConfig, NEW i \in Node, i \in Bootstrap
    PROVE  VotersOf(i) = Bootstrap
<1>1. \A k \in DOMAIN log[i] : /\ log[i][k].type \in {EntryNormal, EntryAddVoter}
                               /\ log[i][k].type = EntryAddVoter => log[i][k].arg = Bootstrap
  BY DEF StaticConfig, StaticEntry
<1>2. BootstrapOf(i) = Bootstrap
  BY DEF BootstrapOf
<1>3. Voters(log[i], BootstrapOf(i)) = Bootstrap
  BY <1>1, <1>2, StaticVoters
<1> QED BY <1>3 DEF VotersOf

LEMMA BootstrapFacts == IsFiniteSet(Bootstrap) /\ Bootstrap \subseteq Node
  BY NodeAssumption, FS_Subset

-----------------------------------------------------------------------------
(* Terms: TermInv, one lemma per action.                                    *)

LEMMA InitTermInv == Init => TermInv
<1> SUFFICES ASSUME Init PROVE TermInv
  OBVIOUS
<1>1. <<>> \in Seq(EntryRecord)
  BY EmptySeq
<1>2. TypeOK
  BY <1>1 DEF Init, TypeOK, Follower
<1>3. \A i \in Node : DOMAIN log[i] = {}
  BY DEF Init
<1>4. EntriesAboutNodes /\ TermsBehind /\ SentinelTerm /\ RequestsEndInTerm
  BY <1>3 DEF Init, EntriesAboutNodes, AboutNodes, TermsBehind, SentinelTerm, RequestsEndInTerm
<1>5. RequestsBehind /\ RepliesGranted /\ VotesBehind /\ ElectionsBehind /\ ElectedLogEnds
  BY DEF Init, RequestsBehind, RepliesGranted, VotesBehind, ElectionsBehind, ElectedLogEnds
<1>6. LeadersElected
  BY DEF Init, LeadersElected, Follower, Leader
<1> QED BY <1>2, <1>4, <1>5, <1>6 DEF TermInv

\* A call that fails only disappears.
LEMMA RequestVoteFailsTerms ==
    ASSUME TermInv, NEW m \in rpcs, RequestVoteFails(m)
    PROVE  TermInv'
<1> USE DEF TermInv, RequestVoteFails, persistent, leaderVars, ballotVars, history
<1>1. TypeOK'
  BY DEF TypeOK
<1>2. EntriesAboutNodes' /\ TermsBehind' /\ SentinelTerm' /\ RequestsEndInTerm'
  BY DEF EntriesAboutNodes, AboutNodes, TermsBehind, SentinelTerm, RequestsEndInTerm,
         LastSentTerm
<1>3. RequestsBehind' /\ RepliesGranted' /\ VotesBehind' /\ ElectionsBehind' /\ ElectedLogEnds'
  BY DEF RequestsBehind, RepliesGranted, VotesBehind, ElectionsBehind, ElectedLogEnds
<1>4. LeadersElected'
  BY DEF LeadersElected
<1> QED BY <1>1, <1>2, <1>3, <1>4

LEMMA AppendEntriesFailsTerms ==
    ASSUME TermInv, NEW m \in rpcs, AppendEntriesFails(m)
    PROVE  TermInv'
<1> USE DEF TermInv, AppendEntriesFails, persistent, ballotVars, history
<1>1. appendInFlight' \in [Node -> SUBSET Node]
  <2>1. m.src \in Node /\ m.dst \in Node
    BY MessageKinds
  <2>2. \A i, j \in Node : [appendInFlight EXCEPT ![i] = @ \ {j}] \in [Node -> SUBSET Node]
    BY DEF TypeOK
  <2>3. \E i, j \in Node : appendInFlight' = [appendInFlight EXCEPT ![i] = @ \ {j}]
    BY <2>1
  <2> QED BY <2>2, <2>3
<1>2. TypeOK'
  BY <1>1 DEF TypeOK
<1>3. EntriesAboutNodes' /\ TermsBehind' /\ SentinelTerm' /\ RequestsEndInTerm'
  BY DEF EntriesAboutNodes, AboutNodes, TermsBehind, SentinelTerm, RequestsEndInTerm,
         LastSentTerm
<1>4. RequestsBehind' /\ RepliesGranted' /\ VotesBehind' /\ ElectionsBehind' /\ ElectedLogEnds'
  BY DEF RequestsBehind, RepliesGranted, VotesBehind, ElectionsBehind, ElectedLogEnds
<1>5. LeadersElected'
  BY DEF LeadersElected
<1> QED BY <1>2, <1>3, <1>4, <1>5

\* A request that its caller no longer awaits says what it said before.
LEMMA AppendEntriesTimeoutTerms ==
    ASSUME TermInv, NEW m \in rpcs, AppendEntriesTimeout(m)
    PROVE  TermInv'
<1> USE DEF TermInv, AppendEntriesTimeout, persistent, ballotVars, history
<1> DEFINE late == [m EXCEPT !.awaited = FALSE]
<1>1. m \in AppendRequestType
  BY MessageKinds
<1>2. /\ late \in AppendRequestType
      /\ late.kind = m.kind /\ late.term = m.term /\ late.src = m.src /\ late.dst = m.dst
      /\ late.entries = m.entries /\ late.prevLogIndex = m.prevLogIndex
      /\ late.prevLogTerm = m.prevLogTerm
  BY <1>1 DEF AppendRequestType
<1>3. rpcs' = (rpcs \ {m}) \cup {late} /\ m.kind = "AppendEntries"
  OBVIOUS
<1> HIDE DEF late
<1>4. TypeOK'
  BY <1>1, <1>2, <1>3 DEF TypeOK, AppendRequestType, MessageType
<1>5. EntriesAboutNodes' /\ TermsBehind' /\ SentinelTerm' /\ RequestsEndInTerm'
  BY <1>2, <1>3 DEF EntriesAboutNodes, AboutNodes, TermsBehind, SentinelTerm,
                    RequestsEndInTerm, LastSentTerm
<1>6. RequestsBehind' /\ RepliesGranted' /\ VotesBehind' /\ ElectionsBehind' /\ ElectedLogEnds'
  BY <1>2, <1>3 DEF RequestsBehind, RepliesGranted, VotesBehind, ElectionsBehind, ElectedLogEnds
<1>7. LeadersElected'
  BY <1>2, <1>3 DEF LeadersElected
<1> QED BY <1>4, <1>5, <1>6, <1>7

\* A node that becomes follower in its own term forgets its vote, and nothing
\* else that terms rest on.
LEMMA SameTermFollower ==
    ASSUME TermInv, NEW i \in Node, BecomeFollower(i, currentTerm[i]),
           UNCHANGED <<log, commitIndex, hintLeaderID, leaderVars, rpcs, history>>
    PROVE  TermInv' /\ currentTerm' = currentTerm
<1> USE DEF TermInv, BecomeFollower, leaderVars, history, Follower, Candidate, Leader
<1>1. TypeOK'
  BY DEF TypeOK
<1>2. currentTerm' = currentTerm
  BY DEF TypeOK
<1>3. EntriesAboutNodes' /\ TermsBehind' /\ SentinelTerm' /\ RequestsEndInTerm'
  BY <1>2 DEF EntriesAboutNodes, AboutNodes, TermsBehind, SentinelTerm, RequestsEndInTerm,
              LastSentTerm
<1>4. RequestsBehind' /\ RepliesGranted' /\ VotesBehind' /\ ElectionsBehind' /\ ElectedLogEnds'
  BY <1>2 DEF RequestsBehind, RepliesGranted, VotesBehind, ElectionsBehind, ElectedLogEnds
<1>5. LeadersElected'
  BY <1>2 DEF LeadersElected, TypeOK
<1> QED BY <1>1, <1>2, <1>3, <1>4, <1>5

\* A node appends an entry of its own term: a command, or a membership entry
\* about nodes, for which it may set up the peer it adds.
LEMMA AppendsOwnTerm ==
    ASSUME TermInv, NEW i \in Node, NEW e \in EntryRecord, e.term = currentTerm[i],
           e.type # EntryNormal => e.arg \subseteq Node,
           log' = [log EXCEPT ![i] = Append(@, e)],
           nextIndex' \in [Node -> [Node -> Nat \ {0}]],
           matchIndex' \in [Node -> [Node -> Nat]],
           UNCHANGED <<currentTerm, votedFor, state, commitIndex, hintLeaderID, appendInFlight,
                       ballotVars, rpcs, history>>
    PROVE  TermInv'
<1> USE DEF TermInv, ballotVars, history, Leader
<1>1. /\ log'[i] = Append(log[i], e)
      /\ \A j \in Node : j # i => log'[j] = log[j]
      /\ log' \in [Node -> Seq(EntryRecord)]
  BY DEF TypeOK
<1>2. /\ Len(log'[i]) = Len(log[i]) + 1
      /\ DOMAIN log'[i] = 1..(Len(log[i]) + 1)
      /\ \A k \in 1..Len(log[i]) : log'[i][k] = log[i][k]
      /\ log'[i][Len(log[i]) + 1] = e
  BY <1>1, LogFacts
<1>3. TypeOK'
  BY <1>1 DEF TypeOK
<1>4. ASSUME NEW j \in Node, NEW k \in DOMAIN log'[j]
      PROVE  (k \in DOMAIN log[j] /\ log'[j][k] = log[j][k]) \/ (j = i /\ log'[j][k] = e)
  <2>1. CASE j = i
    <3>1. Len(log[i]) \in Nat /\ DOMAIN log[i] = 1..Len(log[i])
      BY LogFacts
    <3>2. k \in 1..Len(log[i]) \/ k = Len(log[i]) + 1
      BY ONLY <1>2, <2>1, <3>1, k \in DOMAIN log'[j]
    <3> QED BY ONLY <1>2, <2>1, <3>1, <3>2
  <2>2. CASE j # i
    BY ONLY <1>1, <2>2, j \in Node, k \in DOMAIN log'[j]
  <2> QED BY <2>1, <2>2
<1>5. EntriesAboutNodes'
  BY <1>4 DEF EntriesAboutNodes, AboutNodes
<1>6. TermsBehind'
  <2>1. currentTerm[i] \in Nat /\ currentTerm' = currentTerm /\ rpcs' = rpcs
    BY DEF TypeOK
  <2>2. ASSUME NEW j \in Node, NEW k \in DOMAIN log'[j]
        PROVE  log'[j][k].term <= currentTerm[j]
    BY <1>4, <2>1 DEF TermsBehind
  <2> QED BY <2>1, <2>2 DEF TermsBehind
<1>7. SentinelTerm' /\ RequestsEndInTerm' /\ RequestsBehind' /\ RepliesGranted'
  BY DEF SentinelTerm, RequestsEndInTerm, LastSentTerm, RequestsBehind, RepliesGranted
<1>8. VotesBehind' /\ ElectionsBehind' /\ LeadersElected'
  BY DEF VotesBehind, ElectionsBehind, LeadersElected
<1>9. ElectedLogEnds'
  <2>1. LastTerm(log'[i]) = currentTerm[i]
    BY <1>2, LogFacts DEF LastTerm, TermAt
  <2> QED BY <1>1, <2>1 DEF ElectedLogEnds, TypeOK
<1> QED BY <1>3, <1>5, <1>6, <1>7, <1>8, <1>9

LEMMA SubmitTerms ==
    ASSUME TermInv, NEW i \in Node, NEW v \in Value, Submit(i, v)
    PROVE  TermInv'
<1> DEFINE e == Entry(EntryNormal, currentTerm[i], v)
<1>1. e \in EntryRecord /\ e.type = EntryNormal /\ e.term = currentTerm[i]
  BY DEF TermInv, Entry, EntryRecord, EntryType, TypeOK
<1>2. /\ log' = [log EXCEPT ![i] = Append(@, e)]
      /\ nextIndex' \in [Node -> [Node -> Nat \ {0}]]
      /\ matchIndex' \in [Node -> [Node -> Nat]]
      /\ UNCHANGED <<currentTerm, votedFor, state, commitIndex, hintLeaderID, appendInFlight,
                     ballotVars, rpcs, history>>
  BY DEF Submit, leaderVars, TermInv, TypeOK
<1> HIDE DEF e
<1>3. e.type # EntryNormal => e.arg \subseteq Node
  BY <1>1
<1> QED BY ONLY TermInv, i \in Node, <1>1, <1>2, <1>3, AppendsOwnTerm

\* A leader sends from a position of its log, or from the one past its end.
LEMMA SentFrom ==
    ASSUME TypeOK, NEW i \in Node, NEW j \in Node, SendAppendEntries(i, j)
    PROVE  /\ nextIndex[i][j] \in Nat /\ nextIndex[i][j] >= 1
           /\ nextIndex[i][j] <= Len(log[i]) + 1
<1>1. nextIndex[i][j] \in Nat \ {0}
  BY DEF TypeOK
<1>2. nextIndex[i][j] <= Len(log[i]) + 1
  BY DEF SendAppendEntries
<1> QED BY ONLY <1>1, <1>2

\* What a leader sends is a part of its log, in its term, to the end of the log.
LEMMA SendAppendEntriesTerms ==
    ASSUME TermInv, NEW i \in Node, NEW j \in Node, SendAppendEntries(i, j)
    PROVE  TermInv'
<1> USE DEF TermInv, SendAppendEntries, persistent, ballotVars, history
<1> DEFINE next == nextIndex[i][j]
           sent == SubSeq(log[i], next, Len(log[i]))
           r == AppendRequest(i, j, currentTerm[i], next - 1, TermAt(log[i], next - 1),
                              sent, commitIndex[i])
<1>1. next \in Nat /\ next >= 1 /\ next <= Len(log[i]) + 1
  BY ONLY TermInv, i \in Node, j \in Node, SendAppendEntries(i, j), SentFrom DEF TermInv
<1>2. /\ sent \in Seq(EntryRecord)
      /\ \A k \in DOMAIN sent : k + next - 1 \in DOMAIN log[i] /\ sent[k] = log[i][k + next - 1]
  <2>1. log[i] \in Seq(EntryRecord)
    BY LogFacts
  <2> HIDE DEF next
  <2> QED BY <1>1, <2>1, TailEntries
<1>3. TermAt(log[i], next - 1) \in Nat
  BY <1>1, LogFacts
<1>4. (IF sent = <<>> THEN TermAt(log[i], next - 1) ELSE LastTerm(sent)) = currentTerm[i]
  <2>1. LastTerm(log[i]) = currentTerm[i]
    BY DEF LeadersElected, ElectedLogEnds
  <2>2. Len(log[i]) \in Nat /\ log[i] \in Seq(EntryRecord)
    BY LogFacts
  <2>3. CASE next = Len(log[i]) + 1
    <3>1. sent = <<>>
      <4>1. Len(sent) = 0
        BY <2>2, <2>3
      <4> QED BY <1>2, <4>1, EmptySeq
    <3>2. next - 1 = Len(log[i])
      BY <2>2, <2>3
    <3> QED BY <2>1, <3>1, <3>2 DEF LastTerm
  <2>4. CASE next # Len(log[i]) + 1
    <3> HIDE DEF next
    <3>1. next <= Len(log[i]) /\ Len(log[i]) # 0
      BY <1>1, <2>2, <2>4
    <3>2. Len(sent) = Len(log[i]) - next + 1
      BY <1>1, <2>2, <3>1, SubSeqProperties
    <3> HIDE DEF sent
    <3>3. Len(sent) \in Nat /\ Len(sent) # 0 /\ Len(sent) \in DOMAIN sent
      BY <1>1, <1>2, <2>2, <3>1, <3>2, LenProperties
    <3>4. sent[Len(sent)] = log[i][Len(log[i])]
      <4>1. Len(sent) + next - 1 = Len(log[i])
        BY <1>1, <2>2, <3>2
      <4> QED BY <1>2, <3>3, <4>1
    <3>5. sent # <<>>
      BY <3>3, EmptySeq
    <3>6. Len(log[i]) # 0 /\ LastTerm(sent) = sent[Len(sent)].term
          /\ LastTerm(log[i]) = log[i][Len(log[i])].term
      BY ONLY <3>1, <3>3 DEF LastTerm, TermAt
    <3> QED BY ONLY <2>1, <3>4, <3>5, <3>6
  <2> QED BY <2>3, <2>4
<1> HIDE DEF sent
<1>5. r \in AppendRequestType
  <2>1. next - 1 \in Nat
    BY ONLY <1>1
  <2>2. currentTerm[i] \in Nat /\ commitIndex[i] \in Nat
    BY DEF TypeOK
  <2> HIDE DEF next
  <2> QED BY <2>1, <2>2, <1>2, <1>3 DEF AppendRequest, AppendRequestType
<1>6. /\ r.kind = "AppendEntries" /\ r.src = i /\ r.dst = j /\ r.term = currentTerm[i]
      /\ r.entries = sent /\ r.prevLogIndex = next - 1
      /\ r.prevLogTerm = TermAt(log[i], next - 1)
  BY DEF AppendRequest
<1>7. rpcs' = rpcs \cup {r}
  BY DEF sent
<1> HIDE DEF r, next
<1>8. TypeOK'
  BY <1>5, <1>7 DEF TypeOK, MessageType
<1>9. EntriesAboutNodes' /\ TermsBehind'
  BY <1>2, <1>6, <1>7 DEF EntriesAboutNodes, AboutNodes, TermsBehind
<1>10. RequestsEndInTerm'
  BY <1>4, <1>6, <1>7 DEF RequestsEndInTerm, LastSentTerm
<1>11. SentinelTerm' /\ RequestsBehind' /\ RepliesGranted'
  BY <1>1, <1>6, <1>7 DEF SentinelTerm, RequestsBehind, RepliesGranted, TermAt
<1>12. LeadersElected'
  BY <1>6, <1>7 DEF LeadersElected, PeersOf
<1>13. VotesBehind' /\ ElectionsBehind' /\ ElectedLogEnds'
  BY DEF VotesBehind, ElectionsBehind, ElectedLogEnds
<1> QED BY <1>8, <1>9, <1>10, <1>11, <1>12, <1>13

\* A candidate's new term is after everything in its log.
LEMMA StartElectionTerms ==
    ASSUME TermInv, NEW i \in Node, StartElection(i)
    PROVE  TermInv'
<1> USE DEF TermInv, StartElection, leaderVars, Follower, Candidate, Leader
<1> DEFINE term == currentTerm[i] + 1
           req(j) == VoteRequest(i, j, term, Len(log[i]), LastTerm(log[i]))
<1>1. VotersOf(i) \subseteq Node /\ QuorumVotes(VotersOf(i)) \in Nat
  BY VotersNodes
<1>2. /\ currentTerm[i] \in Nat /\ term \in Nat /\ term > currentTerm[i]
      /\ LastTerm(log[i]) \in Nat /\ LastTerm(log[i]) < term /\ Len(log[i]) \in Nat
  <2>1. currentTerm[i] \in Nat
    BY DEF TypeOK
  <2>2. LastTerm(log[i]) \in Nat /\ Len(log[i]) \in Nat /\ LastTerm(log[i]) <= currentTerm[i]
    BY LogFacts, LastTermBehind
  <2> QED BY <2>1, <2>2
<1>3. /\ currentTerm'[i] = term /\ \A j \in Node \ {i} : currentTerm'[j] = currentTerm[j]
      /\ granted' = granted \cup {<<term, i, i>>}
  BY DEF TypeOK
<1>4. ASSUME NEW m \in rpcs'
      PROVE  m \in rpcs \/ \E j \in Node : m = req(j)
  BY <1>1
<1>5. \A j \in Node : /\ req(j) \in VoteRequestType /\ req(j).kind = "RequestVote"
                      /\ req(j).lastLogTerm < req(j).term
  BY <1>2 DEF VoteRequest, VoteRequestType
<1> HIDE DEF req
<1>6. TypeOK'
  <2>1. rpcs' \subseteq MessageType
    <3>1. rpcs \subseteq MessageType
      BY DEF TypeOK
    <3> QED BY ONLY <1>4, <1>5, <3>1 DEF MessageType
  <2>2. granted' \subseteq Nat \X Node \X Node
    BY <1>2, <1>3 DEF TypeOK
  <2>3. /\ currentTerm' \in [Node -> Nat] /\ votedFor' \in [Node -> Node \cup {NoNode}]
        /\ state' \in [Node -> {Follower, Candidate, Leader}]
    BY <1>2 DEF TypeOK
  <2>4. votesReceived' \in [Node -> SUBSET Node] /\ quorumNeeded' \in [Node -> Nat]
    BY <1>1 DEF TypeOK
  <2>5. /\ log' \in [Node -> Seq(EntryRecord)] /\ commitIndex' \in [Node -> Nat]
        /\ hintLeaderID' \in [Node -> Node \cup {NoNode}]
        /\ nextIndex' \in [Node -> [Node -> Nat \ {0}]]
        /\ matchIndex' \in [Node -> [Node -> Nat]]
        /\ appendInFlight' \in [Node -> SUBSET Node] /\ elected' \subseteq Nat \X Node
    BY DEF TypeOK
  <2> QED BY ONLY <2>1, <2>2, <2>3, <2>4, <2>5 DEF TypeOK
<1>7. EntriesAboutNodes' /\ SentinelTerm' /\ RequestsEndInTerm' /\ RequestsBehind'
  BY <1>4, <1>5 DEF EntriesAboutNodes, AboutNodes, SentinelTerm, RequestsEndInTerm,
                    LastSentTerm, RequestsBehind
<1>8. TermsBehind'
  <2>1. \A j \in Node : currentTerm[j] <= currentTerm'[j]
    <3>1. ASSUME NEW j \in Node \ {i} PROVE currentTerm[j] \in Nat /\ currentTerm'[j] = currentTerm[j]
      BY <1>3 DEF TypeOK
    <3>2. currentTerm[i] <= currentTerm'[i]
      BY <1>2, <1>3
    <3>3. \A j \in Node \ {i} : currentTerm[j] <= currentTerm'[j]
      BY <3>1
    <3> QED BY <3>2, <3>3
  <2>2. ASSUME NEW j \in Node, NEW k \in DOMAIN log[j]
        PROVE  log[j][k].term <= currentTerm'[j]
    <3>1. log[j][k].term \in Nat /\ log[j][k].term <= currentTerm[j]
      BY LogFacts DEF TermsBehind
    <3>2. currentTerm[j] \in Nat /\ currentTerm'[j] \in Nat
      BY <1>6 DEF TypeOK
    <3> QED BY <3>1, <3>2, <2>1
  <2> QED BY <2>2, <1>4, <1>5 DEF TermsBehind
<1>9. RepliesGranted'
  BY <1>3, <1>4, <1>5 DEF RepliesGranted
<1>10. VotesBehind'
  <2>1. ASSUME NEW g \in granted PROVE g[1] <= currentTerm'[g[2]]
    <3>1. g[1] \in Nat /\ g[2] \in Node /\ g[1] <= currentTerm[g[2]]
      BY DEF VotesBehind, TypeOK
    <3> QED BY <3>1, <1>2, <1>3
  <2>2. <<term, i, i>>[1] <= currentTerm'[<<term, i, i>>[2]]
    BY <1>2, <1>3
  <2> QED BY <1>3, <2>1, <2>2 DEF VotesBehind
<1>11. ElectionsBehind' /\ ElectedLogEnds'
  <2>1. elected' = elected /\ log' = log
    OBVIOUS
  <2>2. ASSUME NEW e \in elected
        PROVE  /\ e[2] \in Node /\ e[1] \in Nat
               /\ e[1] <= currentTerm'[e[2]]
               /\ e[1] = currentTerm'[e[2]] => e[1] = currentTerm[e[2]]
    <3>1. e[2] \in Node /\ e[1] \in Nat
      BY DEF TypeOK
    <3>2. e[1] <= currentTerm[e[2]]
      BY DEF ElectionsBehind
    <3> QED BY <3>1, <3>2, <1>2, <1>3
  <2> QED BY <2>1, <2>2 DEF ElectionsBehind, ElectedLogEnds
<1>12. LeadersElected'
  <2>1. ASSUME NEW j \in Node, state'[j] = Leader
        PROVE  j # i /\ state[j] = Leader /\ currentTerm'[j] = currentTerm[j]
    BY <2>1, <1>3 DEF TypeOK
  <2>2. ASSUME NEW m \in rpcs', m.kind = "AppendEntries" PROVE m \in rpcs
    BY <2>2, <1>4, <1>5
  <2> QED BY <2>1, <2>2 DEF LeadersElected
<1> QED BY <1>6, <1>7, <1>8, <1>9, <1>10, <1>11, <1>12

\* Where terms only grow, and no log changes and no AppendEntries is sent, no
\* entry gets ahead of its term.
LEMMA NoNewEntries ==
    ASSUME TermInv, log' = log, currentTerm' \in [Node -> Nat],
           \A j \in Node : currentTerm[j] <= currentTerm'[j],
           \A m \in rpcs' : m.kind = "AppendEntries" => m \in rpcs
    PROVE  EntriesAboutNodes' /\ TermsBehind' /\ SentinelTerm' /\ RequestsEndInTerm'
<1>1. ASSUME NEW j \in Node, NEW k \in DOMAIN log[j]
      PROVE  log[j][k].term <= currentTerm'[j]
  <2>1. log[j][k].term \in Nat /\ log[j][k].term <= currentTerm[j]
    BY LogFacts DEF TermInv, TermsBehind
  <2>2. currentTerm[j] \in Nat /\ currentTerm'[j] \in Nat
    BY DEF TermInv, TypeOK
  <2> QED BY <2>1, <2>2
<1>2. TermsBehind'
  BY <1>1 DEF TermInv, TermsBehind
<1>3. EntriesAboutNodes' /\ SentinelTerm' /\ RequestsEndInTerm'
  BY DEF TermInv, EntriesAboutNodes, AboutNodes, SentinelTerm, RequestsEndInTerm, LastSentTerm
<1> QED BY <1>2, <1>3

\* A node that moves to a higher term has cast no vote there and was not
\* elected there: what is known of votes and elections stays true.
LEMMA HigherTerm ==
    ASSUME TermInv, NEW i \in Node, NEW term \in Nat, term > currentTerm[i],
           BecomeFollower(i, term), granted' = granted, elected' = elected
    PROVE  /\ VotesBehind' /\ ElectionsBehind'
           /\ currentTerm' \in [Node -> Nat] /\ votedFor' \in [Node -> Node \cup {NoNode}]
           /\ state' \in [Node -> {Follower, Candidate, Leader}]
           /\ votesReceived' \in [Node -> SUBSET Node] /\ quorumNeeded' \in [Node -> Nat]
           /\ currentTerm'[i] = term
           /\ \A j \in Node : currentTerm[j] <= currentTerm'[j]
           /\ \A g \in granted : g[1] = currentTerm'[g[2]]
                  => g[1] = currentTerm[g[2]] /\ votedFor'[g[2]] = votedFor[g[2]]
           /\ \A e \in elected : e[1] = currentTerm'[e[2]]
                  => e[2] # i /\ e[1] = currentTerm[e[2]]
           /\ \A j \in Node : state'[j] # Follower =>
                  /\ state'[j] = state[j] /\ currentTerm'[j] = currentTerm[j]
                  /\ votesReceived'[j] = votesReceived[j] /\ quorumNeeded'[j] = quorumNeeded[j]
<1> USE DEF TermInv, BecomeFollower, Follower, Candidate, Leader
<1>1. /\ currentTerm' \in [Node -> Nat] /\ votedFor' \in [Node -> Node \cup {NoNode}]
      /\ state' \in [Node -> {Follower, Candidate, Leader}]
      /\ votesReceived' \in [Node -> SUBSET Node] /\ quorumNeeded' \in [Node -> Nat]
  BY DEF TypeOK
<1>2. /\ currentTerm'[i] = term /\ currentTerm[i] \in Nat
      /\ \A j \in Node : currentTerm[j] \in Nat /\ currentTerm[j] <= currentTerm'[j]
  <2>1. \A j \in Node : currentTerm[j] \in Nat
    BY DEF TypeOK
  <2>2. /\ currentTerm'[i] = term
        /\ \A j \in Node : j # i => currentTerm'[j] = currentTerm[j]
    BY DEF TypeOK
  <2> QED BY <2>1, <2>2
<1>3. ASSUME NEW j \in Node, j # i
      PROVE  /\ currentTerm'[j] = currentTerm[j] /\ votedFor'[j] = votedFor[j]
             /\ state'[j] = state[j] /\ votesReceived'[j] = votesReceived[j]
             /\ quorumNeeded'[j] = quorumNeeded[j]
  BY <1>3 DEF TypeOK
<1>4. state'[i] = Follower
  BY DEF TypeOK
<1>5. ASSUME NEW g \in granted
      PROVE  /\ g[1] \in Nat /\ g[2] \in Node /\ g[1] <= currentTerm'[g[2]]
             /\ g[1] = currentTerm'[g[2]] => g[2] # i
  <2>1. g[1] \in Nat /\ g[2] \in Node /\ g[1] <= currentTerm[g[2]]
    BY DEF VotesBehind, TypeOK
  <2> QED BY <2>1, <1>2, <1>3
<1>6. ASSUME NEW e \in elected
      PROVE  /\ e[1] \in Nat /\ e[2] \in Node /\ e[1] <= currentTerm'[e[2]]
             /\ e[1] = currentTerm'[e[2]] => e[2] # i /\ e[1] = currentTerm[e[2]]
  <2>1. e[1] \in Nat /\ e[2] \in Node /\ e[1] <= currentTerm[e[2]]
    BY DEF ElectionsBehind, TypeOK
  <2> QED BY <2>1, <1>2, <1>3
<1>7. VotesBehind' /\ ElectionsBehind'
  BY <1>5, <1>6 DEF VotesBehind, ElectionsBehind
<1>8. \A g \in granted : g[1] = currentTerm'[g[2]]
         => g[1] = currentTerm[g[2]] /\ votedFor'[g[2]] = votedFor[g[2]]
  BY <1>3, <1>5
<1>9. \A j \in Node : state'[j] # Follower =>
         /\ state'[j] = state[j] /\ currentTerm'[j] = currentTerm[j]
         /\ votesReceived'[j] = votesReceived[j] /\ quorumNeeded'[j] = quorumNeeded[j]
  BY <1>3, <1>4
<1> QED BY <1>1, <1>2, <1>6, <1>7, <1>8, <1>9

\* A refused RequestVote changes nothing but the answer under way.
LEMMA RefuseVoteTerms ==
    ASSUME TermInv, NEW m \in rpcs, m.kind = "RequestVote",
           RefuseStaleVote(m) \/ RefuseWhileLeaderAlive(m)
    PROVE  TermInv'
<1> USE DEF TermInv, RefuseStaleVote, RefuseWhileLeaderAlive, Answer, persistent,
            leaderVars, ballotVars, history
<1> DEFINE r == VoteReply(m, currentTerm[m.dst], FALSE)
<1>1. /\ r \in VoteReplyType /\ r.kind = "RequestVoteReply" /\ ~r.voteGranted
  <2>1. m \in VoteRequestType
    BY MessageKinds
  <2> QED BY <2>1 DEF VoteReply, VoteReplyType, VoteRequestType, TypeOK
<1>2. rpcs' = (rpcs \ {m}) \cup {r}
  OBVIOUS
<1> HIDE DEF r
<1>3. TypeOK'
  BY <1>1, <1>2 DEF TypeOK, MessageType
<1>4. EntriesAboutNodes' /\ TermsBehind' /\ SentinelTerm' /\ RequestsEndInTerm'
  <2>1. currentTerm' = currentTerm /\ log' = log
    OBVIOUS
  <2>2. currentTerm \in [Node -> Nat] /\ \A j \in Node : currentTerm[j] <= currentTerm[j]
    <3>1. currentTerm \in [Node -> Nat]
      BY DEF TypeOK
    <3>2. \A j \in Node : currentTerm[j] \in Nat
      BY <3>1
    <3> QED BY <3>1, <3>2
  <2>3. \A n \in rpcs' : n.kind = "AppendEntries" => n \in rpcs
    BY <1>1, <1>2
  <2> QED BY <2>1, <2>2, <2>3, NoNewEntries
<1>5. RequestsBehind' /\ RepliesGranted' /\ VotesBehind' /\ ElectionsBehind' /\ ElectedLogEnds'
  BY <1>1, <1>2 DEF RequestsBehind, RepliesGranted, VotesBehind, ElectionsBehind, ElectedLogEnds
<1>6. LeadersElected'
  BY <1>1, <1>2 DEF LeadersElected
<1> QED BY <1>3, <1>4, <1>5, <1>6

\* What DecideVote does to its node's term, vote and state, and to the vote's
\* answer.
LEMMA VoteDecided ==
    ASSUME TermInv, NEW m \in rpcs, m.kind = "RequestVote", DecideVote(m)
    PROVE  LET i    == m.dst
               vote == <<m.term, i, m.src>>
           IN  /\ m.src \in Node /\ i \in Node /\ m.term \in Nat /\ currentTerm[i] \in Nat
               /\ m.lastLogTerm \in Nat /\ m.lastLogTerm < m.term /\ m.term >= currentTerm[i]
               /\ currentTerm' \in [Node -> Nat] /\ currentTerm'[i] = m.term
               /\ \A j \in Node : currentTerm[j] <= currentTerm'[j]
               /\ \A j \in Node \ {i} : currentTerm'[j] = currentTerm[j]
               /\ votedFor' \in [Node -> Node \cup {NoNode}]
               /\ votedFor'[i] = IF MayVote(i, m) THEN m.src
                                 ELSE IF m.term > currentTerm[i] THEN NoNode ELSE votedFor[i]
               /\ \A j \in Node \ {i} : votedFor'[j] = votedFor[j]
               /\ granted' = granted \cup (IF MayVote(i, m) THEN {vote} ELSE {})
               /\ state' \in [Node -> {Follower, Candidate, Leader}]
               /\ votesReceived' \in [Node -> SUBSET Node] /\ quorumNeeded' \in [Node -> Nat]
               /\ \A j \in Node : state'[j] # Follower =>
                     /\ state'[j] = state[j] /\ currentTerm'[j] = currentTerm[j]
                     /\ votesReceived'[j] = votesReceived[j]
                     /\ quorumNeeded'[j] = quorumNeeded[j]
               /\ \E r \in VoteReplyType :
                     /\ r.voteGranted = MayVote(i, m)
                     /\ <<r.electionTerm, r.src, r.dst>> = vote
                     /\ rpcs' = (rpcs \ {m}) \cup {r}
<1> USE DEF TermInv, Follower, Candidate, Leader
<1> DEFINE i == m.dst
           vote == <<m.term, i, m.src>>
           r == VoteReply(m, m.term, MayVote(i, m))
<1>1. m \in VoteRequestType /\ m.src \in Node /\ i \in Node /\ m.term \in Nat
      /\ m.lastLogTerm \in Nat /\ m.lastLogTerm < m.term
  BY MessageKinds DEF VoteRequestType, RequestsBehind
<1>2. /\ currentTerm[i] \in Nat /\ m.term >= currentTerm[i]
      /\ currentTerm' \in [Node -> Nat] /\ currentTerm'[i] = m.term
      /\ \A j \in Node : currentTerm[j] <= currentTerm'[j]
      /\ \A j \in Node \ {i} : currentTerm'[j] = currentTerm[j]
  <2>1. /\ currentTerm' = [currentTerm EXCEPT ![i] = m.term] /\ m.term >= currentTerm[i]
        /\ currentTerm \in [Node -> Nat]
    BY DEF DecideVote, TypeOK
  <2> QED BY <2>1, <1>1
<1>3. /\ votedFor' \in [Node -> Node \cup {NoNode}]
      /\ votedFor'[i] = IF MayVote(i, m) THEN m.src
                        ELSE IF m.term > currentTerm[i] THEN NoNode ELSE votedFor[i]
      /\ \A j \in Node \ {i} : votedFor'[j] = votedFor[j]
  <2> DEFINE v == IF MayVote(i, m) THEN m.src
                  ELSE IF m.term > currentTerm[i] THEN NoNode ELSE votedFor[i]
  <2>1. votedFor' = [votedFor EXCEPT ![i] = v]
    BY DEF DecideVote
  <2>2. votedFor \in [Node -> Node \cup {NoNode}] /\ v \in Node \cup {NoNode}
    BY <1>1 DEF TypeOK
  <2> HIDE DEF v
  <2>3. /\ votedFor' \in [Node -> Node \cup {NoNode}] /\ votedFor'[i] = v
        /\ \A j \in Node \ {i} : votedFor'[j] = votedFor[j]
    BY <2>1, <2>2, <1>1
  <2> QED BY <2>3 DEF v
<1>4. granted' = granted \cup (IF MayVote(i, m) THEN {vote} ELSE {})
  BY DEF DecideVote
<1>5. /\ state' \in [Node -> {Follower, Candidate, Leader}]
      /\ votesReceived' \in [Node -> SUBSET Node] /\ quorumNeeded' \in [Node -> Nat]
      /\ \A j \in Node : state'[j] # Follower =>
            /\ state'[j] = state[j] /\ currentTerm'[j] = currentTerm[j]
            /\ votesReceived'[j] = votesReceived[j] /\ quorumNeeded'[j] = quorumNeeded[j]
  <2>1. CASE m.term > currentTerm[i]
    <3>1. /\ state' = [state EXCEPT ![i] = Follower]
          /\ votesReceived' = [votesReceived EXCEPT ![i] = {}]
          /\ quorumNeeded' = [quorumNeeded EXCEPT ![i] = 0]
      BY <2>1 DEF DecideVote
    <3> QED BY <3>1, <1>1, <1>2 DEF TypeOK
  <2>2. CASE m.term = currentTerm[i]
    <3>1. ~(m.term > currentTerm[i])
      BY <2>2, <1>1, <1>2
    <3>2. state' = state /\ votesReceived' = votesReceived /\ quorumNeeded' = quorumNeeded
      BY <3>1 DEF DecideVote, ballotVars
    <3>3. \A j \in Node : currentTerm'[j] = currentTerm[j]
      BY <2>2, <1>2
    <3>4. /\ state \in [Node -> {Follower, Candidate, Leader}]
          /\ votesReceived \in [Node -> SUBSET Node] /\ quorumNeeded \in [Node -> Nat]
      BY DEF TypeOK
    <3> QED BY <3>2, <3>3, <3>4
  <2> QED BY <1>2, <1>1, <2>1, <2>2
<1>6. /\ r \in VoteReplyType /\ r.voteGranted = MayVote(i, m)
      /\ <<r.electionTerm, r.src, r.dst>> = vote
  <2>1. MayVote(i, m) \in BOOLEAN
    BY DEF MayVote
  <2> QED BY <1>1, <2>1 DEF VoteReply, VoteReplyType, VoteRequestType
<1>7. rpcs' = (rpcs \ {m}) \cup {r}
  BY DEF DecideVote, Answer
<1> HIDE DEF r
<1> QED BY <1>1, <1>2, <1>3, <1>4, <1>5, <1>6, <1>7

LEMMA DecideVoteTerms ==
    ASSUME TermInv, NEW m \in rpcs, m.kind = "RequestVote", DecideVote(m)
    PROVE  TermInv'
<1> USE DEF TermInv, Follower, Candidate, Leader
<1> DEFINE i == m.dst
           vote == <<m.term, i, m.src>>
<1>1. /\ m.src \in Node /\ i \in Node /\ m.term \in Nat
      /\ currentTerm' \in [Node -> Nat] /\ currentTerm'[i] = m.term
      /\ \A j \in Node : currentTerm[j] <= currentTerm'[j]
      /\ votedFor' \in [Node -> Node \cup {NoNode}]
      /\ granted' = granted \cup (IF MayVote(i, m) THEN {vote} ELSE {})
      /\ state' \in [Node -> {Follower, Candidate, Leader}]
      /\ votesReceived' \in [Node -> SUBSET Node] /\ quorumNeeded' \in [Node -> Nat]
      /\ \A j \in Node : state'[j] # Follower =>
            state'[j] = state[j] /\ currentTerm'[j] = currentTerm[j]
  BY VoteDecided
<1>2. PICK r \in VoteReplyType : /\ r.voteGranted = MayVote(i, m)
                                 /\ <<r.electionTerm, r.src, r.dst>> = vote
                                 /\ rpcs' = (rpcs \ {m}) \cup {r}
  BY VoteDecided
<1>3. r.kind = "RequestVoteReply"
  BY DEF VoteReplyType
<1>4. /\ hintLeaderID' = hintLeaderID /\ commitIndex' = commitIndex
      /\ nextIndex' = nextIndex /\ matchIndex' = matchIndex
      /\ appendInFlight' = appendInFlight /\ elected' = elected /\ log' = log
  BY DEF DecideVote, leaderVars
<1>5. TypeOK'
  <2>1. granted' \subseteq Nat \X Node \X Node
    <3>1. granted \subseteq Nat \X Node \X Node /\ vote \in Nat \X Node \X Node
      BY <1>1 DEF TypeOK
    <3> HIDE DEF vote
    <3> QED BY <3>1, <1>1
  <2>2. rpcs' \subseteq MessageType
    BY <1>2 DEF TypeOK, MessageType
  <2> QED BY <1>1, <1>4, <2>1, <2>2 DEF TypeOK
<1>6. EntriesAboutNodes' /\ TermsBehind' /\ SentinelTerm' /\ RequestsEndInTerm'
  <2>1. \A n \in rpcs' : n.kind = "AppendEntries" => n \in rpcs
    BY <1>2, <1>3
  <2> QED BY <1>1, <1>4, <2>1, NoNewEntries
<1>7. RequestsBehind' /\ RepliesGranted'
  BY <1>1, <1>2, <1>3 DEF RequestsBehind, RepliesGranted
<1>8. VotesBehind'
  <2>1. ASSUME NEW g \in granted PROVE g[1] <= currentTerm'[g[2]]
    <3>1. g[1] \in Nat /\ g[2] \in Node /\ g[1] <= currentTerm[g[2]]
      BY DEF VotesBehind, TypeOK
    <3>2. currentTerm[g[2]] \in Nat /\ currentTerm'[g[2]] \in Nat
      BY <3>1, <1>1 DEF TypeOK
    <3> QED BY <3>1, <3>2, <1>1
  <2>2. vote[1] <= currentTerm'[vote[2]]
    BY <1>1
  <2> QED BY <1>1, <2>1, <2>2 DEF VotesBehind
<1>9. ElectionsBehind' /\ ElectedLogEnds'
  <2>1. ASSUME NEW e \in elected
        PROVE  /\ e[1] <= currentTerm'[e[2]]
               /\ e[1] = currentTerm'[e[2]] => e[1] = currentTerm[e[2]]
    <3>1. e[1] \in Nat /\ e[2] \in Node /\ e[1] <= currentTerm[e[2]]
      BY DEF ElectionsBehind, TypeOK
    <3>2. currentTerm[e[2]] \in Nat /\ currentTerm'[e[2]] \in Nat
      BY <3>1, <1>1 DEF TypeOK
    <3> QED BY <3>1, <3>2, <1>1
  <2> QED BY <1>4, <2>1 DEF ElectionsBehind, ElectedLogEnds
<1>10. LeadersElected'
  BY <1>1, <1>2, <1>3, <1>4 DEF LeadersElected
<1> QED BY <1>5, <1>6, <1>7, <1>8, <1>9, <1>10

\* A new leader opens its term with at most the founding cluster, and the no-op.
LEMMA OpeningOwnTerm ==
    ASSUME TypeOK, NEW i \in Node
    PROVE  /\ OpeningEntries(i) \in Seq(EntryRecord) /\ Len(OpeningEntries(i)) \in {1, 2}
           /\ \A k \in 1..Len(OpeningEntries(i)) :
                 /\ StaticEntry(OpeningEntries(i)[k])
                 /\ OpeningEntries(i)[k].term = currentTerm[i]
<1> DEFINE opening == OpeningEntries(i)
           noop == Entry(EntryNormal, currentTerm[i], Nil)
           boot == Entry(EntryAddVoter, currentTerm[i], Bootstrap)
<1>1. /\ noop \in EntryRecord /\ StaticEntry(noop) /\ noop.term = currentTerm[i]
      /\ boot \in EntryRecord /\ StaticEntry(boot) /\ boot.term = currentTerm[i]
  BY BootstrapFacts DEF TypeOK, Entry, EntryRecord, EntryType, StaticEntry, EntryNormal,
                        EntryAddVoter, EntryAddLearner, EntryRemoveNode
<1> HIDE DEF noop, boot
<1>2. PICK founding \in {<<>>, <<boot>>} : opening = founding \o <<noop>>
  BY DEF OpeningEntries, FoundingEntries, BootstrapOf, noop, boot
<1> HIDE DEF opening
<1>3. /\ founding \in Seq(EntryRecord) /\ Len(founding) \in {0, 1}
      /\ \A k \in 1..Len(founding) : founding[k] = boot
  <2>1. CASE founding = <<>>
    BY <2>1, EmptySeq
  <2>2. CASE founding = <<boot>>
    BY <1>1, <2>2
  <2> QED BY <2>1, <2>2
<1>4. <<noop>> \in Seq(EntryRecord) /\ Len(<<noop>>) = 1 /\ <<noop>>[1] = noop
  BY <1>1
<1>5. /\ opening \in Seq(EntryRecord) /\ Len(opening) = Len(founding) + 1
      /\ \A k \in 1..(Len(founding) + 1) : opening[k] =
            IF k <= Len(founding) THEN founding[k] ELSE <<noop>>[k - Len(founding)]
  BY <1>2, <1>3, <1>4, ConcatProperties
<1>6. ASSUME NEW k \in 1..Len(opening) PROVE opening[k] = boot \/ opening[k] = noop
  <2>1. CASE k <= Len(founding)
    BY <2>1, <1>3, <1>5
  <2>2. CASE k = Len(founding) + 1
    BY <2>2, <1>3, <1>4, <1>5
  <2> QED BY <2>1, <2>2, <1>3, <1>5
<1> QED BY <1>1, <1>3, <1>5, <1>6 DEF opening

\* The log of a new leader: what it was, then entries of the new term only.
LEMMA OpenedLog ==
    ASSUME TermInv, NEW i \in Node, BecomeLeader(i)
    PROVE  /\ log' \in [Node -> Seq(EntryRecord)]
           /\ nextIndex' \in [Node -> [Node -> Nat \ {0}]]
           /\ \A j \in Node \ {i} : log'[j] = log[j] /\ state'[j] = state[j]
           /\ \A j \in Node : \A k \in DOMAIN log'[j] :
                 \/ k \in DOMAIN log[j] /\ log'[j][k] = log[j][k]
                 \/ j = i /\ StaticEntry(log'[j][k]) /\ log'[j][k].term = currentTerm[i]
           /\ LastTerm(log'[i]) = currentTerm[i]
<1> USE DEF TermInv
<1> DEFINE opening == OpeningEntries(i)
<1>1. currentTerm[i] \in Nat
  BY DEF TypeOK
<1>2. /\ opening \in Seq(EntryRecord) /\ Len(opening) \in {1, 2}
      /\ \A k \in 1..Len(opening) : StaticEntry(opening[k]) /\ opening[k].term = currentTerm[i]
  BY OpeningOwnTerm
<1>3. /\ log'[i] = log[i] \o opening
      /\ \A j \in Node \ {i} : log'[j] = log[j] /\ state'[j] = state[j]
  BY DEF BecomeLeader, TypeOK
<1> HIDE DEF opening
<1>4. /\ log'[i] \in Seq(EntryRecord) /\ Len(log'[i]) = Len(log[i]) + Len(opening)
      /\ DOMAIN log'[i] = 1..(Len(log[i]) + Len(opening))
      /\ \A k \in 1..Len(log[i]) + Len(opening) : log'[i][k] =
            IF k <= Len(log[i]) THEN log[i][k] ELSE opening[k - Len(log[i])]
  <2>1. log[i] \in Seq(EntryRecord)
    BY LogFacts
  <2> QED BY <2>1, <1>2, <1>3, ConcatProperties, LenProperties
<1>5. ASSUME NEW j \in Node, NEW k \in DOMAIN log'[j]
      PROVE  \/ k \in DOMAIN log[j] /\ log'[j][k] = log[j][k]
             \/ j = i /\ StaticEntry(log'[j][k]) /\ log'[j][k].term = currentTerm[i]
  <2>1. CASE j # i
    BY <2>1, <1>3
  <2>2. CASE j = i
    <3>1. Len(log[i]) \in Nat /\ DOMAIN log[i] = 1..Len(log[i])
      BY LogFacts
    <3>2. CASE k <= Len(log[i])
      BY <2>2, <3>1, <3>2, <1>4
    <3>3. CASE k > Len(log[i])
      <4>1. k - Len(log[i]) \in 1..Len(opening) /\ log'[i][k] = opening[k - Len(log[i])]
        <5>1. k \in 1..(Len(log[i]) + Len(opening)) /\ Len(opening) \in Nat
          BY <2>2, <1>2, <1>4
        <5>2. log'[i][k] = IF k <= Len(log[i]) THEN log[i][k] ELSE opening[k - Len(log[i])]
          BY <5>1, <1>4
        <5>3. k - Len(log[i]) \in 1..Len(opening) /\ ~(k <= Len(log[i]))
          BY <3>1, <3>3, <5>1
        <5> QED BY <5>2, <5>3
      <4> QED BY <2>2, <4>1, <1>2
    <3> QED BY <2>2, <3>1, <3>2, <3>3, <1>4
  <2> QED BY <2>1, <2>2
<1>6. LastTerm(log'[i]) = currentTerm[i]
  <2>1. Len(log[i]) \in Nat
    BY LogFacts
  <2>2. Len(log'[i]) # 0 /\ log'[i][Len(log'[i])] = opening[Len(opening)]
    <3> DEFINE a == Len(log[i])
               b == Len(opening)
               n == Len(log'[i])
    <3>1. a \in Nat /\ b \in Nat /\ b >= 1 /\ n = a + b
      <4>1. a \in Nat /\ n = a + b
        BY <2>1, <1>4
      <4>2. b \in {1, 2}
        BY <1>2
      <4> HIDE DEF a, b, n
      <4> QED BY <4>1, <4>2
    <3>2. \A k \in 1..(a + b) : log'[i][k] = IF k <= a THEN log[i][k] ELSE opening[k - a]
      BY <1>4
    <3> HIDE DEF a, b, n
    <3>3. n \in 1..(a + b) /\ ~(n <= a) /\ n - a = b /\ n # 0
      BY <3>1
    <3>4. log'[i][n] = opening[b]
      BY <3>2, <3>3
    <3> QED BY <3>3, <3>4 DEF n, b
  <2> QED BY <2>2, <1>2 DEF LastTerm, TermAt
<1>7. log' \in [Node -> Seq(EntryRecord)]
  <2>1. DOMAIN log' = Node /\ log' = [j \in Node |-> log'[j]]
    BY DEF BecomeLeader, TypeOK
  <2>2. \A j \in Node : log'[j] \in Seq(EntryRecord)
    BY <1>3, <1>4 DEF TypeOK
  <2> QED BY <2>1, <2>2
<1>8. nextIndex' \in [Node -> [Node -> Nat \ {0}]]
  <2> DEFINE n == Len(log[i] \o FoundingEntries(i))
  <2>1. FoundingEntries(i) \in Seq(EntryRecord)
    <3>1. Entry(EntryAddVoter, currentTerm[i], Bootstrap) \in EntryRecord
      BY <1>1, BootstrapFacts DEF Entry, EntryRecord, EntryType, EntryAddVoter
    <3>2. FoundingEntries(i) = <<>>
          \/ FoundingEntries(i) = <<Entry(EntryAddVoter, currentTerm[i], Bootstrap)>>
      BY DEF FoundingEntries, BootstrapOf
    <3>3. <<>> \in Seq(EntryRecord)
          /\ <<Entry(EntryAddVoter, currentTerm[i], Bootstrap)>> \in Seq(EntryRecord)
      BY <3>1, EmptySeq
    <3> QED BY <3>2, <3>3
  <2>2. log[i] \o FoundingEntries(i) \in Seq(EntryRecord)
    BY <2>1, LogFacts, ConcatProperties
  <2>3. n \in Nat
    BY <2>2, LenProperties
  <2> HIDE DEF n
  <2>4. n + 1 \in Nat \ {0}
    BY <2>3
  <2> QED BY <2>4 DEF BecomeLeader, TypeOK, n
<1> QED BY <1>3, <1>5, <1>6, <1>7, <1>8

\* A node that becomes leader ends its log with the no-op of its term.
LEMMA WinElectionTerms ==
    ASSUME TermInv, NEW i \in Node, BecomeLeader(i), rpcs' \subseteq rpcs,
           UNCHANGED <<currentTerm, votedFor, commitIndex, appendInFlight, granted>>
    PROVE  TermInv'
<1> USE DEF TermInv, Follower, Candidate, Leader
<1>1. currentTerm[i] \in Nat /\ elected' = elected \cup {<<currentTerm[i], i>>}
  BY DEF BecomeLeader, TypeOK
<1>2. /\ log' \in [Node -> Seq(EntryRecord)] /\ nextIndex' \in [Node -> [Node -> Nat \ {0}]]
      /\ \A j \in Node \ {i} : log'[j] = log[j] /\ state'[j] = state[j]
      /\ LastTerm(log'[i]) = currentTerm[i]
  BY OpenedLog
<1>3. ASSUME NEW j \in Node, NEW k \in DOMAIN log'[j]
      PROVE  \/ k \in DOMAIN log[j] /\ log'[j][k] = log[j][k]
             \/ j = i /\ StaticEntry(log'[j][k]) /\ log'[j][k].term = currentTerm[i]
  BY OpenedLog
<1>4. TypeOK'
  <2>1. /\ matchIndex' \in [Node -> [Node -> Nat]]
        /\ state' \in [Node -> {Follower, Candidate, Leader}]
        /\ hintLeaderID' \in [Node -> Node \cup {NoNode}]
        /\ votesReceived' \in [Node -> SUBSET Node]
        /\ quorumNeeded' \in [Node -> Nat]
    BY DEF BecomeLeader, TypeOK
  <2>2. elected' \subseteq Nat \X Node
    <3>1. <<currentTerm[i], i>> \in Nat \X Node /\ elected \subseteq Nat \X Node
      BY <1>1 DEF TypeOK
    <3> QED BY <3>1, <1>1
  <2>3. rpcs' \subseteq MessageType
    BY DEF TypeOK
  <2> QED BY <1>2, <2>1, <2>2, <2>3 DEF TypeOK
<1>5. EntriesAboutNodes'
  <2>1. \A e : StaticEntry(e) /\ e.type # EntryNormal => e.arg \subseteq Node
    BY BootstrapFacts DEF StaticEntry
  <2>2. \A j \in Node : AboutNodes(log'[j])
    BY <1>3, <2>1 DEF EntriesAboutNodes, AboutNodes
  <2> QED BY <2>2 DEF EntriesAboutNodes, AboutNodes
<1>6. TermsBehind'
  <2>1. ASSUME NEW j \in Node, NEW k \in DOMAIN log'[j]
        PROVE  log'[j][k].term <= currentTerm[j]
    BY <1>1, <1>3 DEF TermsBehind
  <2> QED BY <2>1 DEF TermsBehind
<1>7. SentinelTerm' /\ RequestsEndInTerm' /\ RequestsBehind' /\ RepliesGranted' /\ VotesBehind'
  BY DEF SentinelTerm, RequestsEndInTerm, LastSentTerm, RequestsBehind, RepliesGranted,
         VotesBehind
<1>8. ElectionsBehind'
  BY <1>1 DEF ElectionsBehind
<1>9. ElectedLogEnds'
  <2>1. ASSUME NEW e \in elected', e[1] = currentTerm[e[2]]
        PROVE  LastTerm(log'[e[2]]) = e[1]
    <3>1. e[2] \in Node
      BY <1>4 DEF TypeOK
    <3>2. CASE e[2] = i
      BY <2>1, <3>2, <1>2
    <3>3. CASE e[2] # i
      <4>1. e \in elected
        BY <3>3, <1>1
      <4> QED BY <2>1, <3>1, <3>3, <4>1, <1>2 DEF ElectedLogEnds
    <3> QED BY <3>2, <3>3
  <2> QED BY <2>1 DEF ElectedLogEnds
<1>10. LeadersElected'
  BY <1>1, <1>2 DEF LeadersElected
<1> QED BY <1>4, <1>5, <1>6, <1>7, <1>8, <1>9, <1>10

\* The other outcomes of a RequestVote reply: it comes too late, it tells of a
\* newer term, it refuses the vote, or it grants one that is not yet enough.
LEMMA HandleRequestVoteReplyTerms ==
    ASSUME TermInv, NEW m \in rpcs, HandleRequestVoteReply(m)
    PROVE  TermInv'
<1> USE DEF TermInv, Follower, Candidate, Leader
<1> DEFINE i == m.dst
           votes == votesReceived[i] \cup {m.src}
<1>1. /\ m \in VoteReplyType /\ m.kind = "RequestVoteReply" /\ i \in Node /\ m.src \in Node
      /\ m.term \in Nat /\ m.electionTerm \in Nat /\ currentTerm[i] \in Nat
  BY MessageKinds DEF HandleRequestVoteReply, VoteReplyType, TypeOK
<1>2. /\ rpcs' = rpcs \ {m} /\ granted' = granted /\ commitIndex' = commitIndex
      /\ appendInFlight' = appendInFlight
  BY DEF HandleRequestVoteReply
<1>3. CASE /\ votesReceived' \in [Node -> SUBSET Node]
           /\ UNCHANGED <<persistent, state, hintLeaderID, nextIndex, matchIndex, quorumNeeded,
                          elected>>
  <2> USE DEF persistent
  <2>1. TypeOK'
    BY <1>2, <1>3 DEF TypeOK
  <2>2. EntriesAboutNodes' /\ TermsBehind' /\ SentinelTerm' /\ RequestsEndInTerm'
    BY <1>2, <1>3 DEF EntriesAboutNodes, AboutNodes, TermsBehind, SentinelTerm,
                      RequestsEndInTerm, LastSentTerm
  <2>3. RequestsBehind' /\ RepliesGranted' /\ VotesBehind' /\ ElectionsBehind' /\ ElectedLogEnds'
    BY <1>2, <1>3 DEF RequestsBehind, RepliesGranted, VotesBehind, ElectionsBehind,
                      ElectedLogEnds
  <2>4. LeadersElected'
    BY <1>2, <1>3 DEF LeadersElected
  <2> QED BY <2>1, <2>2, <2>3, <2>4
<1>4. CASE /\ m.term > currentTerm[i]
           /\ BecomeFollower(i, m.term)
           /\ UNCHANGED <<log, hintLeaderID, nextIndex, matchIndex, elected>>
  <2>1. /\ VotesBehind' /\ ElectionsBehind'
        /\ currentTerm' \in [Node -> Nat] /\ votedFor' \in [Node -> Node \cup {NoNode}]
        /\ state' \in [Node -> {Follower, Candidate, Leader}]
        /\ votesReceived' \in [Node -> SUBSET Node] /\ quorumNeeded' \in [Node -> Nat]
        /\ \A j \in Node : currentTerm[j] <= currentTerm'[j]
        /\ \A e \in elected : e[1] = currentTerm'[e[2]] => e[1] = currentTerm[e[2]]
        /\ \A j \in Node : state'[j] # Follower
               => state'[j] = state[j] /\ currentTerm'[j] = currentTerm[j]
    BY <1>1, <1>2, <1>4, HigherTerm
  <2>2. TypeOK'
    BY <1>2, <1>4, <2>1 DEF TypeOK
  <2>3. EntriesAboutNodes' /\ TermsBehind' /\ SentinelTerm' /\ RequestsEndInTerm'
    <3>1. \A n \in rpcs' : n.kind = "AppendEntries" => n \in rpcs
      BY <1>2
    <3> QED BY <1>4, <2>1, <3>1, NoNewEntries
  <2>4. RequestsBehind' /\ RepliesGranted'
    BY <1>2 DEF RequestsBehind, RepliesGranted
  <2>5. ElectedLogEnds' /\ LeadersElected'
    BY <1>2, <1>4, <2>1 DEF ElectedLogEnds, LeadersElected
  <2> QED BY <2>1, <2>2, <2>3, <2>4, <2>5
<1>5. CASE BecomeLeader(i) /\ UNCHANGED <<currentTerm, votedFor>>
  BY <1>1, <1>2, <1>5, WinElectionTerms
<1>6. votesReceived \in [Node -> SUBSET Node]
      /\ [votesReceived EXCEPT ![i] = votes] \in [Node -> SUBSET Node]
  BY <1>1 DEF TypeOK
<1>7. CASE UNCHANGED <<persistent, state, hintLeaderID, nextIndex, matchIndex, ballotVars,
                       elected>>
  BY <1>3, <1>6, <1>7 DEF ballotVars
<1>8. CASE /\ votesReceived' = [votesReceived EXCEPT ![i] = votes]
           /\ UNCHANGED <<currentTerm, votedFor, log, state, hintLeaderID, nextIndex,
                          matchIndex, quorumNeeded, elected>>
  BY <1>3, <1>6, <1>8 DEF persistent
<1> HIDE DEF votes
<1> QED BY <1>1, <1>4, <1>5, <1>7, <1>8 DEF HandleRequestVoteReply, votes

\* What a node's log is after an AppendEntries it accepts: entries it had, and
\* entries of the message.  A log that ends in the message's term still does.
LEMMA AcceptedLog ==
    ASSUME TermInv, NEW m \in rpcs, m.kind = "AppendEntries", AcceptLeader(m)
    PROVE  /\ \E r \in AppendReplyType : Answer(m, r)
           /\ log' \in [Node -> Seq(EntryRecord)] /\ commitIndex' \in [Node -> Nat]
           /\ \A j \in Node \ {m.dst} : log'[j] = log[j]
           /\ \A k \in DOMAIN log'[m.dst] :
                 \/ k \in DOMAIN log[m.dst] /\ log'[m.dst][k] = log[m.dst][k]
                 \/ \E n \in DOMAIN m.entries : log'[m.dst][k] = m.entries[n]
           /\ LastTerm(log[m.dst]) = m.term => LastTerm(log'[m.dst]) = m.term
<1> USE DEF TermInv
<1> DEFINE i == m.dst
           prev == m.prevLogIndex
<1>1. /\ m \in AppendRequestType /\ i \in Node
      /\ m.term \in Nat /\ prev \in Nat /\ m.prevLogTerm \in Nat /\ m.leaderCommit \in Nat
      /\ m.entries \in Seq(EntryRecord) /\ Len(m.entries) \in Nat /\ commitIndex[i] \in Nat
  BY MessageKinds, LenProperties DEF AppendRequestType, TypeOK
<1>2. \A t, ci, ct \in Nat : \A success \in BOOLEAN :
         AppendReply(m, t, success, ci, ct) \in AppendReplyType
  BY <1>1, MessageKinds DEF AppendReply, AppendReplyType
<1>3. Len(log[i]) \in Nat /\ Len(log[i]) + 1 \in Nat /\ log[i] \in Seq(EntryRecord)
  BY <1>1, LogFacts
<1>4. /\ \E r \in AppendReplyType : Answer(m, r)
      /\ \/ log' = log /\ commitIndex' = commitIndex
         \/ /\ prev \in 0..Len(log[i])
            /\ TermAt(log[i], prev) = m.prevLogTerm
            /\ log' = [log EXCEPT ![i] = Merge(@, prev, m.entries)]
            /\ commitIndex' = [commitIndex EXCEPT ![i] = FollowerCommit(i, m)]
  <2>1. CASE /\ prev > Len(log[i])
             /\ Answer(m, AppendReply(m, m.term, FALSE, Len(log[i]) + 1, 0))
             /\ UNCHANGED <<log, commitIndex>>
    BY <2>1, <1>1, <1>2, <1>3
  <2>2. CASE /\ prev <= Len(log[i])
             /\ TermAt(log[i], prev) # m.prevLogTerm
             /\ Answer(m, AppendReply(m, m.term, FALSE, ConflictIndex(log[i], prev),
                                      log[i][prev].term))
             /\ UNCHANGED <<log, commitIndex>>
    <3>1. prev # 0
      BY <2>2 DEF SentinelTerm, TermAt
    <3>2. prev \in 1..Len(log[i])
      BY <1>1, <1>3, <2>2, <3>1
    <3>3. ConflictIndex(log[i], prev) \in 1..prev
      BY <1>3, <3>2, ConflictIndexIsFirst
    <3>4. ConflictIndex(log[i], prev) \in Nat /\ log[i][prev].term \in Nat
      BY <1>1, <3>2, <3>3, LogFacts
    <3> QED BY <1>1, <1>2, <2>2, <3>4
  <2>3. CASE /\ prev <= Len(log[i])
             /\ TermAt(log[i], prev) = m.prevLogTerm
             /\ log' = [log EXCEPT ![i] = Merge(@, prev, m.entries)]
             /\ commitIndex' = [commitIndex EXCEPT ![i] = FollowerCommit(i, m)]
             /\ Answer(m, AppendReply(m, m.term, TRUE, 0, 0))
    <3>1. prev \in 0..Len(log[i])
      BY <1>1, <1>3, <2>3
    <3>2. AppendReply(m, m.term, TRUE, 0, 0) \in AppendReplyType
      <4>1. 0 \in Nat /\ TRUE \in BOOLEAN
        OBVIOUS
      <4> QED BY <1>1, <1>2, <4>1
    <3> QED BY <2>3, <3>1, <3>2
  <2> QED BY <2>1, <2>2, <2>3 DEF AcceptLeader
<1>5. CASE log' = log /\ commitIndex' = commitIndex
  BY <1>1, <1>4, <1>5 DEF TypeOK
<1>6. CASE /\ prev \in 0..Len(log[i])
           /\ TermAt(log[i], prev) = m.prevLogTerm
           /\ log' = [log EXCEPT ![i] = Merge(@, prev, m.entries)]
           /\ commitIndex' = [commitIndex EXCEPT ![i] = FollowerCommit(i, m)]
  <2> DEFINE l == log[i]
             es == m.entries
             p == prev
             M == Merge(l, p, es)
  <2>1. l \in Seq(EntryRecord) /\ es \in Seq(EntryRecord) /\ p \in 0..Len(l)
    BY <1>1, <1>3, <1>6
  <2>2. (IF es = <<>> THEN TermAt(l, p) ELSE LastTerm(es)) = m.term
    BY <1>6 DEF RequestsEndInTerm, LastSentTerm
  <2> HIDE DEF l, es, p
  <2>3. /\ M \in Seq(EntryRecord)
        /\ \A k \in DOMAIN M :
              \/ k \in DOMAIN l /\ M[k] = l[k]
              \/ k - p \in DOMAIN es /\ M[k] = es[k - p]
    BY <2>1, MergeEntries
  <2>4. LastTerm(l) = m.term => LastTerm(M) = m.term
    <3> SUFFICES ASSUME NEW t, t = m.term, LastTerm(l) = t PROVE LastTerm(M) = t
      OBVIOUS
    <3> QED BY <2>1, <2>2, MergeEndsInTerm
  <2>5. log' = [log EXCEPT ![i] = M]
    BY <1>6 DEF l, es, p
  <2> HIDE DEF M
  <2>6. /\ log' \in [Node -> Seq(EntryRecord)] /\ log'[i] = M
        /\ \A j \in Node \ {i} : log'[j] = log[j]
    BY <1>1, <2>3, <2>5 DEF TypeOK
  <2>7. commitIndex' \in [Node -> Nat]
    <3>1. FollowerCommit(i, m) \in Nat
      BY <1>1 DEF FollowerCommit
    <3> QED BY <1>1, <1>6, <3>1 DEF TypeOK
  <2> QED BY <1>4, <2>3, <2>4, <2>6, <2>7 DEF l, es
<1> QED BY <1>4, <1>5, <1>6

\* An AppendEntries moves its receiver to its term or a newer one, and a node
\* that was elected in the term it ends up in ends its log there as before.
LEMMA HandleAppendEntriesTerms ==
    ASSUME TermInv, NEW m \in rpcs, HandleAppendEntries(m)
    PROVE  TermInv'
<1> USE DEF TermInv, Follower, Candidate, Leader
<1> DEFINE i == m.dst
<1>1. /\ m \in AppendRequestType /\ m.kind = "AppendEntries" /\ i \in Node /\ m.src \in Node
      /\ m.term \in Nat /\ currentTerm[i] \in Nat
  BY MessageKinds DEF HandleAppendEntries, AppendRequestType, TypeOK
<1>2. /\ granted' = granted /\ elected' = elected /\ nextIndex' = nextIndex
      /\ matchIndex' = matchIndex /\ appendInFlight' = appendInFlight
  BY DEF HandleAppendEntries, leaderVars, history
<1>3. ASSUME NEW r \in AppendReplyType, Answer(m, r)
      PROVE  /\ rpcs' \subseteq MessageType
             /\ \A n \in rpcs' : n \in rpcs \/ n.kind = "AppendEntriesReply"
  <2>1. r.kind = "AppendEntriesReply"
    BY DEF AppendReplyType
  <2>2. \A n \in rpcs' : n \in rpcs \/ n = r
    BY <1>3 DEF Answer
  <2> QED BY <2>1, <2>2 DEF MessageType, TypeOK
<1>4. ASSUME NEW r \in AppendReplyType, Answer(m, r)
      PROVE  SentinelTerm' /\ RequestsEndInTerm' /\ RequestsBehind' /\ RepliesGranted'
  BY <1>2, <1>3, <1>4 DEF SentinelTerm, RequestsEndInTerm, LastSentTerm, RequestsBehind,
                          RepliesGranted
<1>5. CASE RefuseStaleLeader(m)
  <2> USE DEF persistent, ballotVars
  <2>1. PICK r \in AppendReplyType : Answer(m, r)
    <3>1. AppendReply(m, currentTerm[i], FALSE, 0, 0) \in AppendReplyType
      BY <1>1, LenProperties DEF AppendReply, AppendReplyType, AppendRequestType
    <3> QED BY <1>5, <3>1 DEF RefuseStaleLeader
  <2>2. UNCHANGED <<currentTerm, votedFor, log, state, commitIndex, hintLeaderID,
                    votesReceived, quorumNeeded>>
    BY <1>5 DEF RefuseStaleLeader
  <2>3. TypeOK'
    BY <1>2, <1>3, <2>1, <2>2 DEF TypeOK
  <2>4. EntriesAboutNodes' /\ TermsBehind'
    BY <1>3, <2>1, <2>2 DEF EntriesAboutNodes, AboutNodes, TermsBehind
  <2>5. VotesBehind' /\ ElectionsBehind' /\ ElectedLogEnds' /\ LeadersElected'
    BY <1>2, <1>3, <2>1, <2>2 DEF VotesBehind, ElectionsBehind, ElectedLogEnds, LeadersElected
  <2> QED BY <1>4, <2>1, <2>3, <2>4, <2>5
<1>6. CASE AcceptLeader(m)
  <2>1. /\ m.term >= currentTerm[i]
        /\ hintLeaderID' = [hintLeaderID EXCEPT ![i] = m.src]
    BY <1>6 DEF AcceptLeader
  <2>2. PICK r \in AppendReplyType : Answer(m, r)
    BY <1>1, <1>6, AcceptedLog
  <2>3. /\ log' \in [Node -> Seq(EntryRecord)] /\ commitIndex' \in [Node -> Nat]
        /\ \A j \in Node \ {i} : log'[j] = log[j]
        /\ \A k \in DOMAIN log'[i] :
              \/ k \in DOMAIN log[i] /\ log'[i][k] = log[i][k]
              \/ \E n \in DOMAIN m.entries : log'[i][k] = m.entries[n]
        /\ LastTerm(log[i]) = m.term => LastTerm(log'[i]) = m.term
    BY <1>1, <1>6, AcceptedLog
  <2>4. /\ VotesBehind' /\ ElectionsBehind'
        /\ currentTerm' \in [Node -> Nat] /\ votedFor' \in [Node -> Node \cup {NoNode}]
        /\ state' \in [Node -> {Follower, Candidate, Leader}]
        /\ votesReceived' \in [Node -> SUBSET Node] /\ quorumNeeded' \in [Node -> Nat]
        /\ currentTerm'[i] = m.term
        /\ \A j \in Node : currentTerm[j] <= currentTerm'[j]
        /\ \A e \in elected : e[1] = currentTerm'[e[2]] => e[1] = currentTerm[e[2]]
        /\ \A j \in Node : state'[j] = Leader
               => state[j] = Leader /\ currentTerm'[j] = currentTerm[j]
    <3>1. CASE m.term > currentTerm[i]
      <4>1. BecomeFollower(i, m.term)
        BY <1>6, <3>1 DEF AcceptLeader
      <4> QED BY <1>1, <1>2, <3>1, <4>1, HigherTerm
    <3>2. CASE m.term = currentTerm[i]
      <4>1. UNCHANGED <<currentTerm, votedFor, state, votesReceived, quorumNeeded>>
        BY <1>1, <1>6, <3>2 DEF AcceptLeader, ballotVars
      <4>2. /\ currentTerm' \in [Node -> Nat] /\ votedFor' \in [Node -> Node \cup {NoNode}]
            /\ state' \in [Node -> {Follower, Candidate, Leader}]
            /\ votesReceived' \in [Node -> SUBSET Node] /\ quorumNeeded' \in [Node -> Nat]
            /\ \A j \in Node : currentTerm[j] <= currentTerm'[j]
        BY <4>1 DEF TypeOK
      <4>3. VotesBehind' /\ ElectionsBehind'
        BY <1>2, <4>1 DEF VotesBehind, ElectionsBehind
      <4> QED BY <3>2, <4>1, <4>2, <4>3
    <3> QED BY <1>1, <2>1, <3>1, <3>2
  <2>5. TypeOK'
    <3>1. hintLeaderID' \in [Node -> Node \cup {NoNode}]
      BY <1>1, <2>1 DEF TypeOK
    <3> QED BY <1>2, <1>3, <2>2, <2>3, <2>4, <3>1 DEF TypeOK
  <2>6. EntriesAboutNodes'
    <3>1. AboutNodes(m.entries)
      BY <1>1 DEF EntriesAboutNodes
    <3>2. ASSUME NEW j \in Node PROVE AboutNodes(log'[j])
      <4>1. CASE j # i
        BY <2>3, <4>1 DEF EntriesAboutNodes
      <4>2. ASSUME j = i, NEW k \in DOMAIN log'[i], log'[i][k].type # EntryNormal
            PROVE  log'[i][k].arg \subseteq Node
        <5>1. CASE k \in DOMAIN log[i] /\ log'[i][k] = log[i][k]
          BY <1>1, <4>2, <5>1 DEF EntriesAboutNodes, AboutNodes
        <5>2. CASE \E n \in DOMAIN m.entries : log'[i][k] = m.entries[n]
          BY <3>1, <4>2, <5>2 DEF AboutNodes
        <5> QED BY <2>3, <4>2, <5>1, <5>2
      <4> QED BY <4>1, <4>2 DEF AboutNodes
    <3> QED BY <1>3, <2>2, <3>2 DEF EntriesAboutNodes, AboutNodes
  <2>7. TermsBehind'
    <3>1. \A n \in DOMAIN m.entries : m.entries[n].term <= m.term
      BY <1>1 DEF TermsBehind
    <3>2. ASSUME NEW j \in Node, NEW k \in DOMAIN log[j]
          PROVE  log[j][k].term <= currentTerm'[j]
      <4>1. log[j][k].term \in Nat /\ log[j][k].term <= currentTerm[j]
        BY LogFacts DEF TermsBehind
      <4>2. currentTerm[j] \in Nat /\ currentTerm'[j] \in Nat
        BY <2>5 DEF TypeOK
      <4> QED BY <4>1, <4>2, <2>4
    <3>3. ASSUME NEW j \in Node, NEW k \in DOMAIN log'[j]
          PROVE  log'[j][k].term <= currentTerm'[j]
      <4>1. CASE j # i
        BY <4>1, <2>3, <3>2
      <4>2. CASE j = i /\ k \in DOMAIN log[i] /\ log'[i][k] = log[i][k]
        BY <4>2, <3>2
      <4>3. CASE j = i /\ \E n \in DOMAIN m.entries : log'[i][k] = m.entries[n]
        BY <4>3, <2>4, <3>1
      <4> QED BY <2>3, <4>1, <4>2, <4>3
    <3> QED BY <1>3, <2>2, <3>3 DEF TermsBehind
  <2>8. ElectedLogEnds'
    <3>1. \A e \in elected : e[2] \in Node
      BY DEF TypeOK
    <3>2. ASSUME NEW e \in elected, e[1] = currentTerm'[e[2]] PROVE LastTerm(log'[e[2]]) = e[1]
      <4>1. e[1] = currentTerm[e[2]] /\ LastTerm(log[e[2]]) = e[1]
        BY <2>4, <3>2 DEF ElectedLogEnds
      <4>2. CASE e[2] = i
        BY <2>3, <2>4, <3>2, <4>1, <4>2
      <4>3. CASE e[2] # i
        BY <2>3, <3>1, <4>1, <4>3
      <4> QED BY <4>2, <4>3
    <3> QED BY <1>2, <3>2 DEF ElectedLogEnds
  <2>9. LeadersElected'
    BY <1>2, <1>3, <2>2, <2>4 DEF LeadersElected
  <2> QED BY <1>4, <2>2, <2>4, <2>5, <2>6, <2>7, <2>8, <2>9
<1> QED BY <1>5, <1>6 DEF HandleAppendEntries

\* The commit index a leader computes is a number: the last of a finite set of
\* positions of its log.
LEMMA LeaderCommitType ==
    ASSUME TypeOK, NEW i \in Node, NEW match
    PROVE  LeaderCommit(i, match) \in Nat
<1> DEFINE ready == {n \in (commitIndex[i] + 1)..Len(log[i]) : Committable(i, match, n)}
           last == CHOOSE n \in ready : \A k \in ready : k <= n
<1>1. commitIndex[i] \in Nat /\ Len(log[i]) \in Nat
  BY LogFacts DEF TypeOK
<1>2. ready \in SUBSET Nat /\ \A n \in ready : n <= Len(log[i])
  BY <1>1
<1>3. LeaderCommit(i, match) = IF ready = {} THEN commitIndex[i] ELSE last
  BY DEF LeaderCommit
<1> HIDE DEF ready
<1>4. ready # {} => last \in Nat
  <2> SUFFICES ASSUME ready # {} PROVE last \in Nat
    OBVIOUS
  <2>1. \E n \in ready : \A k \in ready : k <= n
    BY <1>1, <1>2, GreatestExists
  <2>2. last \in ready
    BY <2>1
  <2> QED BY <1>2, <2>2
<1> HIDE DEF last
<1> QED BY <1>1, <1>3, <1>4

\* A reply changes nothing that terms rest on, unless it carries a newer term.
LEMMA HandleAppendEntriesReplyTerms ==
    ASSUME TermInv, NEW m \in rpcs, HandleAppendEntriesReply(m)
    PROVE  TermInv'
<1> USE DEF TermInv, Follower, Candidate, Leader
<1> DEFINE i == m.dst
           j == m.src
<1>1. /\ m.kind = "AppendEntriesReply" /\ i \in Node /\ j \in Node
      /\ m.term \in Nat /\ m.lastSent \in Nat /\ m.conflictIndex \in Nat
      /\ m.conflictTerm \in Nat /\ currentTerm[i] \in Nat
  BY MessageKinds DEF HandleAppendEntriesReply, AppendReplyType, TypeOK
<1>2. /\ rpcs' = rpcs \ {m} /\ log' = log /\ hintLeaderID' = hintLeaderID
      /\ granted' = granted /\ elected' = elected
      /\ appendInFlight' = [appendInFlight EXCEPT ![i] = @ \ {j}]
  BY DEF HandleAppendEntriesReply, history
<1>3. appendInFlight' \in [Node -> SUBSET Node] /\ rpcs' \subseteq MessageType
  BY <1>1, <1>2 DEF TypeOK
<1>4. RequestsBehind' /\ RepliesGranted'
  BY <1>2 DEF RequestsBehind, RepliesGranted
<1>5. CASE /\ UNCHANGED <<currentTerm, votedFor, state, ballotVars>>
           /\ commitIndex' \in [Node -> Nat]
           /\ nextIndex' \in [Node -> [Node -> Nat \ {0}]]
           /\ matchIndex' \in [Node -> [Node -> Nat]]
  <2> USE DEF ballotVars
  <2>1. TypeOK'
    BY <1>2, <1>3, <1>5 DEF TypeOK
  <2>2. EntriesAboutNodes' /\ TermsBehind' /\ SentinelTerm' /\ RequestsEndInTerm'
    BY <1>2, <1>5 DEF EntriesAboutNodes, AboutNodes, TermsBehind, SentinelTerm,
                      RequestsEndInTerm, LastSentTerm
  <2>3. VotesBehind' /\ ElectionsBehind' /\ ElectedLogEnds' /\ LeadersElected'
    BY <1>2, <1>5 DEF VotesBehind, ElectionsBehind, ElectedLogEnds, LeadersElected
  <2> QED BY <1>4, <2>1, <2>2, <2>3
<1>6. CASE /\ m.term > currentTerm[i]
           /\ BecomeFollower(i, m.term)
           /\ UNCHANGED <<commitIndex, nextIndex, matchIndex>>
  <2>1. /\ VotesBehind' /\ ElectionsBehind'
        /\ currentTerm' \in [Node -> Nat] /\ votedFor' \in [Node -> Node \cup {NoNode}]
        /\ state' \in [Node -> {Follower, Candidate, Leader}]
        /\ votesReceived' \in [Node -> SUBSET Node] /\ quorumNeeded' \in [Node -> Nat]
        /\ \A k \in Node : currentTerm[k] <= currentTerm'[k]
        /\ \A e \in elected : e[1] = currentTerm'[e[2]] => e[1] = currentTerm[e[2]]
        /\ \A k \in Node : state'[k] # Follower
               => state'[k] = state[k] /\ currentTerm'[k] = currentTerm[k]
    BY <1>1, <1>2, <1>6, HigherTerm
  <2>2. TypeOK'
    BY <1>2, <1>3, <1>6, <2>1 DEF TypeOK
  <2>3. EntriesAboutNodes' /\ TermsBehind' /\ SentinelTerm' /\ RequestsEndInTerm'
    <3>1. \A n \in rpcs' : n.kind = "AppendEntries" => n \in rpcs
      BY <1>2
    <3> QED BY <1>2, <2>1, <3>1, NoNewEntries
  <2>4. ElectedLogEnds' /\ LeadersElected'
    BY <1>2, <2>1 DEF ElectedLogEnds, LeadersElected
  <2> QED BY <1>4, <2>1, <2>2, <2>3, <2>4
<1>7. CASE /\ matchIndex' = [matchIndex EXCEPT ![i][j] = CreditedIndex(m)]
           /\ nextIndex'  = [nextIndex EXCEPT ![i][j] = CreditedIndex(m) + 1]
           /\ commitIndex' = [commitIndex EXCEPT ![i] = LeaderCommit(i, matchIndex'[i])]
           /\ UNCHANGED <<currentTerm, votedFor, state, ballotVars>>
  <2>1. CreditedIndex(m) \in Nat /\ CreditedIndex(m) + 1 \in Nat \ {0}
    BY <1>1 DEF CreditedIndex
  <2>2. LeaderCommit(i, matchIndex'[i]) \in Nat
    BY <1>1, LeaderCommitType
  <2>3. /\ matchIndex' \in [Node -> [Node -> Nat]]
        /\ nextIndex' \in [Node -> [Node -> Nat \ {0}]]
        /\ commitIndex' \in [Node -> Nat]
    BY <1>1, <1>7, <2>1, <2>2 DEF TypeOK
  <2> QED BY <1>5, <1>7, <2>3
<1>8. CASE /\ nextIndex' = [nextIndex EXCEPT ![i][j] =
                               NextAfterConflict(log[i], m.conflictIndex, m.conflictTerm)]
           /\ UNCHANGED <<currentTerm, votedFor, state, commitIndex, matchIndex, ballotVars>>
  <2>1. NextAfterConflict(log[i], m.conflictIndex, m.conflictTerm) \in Nat \ {0}
    BY <1>1, LogFacts, NextAfterConflictPositive
  <2>2. /\ matchIndex' \in [Node -> [Node -> Nat]]
        /\ nextIndex' \in [Node -> [Node -> Nat \ {0}]]
        /\ commitIndex' \in [Node -> Nat]
    BY <1>1, <1>8, <2>1 DEF TypeOK
  <2> QED BY <1>5, <1>8, <2>2
<1>9. CASE UNCHANGED <<currentTerm, votedFor, state, commitIndex, nextIndex, matchIndex,
                       ballotVars>>
  BY <1>5, <1>9 DEF TypeOK
<1> QED BY <1>6, <1>7, <1>8, <1>9 DEF HandleAppendEntriesReply

\* Every step of Raft keeps the invariant of terms.
LEMMA NextTermInv == TermInv /\ [Next]_vars => TermInv'
<1> SUFFICES ASSUME TermInv, [Next]_vars PROVE TermInv'
  OBVIOUS
<1>1. CASE \E i \in Node : StartElection(i)
  BY <1>1, StartElectionTerms
<1>2. CASE \E m \in rpcs : HandleRequestVote(m)
  BY <1>2, RefuseVoteTerms, DecideVoteTerms DEF HandleRequestVote
<1>3. CASE \E m \in rpcs : HandleRequestVoteReply(m)
  BY <1>3, HandleRequestVoteReplyTerms
<1>4. CASE \E m \in rpcs : RequestVoteFails(m)
  BY <1>4, RequestVoteFailsTerms
<1>5. CASE \E i, j \in Node : SendAppendEntries(i, j)
  BY <1>5, SendAppendEntriesTerms
<1>6. CASE \E m \in rpcs : HandleAppendEntries(m)
  BY <1>6, HandleAppendEntriesTerms
<1>7. CASE \E m \in rpcs : HandleAppendEntriesReply(m)
  BY <1>7, HandleAppendEntriesReplyTerms
<1>8. CASE \E m \in rpcs : AppendEntriesFails(m)
  BY <1>8, AppendEntriesFailsTerms
<1>9. CASE \E m \in rpcs : AppendEntriesTimeout(m)
  BY <1>9, AppendEntriesTimeoutTerms
<1>10. CASE \E i \in Node, v \in Value : Submit(i, v)
  BY <1>10, SubmitTerms
<1>11. CASE \E i \in Node : StepDown(i)
  BY <1>11, SameTermFollower DEF StepDown
<1>12. CASE UNCHANGED vars
  <2> USE <1>12 DEF vars
  <2>1. TypeOK' /\ EntriesAboutNodes' /\ TermsBehind' /\ SentinelTerm' /\ RequestsEndInTerm'
    BY DEF TermInv, TypeOK, EntriesAboutNodes, AboutNodes, TermsBehind, SentinelTerm,
           RequestsEndInTerm, LastSentTerm
  <2>2. RequestsBehind' /\ RepliesGranted' /\ VotesBehind' /\ ElectionsBehind'
    BY DEF TermInv, RequestsBehind, RepliesGranted, VotesBehind, ElectionsBehind
  <2>3. ElectedLogEnds' /\ LeadersElected'
    BY DEF TermInv, ElectedLogEnds, LeadersElected
  <2> QED BY <2>1, <2>2, <2>3 DEF TermInv
<1> QED BY <1>1, <1>2, <1>3, <1>4, <1>5, <1>6, <1>7, <1>8, <1>9, <1>10, <1>11, <1>12 DEF Next


-----------------------------------------------------------------------------
(* Votes: VotingInv.                                                        *)

\* Where no vote is cast, and no node loses the memory of a vote of the term it
\* stays in, votes stay remembered.
LEMMA VotesKept ==
    ASSUME VotesRemembered, OneVotePerTerm, granted' = granted, elected \subseteq elected',
           \A g \in granted : g[1] = currentTerm'[g[2]]
               => g[1] = currentTerm[g[2]] /\ votedFor'[g[2]] = votedFor[g[2]]
    PROVE  VotesRemembered' /\ OneVotePerTerm'
BY DEF VotesRemembered, OneVotePerTerm

\* A candidate's new term has seen no vote of its node.
LEMMA StartElectionVotes ==
    ASSUME VotingInv, NEW i \in Node, StartElection(i)
    PROVE  VotesRemembered' /\ OneVotePerTerm'
<1> USE DEF VotingInv, TermInv, StartElection
<1> DEFINE term == currentTerm[i] + 1
<1>1. /\ currentTerm[i] \in Nat /\ term \in Nat /\ term > currentTerm[i]
      /\ currentTerm'[i] = term /\ \A j \in Node \ {i} : currentTerm'[j] = currentTerm[j]
      /\ votedFor'[i] = i /\ \A j \in Node \ {i} : votedFor'[j] = votedFor[j]
      /\ granted' = granted \cup {<<term, i, i>>} /\ elected' = elected
  BY DEF TypeOK
<1>2. ASSUME NEW g \in granted'
      PROVE  \/ g \in granted /\ g[1] \in Nat /\ g[2] \in Node
                /\ g[1] <= currentTerm[g[2]] /\ g[1] <= currentTerm'[g[2]]
                /\ (g[2] = i => g[1] < currentTerm'[g[2]])
             \/ g[1] = term /\ g[2] = i /\ g[3] = i
  <2>1. CASE g \in granted
    <3>1. g[1] \in Nat /\ g[2] \in Node /\ g[1] <= currentTerm[g[2]]
      BY <2>1 DEF VotesBehind, TypeOK
    <3> QED BY <2>1, <3>1, <1>1
  <2>2. CASE g = <<term, i, i>>
    BY <2>2
  <2> QED BY <2>1, <2>2, <1>1
<1>3. ASSUME NEW g \in granted', g[1] = currentTerm'[g[2]]
      PROVE  \/ votedFor'[g[2]] = g[3]
             \/ votedFor'[g[2]] = NoNode /\ <<g[1], g[2]>> \in elected'
  <2>1. CASE g[2] = i
    BY <2>1, <1>1, <1>2, <1>3
  <2>2. CASE g[2] # i
    <3>1. g \in granted /\ g[2] \in Node /\ g[1] = currentTerm[g[2]]
          /\ votedFor'[g[2]] = votedFor[g[2]]
      BY <2>2, <1>1, <1>2, <1>3
    <3> QED BY <1>1, <3>1 DEF VotesRemembered
  <2> QED BY <2>1, <2>2
<1>4. ASSUME NEW g \in granted', NEW h \in granted', g[1] = h[1], g[2] = h[2]
      PROVE  g[3] = h[3]
  <2>1. CASE g \in granted /\ h \in granted
    BY <1>4, <2>1 DEF OneVotePerTerm
  <2>2. CASE ~(g \in granted /\ h \in granted)
    BY <1>4, <2>2, <1>1, <1>2
  <2> QED BY <2>1, <2>2
<1> QED BY <1>3, <1>4 DEF VotesRemembered, OneVotePerTerm

\* A vote is given in a term where the node has given none, or again to the
\* same candidate: a leader whose vote was cleared finds the candidate's log
\* behind its own.
LEMMA DecideVoteVotes ==
    ASSUME VotingInv, NEW m \in rpcs, m.kind = "RequestVote", DecideVote(m)
    PROVE  VotesRemembered' /\ OneVotePerTerm'
<1> USE DEF VotingInv, TermInv
<1> DEFINE i == m.dst
           vote == <<m.term, i, m.src>>
<1>1. /\ m.src \in Node /\ i \in Node /\ m.term \in Nat /\ currentTerm[i] \in Nat
      /\ m.lastLogTerm \in Nat /\ m.lastLogTerm < m.term /\ m.term >= currentTerm[i]
      /\ currentTerm'[i] = m.term
      /\ \A j \in Node \ {i} : currentTerm'[j] = currentTerm[j]
      /\ votedFor'[i] = IF MayVote(i, m) THEN m.src
                        ELSE IF m.term > currentTerm[i] THEN NoNode ELSE votedFor[i]
      /\ \A j \in Node \ {i} : votedFor'[j] = votedFor[j]
      /\ granted' = granted \cup (IF MayVote(i, m) THEN {vote} ELSE {})
  BY VoteDecided
<1>2. elected' = elected
  BY DEF DecideVote
<1>3. ASSUME MayVote(i, m), NEW g \in granted, g[1] = m.term, g[2] = i
      PROVE  g[3] = m.src
  <2>1. g[1] <= currentTerm[i]
    BY <1>3 DEF VotesBehind
  <2>2. m.term = currentTerm[i]
    BY <1>1, <1>3, <2>1
  <2>3. votedFor[i] = g[3] \/ (votedFor[i] = NoNode /\ <<m.term, i>> \in elected)
    BY <1>3, <2>2 DEF VotesRemembered
  <2>4. votedFor[i] \in {NoNode, m.src}
    BY <1>3, <1>1, <2>2 DEF MayVote
  <2>5. g[3] # NoNode
    BY NodeAssumption DEF TypeOK
  <2>6. CASE <<m.term, i>> \in elected
    <3>1. LastTerm(log[i]) = m.term
      BY <2>6, <2>2 DEF ElectedLogEnds
    <3>2. LastTerm(log[i]) <= m.lastLogTerm
      BY <1>1, <1>3, LogFacts DEF MayVote, UpToDate
    <3> QED BY <1>1, <3>1, <3>2
  <2> QED BY <2>3, <2>4, <2>5, <2>6
<1>4. ASSUME NEW g \in granted'
      PROVE  (g \in granted) \/ (MayVote(i, m) /\ g = vote)
  BY <1>1
<1>5. ASSUME NEW g \in granted, g[1] = currentTerm'[g[2]]
      PROVE  \/ votedFor'[g[2]] = g[3]
             \/ votedFor'[g[2]] = NoNode /\ <<g[1], g[2]>> \in elected
  <2>1. g[2] \in Node /\ g[1] \in Nat /\ g[1] <= currentTerm[g[2]]
    BY DEF VotesBehind, TypeOK
  <2>2. CASE g[2] # i
    BY <1>5, <2>1, <2>2, <1>1 DEF VotesRemembered
  <2>3. CASE g[2] = i /\ MayVote(i, m)
    BY <1>5, <2>3, <1>1, <1>3
  <2>4. CASE g[2] = i /\ ~MayVote(i, m)
    <3>1. g[1] = currentTerm[i] /\ ~(m.term > currentTerm[i])
      BY <1>5, <2>1, <2>4, <1>1
    <3> QED BY <2>4, <3>1, <1>1 DEF VotesRemembered
  <2> QED BY <2>2, <2>3, <2>4
<1>6. MayVote(i, m) => votedFor'[i] = m.src
  BY <1>1
<1>7. VotesRemembered'
  BY <1>2, <1>4, <1>5, <1>6 DEF VotesRemembered
<1>8. OneVotePerTerm'
  BY <1>3, <1>4 DEF OneVotePerTerm
<1> QED BY <1>7, <1>8

\* A leader that becomes follower in its term forgets its vote, and was elected.
LEMMA LeaderFollowerVotes ==
    ASSUME VotingInv, NEW i \in Node, state[i] = Leader, BecomeFollower(i, currentTerm[i]),
           UNCHANGED history
    PROVE  VotesRemembered' /\ OneVotePerTerm'
<1> USE DEF VotingInv, TermInv, BecomeFollower, history
<1>1. /\ votedFor'[i] = NoNode /\ \A j \in Node \ {i} : votedFor'[j] = votedFor[j]
      /\ currentTerm' = currentTerm /\ <<currentTerm[i], i>> \in elected
  BY DEF TypeOK, LeadersElected
<1>2. \A g \in granted : g[2] \in Node
  BY DEF TypeOK
<1>3. VotesRemembered'
  BY <1>1, <1>2 DEF VotesRemembered
<1>4. OneVotePerTerm'
  BY DEF OneVotePerTerm
<1> QED BY <1>3, <1>4

\* Votes under every step of Raft.
LEMMA NextVotes ==
    ASSUME VotingInv, [Next]_vars
    PROVE  VotesRemembered' /\ OneVotePerTerm'
<1> USE DEF VotingInv
<1>1. CASE granted' = granted /\ elected \subseteq elected' /\ currentTerm' = currentTerm
           /\ votedFor' = votedFor
  BY <1>1, VotesKept
<1>2. ASSUME NEW i \in Node, NEW term \in Nat, term > currentTerm[i],
             BecomeFollower(i, term), granted' = granted, elected' = elected
      PROVE  VotesRemembered' /\ OneVotePerTerm'
  BY <1>2, HigherTerm, VotesKept
<1>3. CASE \E i \in Node : StartElection(i)
  BY <1>3, StartElectionVotes
<1>4. ASSUME NEW m \in rpcs, HandleRequestVote(m)
      PROVE  VotesRemembered' /\ OneVotePerTerm'
  <2>1. CASE RefuseStaleVote(m) \/ RefuseWhileLeaderAlive(m)
    BY <1>1, <2>1 DEF RefuseStaleVote, RefuseWhileLeaderAlive, persistent, history
  <2> QED BY <1>4, <2>1, DecideVoteVotes DEF HandleRequestVote
<1>5. ASSUME NEW m \in rpcs, HandleRequestVoteReply(m)
      PROVE  VotesRemembered' /\ OneVotePerTerm'
  <2>1. m \in VoteReplyType /\ m.dst \in Node /\ m.term \in Nat /\ granted' = granted
    BY <1>5, MessageKinds DEF HandleRequestVoteReply, TermInv, VoteReplyType
  <2>2. CASE BecomeFollower(m.dst, m.term) /\ m.term > m.electionTerm
             /\ currentTerm[m.dst] = m.electionTerm /\ elected' = elected
    BY <1>2, <2>1, <2>2
  <2>3. CASE UNCHANGED <<currentTerm, votedFor>> /\ elected \subseteq elected'
    BY <1>1, <2>1, <2>3
  <2> QED BY <1>5, <2>2, <2>3 DEF HandleRequestVoteReply, persistent, BecomeLeader
<1>6. ASSUME NEW m \in rpcs, HandleAppendEntries(m)
      PROVE  VotesRemembered' /\ OneVotePerTerm'
  <2>1. /\ m.dst \in Node /\ m.term \in Nat /\ currentTerm[m.dst] \in Nat
        /\ granted' = granted /\ elected' = elected
    BY <1>6, MessageKinds DEF HandleAppendEntries, history, TermInv, TypeOK, AppendRequestType
  <2>2. CASE m.term > currentTerm[m.dst] /\ AcceptLeader(m)
    BY <1>2, <2>1, <2>2 DEF AcceptLeader
  <2>3. CASE ~(m.term > currentTerm[m.dst]) /\ AcceptLeader(m)
    BY <1>1, <2>1, <2>3 DEF AcceptLeader
  <2>4. CASE RefuseStaleLeader(m)
    BY <1>1, <2>1, <2>4 DEF RefuseStaleLeader, persistent
  <2> QED BY <1>6, <2>2, <2>3, <2>4 DEF HandleAppendEntries
<1>7. ASSUME NEW m \in rpcs, HandleAppendEntriesReply(m)
      PROVE  VotesRemembered' /\ OneVotePerTerm'
  <2>1. /\ m.dst \in Node /\ m.term \in Nat /\ granted' = granted /\ elected' = elected
    BY <1>7, MessageKinds DEF HandleAppendEntriesReply, history, TermInv, AppendReplyType
  <2>2. CASE m.term > currentTerm[m.dst] /\ BecomeFollower(m.dst, m.term)
    BY <1>2, <2>1, <2>2
  <2>3. CASE UNCHANGED <<currentTerm, votedFor>>
    BY <1>1, <2>1, <2>3
  <2> QED BY <1>7, <2>2, <2>3 DEF HandleAppendEntriesReply
<1>8. ASSUME NEW m \in rpcs,
             RequestVoteFails(m) \/ AppendEntriesFails(m) \/ AppendEntriesTimeout(m)
      PROVE  VotesRemembered' /\ OneVotePerTerm'
  BY <1>1, <1>8 DEF RequestVoteFails, AppendEntriesFails, AppendEntriesTimeout, persistent,
                    history
<1>9. CASE \E i, j \in Node : SendAppendEntries(i, j)
  BY <1>1, <1>9 DEF SendAppendEntries, persistent, history
<1>10. CASE \E i \in Node, v \in Value : Submit(i, v)
  BY <1>1, <1>10 DEF Submit, history
<1>11. CASE \E i \in Node : StepDown(i)
  BY <1>11, LeaderFollowerVotes DEF StepDown
<1>12. CASE UNCHANGED vars
  BY <1>1, <1>12 DEF vars
<1> QED BY <1>3, <1>4, <1>5, <1>6, <1>7, <1>8, <1>9, <1>10, <1>11, <1>12 DEF Next

-----------------------------------------------------------------------------
(* Elections by the founding voters: ElectionInv.                           *)

\* What the two layers below say is part of the invariant.
LEMMA ElectionInvVotes == ElectionInv => VotingInv
<1> SUFFICES ASSUME ElectionInv PROVE VotingInv
  OBVIOUS
<1>1. ASSUME NEW e, StaticEntry(e), e.type # EntryNormal PROVE e.arg \subseteq Node
  BY <1>1, BootstrapFacts DEF StaticEntry
<1>2. EntriesAboutNodes
  BY <1>1 DEF ElectionInv, StaticConfig, EntriesAboutNodes, AboutNodes
<1>3. VotesBehind /\ ElectionsBehind
  BY DEF ElectionInv, VotesReached, VotesBehind, ElectedByQuorum, ElectionsBehind
<1> QED BY <1>2, <1>3 DEF ElectionInv, VotingInv, TermInv

LEMMA InitElectionInv == Init => ElectionInv
<1> SUFFICES ASSUME Init PROVE ElectionInv
  OBVIOUS
<1>1. TermInv
  BY InitTermInv
<1>2. StaticConfig
  BY EmptySeq DEF Init, StaticConfig
<1>3. VotesReached /\ VotesRemembered /\ BallotsSound /\ ElectedByQuorum /\ OneVotePerTerm
      /\ ElectionSafety
  BY DEF Init, VotesReached, VotesRemembered, BallotsSound, ElectedByQuorum, OneVotePerTerm,
         ElectionSafety, Follower, Candidate
<1> QED BY <1>1, <1>2, <1>3 DEF TermInv, ElectionInv

\* Every entry is a command or the founding cluster: entries are copied from log
\* to message to log, and new ones are one or the other.
LEMMA NextStaticConfig ==
    ASSUME ElectionInv, [Next]_vars
    PROVE  StaticConfig'
<1> USE DEF ElectionInv
<1>1. TermInv
  BY ElectionInvVotes DEF VotingInv
<1>2. CASE log' = log /\ \A m \in rpcs' : m.kind = "AppendEntries" => m \in rpcs
  BY <1>2 DEF StaticConfig
<1>3. CASE \E i \in Node : StartElection(i)
  <2>1. \A m \in rpcs' : m \in rpcs \/ m.kind = "RequestVote"
    BY <1>3 DEF StartElection, VoteRequest
  <2> QED BY <1>2, <1>3, <2>1 DEF StartElection
<1>4. ASSUME NEW m \in rpcs, HandleRequestVote(m) PROVE StaticConfig'
  <2>1. \A n \in rpcs' : n \in rpcs \/ n.kind = "RequestVoteReply"
    BY <1>4 DEF HandleRequestVote, RefuseStaleVote, RefuseWhileLeaderAlive, DecideVote, Answer,
                VoteReply
  <2>2. log' = log
    BY <1>4 DEF HandleRequestVote, RefuseStaleVote, RefuseWhileLeaderAlive, DecideVote,
                persistent
  <2> QED BY <1>2, <2>1, <2>2
<1>5. ASSUME NEW m \in rpcs, HandleRequestVoteReply(m) PROVE StaticConfig'
  <2>1. rpcs' = rpcs \ {m} /\ m.dst \in Node
    BY <1>5, MessageKinds DEF HandleRequestVoteReply
  <2>2. CASE log' = log
    BY <1>2, <2>1, <2>2
  <2>3. CASE BecomeLeader(m.dst)
    <3>1. \A j \in Node : \A k \in DOMAIN log'[j] :
             (k \in DOMAIN log[j] /\ log'[j][k] = log[j][k]) \/ StaticEntry(log'[j][k])
      BY <1>1, <2>1, <2>3, OpenedLog
    <3> QED BY <2>1, <3>1 DEF StaticConfig
  <2> QED BY <1>5, <2>2, <2>3 DEF HandleRequestVoteReply, persistent
<1>6. CASE \E i, j \in Node : SendAppendEntries(i, j)
  <2>1. PICK i \in Node, j \in Node : SendAppendEntries(i, j)
    BY <1>6
  <2> DEFINE next == nextIndex[i][j]
             sent == SubSeq(log[i], next, Len(log[i]))
  <2>2. next \in Nat /\ next >= 1 /\ next <= Len(log[i]) + 1
    BY <2>1, SentFrom
  <2>3. \A k \in DOMAIN sent : k + next - 1 \in DOMAIN log[i] /\ sent[k] = log[i][k + next - 1]
    <3>1. log[i] \in Seq(EntryRecord)
      BY LogFacts
    <3> HIDE DEF next
    <3> QED BY <2>2, <3>1, TailEntries
  <2>4. \A m \in rpcs' : m \in rpcs \/ m.entries = sent
    <3>1. PICK t, k, u, n : rpcs' = rpcs \cup {AppendRequest(i, j, t, k, u, sent, n)}
      BY <2>1 DEF SendAppendEntries
    <3> HIDE DEF sent
    <3>2. AppendRequest(i, j, t, k, u, sent, n).entries = sent
      BY DEF AppendRequest
    <3> QED BY <3>1, <3>2
  <2>5. log' = log
    BY <2>1 DEF SendAppendEntries, persistent
  <2> HIDE DEF next, sent
  <2> QED BY <2>3, <2>4, <2>5 DEF StaticConfig
<1>7. ASSUME NEW m \in rpcs, HandleAppendEntries(m) PROVE StaticConfig'
  <2>1. m.kind = "AppendEntries" /\ m.dst \in Node
    BY <1>7, MessageKinds DEF HandleAppendEntries
  <2>2. CASE RefuseStaleLeader(m)
    <3>1. \A n \in rpcs' : n \in rpcs \/ n.kind = "AppendEntriesReply"
      BY <2>2 DEF RefuseStaleLeader, Answer, AppendReply
    <3> QED BY <1>2, <2>2, <3>1 DEF RefuseStaleLeader, persistent
  <2>3. CASE AcceptLeader(m)
    <3>1. PICK r \in AppendReplyType : Answer(m, r)
      BY <1>1, <2>1, <2>3, AcceptedLog
    <3>2. \A n \in rpcs' : n \in rpcs \/ n.kind = "AppendEntriesReply"
      BY <3>1 DEF Answer, AppendReplyType
    <3>3. /\ \A j \in Node \ {m.dst} : log'[j] = log[j]
          /\ \A k \in DOMAIN log'[m.dst] :
                \/ k \in DOMAIN log[m.dst] /\ log'[m.dst][k] = log[m.dst][k]
                \/ \E n \in DOMAIN m.entries : log'[m.dst][k] = m.entries[n]
      BY <1>1, <2>1, <2>3, AcceptedLog
    <3>4. ASSUME NEW j \in Node, NEW k \in DOMAIN log'[j] PROVE StaticEntry(log'[j][k])
      BY <2>1, <3>3 DEF StaticConfig
    <3> QED BY <3>2, <3>4 DEF StaticConfig
  <2> QED BY <1>7, <2>2, <2>3 DEF HandleAppendEntries
<1>8. ASSUME NEW m \in rpcs,
             \/ HandleAppendEntriesReply(m) \/ AppendEntriesFails(m) \/ RequestVoteFails(m)
      PROVE  StaticConfig'
  BY <1>2, <1>8 DEF HandleAppendEntriesReply, AppendEntriesFails, RequestVoteFails, persistent
<1>9. ASSUME NEW m \in rpcs, AppendEntriesTimeout(m) PROVE StaticConfig'
  <2>1. m \in AppendRequestType
    BY <1>9, MessageKinds DEF AppendEntriesTimeout
  <2>2. \A n \in rpcs' : n \in rpcs \/ n.entries = m.entries
    BY <1>9, <2>1 DEF AppendEntriesTimeout, AppendRequestType
  <2> QED BY <1>9, <2>2 DEF AppendEntriesTimeout, StaticConfig, persistent
<1>10. ASSUME NEW i \in Node, NEW v \in Value, Submit(i, v) PROVE StaticConfig'
  <2> DEFINE e == Entry(EntryNormal, currentTerm[i], v)
  <2>1. StaticEntry(e)
    BY DEF Entry, StaticEntry, EntryNormal, EntryAddVoter
  <2>2. /\ log'[i] = Append(log[i], e) /\ \A j \in Node \ {i} : log'[j] = log[j]
        /\ rpcs' = rpcs
    BY <1>10 DEF Submit, TypeOK
  <2> HIDE DEF e
  <2>3. ASSUME NEW k \in DOMAIN log'[i]
        PROVE  (k \in DOMAIN log[i] /\ log'[i][k] = log[i][k]) \/ log'[i][k] = e
    BY <2>2, LogFacts
  <2> QED BY <2>1, <2>2, <2>3 DEF StaticConfig
<1>11. CASE \E i \in Node : StepDown(i)
  BY <1>2, <1>11 DEF StepDown
<1>12. CASE UNCHANGED vars
  BY <1>2, <1>12 DEF vars
<1> QED BY <1>3, <1>4, <1>5, <1>6, <1>7, <1>8, <1>9, <1>10, <1>11, <1>12 DEF Next

\* The new votes of a step come from founding members, and none is taken back.
LEMMA NextVotesReached ==
    ASSUME ElectionInv, [Next]_vars, TermInv'
    PROVE  VotesReached' /\ granted \subseteq granted'
<1> USE DEF ElectionInv
<1>1. ASSUME NEW g \in granted' \ granted PROVE g[2] \in Bootstrap
  <2>1. CASE \E i \in Node : StartElection(i)
    BY <2>1, FoundingVoters DEF StartElection
  <2>2. CASE \E m \in rpcs : m.kind = "RequestVote" /\ DecideVote(m)
    <3>1. PICK m \in rpcs : DecideVote(m)
      BY <2>2
    <3>2. MayVote(m.dst, m) /\ g = <<m.term, m.dst, m.src>>
      BY <3>1, <1>1 DEF DecideVote
    <3>3. m.dst \in Node /\ m.dst \in VotersOf(m.dst) /\ g[2] = m.dst
      BY <3>2, MessageKinds DEF MayVote
    <3> QED BY <3>3, FoundingVoters
  <2>3. CASE granted' = granted
    BY <2>3, <1>1
  <2>4. CASE \E m \in rpcs : HandleRequestVote(m)
    BY <2>2, <2>3, <2>4 DEF HandleRequestVote, RefuseStaleVote, RefuseWhileLeaderAlive, history
  <2>5. ASSUME NEW m \in rpcs, \/ HandleRequestVoteReply(m) \/ RequestVoteFails(m)
                               \/ HandleAppendEntries(m) \/ HandleAppendEntriesReply(m)
                               \/ AppendEntriesFails(m) \/ AppendEntriesTimeout(m)
        PROVE  granted' = granted
    BY <2>5 DEF HandleRequestVoteReply, RequestVoteFails, HandleAppendEntries,
                HandleAppendEntriesReply, AppendEntriesFails, AppendEntriesTimeout, history
  <2>6. \/ \E i, j \in Node : SendAppendEntries(i, j)
        \/ \E i \in Node, v \in Value : Submit(i, v)
        \/ \E i \in Node : StepDown(i)
        \/ UNCHANGED vars
        => granted' = granted
    BY DEF SendAppendEntries, Submit, StepDown, history, vars
  <2> QED BY <2>1, <2>3, <2>4, <2>5, <2>6 DEF Next
<1>2. granted \subseteq granted'
  BY DEF Next, StartElection, HandleRequestVote, RefuseStaleVote,
         RefuseWhileLeaderAlive, DecideVote, HandleRequestVoteReply, RequestVoteFails,
         SendAppendEntries, HandleAppendEntries, HandleAppendEntriesReply,
         AppendEntriesFails, AppendEntriesTimeout, Submit, StepDown, history, vars
<1>3. \A g \in granted' : g[2] \in Bootstrap
  BY <1>1 DEF VotesReached
<1>4. \A g \in granted' : g[1] <= currentTerm'[g[2]]
  BY DEF TermInv, VotesBehind
<1> QED BY <1>2, <1>3, <1>4 DEF VotesReached

\* A candidate starts with its own vote, and adds the votes that replies grant.
LEMMA NextBallots ==
    ASSUME ElectionInv, [Next]_vars, granted \subseteq granted'
    PROVE  BallotsSound'
<1> USE DEF ElectionInv, Follower, Candidate, Leader
<1>1. TermInv
  BY ElectionInvVotes DEF VotingInv
<1>2. CASE \A j \in Node : state'[j] = Candidate =>
              /\ state[j] = Candidate /\ currentTerm'[j] = currentTerm[j]
              /\ votesReceived'[j] = votesReceived[j] /\ quorumNeeded'[j] = quorumNeeded[j]
  BY <1>2 DEF BallotsSound
<1>3. CASE UNCHANGED <<currentTerm, state, votesReceived, quorumNeeded>>
  BY <1>2, <1>3
<1>4. ASSUME NEW i \in Node, NEW term \in Nat, term > currentTerm[i],
             BecomeFollower(i, term), granted' = granted, elected' = elected
      PROVE  BallotsSound'
  BY <1>1, <1>2, <1>4, HigherTerm
<1>5. ASSUME NEW i \in Node, StartElection(i) PROVE BallotsSound'
  <2>1. /\ currentTerm'[i] = currentTerm[i] + 1
        /\ quorumNeeded'[i] = QuorumVotes(Bootstrap) /\ votesReceived'[i] = {i}
        /\ <<currentTerm[i] + 1, i, i>> \in granted'
    BY <1>5, FoundingVoters DEF TypeOK, StartElection
  <2>2. ASSUME NEW j \in Node, j # i
        PROVE  /\ state'[j] = state[j] /\ quorumNeeded'[j] = quorumNeeded[j]
               /\ votesReceived'[j] = votesReceived[j] /\ currentTerm'[j] = currentTerm[j]
    BY <1>5, <2>2 DEF TypeOK, StartElection
  <2> QED BY <2>1, <2>2 DEF BallotsSound
<1>6. ASSUME NEW m \in rpcs, HandleRequestVote(m) PROVE BallotsSound'
  <2>1. CASE RefuseStaleVote(m) \/ RefuseWhileLeaderAlive(m)
    BY <1>3, <2>1 DEF RefuseStaleVote, RefuseWhileLeaderAlive, persistent, ballotVars
  <2>2. CASE DecideVote(m)
    BY <1>1, <1>2, <1>6, <2>2, VoteDecided DEF HandleRequestVote
  <2> QED BY <1>6, <2>1, <2>2 DEF HandleRequestVote
<1>7. ASSUME NEW m \in rpcs, HandleRequestVoteReply(m) PROVE BallotsSound'
  <2> DEFINE i == m.dst
             votes == votesReceived[i] \cup {m.src}
  <2>1. /\ m \in VoteReplyType /\ m.kind = "RequestVoteReply" /\ i \in Node /\ m.term \in Nat
        /\ granted' = granted
    BY <1>7, MessageKinds DEF HandleRequestVoteReply, VoteReplyType
  <2>2. CASE BecomeFollower(i, m.term) /\ m.term > m.electionTerm
             /\ currentTerm[i] = m.electionTerm /\ elected' = elected
    BY <1>4, <2>1, <2>2
  <2>3. CASE UNCHANGED <<currentTerm, state, ballotVars>>
    BY <1>3, <2>3 DEF ballotVars
  <2>4. CASE BecomeLeader(i) /\ UNCHANGED currentTerm
    <3>1. state'[i] = Leader /\ \A j \in Node \ {i} : state'[j] = state[j]
          /\ votesReceived'[j] = votesReceived[j] /\ quorumNeeded'[j] = quorumNeeded[j]
      BY <2>1, <2>4 DEF BecomeLeader, TypeOK
    <3> QED BY <1>2, <2>4, <3>1
  <2>5. CASE /\ state[i] = Candidate /\ currentTerm[i] = m.electionTerm /\ m.voteGranted
             /\ votesReceived' = [votesReceived EXCEPT ![i] = votes]
             /\ UNCHANGED <<currentTerm, state, quorumNeeded>>
    <3>1. <<currentTerm[i], m.src, i>> \in granted
      BY <2>1, <2>5 DEF RepliesGranted
    <3>2. \A j \in Node : votesReceived'[j] = IF j = i THEN votes ELSE votesReceived[j]
      BY <2>1, <2>5 DEF TypeOK
    <3> QED BY <2>1, <2>5, <3>1, <3>2 DEF BallotsSound
  <2> QED BY <1>7, <2>2, <2>3, <2>4, <2>5 DEF HandleRequestVoteReply, persistent
<1>8. ASSUME NEW m \in rpcs, HandleAppendEntries(m) PROVE BallotsSound'
  <2>1. m.dst \in Node /\ m.term \in Nat /\ granted' = granted /\ elected' = elected
    BY <1>8, MessageKinds DEF HandleAppendEntries, history, AppendRequestType
  <2>2. CASE m.term > currentTerm[m.dst] /\ AcceptLeader(m)
    BY <1>4, <2>1, <2>2 DEF AcceptLeader
  <2>3. CASE ~(m.term > currentTerm[m.dst]) /\ AcceptLeader(m)
    BY <1>3, <2>3 DEF AcceptLeader, ballotVars
  <2>4. CASE RefuseStaleLeader(m)
    BY <1>3, <2>4 DEF RefuseStaleLeader, persistent, ballotVars
  <2> QED BY <1>8, <2>2, <2>3, <2>4 DEF HandleAppendEntries
<1>9. ASSUME NEW m \in rpcs, HandleAppendEntriesReply(m) PROVE BallotsSound'
  <2>1. m.dst \in Node /\ m.term \in Nat /\ granted' = granted /\ elected' = elected
    BY <1>9, MessageKinds DEF HandleAppendEntriesReply, history, AppendReplyType
  <2>2. CASE m.term > currentTerm[m.dst] /\ BecomeFollower(m.dst, m.term)
    BY <1>4, <2>1, <2>2
  <2>3. CASE UNCHANGED <<currentTerm, state, ballotVars>>
    BY <1>3, <2>3 DEF ballotVars
  <2> QED BY <1>9, <2>2, <2>3 DEF HandleAppendEntriesReply
<1>10. ASSUME NEW m \in rpcs,
              RequestVoteFails(m) \/ AppendEntriesFails(m) \/ AppendEntriesTimeout(m)
       PROVE  BallotsSound'
  BY <1>3, <1>10 DEF RequestVoteFails, AppendEntriesFails, AppendEntriesTimeout, persistent,
                     ballotVars
<1>11. CASE \E i, j \in Node : SendAppendEntries(i, j)
  BY <1>3, <1>11 DEF SendAppendEntries, persistent, ballotVars
<1>12. CASE \E i \in Node, v \in Value : Submit(i, v)
  BY <1>3, <1>12 DEF Submit, ballotVars
<1>13. ASSUME NEW i \in Node, StepDown(i) PROVE BallotsSound'
  <2>1. \A j \in Node : state'[j] = Candidate =>
              /\ state[j] = Candidate /\ currentTerm'[j] = currentTerm[j]
              /\ votesReceived'[j] = votesReceived[j] /\ quorumNeeded'[j] = quorumNeeded[j]
    BY <1>13 DEF StepDown, BecomeFollower, TypeOK
  <2> QED BY <1>2, <2>1
<1>14. CASE UNCHANGED vars
  BY <1>3, <1>14 DEF vars
<1> QED BY <1>5, <1>6, <1>7, <1>8, <1>9, <1>10, <1>11, <1>12, <1>13, <1>14 DEF Next

\* Who is elected has counted the votes of a majority of the founding members.
LEMMA NextElected ==
    ASSUME ElectionInv, [Next]_vars, granted \subseteq granted', TermInv'
    PROVE  ElectedByQuorum'
<1> USE DEF ElectionInv
<1> DEFINE Quorum(e, votes) == \E Q \in SUBSET Bootstrap :
              /\ Cardinality(Q) = QuorumVotes(Bootstrap)
              /\ \A j \in Q : <<e[1], j, e[2]>> \in votes
<1>1. \A e \in elected' : e[1] <= currentTerm'[e[2]]
  BY DEF TermInv, ElectionsBehind
<1>2. \A e \in elected : Quorum(e, granted')
  BY DEF ElectedByQuorum
<1>3. CASE elected' = elected
  BY <1>1, <1>2, <1>3 DEF ElectedByQuorum
<1>4. ASSUME NEW m \in rpcs, m.kind = "RequestVoteReply", m.voteGranted,
             state[m.dst] = Candidate, currentTerm[m.dst] = m.electionTerm,
             Cardinality(votesReceived[m.dst] \cup {m.src}) = quorumNeeded[m.dst],
             elected' = elected \cup {<<currentTerm[m.dst], m.dst>>}
      PROVE  ElectedByQuorum'
  <2> DEFINE i == m.dst
             Q == votesReceived[i] \cup {m.src}
  <2>1. m \in VoteReplyType /\ i \in Node /\ m.src \in Node
    BY <1>4, MessageKinds
  <2>2. \A j \in Q : <<currentTerm[i], j, i>> \in granted
    BY <1>4, <2>1 DEF BallotsSound, RepliesGranted
  <2>3. Q \in SUBSET Bootstrap /\ Cardinality(Q) = QuorumVotes(Bootstrap)
    <3>1. \A j \in Q : j \in Bootstrap
      BY <2>2 DEF VotesReached
    <3> QED BY <1>4, <2>1, <3>1 DEF BallotsSound
  <2> HIDE DEF Q
  <2>4. Quorum(<<currentTerm[i], i>>, granted')
    BY <2>2, <2>3
  <2> HIDE DEF Quorum
  <2>5. \A e \in elected' : Quorum(e, granted')
    BY <1>2, <1>4, <2>4
  <2> QED BY <1>1, <2>5 DEF ElectedByQuorum, Quorum
<1> HIDE DEF Quorum
<1>5. ASSUME NEW m \in rpcs, HandleRequestVoteReply(m) PROVE ElectedByQuorum'
  BY <1>3, <1>4, <1>5 DEF HandleRequestVoteReply, BecomeLeader
<1>6. CASE elected' = elected \/ \E m \in rpcs : HandleRequestVoteReply(m)
  BY <1>3, <1>5, <1>6
<1> QED BY <1>6 DEF Next, StartElection, HandleRequestVote, RefuseStaleVote,
           RefuseWhileLeaderAlive, DecideVote, RequestVoteFails, SendAppendEntries,
           HandleAppendEntries, HandleAppendEntriesReply, AppendEntriesFails,
           AppendEntriesTimeout, Submit, StepDown, history, vars

\* Two majorities have a voter in common, who has voted for one of the two.
LEMMA QuorumsElectOne ==
    ElectedByQuorum /\ OneVotePerTerm => ElectionSafety
<1> SUFFICES ASSUME ElectedByQuorum, OneVotePerTerm,
                    NEW e \in elected, NEW f \in elected, e[1] = f[1]
             PROVE  e[2] = f[2]
  BY DEF ElectionSafety
<1>1. PICK P \in SUBSET Bootstrap : /\ Cardinality(P) = QuorumVotes(Bootstrap)
                                    /\ \A j \in P : <<e[1], j, e[2]>> \in granted
  BY DEF ElectedByQuorum
<1>2. PICK R \in SUBSET Bootstrap : /\ Cardinality(R) = QuorumVotes(Bootstrap)
                                    /\ \A j \in R : <<f[1], j, f[2]>> \in granted
  BY DEF ElectedByQuorum
<1>3. PICK j \in Bootstrap : j \in P /\ j \in R
  BY <1>1, <1>2, QuorumsIntersect, BootstrapFacts
<1>4. <<e[1], j, e[2]>> \in granted /\ <<e[1], j, f[2]>> \in granted
  BY <1>1, <1>2, <1>3
<1> QED BY <1>4 DEF OneVotePerTerm

\* Every step preserves the invariant.
LEMMA NextElectionInv == ElectionInv /\ [Next]_vars => ElectionInv'
<1> SUFFICES ASSUME ElectionInv, [Next]_vars PROVE ElectionInv'
  OBVIOUS
<1>1. VotingInv /\ TermInv
  BY ElectionInvVotes DEF VotingInv
<1>2. TermInv'
  BY <1>1, NextTermInv
<1>3. VotesRemembered' /\ OneVotePerTerm'
  BY <1>1, NextVotes
<1>4. StaticConfig'
  BY NextStaticConfig
<1>5. VotesReached' /\ granted \subseteq granted'
  BY <1>2, NextVotesReached
<1>6. BallotsSound'
  BY <1>5, NextBallots
<1>7. ElectedByQuorum'
  BY <1>2, <1>5, NextElected
<1>8. ElectionSafety'
  BY <1>3, <1>7, QuorumsElectOne, PTL
<1> QED BY <1>2, <1>3, <1>4, <1>5, <1>6, <1>7, <1>8 DEF TermInv, ElectionInv

-----------------------------------------------------------------------------
(* The invariant and the properties it implies.                             *)

\* The inductive invariant holds in every reachable state (election.go, state.go,
\* service.go, replication.go: every handler that touches terms, votes or logs).
THEOREM ElectionInvariant == Spec => []ElectionInv
BY InitElectionInv, NextElectionInv, PTL DEF Spec

\* Every variable keeps its type: in particular no handler brings nextIndex of a
\* peer below 1, where sendAppendEntries would index rf.log at -1.
THEOREM TypeCorrect == Spec => []TypeOK
<1>1. ElectionInv => TypeOK
  BY DEF ElectionInv
<1> QED BY <1>1, ElectionInvariant, PTL

\* No node ever votes for two candidates of a term, although becomeFollower
\* forgets the vote of a leader that steps down in its term.
THEOREM OneVotePerTermHolds == Spec => []OneVotePerTerm
<1>1. ElectionInv => OneVotePerTerm
  BY DEF ElectionInv
<1> QED BY <1>1, ElectionInvariant, PTL

\* No two nodes ever become leader in one term.
THEOREM ElectionSafetyHolds == Spec => []ElectionSafety
<1>1. ElectionInv => ElectionSafety
  BY DEF ElectionInv
<1> QED BY <1>1, ElectionInvariant, PTL
=============================================================================
