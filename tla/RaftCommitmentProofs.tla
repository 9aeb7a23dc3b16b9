------------------------ MODULE RaftCommitmentProofs ------------------------
(***************************************************************************)
(* CommitInv is an invariant of Spec, for every set of nodes, every bound  *)
(* and every founding cluster of at most four voters; CreditInv is one of  *)
(* CreditSpec, for clusters of any size.  With either, nodes apply the     *)
(* same entries, the leader of the highest term has them all, no step      *)
(* takes back what is committed, and Raft implements ReplicatedLog.        *)
(***************************************************************************)
EXTENDS RaftCommitment, RaftCommitted, RaftLogMatchingProofs

-----------------------------------------------------------------------------
(* About logs and links.                                                    *)

\* The links of a log, and of entries sent, among those of a set.
Within(l, links) == LogLinks(l) \subseteq links
SentWithin(p, u, es, links) == EntryLinks(p, u, es) \subseteq links

\* LinksUnique, of any set of links.
Unique(links) == \A a, b \in links : a[1] = b[1] /\ a[3].term = b[3].term => a = b

\* The links of a log, one for each of its entries.
LEMMA LinkOf ==
    ASSUME NEW l, NEW k \in DOMAIN l, NEW links, Within(l, links)
    PROVE  <<k, TermAt(l, k - 1), l[k]>> \in links
BY DEF Within, LogLinks

\* A log that has come past a position all links go through has that position.
LEMMA LogGoesThrough ==
    ASSUME NEW S, NEW l \in Seq(S), NEW links, Within(l, links),
           NEW n \in Nat, n > 0, NEW t \in Nat, OnlyThrough(links, n, t),
           NEW k \in DOMAIN l, Reaches(k, l[k].term, n, t)
    PROVE  n \in DOMAIN l /\ n <= k /\ l[n].term = t
<1>1. DOMAIN l = 1..Len(l) /\ Len(l) \in Nat
  BY LenProperties
<1> DEFINE past == {x \in DOMAIN l : Reaches(x, l[x].term, n, t)}
<1>2. PICK g \in past : \A x \in past : g <= x
  <2>1. past \in SUBSET Nat /\ past # {}
    BY <1>1
  <2> HIDE DEF past
  <2> QED BY <2>1, LeastExists
<1>3. g \in DOMAIN l /\ Reaches(g, l[g].term, n, t) /\ g <= k
  BY <1>2
<1>4. (g = n /\ l[g].term = t) \/ Reaches(g - 1, TermAt(l, g - 1), n, t)
  <2> DEFINE a == <<g, TermAt(l, g - 1), l[g]>>
  <2>1. a \in links /\ a[1] = g /\ a[2] = TermAt(l, g - 1) /\ a[3] = l[g]
    BY <1>3, LinkOf
  <2> HIDE DEF a
  <2> QED BY <1>3, <2>1 DEF OnlyThrough
<1>5. ~Reaches(g - 1, TermAt(l, g - 1), n, t)
  <2>1. CASE g = 1
    BY <2>1 DEF TermAt, Reaches
  <2>2. CASE g # 1
    <3>1. g - 1 \in DOMAIN l /\ ~(g <= g - 1) /\ TermAt(l, g - 1) = l[g - 1].term
      BY <1>1, <1>3, <2>2 DEF TermAt
    <3>2. g - 1 \notin past
      BY <1>2, <3>1
    <3> QED BY <3>1, <3>2
  <2> QED BY <2>1, <2>2
<1> QED BY <1>3, <1>4, <1>5

\* The same for the entries of a request: they bring the position, or come after it.
LEMMA EntriesGoThrough ==
    ASSUME NEW S, NEW es \in Seq(S), NEW p \in Nat, NEW u, NEW links,
           SentWithin(p, u, es, links),
           NEW n \in Nat, NEW t \in Nat, OnlyThrough(links, n, t),
           NEW k \in DOMAIN es, Reaches(p + k, es[k].term, n, t)
    PROVE  \/ n - p \in DOMAIN es /\ es[n - p].term = t
           \/ Reaches(p, u, n, t)
<1>1. DOMAIN es = 1..Len(es) /\ Len(es) \in Nat
  BY LenProperties
<1> DEFINE past == {x \in DOMAIN es : Reaches(p + x, es[x].term, n, t)}
<1>2. PICK g \in past : \A x \in past : g <= x
  <2>1. past \in SUBSET Nat /\ past # {}
    BY <1>1
  <2> HIDE DEF past
  <2> QED BY <2>1, LeastExists
<1>3. g \in DOMAIN es /\ Reaches(p + g, es[g].term, n, t)
  BY <1>2
<1> DEFINE before == IF g = 1 THEN u ELSE es[g - 1].term
<1>4. (p + g = n /\ es[g].term = t) \/ Reaches(p + g - 1, before, n, t)
  <2> DEFINE a == <<p + g, before, es[g]>>
  <2>1. a \in EntryLinks(p, u, es) /\ a[1] = p + g /\ a[2] = before /\ a[3] = es[g]
    BY <1>3 DEF EntryLinks
  <2> HIDE DEF a, before
  <2>2. a \in links /\ Reaches(a[1], a[3].term, n, t)
    BY <1>3, <2>1 DEF SentWithin
  <2>3. (a[1] = n /\ a[3].term = t) \/ Reaches(a[1] - 1, a[2], n, t)
    BY <2>2 DEF OnlyThrough
  <2> QED BY <2>1, <2>3
<1>5. CASE p + g = n /\ es[g].term = t
  <2>1. n - p = g
    BY <1>1, <1>3, <1>5
  <2> QED BY <1>3, <1>5, <2>1
<1>6. CASE Reaches(p + g - 1, before, n, t)
  <2>1. g = 1
    <3>1. SUFFICES ASSUME g # 1 PROVE FALSE
      OBVIOUS
    <3>2. g - 1 \in DOMAIN es /\ ~(g <= g - 1) /\ p + g - 1 = p + (g - 1)
          /\ before = es[g - 1].term
      BY <1>1, <1>3, <3>1
    <3>3. g - 1 \in past
      BY <1>6, <3>2
    <3> QED BY <1>2, <3>2, <3>3
  <2>2. p + g - 1 = p /\ before = u
    BY <2>1
  <2> QED BY <1>6, <2>2
<1> QED BY <1>4, <1>5, <1>6

\* Where the links that go upwards do, terms do along a log.
LEMMA LogAscends ==
    ASSUME NEW S, NEW l \in Seq(S), NEW links, Within(l, links),
           Ascending(links),
           \A k \in DOMAIN l : l[k].term \in Nat,
           NEW n \in DOMAIN l, NEW k \in DOMAIN l, n <= k
    PROVE  l[n].term <= l[k].term
<1>1. DOMAIN l = 1..Len(l) /\ Len(l) \in Nat
  BY LenProperties
<1> DEFINE less == {x \in n..k : l[x].term < l[n].term}
<1>2. less = {}
  <2> SUFFICES ASSUME less # {} PROVE FALSE
    OBVIOUS
  <2>1. less \in SUBSET Nat
    BY <1>1
  <2>2. PICK g \in less : \A x \in less : g <= x
    <3> HIDE DEF less
    <3> QED BY <2>1, LeastExists
  <2>3. g \in n..k /\ l[g].term < l[n].term
    BY <2>2
  <2>4. g # n /\ g - 1 \in n..k /\ ~(g <= g - 1) /\ g - 1 # 0
    BY <1>1, <2>3
  <2>5. ~(l[g - 1].term < l[n].term)
    BY <2>2, <2>4
  <2>6. l[g - 1].term <= l[g].term
    <3> DEFINE a == <<g, TermAt(l, g - 1), l[g]>>
    <3>1. g \in DOMAIN l
      BY <1>1, <2>3
    <3>2. a \in links /\ a[2] = TermAt(l, g - 1) /\ a[3] = l[g]
      BY <3>1, LinkOf
    <3>3. TermAt(l, g - 1) = l[g - 1].term
      BY <2>4 DEF TermAt
    <3> HIDE DEF a
    <3> QED BY <3>2, <3>3 DEF Ascending
  <2>7. g \in DOMAIN l /\ g - 1 \in DOMAIN l
    BY <1>1, <2>3, <2>4
  <2> QED BY <2>3, <2>5, <2>6, <2>7
<1>3. ~(l[k].term < l[n].term)
  <2>1. k \in n..k
    BY <1>1
  <2> QED BY <1>2, <2>1
<1> QED BY <1>3

\* Where a term's links follow one another, a log with an entry of the term has
\* entries of it from every such link up to there.
LEMMA TermRun ==
    ASSUME NEW S, NEW l \in Seq(S), NEW links, Within(l, links),
           Unbroken(links),
           NEW n \in DOMAIN l, NEW a \in links, a[3].term = l[n].term,
           a[1] \in Nat, a[1] > 0, a[1] <= n
    PROVE  a[1] \in DOMAIN l /\ l[a[1]].term = l[n].term
<1>1. DOMAIN l = 1..Len(l) /\ Len(l) \in Nat
  BY LenProperties
<1> DEFINE other == {x \in a[1]..n : l[x].term # l[n].term}
<1>2. other = {}
  <2> SUFFICES ASSUME other # {} PROVE FALSE
    OBVIOUS
  <2>1. other \in SUBSET Nat /\ \A x \in other : x <= n
    BY <1>1
  <2>2. PICK g \in other : \A x \in other : x <= g
    <3> HIDE DEF other
    <3>1. n \in Nat
      BY <1>1
    <3> QED BY <2>1, <3>1, GreatestExists
  <2>3. g \in a[1]..n /\ l[g].term # l[n].term
    BY <2>2
  <2>4. g # n /\ g + 1 \in a[1]..n /\ ~(g + 1 <= g) /\ a[1] < g + 1 /\ g # 0
        /\ g + 1 \in DOMAIN l /\ (g + 1) - 1 = g
    BY <1>1, <2>3
  <2>5. l[g + 1].term = l[n].term
    BY <2>2, <2>4
  <2> DEFINE b == <<g + 1, TermAt(l, (g + 1) - 1), l[g + 1]>>
  <2>6. b \in links /\ b[1] = g + 1 /\ b[2] = TermAt(l, (g + 1) - 1) /\ b[3] = l[g + 1]
    BY <2>4, LinkOf
  <2> HIDE DEF b
  <2>7. b[2] = b[3].term
    BY <2>4, <2>5, <2>6 DEF Unbroken
  <2>8. TermAt(l, (g + 1) - 1) = l[g].term
    BY <2>4 DEF TermAt
  <2> QED BY <2>3, <2>5, <2>6, <2>7, <2>8
<1>3. a[1] \in a[1]..n /\ a[1] \in DOMAIN l
  BY <1>1
<1> QED BY <1>2, <1>3

\* Unique links make two logs with an entry of the same index and term agree up
\* to there: as UniqueLinksMatch, for a log before a step and one after it, too.
LEMMA LinkedLogsAgree ==
    ASSUME NEW S, NEW l1 \in Seq(S), NEW l2 \in Seq(S), NEW links,
           Within(l1, links), Within(l2, links),
           Unique(links),
           NEW k \in DOMAIN l1 \cap DOMAIN l2, l1[k].term = l2[k].term
    PROVE  Agree(l1, l2, k)
<1>1. /\ DOMAIN l1 = 1..Len(l1) /\ Len(l1) \in Nat
      /\ DOMAIN l2 = 1..Len(l2) /\ Len(l2) \in Nat
  BY LenProperties
<1>2. k \in Nat /\ k >= 1 /\ k <= Len(l1) /\ k <= Len(l2)
  BY <1>1
<1>3. ASSUME NEW n \in 1..k, l1[n].term = l2[n].term
      PROVE  l1[n] = l2[n] /\ TermAt(l1, n - 1) = TermAt(l2, n - 1)
  <2> DEFINE a == <<n, TermAt(l1, n - 1), l1[n]>>
             b == <<n, TermAt(l2, n - 1), l2[n]>>
  <2>1. n \in DOMAIN l1 /\ n \in DOMAIN l2
    BY <1>1, <1>2
  <2>2. a \in links /\ b \in links
    BY <2>1, LinkOf
  <2>3. a = b
    BY <1>3, <2>2 DEF Unique
  <2> QED BY <2>3
<1> DEFINE differ == {n \in 1..k : l1[n] # l2[n]}
<1>4. differ = {}
  <2> SUFFICES ASSUME differ # {} PROVE FALSE
    OBVIOUS
  <2>1. differ \in SUBSET Nat /\ \A n \in differ : n <= k
    BY <1>2
  <2>2. PICK g \in differ : \A n \in differ : n <= g
    <3> HIDE DEF differ
    <3> QED BY <2>1, <1>2, GreatestExists
  <2>3. g \in 1..k /\ l1[g] # l2[g]
    BY <2>2
  <2>4. g # k
    BY <1>2, <1>3, <2>3
  <2>5. g + 1 \in 1..k /\ g + 1 \notin differ /\ (g + 1) - 1 = g /\ g # 0
    BY <1>2, <2>2, <2>3, <2>4
  <2>6. l1[g + 1] = l2[g + 1]
    BY <2>5
  <2>7. TermAt(l1, g) = TermAt(l2, g)
    BY <1>3, <2>5, <2>6
  <2>8. l1[g].term = l2[g].term
    BY <2>5, <2>7 DEF TermAt
  <2> QED BY <1>3, <2>3, <2>8
<1> QED BY <1>2, <1>4 DEF Agree

\* What a merged log holds: the log up to prev; an entry of the term the message
\* has there, at each index of the message; everything, if nothing contradicts.
LEMMA MergeKeeps ==
    ASSUME NEW S, NEW l \in Seq(S), NEW es \in Seq(S), NEW p \in 0..Len(l)
    PROVE  /\ \A k \in 1..p : /\ k \in DOMAIN Merge(l, p, es) /\ Merge(l, p, es)[k] = l[k]
           /\ \A k \in DOMAIN es : /\ p + k \in DOMAIN Merge(l, p, es)
                                   /\ Merge(l, p, es)[p + k].term = es[k].term
           /\ ~ConflictUpTo(l, p, es, p + Len(es)) =>
                 \A k \in DOMAIN l : /\ k \in DOMAIN Merge(l, p, es)
                                        /\ Merge(l, p, es)[k] = l[k]
<1> DEFINE last == p + Len(es)
           keep(n) == n <= Len(l) /\ ~ConflictUpTo(l, p, es, n)
           len == IF ConflictUpTo(l, p, es, last) \/ last >= Len(l) THEN last ELSE Len(l)
           M == Merge(l, p, es)
<1>1. /\ DOMAIN l = 1..Len(l) /\ Len(l) \in Nat
      /\ DOMAIN es = 1..Len(es) /\ Len(es) \in Nat /\ p \in Nat /\ p <= Len(l)
  BY LenProperties
<1>2. len \in Nat /\ len >= last
  BY <1>1
<1>3. M = [n \in 1..len |-> IF keep(n) THEN l[n] ELSE es[n - p]]
  BY DEF Merge
<1>4. /\ DOMAIN M = 1..len
      /\ \A n \in 1..len : (keep(n) => M[n] = l[n]) /\ (~keep(n) => M[n] = es[n - p])
  <2> HIDE DEF M, keep, len
  <2> QED BY <1>3
<1>5. ASSUME NEW k \in 1..p PROVE k \in 1..len /\ M[k] = l[k]
  <2>1. k \in 1..len
    BY <1>1, <1>2
  <2>2. keep(k)
    <3>1. k <= Len(l)
      BY <1>1
    <3>2. \A x \in 1..Len(es) : ~(p + x <= k)
      BY <1>1
    <3> QED BY <3>1, <3>2 DEF ConflictUpTo
  <2> QED BY <1>4, <2>1, <2>2
<1>6. ASSUME NEW k \in DOMAIN es PROVE p + k \in 1..len /\ M[p + k].term = es[k].term
  <2>1. p + k \in 1..len /\ (p + k) - p = k /\ p + k <= p + k
    BY <1>1, <1>2
  <2>2. CASE keep(p + k)
    <3>1. l[p + k].term = es[k].term
      BY <1>1, <2>1, <2>2 DEF ConflictUpTo
    <3> QED BY <1>4, <2>1, <2>2, <3>1
  <2>3. CASE ~keep(p + k)
    <3>1. M[p + k] = es[(p + k) - p]
      BY <1>4, <2>1, <2>3
    <3> QED BY <2>1, <3>1
  <2> QED BY <2>2, <2>3
<1>7. ASSUME ~ConflictUpTo(l, p, es, last), NEW k \in DOMAIN l
      PROVE  k \in 1..len /\ M[k] = l[k]
  <2>1. \A n : ~ConflictUpTo(l, p, es, n)
    <3>1. \A x \in 1..Len(es) : p + x <= last
      BY <1>1
    <3> HIDE DEF last, keep, len, M
    <3> QED BY <1>7, <3>1 DEF ConflictUpTo
  <2>2. len >= Len(l)
    BY <1>1, <2>1
  <2>3. keep(k) /\ k \in 1..len
    BY <1>1, <1>2, <2>1, <2>2
  <2> QED BY <1>4, <2>3
<1> HIDE DEF len
<1> QED BY <1>4, <1>5, <1>6, <1>7 DEF M

\* What a request brings where its log matches: no contradiction up to an entry
\* it shares with the log.
LEMMA EntriesMatch ==
    ASSUME NEW S, NEW l \in Seq(S), NEW es \in Seq(S), NEW p \in Nat, NEW u, NEW links,
           Within(l, links), SentWithin(p, u, es, links),
           Unique(links),
           NEW k \in Nat, k \in DOMAIN es, p + k \in DOMAIN l, l[p + k].term = es[k].term
    PROVE  ~ConflictUpTo(l, p, es, p + k)
<1>1. /\ DOMAIN l = 1..Len(l) /\ Len(l) \in Nat
      /\ DOMAIN es = 1..Len(es) /\ Len(es) \in Nat
  BY LenProperties
<1>2. k \in Nat /\ k >= 1 /\ k <= Len(es) /\ p + k <= Len(l)
  BY <1>1
<1> DEFINE differ == {x \in 1..k : l[p + x].term # es[x].term}
<1>3. differ = {}
  <2> SUFFICES ASSUME differ # {} PROVE FALSE
    OBVIOUS
  <2>1. differ \in SUBSET Nat /\ \A x \in differ : x <= k
    BY <1>2
  <2>2. PICK g \in differ : \A x \in differ : x <= g
    <3> HIDE DEF differ
    <3> QED BY <2>1, <1>2, GreatestExists
  <2>3. g \in 1..k /\ l[p + g].term # es[g].term
    BY <2>2
  <2>9. g # k
    BY <2>3
  <2>4. g + 1 \in 1..k /\ ~(g + 1 <= g) /\ g + 1 # 1 /\ (g + 1) - 1 = g
        /\ g + 1 \in DOMAIN es /\ p + (g + 1) \in DOMAIN l /\ (p + (g + 1)) - 1 = p + g
        /\ p + g # 0
    <3>1. g \in Nat /\ g >= 1 /\ g + 1 <= k
      BY <1>2, <2>3, <2>9
    <3> HIDE DEF differ
    <3> QED BY <1>1, <1>2, <3>1
  <2>5. l[p + (g + 1)].term = es[g + 1].term
    BY <2>2, <2>4
  <2> DEFINE a == <<p + (g + 1), TermAt(l, (p + (g + 1)) - 1), l[p + (g + 1)]>>
             b == <<p + (g + 1), IF g + 1 = 1 THEN u ELSE es[(g + 1) - 1].term, es[g + 1]>>
  <2>6. a \in links /\ a[1] = p + (g + 1) /\ a[2] = l[p + g].term /\ a[3] = l[p + (g + 1)]
    BY <2>4, LinkOf DEF TermAt
  <2>7. b \in EntryLinks(p, u, es) /\ b[1] = p + (g + 1) /\ b[2] = es[g].term
        /\ b[3] = es[g + 1]
    BY <2>4 DEF EntryLinks
  <2> HIDE DEF a, b
  <2>8. a = b
    BY <2>5, <2>6, <2>7 DEF Unique, SentWithin
  <2> QED BY <2>3, <2>6, <2>7, <2>8
<1>4. \A x \in 1..Len(es) : p + x <= p + k => x \in 1..k
  BY <1>1, <1>2
<1> QED BY <1>3, <1>4 DEF ConflictUpTo

\* The last entry sent, if any, is of term t or a greater one.
EndsFrom(es, t) == es # <<>> => LastTerm(es) \in Nat /\ LastTerm(es) >= t

\* What a log shares with one that holds a position everything goes through, it
\* keeps when it takes up a request that ends in the position's term or a greater
\* one: the request brings the position, or ends before it with entries that come
\* before it (service.go:68-86).
LEMMA MergeKeepsSecured ==
    ASSUME NEW S, NEW l \in Seq(S), NEW es \in Seq(S), NEW h \in Seq(S),
           NEW p \in Nat, p \in 0..Len(l),
           NEW links, Within(l, links), Within(h, links),
           SentWithin(p, TermAt(l, p), es, links),
           Unique(links),
           Unbroken(links),
           NEW n \in DOMAIN h, NEW t \in Nat, h[n].term = t, OnlyThrough(links, n, t),
           NEW c \in DOMAIN l, c <= n, l[c].term = h[c].term,
           EndsFrom(es, t)
    PROVE  /\ c \in DOMAIN Merge(l, p, es)
           /\ Merge(l, p, es)[c].term = l[c].term
<1> USE DEF EndsFrom
<1> DEFINE M == Merge(l, p, es)
           K == Len(es)
<1>1. /\ DOMAIN l = 1..Len(l) /\ Len(l) \in Nat
      /\ DOMAIN h = 1..Len(h) /\ Len(h) \in Nat
      /\ DOMAIN es = 1..K /\ K \in Nat /\ p \in Nat
  BY LenProperties
<1>2. n \in Nat /\ n > 0 /\ c \in Nat /\ c > 0 /\ c \in DOMAIN h
  BY <1>1
<1> HIDE DEF K
<1>3. M \in Seq(S) /\ Within(M, links)
  <2>1. M \in Seq(S)
    BY MergeEntries
  <2>2. LogLinks(M) \subseteq LogLinks(l) \cup EntryLinks(p, TermAt(l, p), es)
    BY MergeLinks
  <2> QED BY <2>1, <2>2 DEF Within, SentWithin
<1>4. /\ \A k \in 1..p : k \in DOMAIN M /\ M[k] = l[k]
      /\ \A k \in DOMAIN es : p + k \in DOMAIN M /\ M[p + k].term = es[k].term
      /\ ~ConflictUpTo(l, p, es, p + K) => \A k \in DOMAIN l : k \in DOMAIN M /\ M[k] = l[k]
  <2>1. l \in Seq(S) /\ es \in Seq(S) /\ p \in 0..Len(l)
    OBVIOUS
  <2> QED BY ONLY <2>1, MergeKeeps DEF M, K
<1> HIDE DEF M
<1>5. CASE es = <<>>
  <2>1. ~ConflictUpTo(l, p, es, p + K)
    BY <1>5 DEF ConflictUpTo
  <2> QED BY <1>4, <2>1 DEF M
<1>6. CASE c <= p
  <2>1. c \in 1..p
    BY <1>1, <1>2, <1>6
  <2> QED BY <1>4, <2>1 DEF M
<1>7. CASE es # <<>> /\ c > p
  <2>1. K \in DOMAIN es /\ es[K].term = LastTerm(es) /\ es[K].term \in Nat /\ es[K].term >= t
    <3>1. K # 0
      BY <1>1, <1>7, EmptySeq DEF K
    <3>2. K \in DOMAIN es /\ es[K].term = LastTerm(es)
      BY <1>1, <3>1 DEF LastTerm, TermAt, K
    <3> QED BY <1>7, <3>2
  <2>4. PICK k \in Nat : k = K
    BY <1>1
  <2>2. CASE Reaches(p + K, es[K].term, n, t)
    <3>1. \/ n - p \in DOMAIN es /\ es[n - p].term = t
          \/ Reaches(p, TermAt(l, p), n, t)
      BY <1>1, <1>2, <2>1, <2>2, EntriesGoThrough
    <3>2. CASE n - p \in DOMAIN es /\ es[n - p].term = t
      <4>1. p + (n - p) = n
        BY <1>1, <1>2
      <4>2. n \in DOMAIN M /\ M[n].term = t
        BY <1>4, <3>2, <4>1
      <4>3. Agree(M, h, n)
        BY <1>3, <4>2, LinkedLogsAgree
      <4>4. c \in 1..n /\ DOMAIN M = 1..Len(M) /\ Len(M) \in Nat
        BY <1>2, <1>3, LenProperties
      <4>5. c \in DOMAIN M /\ M[c] = h[c]
        BY <1>2, <4>3, <4>4 DEF Agree
      <4> QED BY <4>5 DEF M
    <3>3. CASE Reaches(p, TermAt(l, p), n, t)
      <4>1. p # 0
        <5>1. SUFFICES ASSUME p = 0 PROVE FALSE
          OBVIOUS
        <5>2. TermAt(l, p) = 0
          BY <5>1 DEF TermAt
        <5> QED BY <1>2, <3>3, <5>1, <5>2 DEF Reaches
      <4>2. p \in DOMAIN l /\ TermAt(l, p) = l[p].term
        BY <1>1, <4>1 DEF TermAt
      <4>3. n <= p
        BY <1>2, <3>3, <4>2, LogGoesThrough
      <4> QED BY <1>1, <1>2, <1>7, <4>3
    <3> QED BY <3>1, <3>2, <3>3
  <2>3. CASE ~Reaches(p + K, es[K].term, n, t)
    <3>1. es[K].term = t /\ p + K < n /\ p + K \in Nat /\ p + K > 0
      BY <1>1, <1>2, <2>1, <2>3 DEF Reaches
    <3>2. h[p + K].term = t /\ p + K \in DOMAIN h
      <4> DEFINE a == <<p + K, IF K = 1 THEN TermAt(l, p) ELSE es[K - 1].term, es[K]>>
      <4>1. a \in links /\ a[1] = p + K /\ a[3] = es[K]
        BY <2>1 DEF EntryLinks, SentWithin
      <4> HIDE DEF a
      <4>2. a[3].term = h[n].term /\ a[1] \in Nat /\ a[1] > 0 /\ a[1] <= n
        BY <3>1, <4>1
      <4>3. a[1] \in DOMAIN h /\ h[a[1]].term = h[n].term
        BY <4>1, <4>2, TermRun
      <4> QED BY <4>1, <4>3
    <3>3. CASE p + K <= c
      <4>1. Agree(l, h, c)
        BY <1>2, LinkedLogsAgree
      <4>2. l[p + K].term = es[K].term /\ p + K \in DOMAIN l
        <5>1. p + K \in 1..c /\ p + K \in DOMAIN l
          BY <1>1, <1>2, <3>1, <3>3
        <5> QED BY <3>1, <3>2, <4>1, <5>1 DEF Agree
      <4>3. ~ConflictUpTo(l, p, es, p + K)
        <5>1. k \in DOMAIN es /\ l[p + k].term = es[k].term /\ p + k \in DOMAIN l
          BY <2>1, <2>4, <4>2
        <5>2. ~ConflictUpTo(l, p, es, p + k)
          BY <5>1, EntriesMatch
        <5> QED BY <2>4, <5>2
      <4> QED BY <1>1, <1>4, <4>3 DEF M
    <3>4. CASE p + K > c
      <4>1. ~ConflictUpTo(h, p, es, p + K)
        <5>1. k \in DOMAIN es /\ h[p + k].term = es[k].term /\ p + k \in DOMAIN h
          BY <2>1, <2>4, <3>1, <3>2
        <5>2. ~ConflictUpTo(h, p, es, p + k)
          BY <5>1, EntriesMatch
        <5> QED BY <2>4, <5>2
      <4>2. c - p \in 1..K /\ p + (c - p) = c
        BY <1>1, <1>2, <1>7, <3>4
      <4>3. h[p + (c - p)].term = es[c - p].term
        <5>1. p + (c - p) <= p + K /\ p + (c - p) <= Len(h)
          BY <1>1, <1>2, <3>4, <4>2
        <5> QED BY <1>1, <4>1, <4>2, <5>1 DEF ConflictUpTo, K
      <4>4. c \in DOMAIN M /\ M[c].term = h[c].term
        BY <1>1, <1>4, <4>2, <4>3
      <4> QED BY <4>4 DEF M
    <3> QED BY <1>1, <1>2, <3>3, <3>4
  <2> QED BY <2>2, <2>3
<1> QED BY <1>1, <1>2, <1>5, <1>6, <1>7

\* A log that took up a request shares with one that holds such a position all
\* that comes before both the position and the end of the request.
LEMMA MergedGoesThrough ==
    ASSUME NEW S, NEW l \in Seq(S), NEW h \in Seq(S), NEW links,
           Within(l, links), Within(h, links),
           Unique(links),
           Unbroken(links),
           NEW n \in DOMAIN h, NEW t \in Nat, h[n].term = t, OnlyThrough(links, n, t),
           NEW d \in DOMAIN l, l[d].term \in Nat, l[d].term >= t,
           NEW c \in Nat, c > 0, c <= n, c <= d
    PROVE  c \in DOMAIN l /\ l[c].term = h[c].term
<1>1. /\ DOMAIN l = 1..Len(l) /\ Len(l) \in Nat
      /\ DOMAIN h = 1..Len(h) /\ Len(h) \in Nat
  BY LenProperties
<1>2. n \in Nat /\ n > 0 /\ d \in Nat /\ d > 0 /\ c \in DOMAIN l
  BY <1>1
<1>3. CASE Reaches(d, l[d].term, n, t)
  <2>1. n \in DOMAIN l /\ l[n].term = t
    <3>1. n \in Nat /\ n > 0
      BY <1>2
    <3> QED BY <1>3, <3>1, LogGoesThrough
  <2>2. Agree(l, h, n)
    BY <2>1, LinkedLogsAgree
  <2>3. c \in 1..n
    BY <1>2
  <2> QED BY <1>2, <2>2, <2>3 DEF Agree
<1>4. CASE ~Reaches(d, l[d].term, n, t)
  <2>1. l[d].term = t /\ d < n
    BY <1>2, <1>4 DEF Reaches
  <2> DEFINE a == <<d, TermAt(l, d - 1), l[d]>>
  <2>2. a \in links /\ a[1] = d /\ a[3] = l[d]
    BY LinkOf
  <2> HIDE DEF a
  <2>3. a[1] \in DOMAIN h /\ h[a[1]].term = h[n].term
    BY <1>2, <2>1, <2>2, TermRun
  <2>4. d \in DOMAIN h /\ h[d].term = l[d].term
    BY <2>1, <2>2, <2>3
  <2>5. Agree(l, h, d)
    BY <2>4, LinkedLogsAgree
  <2>6. c \in 1..d
    BY <1>2
  <2> QED BY <1>2, <2>5, <2>6 DEF Agree
<1> QED BY <1>3, <1>4

-----------------------------------------------------------------------------
(* What the election and the links say besides, is kept.                    *)

\* Who is elected is a founding voter, in a term from 1 on, by a majority.
LEMMA ElectedFounder ==
    ASSUME ElectionInv, VotesAsked, NEW e \in elected
    PROVE  e[2] \in Bootstrap /\ e[1] > 0
<1>1. PICK Q \in SUBSET Bootstrap : /\ Cardinality(Q) = QuorumVotes(Bootstrap)
                                    /\ \A j \in Q : <<e[1], j, e[2]>> \in granted
  BY DEF ElectionInv, ElectedByQuorum
<1>2. Q # {}
  <2>1. SUFFICES ASSUME Q = {} PROVE FALSE
    OBVIOUS
  <2>2. Cardinality(Q) = 0
    BY <2>1, FS_EmptySet
  <2>3. Cardinality(Bootstrap) \in Nat
    BY BootstrapFacts, FS_CardinalityType
  <2> QED BY <1>1, <2>2, <2>3 DEF QuorumVotes
<1>3. PICK j \in Q : <<e[1], j, e[2]>> \in granted
  BY <1>1, <1>2
<1> QED BY <1>3 DEF VotesAsked

\* So is who leads.
LEMMA LeaderFounder ==
    ASSUME ElectionInv, VotesAsked, NEW i \in Node, state[i] = Leader
    PROVE  <<currentTerm[i], i>> \in elected /\ i \in Bootstrap
<1> DEFINE e == <<currentTerm[i], i>>
<1>1. e \in elected /\ e[2] = i
  BY DEF ElectionInv, LeadersElected
<1> HIDE DEF e
<1>2. i \in Bootstrap
  BY <1>1, ElectedFounder
<1> QED BY <1>1, <1>2 DEF e

\* In the cluster of its founders a node's peers are founders, all others if it is one.
LEMMA FoundingPeers ==
    ASSUME StaticConfig, NEW i \in Node
    PROVE  /\ PeersOf(i) \subseteq Bootstrap \ {i}
           /\ i \in Bootstrap => PeersOf(i) = Bootstrap \ {i}
<1>1. \A k \in DOMAIN log[i] : /\ log[i][k].type \in {EntryNormal, EntryAddVoter}
                               /\ log[i][k].type = EntryAddVoter => log[i][k].arg = Bootstrap
  BY DEF StaticConfig, StaticEntry
<1>2. BootstrapOf(i) \subseteq Bootstrap
  BY DEF BootstrapOf
<1>3. Members(log[i], BootstrapOf(i)) \subseteq Bootstrap
  BY <1>1, <1>2 DEF Members, EntryNormal, EntryAddVoter, EntryAddLearner, EntryRemoveNode
<1>4. ASSUME i \in Bootstrap PROVE Bootstrap \subseteq Members(log[i], BootstrapOf(i))
  BY <1>1, <1>4 DEF BootstrapOf, Members, EntryNormal, EntryAddVoter, EntryAddLearner,
                    EntryRemoveNode
<1> QED BY <1>3, <1>4 DEF PeersOf

\* A new link goes from the leader's last entry, of an earlier term or its own, to
\* an entry of the leader's term.
LEMMA LinksAscendKept ==
    ASSUME ElectionInv, ElectionInv', LogInv, LinksAscend, [Next]_vars
    PROVE  LinksAscend'
<1> SUFFICES ASSUME NEW a \in Links' PROVE a[2] <= a[3].term
  BY DEF LinksAscend, Ascending
<1>1. CASE a \in Links
  BY <1>1 DEF LinksAscend, Ascending
<1>2. CASE a \notin Links
  <2>1. PICK i \in Node : MadeBy(i, a)
    BY <1>2, MadeLinks
  <2>2. LastTerm(log[i]) <= currentTerm[i] /\ currentTerm[i] \in Nat
    BY LastTermBehind DEF ElectionInv, TypeOK
  <2> QED BY <2>1, <2>2 DEF MadeBy
<1> QED BY <1>1, <1>2

\* A leader appends its first entry behind all of its log when no other link has
\* its term, and every later one behind an entry of its term.
LEMMA TermsUnbrokenKept ==
    ASSUME ElectionInv, ElectionInv', LogInv, TermsUnbroken, [Next]_vars
    PROVE  TermsUnbroken'
<1> SUFFICES ASSUME NEW a \in Links', NEW b \in Links', a[3].term = b[3].term, a[1] < b[1]
             PROVE  b[2] = b[3].term
  BY DEF TermsUnbroken, Unbroken
<1>0. a[1] \in Nat /\ b[1] \in Nat
  BY LinkTypes, MadeLinks DEF ElectionInv, MadeBy
<1>1. CASE a \in Links /\ b \in Links
  BY <1>1 DEF TermsUnbroken, Unbroken
<1>2. CASE a \notin Links /\ b \in Links
  <2>1. PICK i \in Node : MadeBy(i, a)
    BY <1>2, MadeLinks
  <2>2. Len(log[i]) \in Nat /\ b[1] <= Len(log[i]) /\ a[1] > Len(log[i])
    BY <1>2, <2>1, LogFacts DEF MadeBy, ElectionInv
  <2> QED BY <1>0, <2>2
<1>3. CASE b \notin Links
  <2>1. PICK i \in Node : MadeBy(i, b)
    BY <1>3, MadeLinks
  <2>2. CASE b[2] = currentTerm[i]
    BY <2>1, <2>2 DEF MadeBy
  <2>3. CASE b[2] # currentTerm[i]
    <3>1. b[1] = Len(log[i]) + 1 /\ a \notin Links
      BY <2>1, <2>3 DEF MadeBy
    <3>2. PICK j \in Node : MadeBy(j, a)
      BY <3>1, MadeLinks
    <3>3. i = j
      <4> DEFINE e == <<currentTerm[i], i>>
                 f == <<currentTerm[j], j>>
      <4>1. e \in elected' /\ f \in elected' /\ e[1] = f[1]
        BY <2>1, <3>2 DEF MadeBy
      <4>2. e[2] = f[2]
        BY <4>1 DEF ElectionInv, ElectionSafety
      <4> QED BY <4>2
    <3>4. a[1] > Len(log[i]) /\ Len(log[i]) \in Nat
      BY <3>2, <3>3, LogFacts DEF MadeBy, ElectionInv
    <3> QED BY <1>0, <3>1, <3>4
  <2> QED BY <2>2, <2>3
<1> QED BY <1>1, <1>2, <1>3

\* What a candidate has done when it asks for votes.
LEMMA Campaign ==
    ASSUME ElectionInv, NEW i \in Node, StartElection(i)
    PROVE  /\ i \in Bootstrap /\ currentTerm[i] \in Nat
           /\ currentTerm'[i] = currentTerm[i] + 1 /\ log' = log /\ elected' = elected
<1>1. i \in VotersOf(i) /\ currentTerm' = [currentTerm EXCEPT ![i] = currentTerm[i] + 1]
      /\ log' = log /\ elected' = elected
  BY DEF StartElection
<1>2. VotersOf(i) \subseteq Bootstrap
  BY FoundingVoters DEF ElectionInv
<1>3. currentTerm \in [Node -> Nat]
  BY DEF ElectionInv, TypeOK
<1> QED BY <1>1, <1>2, <1>3

\* A request for a vote is an old one, or is made by a node that begins a term.
LEMMA VoteRequestOrigin ==
    ASSUME [Next]_vars, NEW m \in rpcs', m.kind = "RequestVote"
    PROVE  \/ m \in rpcs
           \/ /\ m.src \in Node /\ StartElection(m.src) /\ m.term = currentTerm[m.src] + 1
              /\ m.lastLogIndex = Len(log[m.src]) /\ m.lastLogTerm = LastTerm(log[m.src])
<1> SUFFICES ASSUME m \notin rpcs
             PROVE  \E i \in Node : StartElection(i) /\ \E j \in VotersOf(i) \ {i} :
                       m = VoteRequest(i, j, currentTerm[i] + 1, Len(log[i]), LastTerm(log[i]))
  <2> QED BY DEF VoteRequest
<1>1. ~\E i, j \in Node :
          m = AppendRequest(i, j, currentTerm[i], nextIndex[i][j] - 1,
                            TermAt(log[i], nextIndex[i][j] - 1),
                            SubSeq(log[i], nextIndex[i][j], Len(log[i])), commitIndex[i])
  BY DEF AppendRequest
<1>2. ~\E r \in rpcs : AppendEntriesTimeout(r) /\ m = [r EXCEPT !.awaited = FALSE]
  <2>1. SUFFICES ASSUME NEW r \in rpcs, r.kind = "AppendEntries", m = [r EXCEPT !.awaited = FALSE]
                 PROVE  FALSE
    BY DEF AppendEntriesTimeout
  <2>2. m.kind = r.kind
    BY <2>1
  <2> QED BY <2>1, <2>2
<1>3. ~\E r, t, s, ci, ct : m = AppendReply(r, t, s, ci, ct)
  BY DEF AppendReply
<1> QED BY <1>1, <1>2, <1>3, NewMessages

\* Only a founding voter campaigns, and terms only grow.
LEMMA VotesAskedKept ==
    ASSUME ElectionInv, VotesAsked, [Next]_vars
    PROVE  VotesAsked'
<1>0. /\ TypeOK /\ \A n \in Node : currentTerm[n] \in Nat /\ currentTerm[n] <= currentTerm'[n]
      /\ \A n \in Node : currentTerm'[n] \in Nat
  <2>1. TypeOK'
    BY NextElectionInv DEF ElectionInv
  <2>2. TypeOK
    BY DEF ElectionInv
  <2> QED BY <2>1, <2>2, TermsGrow DEF TypeOK
<1>1. ASSUME NEW m \in rpcs', m.kind = "RequestVote"
      PROVE  m.src \in Bootstrap /\ m.term <= currentTerm'[m.src]
  <2>1. CASE m \in rpcs
    <3>1. m.src \in Bootstrap /\ m.term <= currentTerm[m.src]
      BY <1>1, <2>1 DEF VotesAsked
    <3>2. m.src \in Node /\ m.term \in Nat
      BY <1>0, <1>1, <2>1, MessageKinds DEF VoteRequestType
    <3> QED BY <1>0, <3>1, <3>2
  <2>2. CASE m \notin rpcs
    <3>1. m.src \in Node /\ StartElection(m.src) /\ m.term = currentTerm[m.src] + 1
      BY <1>1, <2>2, VoteRequestOrigin
    <3> QED BY <1>0, <3>1, Campaign
  <2> QED BY <2>1, <2>2
<1>2. ASSUME NEW g \in granted'
      PROVE  g[1] > 0 /\ g[3] \in Bootstrap /\ g[1] <= currentTerm'[g[3]]
  <2>1. CASE g \in granted
    <3>1. g[1] \in Nat /\ g[3] \in Node
      BY <1>0, <2>1 DEF TypeOK
    <3>2. g[1] > 0 /\ g[3] \in Bootstrap /\ g[1] <= currentTerm[g[3]]
      BY <2>1 DEF VotesAsked
    <3> QED BY <1>0, <3>1, <3>2
  <2>2. CASE \E i \in Node : StartElection(i) /\ g = <<currentTerm[i] + 1, i, i>>
    <3>1. PICK i \in Node : StartElection(i) /\ g = <<currentTerm[i] + 1, i, i>>
      BY <2>2
    <3>2. i \in Bootstrap /\ currentTerm[i] \in Nat /\ currentTerm'[i] = currentTerm[i] + 1
      BY <3>1, Campaign
    <3>3. g[1] = currentTerm[i] + 1 /\ g[3] = i
      BY <3>1
    <3> QED BY <1>0, <3>2, <3>3
  <2>3. CASE \E m \in rpcs : /\ m.kind = "RequestVote" /\ DecideVote(m) /\ MayVote(m.dst, m)
                             /\ g = <<m.term, m.dst, m.src>>
    <3>1. PICK m \in rpcs : m.kind = "RequestVote" /\ g = <<m.term, m.dst, m.src>>
      BY <2>3
    <3>2. m.src \in Node /\ m.term \in Nat /\ m.lastLogTerm \in Nat
      BY <1>0, <3>1, MessageKinds DEF VoteRequestType
    <3>3. m.src \in Bootstrap /\ m.term <= currentTerm[m.src] /\ m.lastLogTerm < m.term
      BY <3>1 DEF VotesAsked, ElectionInv, RequestsBehind
    <3>4. g[1] = m.term /\ g[3] = m.src
      BY <3>1
    <3> QED BY <1>0, <3>2, <3>3, <3>4
  <2> QED BY <2>1, <2>2, <2>3, NewVotes
<1> QED BY <1>1, <1>2 DEF VotesAsked

\* A candidate's log changes only by its election, or by entries of a leader of its
\* term, which was elected then.
LEMMA VoteRequestsSoundKept ==
    ASSUME ElectionInv, VotesAsked, VoteRequestsSound, [Next]_vars
    PROVE  VoteRequestsSound'
<1> SUFFICES ASSUME NEW m \in rpcs', m.kind = "RequestVote", state'[m.src] = Candidate,
                    currentTerm'[m.src] = m.term,
                    \A n \in Node : <<m.term, n>> \notin elected'
             PROVE  m.lastLogIndex = Len(log'[m.src]) /\ m.lastLogTerm = LastTerm(log'[m.src])
  BY DEF VoteRequestsSound
<1>0. TypeOK /\ elected \subseteq elected'
  BY TermsGrow DEF ElectionInv
<1>1. CASE m \notin rpcs
  <2>1. /\ m.src \in Node /\ StartElection(m.src)
        /\ m.lastLogIndex = Len(log[m.src]) /\ m.lastLogTerm = LastTerm(log[m.src])
    BY <1>1, VoteRequestOrigin
  <2>2. log' = log
    BY <2>1, Campaign
  <2> QED BY <2>1, <2>2
<1>2. CASE m \in rpcs
  <2>1. m.src \in Node /\ m.term \in Nat /\ m.term <= currentTerm[m.src]
    BY <1>0, <1>2, MessageKinds DEF VoteRequestType, VotesAsked
  <2>2. ~StartElection(m.src)
    BY <2>1, Campaign
  <2>3. state[m.src] = Candidate /\ currentTerm[m.src] = m.term
    BY <2>1, <2>2, CandidatesKept
  <2>4. log'[m.src] = log[m.src]
    BY <1>0, <2>1, <2>2, CandidatesKept
  <2>5. m.lastLogIndex = Len(log[m.src]) /\ m.lastLogTerm = LastTerm(log[m.src])
    BY <1>0, <1>2, <2>3 DEF VoteRequestsSound
  <2> QED BY <2>4, <2>5
<1> QED BY <1>1, <1>2

\* A request with entries is an old one, one whose caller has given up on it, or
\* the end of the log of a leader.
LEMMA RequestOrigin ==
    ASSUME ElectionInv, [Next]_vars, NEW m \in Requests'
    PROVE  \/ \E r \in Requests :
                 /\ m.src = r.src /\ m.dst = r.dst /\ m.term = r.term
                 /\ m.prevLogIndex = r.prevLogIndex /\ m.prevLogTerm = r.prevLogTerm
                 /\ m.entries = r.entries /\ m.leaderCommit = r.leaderCommit
           \/ /\ m.src \in Node /\ m.dst \in Node /\ SendAppendEntries(m.src, m.dst)
              /\ m.term = currentTerm[m.src] /\ m.leaderCommit = commitIndex[m.src]
              /\ LastSent(m) = Len(log[m.src]) /\ LastSentTerm(m) = LastTerm(log[m.src])
<1>1. CASE m \in rpcs
  <2>1. m \in Requests
    BY <1>1 DEF Requests
  <2> QED BY <2>1
<1>2. CASE m \notin rpcs
  <2>1. m \in rpcs' /\ m.kind = "AppendEntries"
    BY DEF Requests
  <2>2. \/ \E i, j \in Node :
              /\ SendAppendEntries(i, j)
              /\ m = AppendRequest(i, j, currentTerm[i], nextIndex[i][j] - 1,
                                   TermAt(log[i], nextIndex[i][j] - 1),
                                   SubSeq(log[i], nextIndex[i][j], Len(log[i])),
                                   commitIndex[i])
        \/ \E r \in rpcs : AppendEntriesTimeout(r) /\ m = [r EXCEPT !.awaited = FALSE]
    <3>1. \A i, j, t, k, u : VoteRequest(i, j, t, k, u).kind # m.kind
      BY <2>1 DEF VoteRequest
    <3>2. \A r, t, s, ci, ct : AppendReply(r, t, s, ci, ct).kind # m.kind
      BY <2>1 DEF AppendReply
    <3> QED BY <1>2, <2>1, <3>1, <3>2, NewMessages
  <2>3. CASE \E i, j \in Node :
              /\ SendAppendEntries(i, j)
              /\ m = AppendRequest(i, j, currentTerm[i], nextIndex[i][j] - 1,
                                   TermAt(log[i], nextIndex[i][j] - 1),
                                   SubSeq(log[i], nextIndex[i][j], Len(log[i])),
                                   commitIndex[i])
    <3>1. PICK i \in Node, j \in Node :
              /\ SendAppendEntries(i, j)
              /\ m = AppendRequest(i, j, currentTerm[i], nextIndex[i][j] - 1,
                                   TermAt(log[i], nextIndex[i][j] - 1),
                                   SubSeq(log[i], nextIndex[i][j], Len(log[i])),
                                   commitIndex[i])
      BY <2>3
    <3> DEFINE next == nextIndex[i][j]
               sent == SubSeq(log[i], next, Len(log[i]))
    <3>2. next \in Nat /\ next >= 1 /\ next <= Len(log[i]) + 1 /\ log[i] \in Seq(EntryRecord)
          /\ Len(log[i]) \in Nat /\ DOMAIN log[i] = 1..Len(log[i])
      <4>1. nextIndex[i][j] \in Nat \ {0} /\ nextIndex[i][j] <= Len(log[i]) + 1
        BY <3>1, SentFrom, LogFacts DEF ElectionInv
      <4> QED BY <4>1, LogFacts DEF ElectionInv
    <3>3. /\ m.src = i /\ m.dst = j /\ m.term = currentTerm[i] /\ m.leaderCommit = commitIndex[i]
          /\ m.prevLogIndex = next - 1 /\ m.prevLogTerm = TermAt(log[i], next - 1)
          /\ m.entries = sent
      BY <3>1 DEF AppendRequest
    <3>4. /\ sent \in Seq(EntryRecord)
          /\ \A k \in DOMAIN sent : k + next - 1 \in DOMAIN log[i] /\ sent[k] = log[i][k + next - 1]
      BY <3>2, TailEntries
    <3>5. Len(sent) = Len(log[i]) - (next - 1) /\ Len(sent) \in Nat /\ DOMAIN sent = 1..Len(sent)
      <4>1. Len(sent) = IF next <= Len(log[i]) THEN Len(log[i]) - next + 1 ELSE 0
        BY <3>2, SubSeqProperties
      <4> QED BY <3>2, <3>4, <4>1, LenProperties
    <3> HIDE DEF next, sent
    <3>6. LastSent(m) = Len(log[i])
      BY <3>2, <3>3, <3>5 DEF LastSent
    <3>7. LastSentTerm(m) = LastTerm(log[i])
      <4>1. CASE m.entries = <<>>
        <5>1. next - 1 = Len(log[i])
          BY <3>2, <3>3, <3>5, <4>1
        <5> QED BY <3>3, <4>1, <5>1 DEF LastSentTerm, LastTerm
      <4>2. CASE m.entries # <<>>
        <5>1. Len(sent) > 0
          BY <3>3, <3>4, <3>5, <4>2, EmptySeq
        <5>2. sent[Len(sent)] = log[i][Len(log[i])] /\ Len(log[i]) # 0
          <6>1. Len(sent) \in DOMAIN sent /\ Len(sent) + next - 1 = Len(log[i])
            BY <3>2, <3>5, <5>1
          <6>2. sent[Len(sent)] = log[i][Len(sent) + next - 1]
            BY <3>4, <6>1
          <6> QED BY <3>2, <3>5, <5>1, <6>1, <6>2
        <5>3. TermAt(sent, Len(sent)) = TermAt(log[i], Len(log[i]))
          BY <3>5, <5>1, <5>2 DEF TermAt
        <5> QED BY <3>3, <4>2, <5>3 DEF LastSentTerm, LastTerm
      <4> QED BY <4>1, <4>2
    <3> QED BY <3>1, <3>3, <3>6, <3>7
  <2>4. CASE \E r \in rpcs : AppendEntriesTimeout(r) /\ m = [r EXCEPT !.awaited = FALSE]
    <3>1. PICK r \in rpcs : AppendEntriesTimeout(r) /\ m = [r EXCEPT !.awaited = FALSE]
      BY <2>4
    <3>2. r \in AppendRequestType /\ r \in Requests
      BY <3>1, MessageKinds DEF AppendEntriesTimeout, ElectionInv, Requests
    <3>3. /\ m.src = r.src /\ m.dst = r.dst /\ m.term = r.term
          /\ m.prevLogIndex = r.prevLogIndex /\ m.prevLogTerm = r.prevLogTerm
          /\ m.entries = r.entries /\ m.leaderCommit = r.leaderCommit
      BY <3>1, <3>2 DEF AppendRequestType
    <3> QED BY <3>2, <3>3
  <2> QED BY <2>2, <2>3, <2>4
<1> QED BY <1>1, <1>2

\* A reply to AppendEntries is an old one, or the request has just been handled.
LEMMA ReplyOrigin ==
    ASSUME [Next]_vars, NEW r \in rpcs', r.kind = "AppendEntriesReply", r \notin rpcs
    PROVE  \E m \in rpcs : /\ HandleAppendEntries(m)
                           /\ \E t, s, ci, ct : /\ r = AppendReply(m, t, s, ci, ct)
                                                /\ Answer(m, r)
<1>1. \A i, j, t, k, u : VoteRequest(i, j, t, k, u).kind # r.kind
  BY DEF VoteRequest
<1>2. ~\E i, j \in Node :
          r = AppendRequest(i, j, currentTerm[i], nextIndex[i][j] - 1,
                            TermAt(log[i], nextIndex[i][j] - 1),
                            SubSeq(log[i], nextIndex[i][j], Len(log[i])), commitIndex[i])
  BY DEF AppendRequest
<1>3. ~\E m \in rpcs : AppendEntriesTimeout(m) /\ r = [m EXCEPT !.awaited = FALSE]
  <2>1. SUFFICES ASSUME NEW m \in rpcs, m.kind = "AppendEntries", r = [m EXCEPT !.awaited = FALSE]
                 PROVE  FALSE
    BY DEF AppendEntriesTimeout
  <2>2. r.kind = m.kind
    BY <2>1
  <2> QED BY <2>1, <2>2
<1> QED BY <1>1, <1>2, <1>3, NewMessages

\* Only who was elected sends, to its peers; the reply keeps the two names.
LEMMA AmongFoundersKept ==
    ASSUME ElectionInv, VotesAsked, AmongFounders, [Next]_vars
    PROVE  AmongFounders'
<1> SUFFICES ASSUME NEW m \in rpcs', m.kind \in {"AppendEntries", "AppendEntriesReply"}
             PROVE  m.src \in Bootstrap /\ m.dst \in Bootstrap /\ m.src # m.dst
  BY DEF AmongFounders
<1>1. \A r \in rpcs : r.kind \in {"AppendEntries", "AppendEntriesReply"} =>
          r.src \in Bootstrap /\ r.dst \in Bootstrap /\ r.src # r.dst
  BY DEF AmongFounders
<1>2. CASE m.kind = "AppendEntries"
  <2>1. m \in Requests'
    BY <1>2 DEF Requests
  <2>2. CASE \E r \in Requests : m.src = r.src /\ m.dst = r.dst
    BY <1>1, <2>2 DEF Requests
  <2>3. CASE m.src \in Node /\ m.dst \in Node /\ SendAppendEntries(m.src, m.dst)
    <3>1. <<currentTerm[m.src], m.src>> \in elected
      BY <2>3 DEF SendAppendEntries, ElectionInv, LeadersElected
    <3>2. m.src \in Bootstrap
      BY <3>1, ElectedFounder
    <3>3. m.dst \in Bootstrap \ {m.src}
      BY <2>3, FoundingPeers DEF SendAppendEntries, ElectionInv
    <3> QED BY <3>2, <3>3
  <2> QED BY <2>1, <2>2, <2>3, RequestOrigin
<1>3. CASE m.kind = "AppendEntriesReply" /\ m \notin rpcs
  <2>1. PICK r \in rpcs : HandleAppendEntries(r)
                          /\ \E t, s, ci, ct : m = AppendReply(r, t, s, ci, ct)
    BY <1>3, ReplyOrigin
  <2>2. m.src = r.dst /\ m.dst = r.src /\ r.kind = "AppendEntries"
    BY <2>1 DEF AppendReply, HandleAppendEntries
  <2> QED BY <1>1, <2>2
<1> QED BY <1>1, <1>2, <1>3

\* A new request is the end of its leader's log, which no entry its leader knows as
\* committed is beyond; elsewhere a request is carried over unchanged.
LEMMA CommitWithinSentKept ==
    ASSUME ElectionInv, CommitWithinSent, CommitSecured, [Next]_vars
    PROVE  CommitWithinSent'
<1> SUFFICES ASSUME NEW m \in Requests'
             PROVE  m.leaderCommit <= LastSent(m)
  BY DEF CommitWithinSent, LastSent
<1>1. CASE \E r \in Requests :
                 /\ m.src = r.src /\ m.dst = r.dst /\ m.term = r.term
                 /\ m.prevLogIndex = r.prevLogIndex /\ m.prevLogTerm = r.prevLogTerm
                 /\ m.entries = r.entries /\ m.leaderCommit = r.leaderCommit
  BY <1>1 DEF CommitWithinSent, LastSent
<1>2. CASE /\ m.src \in Node /\ m.dst \in Node /\ SendAppendEntries(m.src, m.dst)
           /\ m.term = currentTerm[m.src] /\ m.leaderCommit = commitIndex[m.src]
           /\ LastSent(m) = Len(log[m.src]) /\ LastSentTerm(m) = LastTerm(log[m.src])
  <2>1. commitIndex[m.src] \in Nat /\ Len(log[m.src]) \in Nat
    BY <1>2, LogFacts DEF ElectionInv, TypeOK
  <2>2. commitIndex[m.src] <= Len(log[m.src])
    BY <1>2, <2>1 DEF CommitSecured
  <2> QED BY <1>2, <2>2
<1> QED BY <1>1, <1>2, RequestOrigin

-----------------------------------------------------------------------------
(* What is secured stays so.                                                *)

\* What has been shown of a state so far.
Grounded ==
    /\ ElectionInv /\ LogInv
    /\ VotesAsked /\ VoteRequestsSound /\ AmongFounders
    /\ CommitWithinSent /\ LinksAscend /\ TermsUnbroken

\* The links of a node's log are among all links.
LEMMA LogWithin ==
    ASSUME NEW v \in Node
    PROVE  Within(log[v], Links)
BY DEF Within, Links

\* A log that holds a position ends at it or past it.
LEMMA HolderEnds ==
    ASSUME ElectionInv, LinksAscend, NEW v \in Node, NEW n, NEW t \in Nat, Has(v, n, t)
    PROVE  /\ n \in Nat /\ n > 0 /\ n <= Len(log[v])
           /\ LastTerm(log[v]) \in Nat /\ LastTerm(log[v]) >= t
<1>1. /\ log[v] \in Seq(EntryRecord) /\ Len(log[v]) \in Nat /\ DOMAIN log[v] = 1..Len(log[v])
      /\ \A k \in DOMAIN log[v] : log[v][k].term \in Nat
      /\ LastTerm(log[v]) \in Nat
  BY LogFacts DEF ElectionInv
<1>2. n \in DOMAIN log[v] /\ log[v][n].term = t
  BY DEF Has
<1>3. Len(log[v]) \in DOMAIN log[v] /\ n <= Len(log[v]) /\ n \in Nat /\ n > 0
  BY <1>1, <1>2
<1>4. log[v][n].term <= log[v][Len(log[v])].term
  BY <1>1, <1>2, <1>3, LogWithin, LogAscends DEF LinksAscend
<1>5. LastTerm(log[v]) = log[v][Len(log[v])].term
  BY <1>3 DEF LastTerm, TermAt
<1> QED BY <1>1, <1>2, <1>3, <1>4, <1>5

\* The node that takes up entries keeps every entry it shares, up to a secured
\* position of a term it has reached, with a holder of that position.
LEMMA AcceptKeeps ==
    ASSUME Grounded, NEW m \in rpcs, Accepts(m),
           NEW h \in Node, NEW n, NEW t \in Nat, Has(h, n, t), OnlyThrough(Links, n, t),
           t <= m.term,
           NEW c \in DOMAIN log[m.dst], c <= n, log[m.dst][c].term = log[h][c].term
    PROVE  c \in DOMAIN log'[m.dst] /\ log'[m.dst][c].term = log[m.dst][c].term
<1> DEFINE v == m.dst
           p == m.prevLogIndex
<1>1. /\ m \in Requests /\ p \in 0..Len(log[v]) /\ TermAt(log[v], p) = m.prevLogTerm
      /\ v \in Node /\ m.entries \in Seq(EntryRecord) /\ p \in Nat /\ m.term \in Nat
      /\ log[v] \in Seq(EntryRecord) /\ log[h] \in Seq(EntryRecord)
  BY MessageKinds, LogFacts DEF Accepts, Requests, AppendRequestType, Grounded, ElectionInv
<1>2. log'[v] = Merge(log[v], p, m.entries)
  BY AcceptedLinks DEF Grounded, ElectionInv
<1>3. Within(log[v], Links) /\ Within(log[h], Links)
  BY <1>1, LogWithin
<1>4. SentWithin(p, TermAt(log[v], p), m.entries, Links)
  <2>1. SentLinks(m) \subseteq Links
    BY <1>1 DEF Links
  <2> QED BY <1>1, <2>1 DEF SentWithin, SentLinks
<1>5. Unique(Links) /\ Unbroken(Links)
  BY DEF Grounded, LogInv, LinksUnique, Unique, TermsUnbroken
<1>6. EndsFrom(m.entries, t)
  BY <1>1 DEF Grounded, ElectionInv, RequestsEndInTerm, Requests, LastSentTerm, EndsFrom
<1>7. /\ n \in DOMAIN log[h] /\ log[h][n].term = t
      /\ c \in DOMAIN log[v] /\ c <= n /\ log[v][c].term = log[h][c].term
  BY DEF Has
<1>8. c \in DOMAIN Merge(log[v], p, m.entries)
      /\ Merge(log[v], p, m.entries)[c].term = log[v][c].term
  <2>1. PICK l \in Seq(EntryRecord) : l = log[v]
    BY <1>1
  <2>2. PICK g \in Seq(EntryRecord) : g = log[h]
    BY <1>1
  <2>3. PICK es \in Seq(EntryRecord) : es = m.entries
    BY <1>1
  <2>4. PICK k \in Nat : k = p
    BY <1>1
  <2>5. PICK W : W = Links
    OBVIOUS
  <2>6. k \in 0..Len(l) /\ c \in DOMAIN l /\ n \in DOMAIN g
    BY <1>1, <1>7, <2>1, <2>2, <2>4
  <2>7. /\ Within(l, W) /\ Within(g, W) /\ SentWithin(k, TermAt(l, k), es, W)
        /\ Unique(W) /\ Unbroken(W)
    BY <1>3, <1>4, <1>5, <2>1, <2>2, <2>3, <2>4, <2>5
  <2>8. EndsFrom(es, t) /\ OnlyThrough(W, n, t)
    BY <1>6, <2>3, <2>5
  <2>9. g[n].term = t /\ l[c].term = g[c].term /\ c <= n
    BY <1>7, <2>1, <2>2
  <2>10. c \in DOMAIN Merge(l, k, es) /\ Merge(l, k, es)[c].term = l[c].term
    BY <2>6, <2>7, <2>8, <2>9, MergeKeepsSecured
  <2> QED BY <2>1, <2>3, <2>4, <2>10
<1> QED BY <1>2, <1>8

\* A log gives up entries only to a request, and a request whose log goes on from a
\* position all logs go through has it as well.
LEMMA HasKept ==
    ASSUME Grounded, ElectionInv', [Next]_vars, NEW v \in Node, NEW n, NEW t \in Nat,
           Has(v, n, t), OnlyThrough(Links, n, t)
    PROVE  Has(v, n, t)'
<1>0. ElectionInv
  BY DEF Grounded
<1>1. n \in DOMAIN log[v] /\ log[v][n].term = t
  BY DEF Has
<1>2. CASE \E m \in rpcs : Accepts(m) /\ m.dst = v
  <2>1. PICK m \in rpcs : Accepts(m) /\ m.dst = v
    BY <1>2
  <2>2. /\ m.term \in Nat /\ m.term >= currentTerm[v] /\ currentTerm[v] \in Nat
    BY <1>0, <2>1, MessageKinds DEF Accepts, Requests, AppendRequestType, ElectionInv, TypeOK
  <2>3. t <= currentTerm[v]
    BY <1>0, <1>1 DEF ElectionInv, TermsBehind
  <2>4. t <= m.term /\ n <= n
    BY <1>0, <1>1, <2>2, <2>3, LogFacts DEF ElectionInv
  <2>5. n \in DOMAIN log'[v] /\ log'[v][n].term = log[v][n].term
    BY <1>1, <2>1, <2>4, AcceptKeeps
  <2> QED BY <1>1, <2>5 DEF Has
<1>3. CASE \A k \in DOMAIN log[v] : k \in DOMAIN log'[v] /\ log'[v][k] = log[v][k]
  BY <1>1, <1>3 DEF Has
<1> QED BY <1>0, <1>2, <1>3, LogsKept

\* The one step that could lead past a position without going through it is an
\* election: the votes of the winner, a majority, include that of a node that holds
\* the position (Undecided), which BallotsReach says the winner's log has reached.
LEMMA OnlyThroughKept ==
    ASSUME Grounded, Grounded', [Next]_vars, NEW B \in SUBSET Node, B # {},
           NEW n, NEW t \in Nat, Secured(B, n, t), Undecided(B, t)'
    PROVE  OnlyThrough(Links', n, t)
<1>0. ElectionInv /\ ElectionInv' /\ LogInv
  BY DEF Grounded
<1>1. PICK u \in B : Has(u, n, t)
  BY DEF Secured
<1>2. u \in Node /\ n \in Nat /\ n > 0
  BY <1>0, <1>1, HolderEnds DEF Grounded
<1> SUFFICES ASSUME NEW a \in Links', a \notin Links, Reaches(a[1], a[3].term, n, t)
             PROVE  \/ a[1] = n /\ a[3].term = t
                    \/ Reaches(a[1] - 1, a[2], n, t)
  BY DEF OnlyThrough, Secured
<1>3. PICK i \in Node : MadeBy(i, a)
  BY <1>0, MadeLinks
<1>4. /\ a[3].term = currentTerm[i] /\ currentTerm[i] \in Nat /\ a[1] \in Nat
      /\ <<currentTerm[i], i>> \in elected'
  BY <1>0, <1>3 DEF MadeBy, ElectionInv, TypeOK
<1>5. CASE a[2] = currentTerm[i]
  BY <1>2, <1>4, <1>5 DEF Reaches
<1>6. CASE /\ state[i] = Candidate /\ granted' = granted
           /\ a[1] = Len(log[i]) + 1 /\ a[2] = LastTerm(log[i])
           /\ \A b \in Links : b[3].term # currentTerm[i]
  <2>1. currentTerm[i] # t
    <3> DEFINE b == <<n, TermAt(log[u], n - 1), log[u][n]>>
    <3>1. b \in Links /\ b[3].term = t
      BY <1>1, <1>2, LinkOf, LogWithin DEF Has
    <3> HIDE DEF b
    <3> QED BY <1>6, <3>1
  <2>2. currentTerm[i] > t
    BY <1>4, <2>1 DEF Reaches
  <2>3. PICK Q \in SUBSET Bootstrap : /\ Cardinality(Q) = QuorumVotes(Bootstrap)
                                      /\ \A j \in Q : <<currentTerm[i], j, i>> \in granted
    <3>1. <<currentTerm[i], i>>[1] = currentTerm[i] /\ <<currentTerm[i], i>>[2] = i
      OBVIOUS
    <3> QED BY <1>0, <1>4, <1>6, <3>1 DEF ElectionInv, ElectedByQuorum
  <2>4. PICK v \in Q : v \in B
    <3>1. SUFFICES ASSUME Q \cap B = {} PROVE FALSE
      OBVIOUS
    <3>2. PICK q \in Q : ~(currentTerm'[q] > t)
      BY <2>3, <3>1 DEF Undecided
    <3>3. currentTerm[i] <= currentTerm'[q] /\ currentTerm'[q] \in Nat
      <4> DEFINE g == <<currentTerm[i], q, i>>
      <4>1. g \in granted' /\ g[1] = currentTerm[i] /\ g[2] = q /\ q \in Node
        BY <1>6, <2>3, BootstrapFacts
      <4> HIDE DEF g
      <4> QED BY <1>0, <4>1 DEF ElectionInv, VotesReached, TypeOK
    <3> QED BY <1>4, <2>2, <3>2, <3>3
  <2>5. \A e \in Node : <<currentTerm[i], e>> \notin elected
    <3>1. SUFFICES ASSUME NEW e \in Node, <<currentTerm[i], e>> \in elected PROVE FALSE
      OBVIOUS
    <3> DEFINE x == <<currentTerm[i], e>>
               y == <<currentTerm[i], i>>
    <3>2. x \in elected' /\ y \in elected' /\ x[1] = y[1]
      BY <1>0, <1>4, <3>1, TermsGrow DEF ElectionInv
    <3>3. x[2] = y[2]
      BY <1>0, <3>2 DEF ElectionInv, ElectionSafety
    <3>4. e = i
      BY <3>3
    <3> QED BY <1>0, <1>6, <3>1, <3>4 DEF LogInv, CandidatesFresh
  <2>6. BallotsReach(v, n, t)
    BY <2>4 DEF Secured
  <2>7. Reaches(Len(log[i]), LastTerm(log[i]), n, t)
    BY <1>6, <2>2, <2>3, <2>5, <2>6 DEF BallotsReach
  <2>8. a[1] - 1 = Len(log[i])
    BY <1>0, <1>6, LogFacts DEF ElectionInv
  <2> QED BY <1>6, <2>7, <2>8
<1> QED BY <1>3, <1>5, <1>6 DEF MadeBy

\* A node that holds the position votes only for logs at least as far as its own
\* (UpToDate), and a candidate's log shrinks only in a term that has a leader.
LEMMA BallotsReachKept ==
    ASSUME Grounded, Grounded', [Next]_vars, NEW v \in Node, NEW n, NEW t \in Nat,
           Has(v, n, t), BallotsReach(v, n, t)
    PROVE  BallotsReach(v, n, t)'
<1>0. ElectionInv /\ ElectionInv' /\ TypeOK /\ LinksAscend
  BY DEF Grounded, ElectionInv
<1> SUFFICES ASSUME NEW c \in Node, state'[c] = Candidate, currentTerm'[c] > t,
                    <<currentTerm'[c], v, c>> \in granted',
                    \A e \in Node : <<currentTerm'[c], e>> \notin elected'
             PROVE  Reaches(Len(log'[c]), LastTerm(log'[c]), n, t)
  BY DEF BallotsReach
<1>1. /\ n \in Nat /\ n <= Len(log[v]) /\ LastTerm(log[v]) \in Nat /\ LastTerm(log[v]) >= t
      /\ Len(log[v]) \in Nat /\ Len(log[c]) \in Nat /\ LastTerm(log[c]) \in Nat
  BY <1>0, HolderEnds, LogFacts
<1>2. elected \subseteq elected'
  BY <1>0, TermsGrow
<1>3. CASE StartElection(c)
  <2>1. /\ currentTerm[c] \in Nat /\ currentTerm'[c] = currentTerm[c] + 1 /\ log' = log
    BY <1>0, <1>3, Campaign
  <2>2. v = c
    <3> DEFINE g == <<currentTerm'[c], v, c>>
    <3>1. g \notin granted
      <4>1. SUFFICES ASSUME g \in granted PROVE FALSE
        OBVIOUS
      <4>2. g[1] = currentTerm'[c] /\ g[3] = c
        OBVIOUS
      <4>3. g[1] <= currentTerm[g[3]]
        BY <4>1 DEF Grounded, VotesAsked
      <4> QED BY <2>1, <4>2, <4>3
    <3>2. g = <<currentTerm[c] + 1, c, c>>
      BY <1>3, <3>1 DEF StartElection
    <3> QED BY <3>2
  <2> QED BY <1>1, <2>1, <2>2 DEF Reaches
<1>4. CASE ~StartElection(c)
  <2>1. state[c] = Candidate /\ currentTerm'[c] = currentTerm[c] /\ log'[c] = log[c]
    BY <1>0, <1>2, <1>4, CandidatesKept
  <2>2. CASE <<currentTerm[c], v, c>> \in granted
    <3>1. Reaches(Len(log[c]), LastTerm(log[c]), n, t)
      BY <1>2, <2>1, <2>2 DEF BallotsReach
    <3> QED BY <2>1, <3>1
  <2>3. CASE <<currentTerm[c], v, c>> \notin granted
    <3>1. ~\E i \in Node : StartElection(i) /\ <<currentTerm'[c], v, c>> = <<currentTerm[i] + 1, i, i>>
      BY <1>4
    <3>2. PICK m \in rpcs : /\ m.kind = "RequestVote" /\ MayVote(m.dst, m)
                            /\ <<currentTerm'[c], v, c>> = <<m.term, m.dst, m.src>>
      BY <2>1, <2>3, <3>1, NewVotes
    <3>3. m.term = currentTerm[c] /\ m.dst = v /\ m.src = c
      BY <2>1, <3>2
    <3>4. m.lastLogIndex = Len(log[c]) /\ m.lastLogTerm = LastTerm(log[c])
      <4>1. VoteRequestsSound
        BY DEF Grounded
      <4> QED BY <1>2, <2>1, <3>2, <3>3, <4>1 DEF VoteRequestsSound
    <3>5. UpToDate(log[v], Len(log[c]), LastTerm(log[c]))
      BY <3>2, <3>3, <3>4 DEF MayVote
    <3>6. Reaches(Len(log[c]), LastTerm(log[c]), n, t)
      BY <1>1, <3>5 DEF UpToDate, Reaches
    <3> QED BY <2>1, <3>6
  <2> QED BY <2>2, <2>3
<1> QED BY <1>3, <1>4

\* A secured position stays so, unless a majority without the nodes that secure it
\* has gone to greater terms.
LEMMA SecuredKept ==
    ASSUME Grounded, Grounded', [Next]_vars, NEW B \in SUBSET Node, B # {},
           NEW n, NEW t \in Nat, Secured(B, n, t), Undecided(B, t)'
    PROVE  Secured(B, n, t)'
<1>1. OnlyThrough(Links, n, t) /\ \A v \in B : Has(v, n, t) /\ BallotsReach(v, n, t)
  BY DEF Secured
<1>2. ElectionInv'
  BY DEF Grounded
<1>3. ASSUME NEW v \in B PROVE Has(v, n, t)' /\ BallotsReach(v, n, t)'
  BY <1>1, <1>2, HasKept, BallotsReachKept
<1>4. OnlyThrough(Links', n, t)
  BY OnlyThroughKept
<1> QED BY <1>3, <1>4 DEF Secured

-----------------------------------------------------------------------------
(* What comes to be secured.                                                *)

\* In a cluster of at most four voters any two of them block every majority.
LEMMA TwoBlock ==
    ASSUME Cardinality(Bootstrap) <= 4,
           NEW i \in Bootstrap, NEW j \in Bootstrap, i # j
    PROVE  Blocking({i, j})
<1> SUFFICES ASSUME NEW Q \in SUBSET Bootstrap, Cardinality(Q) = QuorumVotes(Bootstrap),
                    Q \cap {i, j} = {}
             PROVE  FALSE
  BY DEF Blocking
<1>1. /\ Cardinality(Bootstrap) \in Nat
      /\ IsFiniteSet(Bootstrap \ {i}) /\ IsFiniteSet((Bootstrap \ {i}) \ {j})
  BY BootstrapFacts, FS_CardinalityType, FS_RemoveElement
<1>2. Cardinality(Bootstrap \ {i}) = Cardinality(Bootstrap) - 1
  BY BootstrapFacts, FS_RemoveElement
<1>3. Cardinality((Bootstrap \ {i}) \ {j}) = Cardinality(Bootstrap) - 2
  <2>1. j \in Bootstrap \ {i}
    OBVIOUS
  <2>2. Cardinality((Bootstrap \ {i}) \ {j}) = Cardinality(Bootstrap \ {i}) - 1
    BY <1>1, <2>1, FS_RemoveElement
  <2> QED BY <1>1, <1>2, <2>2
<1>4. Cardinality(Q) <= Cardinality(Bootstrap) - 2
  <2>1. Q \in SUBSET ((Bootstrap \ {i}) \ {j})
    OBVIOUS
  <2>2. Cardinality(Q) <= Cardinality((Bootstrap \ {i}) \ {j})
    BY <1>1, <2>1, FS_Subset
  <2> QED BY <1>3, <2>2
<1>5. Cardinality(Q) = Cardinality(Bootstrap) \div 2 + 1
  BY DEF QuorumVotes
<1> QED BY <1>1, <1>4, <1>5

\* A majority meets every majority.
LEMMA MajorityBlocks ==
    ASSUME NEW B \in SUBSET Bootstrap, Cardinality(B) >= QuorumVotes(Bootstrap)
    PROVE  Blocking(B)
<1> SUFFICES ASSUME NEW Q \in SUBSET Bootstrap, Cardinality(Q) = QuorumVotes(Bootstrap)
             PROVE  Q \cap B # {}
  BY DEF Blocking
<1>1. /\ IsFiniteSet(Bootstrap) /\ Cardinality(Bootstrap) \in Nat
      /\ Cardinality(B) \in Nat /\ Cardinality(B) <= Cardinality(Bootstrap)
  BY BootstrapFacts, FS_CardinalityType, FS_Subset
<1>2. Bootstrap # {}
  <2>1. Bootstrap = {} => Cardinality(Bootstrap) = 0
    BY FS_EmptySet
  <2> QED BY <1>1, <2>1 DEF QuorumVotes
<1>3. Cardinality(Q) + Cardinality(B) > Cardinality(Bootstrap)
  BY <1>1, <1>2 DEF QuorumVotes
<1> QED BY <1>1, <1>3, FS_MajoritiesIntersect

\* Where a set blocks every majority, none can decide without it.
LEMMA BlockedUndecided ==
    ASSUME NEW B, Blocking(B), NEW t
    PROVE  Undecided(B, t) /\ Undecided(B, t)'
BY DEF Blocking, Undecided

\* As long as one follower has not gone past the leader's term, no majority has
\* without the leader.
LEMMA FollowerUndecided ==
    ASSUME NEW i, NEW j \in Node, Blocking({i, j}), NEW t
    PROVE  /\ ~(currentTerm[j] > t) => Undecided({i}, t)
           /\ ~(currentTerm'[j] > t) => Undecided({i}, t)'
<1>1. ASSUME NEW Q \in SUBSET Bootstrap, Cardinality(Q) = QuorumVotes(Bootstrap), Q \cap {i} = {}
      PROVE  j \in Q
  BY <1>1 DEF Blocking
<1> QED BY <1>1 DEF Undecided

\* Then the entries of its term in the log of the node elected in its current term
\* are secured by that node.
LEMMA LeaderSecures ==
    ASSUME Grounded, NEW i \in Node, <<currentTerm[i], i>> \in elected,
           Undecided({i}, currentTerm[i]),
           NEW n \in DOMAIN log[i], log[i][n].term = currentTerm[i]
    PROVE  Secured({i}, n, currentTerm[i])
<1> DEFINE T == currentTerm[i]
<1>0. ElectionInv /\ LogInv /\ TypeOK
  BY DEF Grounded, ElectionInv
<1>1. T \in Nat
  BY <1>0 DEF TypeOK
<1>2. T \in Nat /\ n \in Nat /\ n > 0
  <2>1. DOMAIN log[i] = 1..Len(log[i]) /\ Len(log[i]) \in Nat
    BY <1>0, LogFacts
  <2> QED BY <1>1, <2>1
<1>3. Has(i, n, T)
  BY DEF Has
<1>4. BallotsReach(i, n, T)
  <2>1. SUFFICES ASSUME NEW c \in Node, currentTerm[c] > T, <<currentTerm[c], i, c>> \in granted
                 PROVE  FALSE
    BY DEF BallotsReach
  <2> DEFINE g == <<currentTerm[c], i, c>>
  <2>2. g \in granted /\ g[1] = currentTerm[c] /\ g[2] = i
    BY <2>1
  <2> HIDE DEF g
  <2>3. currentTerm[c] <= currentTerm[i] /\ currentTerm[c] \in Nat
    BY <1>0, <2>2 DEF ElectionInv, VotesReached, TypeOK
  <2> QED BY <1>2, <2>1, <2>3
<1>5. ASSUME NEW a \in Links, Reaches(a[1], a[3].term, n, T)
      PROVE  \/ a[1] = n /\ a[3].term = T
             \/ Reaches(a[1] - 1, a[2], n, T)
  <2>0. a[1] \in Nat /\ a[3].term \in Nat
    BY <1>0, LinkTypes
  <2>1. ~(a[3].term > T)
    <3>1. SUFFICES ASSUME a[3].term > T PROVE FALSE
      OBVIOUS
    <3>2. PICK w \in Node : <<a[3].term, w>> \in elected
      BY <1>0 DEF LogInv, LinksElected
    <3> DEFINE f == <<a[3].term, w>>
    <3>3. f \in elected /\ f[1] = a[3].term /\ f[2] = w
      BY <3>2
    <3> HIDE DEF f
    <3>4. PICK Q \in SUBSET Bootstrap : /\ Cardinality(Q) = QuorumVotes(Bootstrap)
                                        /\ \A q \in Q : <<f[1], q, f[2]>> \in granted
      BY <1>0, <3>3 DEF ElectionInv, ElectedByQuorum
    <3>5. ASSUME NEW q \in Q PROVE currentTerm[q] > T
      <4> DEFINE g == <<f[1], q, f[2]>>
      <4>1. g \in granted /\ g[1] = f[1] /\ g[2] = q /\ q \in Node
        BY <3>4, BootstrapFacts
      <4> HIDE DEF g
      <4>2. a[3].term <= currentTerm[q] /\ currentTerm[q] \in Nat
        BY <1>0, <3>3, <4>1 DEF ElectionInv, VotesReached, TypeOK
      <4> QED BY <1>2, <2>0, <3>1, <4>2
    <3>6. i \in Q
      BY <3>4, <3>5 DEF Undecided
    <3> QED BY <1>2, <3>5, <3>6
  <2>2. a[3].term = T /\ a[1] >= n
    BY <1>5, <2>1 DEF Reaches
  <2>3. CASE a[1] = n
    BY <2>2, <2>3
  <2>4. CASE a[1] > n
    <3> DEFINE b == <<n, TermAt(log[i], n - 1), log[i][n]>>
    <3>1. b \in Links /\ b[1] = n /\ b[3].term = T
      BY LinkOf, LogWithin
    <3> HIDE DEF b
    <3>2. a[2] = T
      BY <2>2, <2>4, <3>1 DEF Grounded, TermsUnbroken, Unbroken
    <3> QED BY <1>2, <2>0, <2>4, <3>2 DEF Reaches
  <2> QED BY <1>2, <2>0, <2>2, <2>3, <2>4
<1>6. OnlyThrough(Links, n, T)
  BY <1>5 DEF OnlyThrough
<1> QED BY <1>3, <1>4, <1>6 DEF Secured

\* A node elected in its current term has entries of that term, to the end of its log.
LEMMA ElectedEnds ==
    ASSUME Grounded, NEW i \in Node, <<currentTerm[i], i>> \in elected
    PROVE  Has(i, Len(log[i]), currentTerm[i])
<1> DEFINE e == <<currentTerm[i], i>>
<1>1. e \in elected /\ e[1] = currentTerm[e[2]] /\ e[1] = currentTerm[i] /\ e[2] = i
  OBVIOUS
<1> HIDE DEF e
<1>2. currentTerm[i] > 0 /\ LastTerm(log[i]) = currentTerm[i]
  BY <1>1, ElectedFounder DEF Grounded, ElectionInv, ElectedLogEnds
<1>3. Len(log[i]) # 0 /\ Len(log[i]) \in Nat /\ DOMAIN log[i] = 1..Len(log[i])
  BY <1>2, LogFacts DEF Grounded, ElectionInv, LastTerm, TermAt
<1> QED BY <1>2, <1>3 DEF Has, LastTerm, TermAt

\* While a request can be accepted its addressee has not gone past its term, and any
\* other majority without the leader would have to contain it.
LEMMA PendingSecuredKept ==
    ASSUME Cardinality(Bootstrap) <= 4, Grounded, Grounded', PendingSecured, [Next]_vars
    PROVE  PendingSecured'
<1>0. ElectionInv /\ TypeOK /\ TypeOK'
  BY DEF Grounded, ElectionInv
<1> SUFFICES ASSUME NEW m \in Requests', currentTerm'[m.dst] <= m.term
             PROVE  Secured({m.src}, LastSent(m), m.term)'
  BY DEF PendingSecured, LastSent
<1>1. m.src \in Bootstrap /\ m.dst \in Bootstrap /\ m.src # m.dst
  BY DEF Grounded, AmongFounders, Requests
<1>2. Blocking({m.src, m.dst}) /\ m.src \in Node /\ m.dst \in Node
  BY <1>1, TwoBlock, BootstrapFacts
<1>3. /\ currentTerm[m.dst] \in Nat /\ currentTerm'[m.dst] \in Nat
      /\ currentTerm[m.dst] <= currentTerm'[m.dst]
  BY <1>0, <1>2, TermsGrow DEF TypeOK
<1>4. ASSUME m.term \in Nat, Secured({m.src}, LastSent(m), m.term)
      PROVE  Secured({m.src}, LastSent(m), m.term)'
  <2>1. ~(currentTerm'[m.dst] > m.term)
    BY <1>3, <1>4
  <2>2. Undecided({m.src}, m.term)'
    BY <1>2, <2>1, FollowerUndecided
  <2>3. SUFFICES ASSUME NEW n, n = LastSent(m) PROVE Secured({m.src}, n, m.term)'
    BY DEF LastSent
  <2>4. {m.src} \in SUBSET Node /\ {m.src} # {}
    BY <1>2
  <2> QED BY <1>4, <2>2, <2>3, <2>4, SecuredKept
<1>5. CASE \E r \in Requests :
                 /\ m.src = r.src /\ m.dst = r.dst /\ m.term = r.term
                 /\ m.prevLogIndex = r.prevLogIndex /\ m.prevLogTerm = r.prevLogTerm
                 /\ m.entries = r.entries /\ m.leaderCommit = r.leaderCommit
  <2>1. PICK r \in Requests :
                 /\ m.src = r.src /\ m.dst = r.dst /\ m.term = r.term
                 /\ m.prevLogIndex = r.prevLogIndex /\ m.entries = r.entries
    BY <1>5
  <2>2. m.term \in Nat
    BY <1>0, <2>1, MessageKinds DEF Requests, AppendRequestType
  <2>3. currentTerm[r.dst] <= r.term /\ LastSent(m) = LastSent(r)
    BY <1>3, <2>1, <2>2 DEF LastSent
  <2> QED BY <1>4, <2>1, <2>2, <2>3 DEF PendingSecured
<1>6. CASE /\ m.src \in Node /\ m.dst \in Node /\ SendAppendEntries(m.src, m.dst)
           /\ m.term = currentTerm[m.src] /\ m.leaderCommit = commitIndex[m.src]
           /\ LastSent(m) = Len(log[m.src]) /\ LastSentTerm(m) = LastTerm(log[m.src])
  <2>1. <<currentTerm[m.src], m.src>> \in elected
    BY <1>0, <1>6 DEF SendAppendEntries, ElectionInv, LeadersElected
  <2>2. m.term \in Nat
    BY <1>0, <1>6 DEF TypeOK
  <2>3. ~(currentTerm[m.dst] > m.term)
    BY <1>3, <2>2
  <2>4. Undecided({m.src}, m.term)
    BY <1>2, <2>3, FollowerUndecided
  <2>5. Secured({m.src}, Len(log[m.src]), currentTerm[m.src])
    <3>1. Has(m.src, Len(log[m.src]), currentTerm[m.src])
      BY <1>6, <2>1, ElectedEnds
    <3> QED BY <1>6, <2>1, <2>4, <3>1, LeaderSecures DEF Has
  <2> QED BY <1>4, <1>6, <2>2, <2>5
<1> QED BY <1>0, <1>5, <1>6, RequestOrigin

\* A set that blocks every majority goes on securing what it does.
LEMMA BlockersSecure ==
    ASSUME Grounded, Grounded', [Next]_vars, NEW B \in SUBSET Node, B # {}, Blocking(B),
           NEW n, NEW t \in Nat, Secured(B, n, t)
    PROVE  Secured(B, n, t)'
BY BlockedUndecided, SecuredKept

\* Who accepts a request holds the last entry it covers.
LEMMA AcceptHas ==
    ASSUME Grounded, Grounded', NEW m \in rpcs, Accepts(m), NEW n, n = LastSent(m), n > 0
    PROVE  Has(m.dst, n, m.term)'
<1> DEFINE v == m.dst
           p == m.prevLogIndex
           es == m.entries
<1>0. TypeOK
  BY DEF Grounded, ElectionInv
<1>1. /\ m \in Requests /\ p \in 0..Len(log[v]) /\ TermAt(log[v], p) = m.prevLogTerm
      /\ v \in Node /\ es \in Seq(EntryRecord) /\ p \in Nat
      /\ log[v] \in Seq(EntryRecord) /\ DOMAIN log[v] = 1..Len(log[v]) /\ Len(log[v]) \in Nat
      /\ Len(es) \in Nat /\ DOMAIN es = 1..Len(es)
  BY <1>0, MessageKinds, LogFacts, LenProperties DEF Accepts, Requests, AppendRequestType
<1>2. log'[v] = Merge(log[v], p, es)
  BY <1>0, AcceptedLinks
<1>3. LastSentTerm(m) = m.term
  BY <1>1 DEF Grounded, ElectionInv, RequestsEndInTerm, Requests
<1>4. n = p + Len(es)
  BY DEF LastSent
<1>5. CASE es = <<>>
  <2>1. n = p /\ p \in 1..p /\ p # 0
    BY <1>1, <1>4, <1>5
  <2>2. log[v][p].term = m.term
    BY <1>1, <1>3, <1>5, <2>1 DEF LastSentTerm, TermAt
  <2>3. p \in DOMAIN Merge(log[v], p, es) /\ Merge(log[v], p, es)[p] = log[v][p]
    BY <1>1, <2>1, MergeKeeps
  <2> QED BY <1>2, <2>1, <2>2, <2>3 DEF Has
<1>6. CASE es # <<>>
  <2>1. Len(es) \in DOMAIN es /\ Len(es) # 0
    BY <1>1, <1>6, EmptySeq
  <2>2. es[Len(es)].term = m.term
    BY <1>3, <1>6, <2>1 DEF LastSentTerm, LastTerm, TermAt
  <2>3. p + Len(es) \in DOMAIN Merge(log[v], p, es)
        /\ Merge(log[v], p, es)[p + Len(es)].term = es[Len(es)].term
    BY <1>1, <2>1, MergeKeeps
  <2> QED BY <1>2, <1>4, <2>2, <2>3 DEF Has
<1> QED BY <1>5, <1>6

\* A new reply that reports success: its request has just been accepted.
LEMMA NewSuccess ==
    ASSUME TypeOK, [Next]_vars, NEW r \in rpcs', r.kind = "AppendEntriesReply", r.success,
           r \notin rpcs
    PROVE  \E m \in Requests :
               /\ Accepts(m) /\ r.src = m.dst /\ r.dst = m.src
               /\ r.term = m.term /\ r.lastSent = LastSent(m)
               /\ m.term \in Nat /\ currentTerm[m.dst] <= m.term /\ currentTerm'[m.dst] = m.term
<1>1. PICK m \in rpcs : /\ HandleAppendEntries(m)
                        /\ \E t, s, ci, ct : /\ r = AppendReply(m, t, s, ci, ct)
                                             /\ Answer(m, r)
  BY ReplyOrigin
<1>2. Accepts(m)
  <2>1. SUFFICES ASSUME \E t, ci, ct : Answer(m, AppendReply(m, t, FALSE, ci, ct))
                 PROVE  FALSE
    BY <1>1, HandleOutcome
  <2>2. \E t, ci, ct : r = AppendReply(m, t, FALSE, ci, ct)
    BY <2>1 DEF Answer
  <2> QED BY <2>2 DEF AppendReply
<1>3. r = AppendReply(m, m.term, TRUE, 0, 0)
  BY <1>2 DEF Accepts, Answer
<1>4. r.src = m.dst /\ r.dst = m.src /\ r.term = m.term /\ r.lastSent = LastSent(m)
  BY <1>3 DEF AppendReply, LastSent
<1>5. /\ m \in Requests /\ m.term >= currentTerm[m.dst]
      /\ currentTerm' = [currentTerm EXCEPT ![m.dst] = m.term]
  BY <1>2 DEF Accepts
<1>6. m.term \in Nat /\ m.dst \in Node /\ currentTerm \in [Node -> Nat]
  BY <1>5, MessageKinds DEF Requests, AppendRequestType, TypeOK
<1> QED BY <1>2, <1>4, <1>5, <1>6

\* A node has cast no vote past the term it is in.
LEMMA NoBallotsPast ==
    ASSUME ElectionInv', NEW v \in Node, NEW n, NEW t \in Nat, currentTerm'[v] = t
    PROVE  BallotsReach(v, n, t)'
<1> SUFFICES ASSUME NEW c \in Node, currentTerm'[c] > t, <<currentTerm'[c], v, c>> \in granted'
             PROVE  FALSE
  BY DEF BallotsReach
<1> DEFINE g == <<currentTerm'[c], v, c>>
<1>1. g \in granted' /\ g[1] = currentTerm'[c] /\ g[2] = v
  OBVIOUS
<1> HIDE DEF g
<1>2. currentTerm'[c] <= currentTerm'[v] /\ currentTerm'[c] \in Nat
  BY <1>1 DEF ElectionInv, VotesReached, TypeOK
<1> QED BY <1>2

\* The follower that accepts joins the leader in holding the position; the two
\* block every majority from then on.
LEMMA RepliesSecuredKept ==
    ASSUME Cardinality(Bootstrap) <= 4, Grounded, Grounded', PendingSecured, RepliesSecured,
           [Next]_vars
    PROVE  RepliesSecured'
<1>0. ElectionInv /\ TypeOK /\ ElectionInv' /\ TypeOK'
  BY DEF Grounded, ElectionInv
<1> SUFFICES ASSUME NEW r \in rpcs', r.kind = "AppendEntriesReply", r.success
             PROVE  Secured({r.src, r.dst}, r.lastSent, r.term)'
  BY DEF RepliesSecured
<1>1. r.src \in Bootstrap /\ r.dst \in Bootstrap /\ r.src # r.dst
  BY DEF Grounded, AmongFounders
<1>2. /\ Blocking({r.src, r.dst}) /\ r.src \in Node /\ r.dst \in Node
      /\ {r.src, r.dst} \in SUBSET Node /\ {r.src, r.dst} # {}
  BY <1>1, TwoBlock, BootstrapFacts
<1>3. CASE r \in rpcs
  <2>1. Secured({r.src, r.dst}, r.lastSent, r.term) /\ r.term \in Nat
    BY <1>0, <1>3, MessageKinds DEF RepliesSecured, AppendReplyType
  <2> QED BY <1>2, <2>1, BlockersSecure
<1>4. CASE r \notin rpcs
  <2>1. PICK m \in Requests :
            /\ Accepts(m) /\ r.src = m.dst /\ r.dst = m.src
            /\ r.term = m.term /\ r.lastSent = LastSent(m)
            /\ m.term \in Nat /\ currentTerm[m.dst] <= m.term /\ currentTerm'[m.dst] = m.term
    BY <1>0, <1>4, NewSuccess
  <2>2. Accepts(m) /\ m \in rpcs
    BY <2>1 DEF Requests
  <2>4. /\ r.src = m.dst /\ r.dst = m.src /\ r.term = m.term /\ r.lastSent = LastSent(m)
    BY <2>1
  <2>5. /\ m \in Requests /\ m.term \in Nat /\ currentTerm[m.dst] <= m.term
        /\ currentTerm'[m.dst] = m.term
    BY <2>1
  <2> SUFFICES ASSUME NEW n, n = LastSent(m) PROVE Secured({m.src, m.dst}, n, m.term)'
    <3>1. {r.src, r.dst} = {m.src, m.dst}
      BY <2>4
    <3> QED BY <2>4, <3>1
  <2>6. Secured({m.src}, n, m.term)
    BY <2>5 DEF PendingSecured
  <2>7. Secured({m.src}, n, m.term)'
    <3>1. Blocking({m.src, m.dst}) /\ m.src \in Node /\ m.dst \in Node
      <4>1. {r.src, r.dst} = {m.src, m.dst}
        BY <2>4
      <4> QED BY <1>2, <2>4, <4>1
    <3>2. Undecided({m.src}, m.term)'
      <4>1. ~(currentTerm'[m.dst] > m.term)
        BY <2>5
      <4> QED BY <3>1, <4>1, FollowerUndecided
    <3>3. {m.src} \in SUBSET Node /\ {m.src} # {}
      BY <3>1
    <3> QED BY <2>5, <2>6, <3>2, <3>3, SecuredKept
  <2>8. n > 0
    <3>1. Has(m.src, n, m.term) /\ m.src \in Node
      BY <1>2, <2>4, <2>6 DEF Secured
    <3> QED BY <1>0, <2>5, <3>1, HolderEnds DEF Grounded
  <2>9. Has(m.dst, n, m.term)'
    BY <2>2, <2>8, AcceptHas
  <2>10. BallotsReach(m.dst, n, m.term)'
    BY <1>0, <1>2, <2>4, <2>5, NoBallotsPast
  <2> QED BY <2>7, <2>9, <2>10 DEF Secured
<1> QED BY <1>3, <1>4

-----------------------------------------------------------------------------
(* What a leader counts.                                                    *)

\* matchIndex changes by a reply's credit, or starts again from 0.
LEMMA MatchOrigin ==
    ASSUME TypeOK, [Next]_vars, NEW i \in Node, NEW j \in Node
    PROVE  \/ matchIndex'[i][j] = matchIndex[i][j]
           \/ matchIndex'[i][j] = 0
           \/ \E m \in rpcs : /\ HandleAppendEntriesReply(m) /\ state[i] = Leader
                              /\ m.kind = "AppendEntriesReply" /\ m.dst = i /\ m.src = j
                              /\ m.success /\ matchIndex'[i][j] = m.lastSent /\ log' = log
<1>0. matchIndex \in [Node -> [Node -> Nat]]
  BY DEF TypeOK
<1>1. CASE \E x \in Node : StartElection(x)
  BY <1>1 DEF StartElection, leaderVars
<1>2. CASE \E m \in rpcs : HandleRequestVote(m)
  BY <1>2 DEF HandleRequestVote, RefuseStaleVote, RefuseWhileLeaderAlive, DecideVote, leaderVars
<1>3. CASE \E m \in rpcs : HandleRequestVoteReply(m)
  <2>1. PICK m \in rpcs : HandleRequestVoteReply(m)
    BY <1>3
  <2>2. m.dst \in Node
    BY MessageKinds
  <2>3. matchIndex' = matchIndex \/ BecomeLeader(m.dst)
    BY <2>1 DEF HandleRequestVoteReply
  <2>4. CASE BecomeLeader(m.dst)
    <3>1. matchIndex' = [matchIndex EXCEPT ![m.dst] = [k \in Node |->
                           IF k \in PeersOf(m.dst) THEN 0 ELSE @[k]]]
      BY <2>4 DEF BecomeLeader
    <3> QED BY <1>0, <2>2, <3>1
  <2> QED BY <2>3, <2>4
<1>4. CASE \E m \in rpcs : RequestVoteFails(m)
  BY <1>4 DEF RequestVoteFails, leaderVars
<1>5. CASE \E x, y \in Node : SendAppendEntries(x, y)
  BY <1>5 DEF SendAppendEntries
<1>6. CASE \E m \in rpcs : HandleAppendEntries(m)
  BY <1>6 DEF HandleAppendEntries, leaderVars
<1>7. CASE \E m \in rpcs : HandleAppendEntriesReply(m)
  <2>1. PICK m \in rpcs : HandleAppendEntriesReply(m)
    BY <1>7
  <2>2. m.dst \in Node /\ m.src \in Node
    BY MessageKinds
  <2>3. \/ matchIndex' = matchIndex
        \/ /\ state[m.dst] = Leader /\ m.success
           /\ matchIndex' = [matchIndex EXCEPT ![m.dst][m.src] = m.lastSent]
    BY <2>1 DEF HandleAppendEntriesReply, CreditedIndex
  <2>4. m.kind = "AppendEntriesReply" /\ log' = log
    BY <2>1 DEF HandleAppendEntriesReply
  <2> QED BY <1>0, <2>1, <2>2, <2>3, <2>4
<1>8. CASE \E m \in rpcs : AppendEntriesFails(m)
  BY <1>8 DEF AppendEntriesFails
<1>9. CASE \E m \in rpcs : AppendEntriesTimeout(m)
  BY <1>9 DEF AppendEntriesTimeout
<1>10. CASE \E x \in Node, v \in Value : Submit(x, v)
  BY <1>10 DEF Submit, leaderVars
<1>11. CASE \E x \in Node : StepDown(x)
  BY <1>11 DEF StepDown, leaderVars
<1>12. CASE UNCHANGED vars
  BY <1>12 DEF vars
<1> QED BY <1>1, <1>2, <1>3, <1>4, <1>5, <1>6, <1>7, <1>8, <1>9, <1>10, <1>11, <1>12 DEF Next

\* matchIndex takes over what a successful reply says, of whatever leadership: with
\* any two voters blocking, what it says is still true of both logs.
LEMMA MatchSecuredKept ==
    ASSUME Cardinality(Bootstrap) <= 4, Grounded, Grounded', RepliesSecured, MatchSecured,
           [Next]_vars
    PROVE  MatchSecured'
<1>0. ElectionInv /\ TypeOK /\ ElectionInv' /\ TypeOK'
  BY DEF Grounded, ElectionInv
<1> SUFFICES ASSUME NEW i \in Node, NEW j \in Node, matchIndex'[i][j] > 0
             PROVE  /\ i \in Bootstrap /\ j \in Bootstrap /\ i # j
                    /\ Secured({i, j}, matchIndex[i][j], TermAt(log[i], matchIndex[i][j]))'
  BY DEF MatchSecured
<1>1. ASSUME i \in Bootstrap, j \in Bootstrap, i # j,
             NEW n, NEW t \in Nat, n = matchIndex'[i][j], Secured({i, j}, n, t)
      PROVE  Secured({i, j}, matchIndex[i][j], TermAt(log[i], matchIndex[i][j]))'
  <2>1. Secured({i, j}, n, t)'
    <3>1. Blocking({i, j}) /\ {i, j} \in SUBSET Node /\ {i, j} # {}
      BY <1>1, TwoBlock
    <3> QED BY <1>1, <3>1, BlockersSecure
  <2>2. Has(i, n, t)'
    BY <2>1 DEF Secured
  <2>3. n # 0 /\ TermAt(log'[i], n) = t
    BY <1>1, <2>2 DEF Has, TermAt
  <2> QED BY <1>1, <2>1, <2>3 
<1>2. CASE matchIndex'[i][j] = matchIndex[i][j]
  <2>1. /\ i \in Bootstrap /\ j \in Bootstrap /\ i # j
        /\ Secured({i, j}, matchIndex[i][j], TermAt(log[i], matchIndex[i][j]))
    BY <1>2 DEF MatchSecured
  <2>2. matchIndex[i][j] \in DOMAIN log[i]
    BY <2>1 DEF Secured, Has
  <2>3. TermAt(log[i], matchIndex[i][j]) \in Nat
    BY <1>0, <2>2, LogFacts
  <2> QED BY <1>1, <1>2, <2>1, <2>3
<1>3. CASE \E m \in rpcs : /\ m.kind = "AppendEntriesReply" /\ m.dst = i /\ m.src = j
                           /\ m.success /\ matchIndex'[i][j] = m.lastSent /\ log' = log
  <2>1. PICK m \in rpcs : /\ m.kind = "AppendEntriesReply" /\ m.dst = i /\ m.src = j
                          /\ m.success /\ matchIndex'[i][j] = m.lastSent
    BY <1>3
  <2>2. m.term \in Nat
    BY <1>0, <2>1, MessageKinds DEF AppendReplyType
  <2>3. i \in Bootstrap /\ j \in Bootstrap /\ i # j
    BY <2>1 DEF Grounded, AmongFounders
  <2>4. Secured({i, j}, m.lastSent, m.term)
    <3>1. {m.src, m.dst} = {i, j}
      BY <2>1
    <3> QED BY <2>1, <3>1 DEF RepliesSecured
  <2> QED BY <1>1, <2>1, <2>2, <2>3, <2>4
<1>4. matchIndex'[i][j] # 0
  OBVIOUS
<1> QED BY <1>0, <1>2, <1>3, <1>4, MatchOrigin

-----------------------------------------------------------------------------
(* What a leader is told in its term.                                       *)

\* A new leader has been told nothing, and has sent nothing.
LEMMA WinnersBegin ==
    ASSUME ElectionInv, LogInv, CreditsAmongFounders, AnswersElected, NEW i \in Node, Wins(i)
    PROVE  /\ \A j \in Node : matchIndex'[i][j] = 0
           /\ \A m \in rpcs' : ~Acknowledgement(m, i)'
           /\ \A m \in Requests' : m.src = i => m.term # currentTerm'[i]
<1>0. TypeOK /\ StaticConfig
  BY DEF ElectionInv
<1>1. <<currentTerm[i], i>> \notin elected /\ currentTerm' = currentTerm /\ rpcs' \subseteq rpcs
  BY DEF Wins, LogInv, CandidatesFresh
<1>2. ASSUME NEW j \in Node PROVE matchIndex'[i][j] = 0
  <2>1. matchIndex'[i][j] = IF j \in PeersOf(i) THEN 0 ELSE matchIndex[i][j]
    BY <1>0 DEF Wins, BecomeLeader, TypeOK
  <2>2. matchIndex[i][j] \in Nat
    BY <1>0 DEF TypeOK
  <2>3. matchIndex[i][j] > 0 => j \in PeersOf(i)
    BY <1>0, FoundingPeers DEF CreditsAmongFounders
  <2> QED BY <2>1, <2>2, <2>3
<1>3. ASSUME NEW m \in rpcs' PROVE ~Acknowledgement(m, i)'
  BY <1>1 DEF Acknowledgement, AnswersElected
<1>4. ASSUME NEW m \in Requests', m.src = i PROVE m.term # currentTerm'[i]
  BY <1>1, <1>4 DEF Requests, ElectionInv, LeadersElected
<1> QED BY <1>2, <1>3, <1>4

\* A leader that stays one takes up no request: its term has no other leader.
LEMMA LeadersLogKept ==
    ASSUME ElectionInv, ElectionInv', [Next]_vars, NEW i \in Node,
           state[i] = Leader, currentTerm'[i] = currentTerm[i]
    PROVE  /\ ~\E m \in rpcs : Accepts(m) /\ m.dst = i
           /\ \A k \in DOMAIN log[i] : k \in DOMAIN log'[i] /\ log'[i][k] = log[i][k]
<1>1. ASSUME NEW m \in rpcs, Accepts(m), m.dst = i PROVE FALSE
  <2>1. m.kind = "AppendEntries" /\ m.term = currentTerm[i]
    <3>1. currentTerm' = [currentTerm EXCEPT ![m.dst] = m.term] /\ currentTerm \in [Node -> Nat]
      BY <1>1 DEF Accepts, ElectionInv, TypeOK
    <3> QED BY <1>1, <3>1 DEF Accepts, Requests
  <2> DEFINE e == <<m.term, m.src>>
             f == <<currentTerm[i], i>>
  <2>2. e \in elected /\ f \in elected /\ e[1] = f[1] /\ m.src # i
    BY <1>1, <2>1 DEF ElectionInv, LeadersElected
  <2>3. e[2] = f[2]
    BY <2>2 DEF ElectionInv, ElectionSafety
  <2> QED BY <2>2, <2>3
<1> QED BY <1>1, LogsKept

\* A reply is credited to who sent its request.
LEMMA CreditsAmongFoundersKept ==
    ASSUME Grounded, CreditsAmongFounders, [Next]_vars
    PROVE  CreditsAmongFounders'
<1> SUFFICES ASSUME NEW i \in Node, NEW j \in Node, matchIndex'[i][j] > 0
             PROVE  i \in Bootstrap /\ j \in Bootstrap /\ i # j
  BY DEF CreditsAmongFounders
<1>0. TypeOK
  BY DEF Grounded, ElectionInv
<1>1. CASE matchIndex'[i][j] = matchIndex[i][j]
  BY <1>1 DEF CreditsAmongFounders
<1>2. CASE \E m \in rpcs : m.kind = "AppendEntriesReply" /\ m.dst = i /\ m.src = j
  BY <1>2 DEF Grounded, AmongFounders
<1>3. matchIndex'[i][j] # 0
  OBVIOUS
<1> QED BY <1>0, <1>1, <1>2, <1>3, MatchOrigin

\* A request, and with it the success reported for it, is of an elected node.
LEMMA AnswersElectedKept ==
    ASSUME ElectionInv, AnswersElected, [Next]_vars
    PROVE  AnswersElected'
<1> SUFFICES ASSUME NEW m \in rpcs', m.kind = "AppendEntriesReply", m.success
             PROVE  <<m.term, m.dst>> \in elected'
  BY DEF AnswersElected
<1>0. TypeOK /\ elected \subseteq elected'
  BY TermsGrow DEF ElectionInv
<1>1. CASE m \in rpcs
  BY <1>0, <1>1 DEF AnswersElected
<1>2. CASE m \notin rpcs
  <2>1. PICK r \in Requests : m.dst = r.src /\ m.term = r.term
    BY <1>0, <1>2, NewSuccess
  <2> QED BY <1>0, <2>1 DEF Requests, ElectionInv, LeadersElected
<1> QED BY <1>1, <1>2

\* What a leader is told in its term is where a request of that term ended, and
\* requests end where its log did.
LEMMA LeadersHoldSentKept ==
    ASSUME Grounded, Grounded', CreditsAmongFounders, AnswersElected, LeadersHoldSent,
           CreditsInTerm, [Next]_vars
    PROVE  LeadersHoldSent'
<1>0. ElectionInv /\ ElectionInv' /\ LogInv /\ TypeOK
  BY DEF Grounded, ElectionInv
<1> SUFFICES ASSUME NEW i \in Node, state'[i] = Leader
             PROVE  /\ \A j \in Node : matchIndex'[i][j] > 0
                                          => Has(i, matchIndex[i][j], currentTerm[i])'
                    /\ \A m \in rpcs' : Acknowledgement(m, i)'
                                          => Has(i, m.lastSent, currentTerm[i])'
                    /\ \A m \in Requests' : m.src = i /\ m.term = currentTerm'[i]
                                          => Has(i, LastSent(m), currentTerm[i])'
  BY DEF LeadersHoldSent
<1>1. CASE Wins(i)
  <2>1. /\ \A j \in Node : ~(matchIndex'[i][j] > 0)
        /\ \A m \in rpcs' : ~Acknowledgement(m, i)'
        /\ \A m \in Requests' : m.src = i => m.term # currentTerm'[i]
    BY <1>0, <1>1, WinnersBegin
  <2> QED BY <2>1
<1>2. CASE state[i] = Leader /\ currentTerm'[i] = currentTerm[i]
  <2> DEFINE T == currentTerm[i]
  <2>1. ASSUME NEW k, Has(i, k, T) PROVE k \in DOMAIN log'[i] /\ log'[i][k].term = T
    BY <1>0, <1>2, <2>1, LeadersLogKept DEF Has
  <2>2. ASSUME NEW j \in Node, matchIndex'[i][j] > 0
        PROVE  Has(i, matchIndex[i][j], currentTerm[i])'
    <3> SUFFICES ASSUME NEW k, k = matchIndex'[i][j] PROVE Has(i, k, T)
      BY <1>2, <2>1 DEF Has
    <3>1. CASE k = matchIndex[i][j]
      BY <1>2, <2>2, <3>1 DEF LeadersHoldSent
    <3>2. CASE \E m \in rpcs : /\ HandleAppendEntriesReply(m) /\ m.kind = "AppendEntriesReply"
                               /\ m.dst = i /\ m.success /\ k = m.lastSent
      <4>1. PICK m \in rpcs : /\ HandleAppendEntriesReply(m) /\ m.kind = "AppendEntriesReply"
                              /\ m.dst = i /\ m.success /\ k = m.lastSent
        BY <3>2
      <4>2. Acknowledgement(m, i)
        BY <1>2, <4>1 DEF CreditsInTerm, Acknowledgement
      <4> QED BY <1>2, <4>1, <4>2 DEF LeadersHoldSent
    <3>3. k # 0
      BY <2>2
    <3> QED BY <1>0, <3>1, <3>2, <3>3, MatchOrigin
  <2>3. ASSUME NEW m \in rpcs', Acknowledgement(m, i)'
        PROVE  Has(i, m.lastSent, currentTerm[i])'
    <3>0. /\ m.kind = "AppendEntriesReply" /\ m.success /\ m.dst = i /\ m.term = T
      BY <1>2, <2>3 DEF Acknowledgement
    <3> SUFFICES Has(i, m.lastSent, T)
      BY <1>2, <2>1 DEF Has
    <3>1. CASE m \in rpcs
      BY <1>2, <3>0, <3>1 DEF LeadersHoldSent, Acknowledgement
    <3>2. CASE m \notin rpcs
      <4>1. PICK r \in Requests : m.dst = r.src /\ m.term = r.term /\ m.lastSent = LastSent(r)
        BY <1>0, <3>0, <3>2, NewSuccess
      <4> QED BY <1>2, <3>0, <4>1 DEF LeadersHoldSent
    <3> QED BY <3>1, <3>2
  <2>4. ASSUME NEW m \in Requests', m.src = i, m.term = currentTerm'[i]
        PROVE  Has(i, LastSent(m), currentTerm[i])'
    <3> SUFFICES ASSUME NEW k, k = LastSent(m) PROVE Has(i, k, T)
      BY <1>2, <2>1 DEF Has, LastSent
    <3>1. CASE \E r \in Requests : /\ m.src = r.src /\ m.term = r.term
                                   /\ m.prevLogIndex = r.prevLogIndex /\ m.entries = r.entries
      <4>1. PICK r \in Requests : /\ m.src = r.src /\ m.term = r.term
                                  /\ m.prevLogIndex = r.prevLogIndex /\ m.entries = r.entries
        BY <3>1
      <4>2. LastSent(m) = LastSent(r)
        BY <4>1 DEF LastSent
      <4> QED BY <1>2, <2>4, <4>1, <4>2 DEF LeadersHoldSent
    <3>2. CASE LastSent(m) = Len(log[m.src])
      <4>1. <<currentTerm[i], i>> \in elected
        BY <1>0, <1>2 DEF ElectionInv, LeadersElected
      <4> QED BY <2>4, <3>2, <4>1, ElectedEnds
    <3> QED BY <1>0, <3>1, <3>2, RequestOrigin
  <2> QED BY <2>2, <2>3, <2>4
<1> QED BY <1>0, <1>1, <1>2, LeaderOrigin

\* Who joins the acceptors of an entry has just taken up a request of its leader.
LEMMA NewAcceptor ==
    ASSUME TypeOK, CreditsInTerm, [Next]_vars, NEW i \in Node, state[i] = Leader,
           currentTerm'[i] = currentTerm[i], NEW n \in Nat, n > 0,
           NEW v \in Acceptors(i, n)', v \notin Acceptors(i, n)
    PROVE  \E r \in Requests :
               /\ Accepts(r) /\ r.dst = v /\ r.src = i /\ r.term = currentTerm[i]
               /\ LastSent(r) >= n /\ currentTerm'[v] = r.term
<1>1. v \in Node /\ v # i
  BY DEF Acceptors
<1>2. CASE matchIndex'[i][v] >= n
  <2>1. matchIndex'[i][v] # 0 /\ matchIndex'[i][v] # matchIndex[i][v]
    BY <1>1, <1>2 DEF Acceptors
  <2>2. PICK m \in rpcs : /\ HandleAppendEntriesReply(m) /\ m.kind = "AppendEntriesReply"
                          /\ m.dst = i /\ m.src = v
                          /\ m.success /\ matchIndex'[i][v] = m.lastSent
    BY <1>1, <2>1, MatchOrigin
  <2>3. Acknowledgement(m, i)
    BY <2>2 DEF CreditsInTerm, Acknowledgement
  <2> QED BY <1>1, <1>2, <2>2, <2>3 DEF Acceptors
<1>3. CASE \E m \in rpcs' : Acknowledgement(m, i)' /\ m.src = v /\ m.lastSent >= n
  <2>1. PICK m \in rpcs' : Acknowledgement(m, i)' /\ m.src = v /\ m.lastSent >= n
    BY <1>3
  <2>2. /\ m.kind = "AppendEntriesReply" /\ m.success /\ m.dst = i /\ m.term = currentTerm[i]
    BY <2>1 DEF Acknowledgement
  <2>3. m \notin rpcs
    BY <1>1, <2>1, <2>2 DEF Acceptors, Acknowledgement
  <2> QED BY <2>1, <2>2, <2>3, NewSuccess
<1> QED BY <1>1, <1>2, <1>3 DEF Acceptors

\* A node elected in its term secures its entries of the term alone, at first.
OwnEntriesSecured ==
    \A i \in Node : \A n \in DOMAIN log[i] :
        /\ <<currentTerm[i], i>> \in elected
        /\ log[i][n].term = currentTerm[i]
        /\ Undecided({i}, currentTerm[i])
        => Secured({i}, n, currentTerm[i])

LEMMA LeadersSecure == Grounded => OwnEntriesSecured
BY LeaderSecures DEF OwnEntriesSecured

\* Among links that go up to a term T, all that come past an entry of T go through it:
\* the entries of T are unbroken.
LEMMA OwnTermThrough ==
    ASSUME NEW links, Unbroken(links), NEW T \in Nat,
           \A b \in links : b[1] \in Nat /\ b[3].term \in Nat /\ b[3].term <= T,
           NEW a \in links, a[3].term = T
    PROVE  OnlyThrough(links, a[1], T)
<1> SUFFICES ASSUME NEW b \in links, Reaches(b[1], b[3].term, a[1], T)
             PROVE  \/ b[1] = a[1] /\ b[3].term = T
                    \/ Reaches(b[1] - 1, b[2], a[1], T)
  BY DEF OnlyThrough
<1>1. a[1] \in Nat /\ b[1] \in Nat /\ b[3].term = T /\ b[1] >= a[1]
  BY DEF Reaches
<1>2. CASE b[1] > a[1]
  <2>1. b[2] = T
    BY <1>1, <1>2 DEF Unbroken
  <2> QED BY <1>1, <1>2, <2>1 DEF Reaches
<1> QED BY <1>1, <1>2

\* While a node stays in a term it keeps the entries of that term.
LEMMA OwnTermKept ==
    ASSUME Grounded, ElectionInv', [Next]_vars, NEW v \in Node,
           NEW T \in Nat, currentTerm[v] = T, currentTerm'[v] = T, NEW n, Has(v, n, T)
    PROVE  Has(v, n, T)'
<1>0. ElectionInv /\ TypeOK
  BY DEF Grounded, ElectionInv
<1>1. n \in DOMAIN log[v] /\ log[v][n].term = T
  BY DEF Has
<1>2. CASE \E m \in rpcs : Accepts(m) /\ m.dst = v
  <2>1. PICK m \in rpcs : Accepts(m) /\ m.dst = v
    BY <1>2
  <2>2. PICK p \in Nat : p = m.prevLogIndex
    BY <1>0, <2>1, MessageKinds DEF Accepts, Requests, AppendRequestType
  <2>3. PICK es \in Seq(EntryRecord) : es = m.entries
    BY <1>0, <2>1, MessageKinds DEF Accepts, Requests, AppendRequestType
  <2>4. PICK l \in Seq(EntryRecord) : l = log[v]
    BY <1>0, LogFacts
  <2>5. /\ m \in Requests /\ m.term = T /\ p \in 0..Len(l) /\ TermAt(l, p) = m.prevLogTerm
    <3>1. currentTerm'[v] = m.term
      BY <1>0, <2>1 DEF Accepts, TypeOK
    <3> QED BY <2>1, <2>2, <2>4, <3>1 DEF Accepts
  <2>6. log'[v] = Merge(l, p, es)
    BY <1>0, <2>1, <2>2, <2>3, <2>4, AcceptedLinks
  <2> DEFINE R == {a \in Links : a[1] \in Nat /\ a[3].term \in Nat /\ a[3].term <= T}
  <2>7. Within(l, R)
    <3> SUFFICES ASSUME NEW k \in DOMAIN l, NEW a, a = <<k, TermAt(l, k - 1), l[k]>>
                 PROVE  a \in R
      BY DEF Within, LogLinks
    <3>1. k \in Nat /\ l[k].term \in Nat /\ l[k].term <= T
      BY <1>0, <2>4, LogFacts DEF ElectionInv, TermsBehind
    <3>2. a \in Links
      BY <2>4, LogWithin, LinkOf
    <3> QED BY <3>1, <3>2
  <2>8. SentWithin(p, TermAt(l, p), es, R)
    <3> SUFFICES ASSUME NEW k \in DOMAIN es, NEW a,
                        a = <<p + k, IF k = 1 THEN TermAt(l, p) ELSE es[k - 1].term, es[k]>>
                 PROVE  a \in R
      BY DEF SentWithin, EntryLinks
    <3>1. k \in Nat /\ es[k] \in EntryRecord
      BY LenProperties, ElementOfSeq
    <3>2. es[k].term \in Nat /\ es[k].term <= T
      BY <1>0, <2>3, <2>5, <3>1 DEF ElectionInv, TermsBehind, Requests, EntryRecord
    <3>3. a \in SentLinks(m)
      BY <2>2, <2>3, <2>5 DEF SentLinks, EntryLinks
    <3>4. a \in Links
      BY <2>5, <3>3 DEF Links
    <3> QED BY <3>1, <3>2, <3>4
  <2>9. Unique(R) /\ Unbroken(R)
    BY DEF Grounded, LogInv, LinksUnique, Unique, TermsUnbroken, Unbroken
  <2>10. \A b \in R : b[1] \in Nat /\ b[3].term \in Nat /\ b[3].term <= T
    OBVIOUS
  <2>11. EndsFrom(es, T)
    BY <2>3, <2>5 DEF Grounded, ElectionInv, RequestsEndInTerm, Requests, LastSentTerm,
                      EndsFrom
  <2> HIDE DEF R
  <2>12. OnlyThrough(R, n, T)
    <3> DEFINE a == <<n, TermAt(l, n - 1), l[n]>>
    <3>1. a \in R /\ a[1] = n /\ a[3].term = T
      BY <1>1, <2>4, <2>7, LinkOf
    <3> HIDE DEF a
    <3> QED BY <2>9, <2>10, <3>1, OwnTermThrough
  <2>13. n \in DOMAIN l /\ l[n].term = T /\ n <= n
    BY <1>0, <1>1, <2>4, LogFacts
  <2>14. n \in DOMAIN Merge(l, p, es) /\ Merge(l, p, es)[n].term = l[n].term
    BY <2>5, <2>7, <2>8, <2>9, <2>11, <2>12, <2>13, MergeKeepsSecured
  <2> QED BY <2>6, <2>13, <2>14 DEF Has
<1>3. CASE \A k \in DOMAIN log[v] : k \in DOMAIN log'[v] /\ log'[v][k] = log[v][k]
  BY <1>1, <1>3 DEF Has
<1> QED BY <1>0, <1>2, <1>3, LogsKept

\* Who takes up a request of a leader holds what the leader's log has up to its end.
LEMMA TakesUp ==
    ASSUME Grounded, Grounded', LeadersHoldSent, [Next]_vars,
           NEW i \in Node, state[i] = Leader,
           NEW T, T = currentTerm[i], currentTerm'[i] = T,
           NEW r \in Requests, Accepts(r), r.src = i, r.term = T,
           NEW n \in DOMAIN log'[i], log'[i][n].term = T, LastSent(r) >= n
    PROVE  Has(r.dst, n, T)'
<1>0. ElectionInv /\ ElectionInv' /\ TypeOK /\ TypeOK'
  BY DEF Grounded, ElectionInv
<1>1. PICK v \in Node : v = r.dst
  BY <1>0, MessageKinds DEF Requests
<1>2. PICK d : d = LastSent(r)
  OBVIOUS
<1>3. Has(i, d, T)'
  <2>1. Has(i, d, T)
    BY <1>2 DEF LeadersHoldSent
  <2> QED BY <1>0, <2>1, LeadersLogKept DEF Has
<1>4. /\ log'[i] \in Seq(EntryRecord) /\ log'[v] \in Seq(EntryRecord)
  BY <1>0 DEF TypeOK
<1>5. /\ DOMAIN log'[i] = 1..Len(log'[i]) /\ Len(log'[i]) \in Nat
      /\ DOMAIN log'[v] = 1..Len(log'[v]) /\ Len(log'[v]) \in Nat
  BY <1>4, LenProperties
<1>6. d \in DOMAIN log'[i] /\ log'[i][d].term = T /\ d \in Nat /\ d > 0
  BY <1>3, <1>5 DEF Has
<1>7. Has(v, d, T)'
  BY <1>1, <1>2, <1>6, AcceptHas DEF Requests
<1>8. d \in DOMAIN log'[v] /\ log'[v][d].term = T
  BY <1>7 DEF Has
<1>9. Agree(log'[i], log'[v], d)
  <2>1. Within(log'[i], Links') /\ Within(log'[v], Links')
    BY DEF Within, Links
  <2>2. Unique(Links')
    BY DEF Grounded, LogInv, LinksUnique, Unique
  <2> QED BY <1>4, <1>6, <1>8, <2>1, <2>2, LinkedLogsAgree
<1>10. n \in 1..d /\ n \in DOMAIN log'[v] /\ log'[v][n] = log'[i][n]
  <2>1. n \in 1..d
    BY <1>2, <1>5, <1>6
  <2> QED BY <1>5, <1>8, <1>9, <2>1 DEF Agree
<1>11. Has(v, n, T)'
  BY <1>10 DEF Has
<1> QED BY <1>1, <1>11

\* Nobody has accepted, or been sent, what a leader does not hold.
LEMMA NobodyAhead ==
    ASSUME TypeOK, LeadersHoldSent, NEW i \in Node, state[i] = Leader,
           NEW n \in Nat, n > 0, n \notin DOMAIN log[i]
    PROVE  /\ Acceptors(i, n) = {i}
           /\ \A r \in Requests : r.src = i /\ r.term = currentTerm[i] => ~(LastSent(r) >= n)
<1>1. ASSUME NEW k, Has(i, k, currentTerm[i]) PROVE ~(k >= n)
  BY <1>1, LogFacts DEF Has
<1>2. ASSUME NEW j \in Node PROVE ~(matchIndex[i][j] >= n)
  <2>1. matchIndex[i][j] \in Nat
    BY DEF TypeOK
  <2>2. matchIndex[i][j] > 0 => Has(i, matchIndex[i][j], currentTerm[i])
    BY DEF LeadersHoldSent
  <2> QED BY <1>1, <2>1, <2>2
<1>3. ASSUME NEW m \in rpcs, Acknowledgement(m, i) PROVE ~(m.lastSent >= n)
  BY <1>1, <1>3 DEF LeadersHoldSent
<1>4. ASSUME NEW r \in Requests, r.src = i, r.term = currentTerm[i] PROVE ~(LastSent(r) >= n)
  BY <1>1, <1>4 DEF LeadersHoldSent
<1> QED BY <1>2, <1>3, <1>4 DEF Acceptors

\* Acceptors stay in the leader's term with its entries, or leave it for a greater.
LEMMA AcceptorsHoldKept ==
    ASSUME Grounded, Grounded', CreditsAmongFounders, AnswersElected, LeadersHoldSent,
           AcceptorsHold, CreditsInTerm, [Next]_vars
    PROVE  AcceptorsHold'
<1>0. /\ ElectionInv /\ ElectionInv' /\ LogInv /\ TypeOK /\ TypeOK'
  BY DEF Grounded, ElectionInv
<1> SUFFICES ASSUME NEW i \in Node, state'[i] = Leader, NEW n \in DOMAIN log'[i],
                    NEW T, T = currentTerm'[i], log'[i][n].term = T,
                    NEW j, j \in Acceptors(i, n)'
             PROVE  currentTerm'[j] >= T /\ (currentTerm'[j] = T => Has(j, n, T)')
  BY DEF AcceptorsHold
<1>1. /\ T \in Nat /\ n \in Nat /\ n > 0 /\ j \in Node /\ currentTerm'[j] \in Nat
  <2>1. log'[i] \in Seq(EntryRecord) /\ T \in Nat /\ currentTerm' \in [Node -> Nat]
    BY <1>0 DEF TypeOK
  <2>2. DOMAIN log'[i] = 1..Len(log'[i]) /\ Len(log'[i]) \in Nat
    BY <2>1, LenProperties
  <2>3. j \in Node
    BY DEF Acceptors
  <2> QED BY <2>1, <2>2, <2>3
<1>2. CASE j = i
  BY <1>1, <1>2 DEF Has
<1>3. CASE Wins(i)
  <2>1. /\ \A x \in Node : matchIndex'[i][x] = 0
        /\ \A m \in rpcs' : ~Acknowledgement(m, i)'
    BY <1>0, <1>3, WinnersBegin
  <2> QED BY <1>1, <1>2, <2>1 DEF Acceptors
<1>4. CASE state[i] = Leader /\ currentTerm'[i] = currentTerm[i]
  <2>1. CASE j \in Acceptors(i, n) /\ n \in DOMAIN log[i]
    <3>1. log[i][n].term = T
      BY <1>0, <1>4, <2>1, LeadersLogKept
    <3>2. currentTerm[j] >= T /\ (currentTerm[j] = T => Has(j, n, T))
      BY <1>4, <2>1, <3>1 DEF AcceptorsHold
    <3>3. currentTerm[j] <= currentTerm'[j] /\ currentTerm[j] \in Nat
      BY <1>0, <1>1, TermsGrow DEF TypeOK
    <3>4. ASSUME currentTerm'[j] = T PROVE Has(j, n, T)'
      BY <1>0, <1>1, <3>2, <3>3, <3>4, OwnTermKept
    <3> QED BY <1>1, <3>2, <3>3, <3>4
  <2>2. CASE j \notin Acceptors(i, n)
    <3>1. PICK r \in Requests : /\ Accepts(r) /\ r.dst = j /\ r.src = i /\ r.term = T
                                /\ LastSent(r) >= n /\ currentTerm'[j] = r.term
      BY <1>0, <1>1, <1>4, <2>2, NewAcceptor
    <3>2. Has(j, n, T)'
      BY <1>4, <3>1, TakesUp
    <3> QED BY <1>1, <3>1, <3>2
  <2>3. CASE n \notin DOMAIN log[i]
    BY <1>0, <1>1, <1>2, <1>4, <2>2, <2>3, NobodyAhead
  <2> QED BY <2>1, <2>2, <2>3
<1> QED BY <1>0, <1>3, <1>4, LeaderOrigin

\* The acceptors of an entry that is new to its leader are its leader; of any other,
\* those of before, and perhaps a node that has just taken it up and votes in no
\* greater term before it goes to one.
LEMMA AcceptorsSecureKept ==
    ASSUME Grounded, Grounded', CreditsAmongFounders, AnswersElected, LeadersHoldSent,
           AcceptorsSecure, CreditsInTerm, [Next]_vars
    PROVE  AcceptorsSecure'
<1>0. /\ ElectionInv /\ ElectionInv' /\ LogInv /\ TypeOK /\ TypeOK'
  BY DEF Grounded, ElectionInv
<1> SUFFICES ASSUME NEW i \in Node, state'[i] = Leader, NEW n \in DOMAIN log'[i],
                    NEW T, T = currentTerm'[i], log'[i][n].term = T,
                    NEW A, A = Acceptors(i, n)', Undecided(A, T)'
             PROVE  Secured(A, n, T)'
  BY DEF AcceptorsSecure
<1>1. /\ T \in Nat /\ n \in Nat /\ n > 0 /\ <<T, i>> \in elected'
      /\ log'[i] \in Seq(EntryRecord) /\ DOMAIN log'[i] = 1..Len(log'[i]) /\ Len(log'[i]) \in Nat
  <2>1. log'[i] \in Seq(EntryRecord) /\ T \in Nat
    BY <1>0 DEF TypeOK
  <2>2. <<T, i>> \in elected'
    BY <1>0 DEF ElectionInv, LeadersElected
  <2> QED BY <2>1, <2>2, LenProperties
<1>2. A \subseteq Node /\ i \in A
  BY DEF Acceptors
<1>3. CASE A = {i}
  <2>1. OwnEntriesSecured'
    BY LeadersSecure, PTL
  <2>2. Undecided({i}, currentTerm[i])'
    BY <1>3
  <2>3. Secured({i}, n, currentTerm[i])'
    BY <1>1, <2>1, <2>2 DEF OwnEntriesSecured
  <2> QED BY <1>3, <2>3
<1>4. CASE Wins(i)
  <2>1. /\ \A j \in Node : matchIndex'[i][j] = 0
        /\ \A m \in rpcs' : ~Acknowledgement(m, i)'
    BY <1>0, <1>4, WinnersBegin
  <2>2. A = {i}
    BY <1>1, <2>1 DEF Acceptors
  <2> QED BY <1>3, <2>2
<1>5. CASE state[i] = Leader /\ currentTerm'[i] = currentTerm[i]
  <2>1. ASSUME NEW v \in A, v \notin Acceptors(i, n)
        PROVE  \E r \in Requests :
                   /\ Accepts(r) /\ r.dst = v /\ r.src = i /\ r.term = T
                   /\ LastSent(r) >= n /\ currentTerm'[v] = r.term
    BY <1>0, <1>1, <1>5, <2>1, NewAcceptor
  <2>2. CASE n \notin DOMAIN log[i]
    <3>1. Acceptors(i, n) = {i} /\ \A r \in Requests : r.src = i /\ r.term = T => ~(LastSent(r) >= n)
      BY <1>0, <1>1, <1>5, <2>2, NobodyAhead
    <3>2. A = {i}
      BY <1>2, <2>1, <3>1
    <3> QED BY <1>3, <3>2
  <2>3. CASE n \in DOMAIN log[i]
    <3>1. log[i][n].term = T
      BY <1>0, <1>5, <2>3, LeadersLogKept
    <3>2. PICK B \in SUBSET Node : B = Acceptors(i, n) /\ B # {}
      BY DEF Acceptors
    <3>3. ASSUME NEW v \in A, v \notin B
          PROVE  /\ v \in Node /\ currentTerm'[v] = T
                 /\ Has(v, n, T)' /\ BallotsReach(v, n, T)'
      <4>1. PICK r \in Requests :
                /\ Accepts(r) /\ r.dst = v /\ r.src = i /\ r.term = T
                /\ LastSent(r) >= n /\ currentTerm'[v] = r.term
        BY <2>1, <3>2, <3>3
      <4>2. v \in Node /\ currentTerm'[v] = T
        BY <1>2, <3>3, <4>1
      <4>3. Has(v, n, T)'
        BY <1>5, <4>1, TakesUp
      <4>4. BallotsReach(v, n, T)'
        BY <1>0, <1>1, <4>2, NoBallotsPast
      <4> QED BY <4>2, <4>3, <4>4
    <3>4. Undecided(B, T)'
      <4>1. SUFFICES ASSUME NEW Q \in SUBSET Bootstrap, Cardinality(Q) = QuorumVotes(Bootstrap),
                            Q \cap B = {}
                     PROVE  \E q \in Q : ~(currentTerm'[q] > T)
        BY DEF Undecided
      <4>2. CASE Q \cap A = {}
        BY <4>1, <4>2 DEF Undecided
      <4>3. CASE Q \cap A # {}
        <5>1. PICK q \in Q : q \in A /\ q \notin B
          BY <4>1, <4>3
        <5> QED BY <1>1, <3>3, <5>1
      <4> QED BY <4>2, <4>3
    <3>5. Undecided(B, T)
      <4>1. SUFFICES ASSUME NEW q \in Bootstrap, ~(currentTerm'[q] > T)
                     PROVE  ~(currentTerm[q] > T)
        BY <3>4 DEF Undecided
      <4>2. /\ currentTerm[q] \in Nat /\ currentTerm'[q] \in Nat
            /\ currentTerm[q] <= currentTerm'[q]
        BY <1>0, TermsGrow, BootstrapFacts DEF TypeOK
      <4> QED BY <1>1, <4>1, <4>2
    <3>6. Secured(B, n, T)
      BY <1>5, <2>3, <3>1, <3>2, <3>5 DEF AcceptorsSecure
    <3>7. Secured(B, n, T)'
      BY <1>1, <3>2, <3>4, <3>6, SecuredKept
    <3> QED BY <3>3, <3>7 DEF Secured
  <2> QED BY <2>2, <2>3
<1> QED BY <1>0, <1>4, <1>5, LeaderOrigin

-----------------------------------------------------------------------------
(* What is known as committed.                                              *)

\* The commit index moves by a leader's count or by a request's leaderCommit.
LEMMA CommitOrigin ==
    ASSUME TypeOK, [Next]_vars, NEW i \in Node
    PROVE  \/ commitIndex'[i] = commitIndex[i]
           \/ \E m \in rpcs : /\ Accepts(m) /\ m.dst = i
                              /\ commitIndex'[i] = FollowerCommit(i, m)
           \/ \E m \in rpcs : /\ m.kind = "AppendEntriesReply" /\ m.dst = i
                              /\ state[i] = Leader /\ state' = state
                              /\ log' = log /\ currentTerm' = currentTerm
                              /\ commitIndex'[i] = LeaderCommit(i, matchIndex'[i])
<1>0. commitIndex \in [Node -> Nat]
  BY DEF TypeOK
<1>1. CASE \E x \in Node : StartElection(x)
  BY <1>1 DEF StartElection
<1>2. CASE \E m \in rpcs : HandleRequestVote(m)
  BY <1>2 DEF HandleRequestVote, RefuseStaleVote, RefuseWhileLeaderAlive, DecideVote
<1>3. CASE \E m \in rpcs : HandleRequestVoteReply(m)
  BY <1>3 DEF HandleRequestVoteReply
<1>4. CASE \E m \in rpcs : RequestVoteFails(m)
  BY <1>4 DEF RequestVoteFails
<1>5. CASE \E x, y \in Node : SendAppendEntries(x, y)
  BY <1>5 DEF SendAppendEntries
<1>6. CASE \E m \in rpcs : HandleAppendEntries(m)
  <2>1. PICK m \in rpcs : HandleAppendEntries(m)
    BY <1>6
  <2>2. m.dst \in Node
    BY MessageKinds
  <2>3. CASE Accepts(m)
    <3>1. commitIndex' = [commitIndex EXCEPT ![m.dst] = FollowerCommit(m.dst, m)]
      BY <2>3 DEF Accepts
    <3> QED BY <1>0, <2>2, <2>3, <3>1
  <2> QED BY <2>1, <2>3, HandleOutcome
<1>7. CASE \E m \in rpcs : HandleAppendEntriesReply(m)
  <2>1. PICK m \in rpcs : HandleAppendEntriesReply(m)
    BY <1>7
  <2>2. m.dst \in Node /\ m.kind = "AppendEntriesReply" /\ log' = log
    BY <2>1, MessageKinds DEF HandleAppendEntriesReply
  <2>3. \/ commitIndex' = commitIndex
        \/ /\ state[m.dst] = Leader /\ state' = state /\ currentTerm' = currentTerm
           /\ commitIndex' = [commitIndex EXCEPT ![m.dst] = LeaderCommit(m.dst, matchIndex'[m.dst])]
    BY <2>1 DEF HandleAppendEntriesReply
  <2> QED BY <1>0, <2>2, <2>3
<1>8. CASE \E m \in rpcs : AppendEntriesFails(m)
  BY <1>8 DEF AppendEntriesFails
<1>9. CASE \E m \in rpcs : AppendEntriesTimeout(m)
  BY <1>9 DEF AppendEntriesTimeout
<1>10. CASE \E x \in Node, v \in Value : Submit(x, v)
  BY <1>10 DEF Submit
<1>11. CASE \E x \in Node : StepDown(x)
  BY <1>11 DEF StepDown
<1>12. CASE UNCHANGED vars
  BY <1>12 DEF vars
<1> QED BY <1>1, <1>2, <1>3, <1>4, <1>5, <1>6, <1>7, <1>8, <1>9, <1>10, <1>11, <1>12 DEF Next

\* What is fixed stays fixed, and in the log.
LEMMA FixedKept ==
    ASSUME Grounded, Grounded', [Next]_vars,
           NEW w \in Node, NEW n \in DOMAIN log[w], Fixed(w, n)
    PROVE  /\ n \in DOMAIN log'[w] /\ log'[w][n].term = log[w][n].term
           /\ Fixed(w, n)'
<1>0. ElectionInv /\ TypeOK /\ ElectionInv'
  BY DEF Grounded, ElectionInv
<1> DEFINE t == TermAt(log[w], n)
<1>1. n # 0 /\ t \in Nat /\ t = log[w][n].term
  BY <1>0, LogFacts DEF TermAt
<1> HIDE DEF t
<1>2. PICK B \in SUBSET Bootstrap : w \in B /\ Blocking(B) /\ Secured(B, n, t)
  BY DEF Fixed, t
<1>3. B \in SUBSET Node /\ B # {}
  BY <1>2, BootstrapFacts
<1>4. SUFFICES ASSUME NEW u \in Nat, u = t
               PROVE  /\ n \in DOMAIN log'[w] /\ log'[w][n].term = u
                      /\ Fixed(w, n)'
  BY <1>1
<1>5. Secured(B, n, u)'
  BY <1>2, <1>3, <1>4, BlockersSecure
<1>6. n \in DOMAIN log'[w] /\ log'[w][n].term = u
  BY <1>2, <1>5 DEF Secured, Has
<1>7. TermAt(log'[w], n) = u
  BY <1>1, <1>6 DEF TermAt
<1>8. Fixed(w, n)'
  BY <1>2, <1>5, <1>7 DEF Fixed, Blocking
<1> QED BY <1>6, <1>8

\* An entry that a log shares with a holder of something fixed, in a term its node
\* has reached, stays in that log.
LEMMA CommittedKept ==
    ASSUME Grounded, ElectionInv', [Next]_vars, NEW v \in Node,
           NEW w \in Node, NEW n \in DOMAIN log[w], Fixed(w, n),
           log[w][n].term <= currentTerm[v],
           NEW c \in DOMAIN log[v], c <= n, log[v][c].term = log[w][c].term
    PROVE  c \in DOMAIN log'[v] /\ log'[v][c].term = log[v][c].term
<1>0. ElectionInv /\ TypeOK
  BY DEF Grounded, ElectionInv
<1>1. CASE \E m \in rpcs : Accepts(m) /\ m.dst = v
  <2>1. PICK m \in rpcs : Accepts(m) /\ m.dst = v
    BY <1>1
  <2> SUFFICES ASSUME NEW t, t = log[w][n].term
               PROVE  c \in DOMAIN log'[v] /\ log'[v][c].term = log[v][c].term
    OBVIOUS
  <2>2. m.term \in Nat /\ m.term >= currentTerm[v] /\ currentTerm[v] \in Nat /\ t \in Nat
    BY <1>0, <2>1, MessageKinds, LogFacts DEF Accepts, Requests, AppendRequestType, TypeOK
  <2>3. t <= m.term
    BY <2>2
  <2>4. Has(w, n, t) /\ OnlyThrough(Links, n, t)
    <3>1. n # 0 /\ TermAt(log[w], n) = t
      BY <1>0, LogFacts DEF TermAt
    <3> QED BY <3>1 DEF Fixed, Secured
  <2> QED BY <2>1, <2>2, <2>3, <2>4, AcceptKeeps
<1>2. CASE \A k \in DOMAIN log[v] : k \in DOMAIN log'[v] /\ log'[v][k] = log[v][k]
  BY <1>2
<1> QED BY <1>0, <1>1, <1>2, LogsKept

\* A leader's new commit index is one its majority holds.
LEMMA LeaderCommitCounted ==
    ASSUME TypeOK, NEW i \in Node, NEW match
    PROVE  \/ LeaderCommit(i, match) = commitIndex[i]
           \/ /\ LeaderCommit(i, match) \in Nat /\ LeaderCommit(i, match) > commitIndex[i]
              /\ LeaderCommit(i, match) <= Len(log[i])
              /\ Committable(i, match, LeaderCommit(i, match))
<1> DEFINE ready == {n \in (commitIndex[i] + 1)..Len(log[i]) : Committable(i, match, n)}
<1>1. CASE ready = {}
  BY <1>1 DEF LeaderCommit
<1>2. CASE ready # {}
  <2>1. commitIndex[i] \in Nat /\ Len(log[i]) \in Nat
    BY LogFacts DEF TypeOK
  <2>2. ready \in SUBSET Nat /\ \A n \in ready : n <= Len(log[i])
    BY <2>1
  <2>3. \E n \in ready : \A k \in ready : k <= n
    <3> HIDE DEF ready
    <3> QED BY <1>2, <2>1, <2>2, GreatestExists
  <2>4. LeaderCommit(i, match) = CHOOSE n \in ready : \A k \in ready : k <= n
    BY <1>2 DEF LeaderCommit
  <2>5. LeaderCommit(i, match) \in ready
    <3> HIDE DEF ready
    <3> QED BY <2>3, <2>4
  <2> QED BY <2>1, <2>5
<1> QED BY <1>1, <1>2

\* What CommitSecured says of the index c on node i.
Covered(i, c) ==
    /\ c <= Len(log[i])
    /\ \E w \in Node : \E n \in DOMAIN log[w] :
          /\ c <= n /\ log[w][n].term <= currentTerm[i]
          /\ log[w][c].term = log[i][c].term
          /\ Fixed(w, n)

\* What was covered stays so.
LEMMA CoveredKept ==
    ASSUME Grounded, Grounded', [Next]_vars, NEW i \in Node, NEW c \in Nat, c > 0, Covered(i, c)
    PROVE  /\ Covered(i, c)'
           /\ c \in DOMAIN log[i] /\ c \in DOMAIN log'[i] /\ log'[i][c].term = log[i][c].term
<1>0. ElectionInv /\ TypeOK /\ ElectionInv' /\ TypeOK'
  BY DEF Grounded, ElectionInv
<1>10. PICK w \in Node : \E n \in DOMAIN log[w] :
          /\ Fixed(w, n)
          /\ c <= n /\ log[w][n].term <= currentTerm[i]
          /\ log[w][c].term = log[i][c].term
  BY DEF Covered
<1>1. PICK n \in DOMAIN log[w] :
          /\ Fixed(w, n)
          /\ c <= n /\ log[w][n].term <= currentTerm[i]
          /\ log[w][c].term = log[i][c].term
  BY <1>10
<1>2. /\ Len(log[i]) \in Nat /\ DOMAIN log[i] = 1..Len(log[i])
      /\ Len(log[w]) \in Nat /\ DOMAIN log[w] = 1..Len(log[w])
      /\ log[w][n].term \in Nat
  BY <1>0, LogFacts
<1>3. Len(log'[i]) \in Nat /\ DOMAIN log'[i] = 1..Len(log'[i])
  <2>1. log'[i] \in Seq(EntryRecord)
    BY <1>0 DEF TypeOK
  <2> QED BY <2>1, LenProperties
<1>4. c \in DOMAIN log[i] /\ c \in DOMAIN log[w]
  BY <1>1, <1>2 DEF Covered
<1>5. c \in DOMAIN log'[i] /\ log'[i][c].term = log[i][c].term
  BY <1>1, <1>4, <1>0, CommittedKept
<1>6. c \in DOMAIN log'[w] /\ log'[w][c].term = log[w][c].term
  <2>1. log[w][n].term <= currentTerm[w]
    BY <1>0 DEF ElectionInv, TermsBehind
  <2> QED BY <1>0, <1>1, <1>4, <2>1, CommittedKept
<1>7. n \in DOMAIN log'[w] /\ log'[w][n].term = log[w][n].term /\ Fixed(w, n)'
  BY <1>1, FixedKept
<1>8. log'[w][n].term <= currentTerm'[i]
  <2>1. currentTerm[i] <= currentTerm'[i] /\ currentTerm[i] \in Nat /\ currentTerm'[i] \in Nat
    BY <1>0, TermsGrow DEF TypeOK
  <2> QED BY <1>1, <1>2, <1>7, <2>1
<1>9. c <= Len(log'[i]) /\ log'[w][c].term = log'[i][c].term
  BY <1>1, <1>3, <1>5, <1>6
<1> QED BY <1>1, <1>4, <1>5, <1>7, <1>8, <1>9 DEF Covered

\* A blocking set of founding voters that secures an entry of a node covers the
\* indexes up to it, in a term that the node has reached.
LEMMA SecuredCovers ==
    ASSUME Grounded, NEW i \in Node, NEW n \in DOMAIN log[i], NEW B \in SUBSET Bootstrap,
           i \in B, Blocking(B), Secured(B, n, TermAt(log[i], n)),
           NEW c \in Nat, c > 0, c <= n
    PROVE  Covered(i, c)
<1>0. ElectionInv /\ TypeOK
  BY DEF Grounded, ElectionInv
<1>1. Fixed(i, n)
  BY DEF Fixed
<1>2. log[i][n].term <= currentTerm[i]
  BY <1>0 DEF ElectionInv, TermsBehind
<1>3. c <= Len(log[i])
  BY <1>0, LogFacts
<1> QED BY <1>1, <1>2, <1>3 DEF Covered

\* What a leader counts is covered (updateCommitIndex): the safety of its commits.
CountsSound ==
    \A i \in Node : state[i] = Leader => \A c \in DOMAIN log[i] :
        Committable(i, matchIndex[i], c) => Covered(i, c)

\* A leader and one other voter secure what it counts, or it is a majority alone.
LEMMA CountsByMatches ==
    ASSUME Cardinality(Bootstrap) <= 4
    PROVE  Grounded /\ MatchSecured => CountsSound
<1> SUFFICES ASSUME Grounded, MatchSecured, NEW i \in Node, state[i] = Leader,
                    NEW c \in DOMAIN log[i], Committable(i, matchIndex[i], c)
             PROVE  Covered(i, c)
  BY DEF CountsSound
<1>0. ElectionInv /\ TypeOK /\ StaticConfig
  BY DEF Grounded, ElectionInv
<1>1. c \in Nat /\ c > 0 /\ TermAt(log[i], c) = log[i][c].term
  BY <1>0, LogFacts DEF TermAt
<1>2. <<currentTerm[i], i>> \in elected /\ i \in Bootstrap
  BY <1>0, LeaderFounder DEF Grounded
<1>3. /\ log[i][c].term = currentTerm[i]
      /\ Cardinality(Holders(i, matchIndex[i], c)) >= QuorumVotes(Bootstrap)
  BY <1>0, <1>2, FounderVoters DEF Committable
<1>4. Holders(i, matchIndex[i], c) = {j \in Bootstrap : j = i \/ matchIndex[i][j] >= c}
  BY <1>0, <1>2, FounderVoters DEF Holders
<1>5. CASE \E j \in Bootstrap \ {i} : matchIndex[i][j] >= c
  <2>1. PICK j \in Bootstrap \ {i} : matchIndex[i][j] >= c
    BY <1>5
  <2>2. PICK n \in Nat : n = matchIndex[i][j] /\ n > 0 /\ c <= n
    BY <1>0, <1>1, <2>1, BootstrapFacts DEF TypeOK
  <2>3. Secured({i, j}, n, TermAt(log[i], n))
    BY <2>1, <2>2, BootstrapFacts DEF MatchSecured
  <2>4. n \in DOMAIN log[i]
    BY <2>3 DEF Secured, Has
  <2>5. Blocking({i, j}) /\ {i, j} \in SUBSET Bootstrap
    BY <1>2, <2>1, TwoBlock
  <2> QED BY <1>1, <2>2, <2>3, <2>4, <2>5, SecuredCovers
<1>6. CASE ~\E j \in Bootstrap \ {i} : matchIndex[i][j] >= c
  <2>1. Holders(i, matchIndex[i], c) = {i}
    BY <1>2, <1>4, <1>6
  <2>2. Blocking({i}) /\ {i} \in SUBSET Bootstrap
    BY <1>2, <1>3, <2>1, MajorityBlocks
  <2>3. Secured({i}, c, currentTerm[i])
    <3>1. Undecided({i}, currentTerm[i])
      BY <2>2 DEF Blocking, Undecided
    <3> QED BY <1>2, <1>3, <3>1, LeadersSecure DEF OwnEntriesSecured
  <2> QED BY <1>1, <1>3, <2>2, <2>3, SecuredCovers
<1> QED BY <1>5, <1>6

\* The voters that a leader counts are a majority of acceptors, who secure the entry.
LEMMA CountedSecure ==
    ASSUME Grounded, AcceptorsSecure, NEW i \in Node, state[i] = Leader,
           NEW c \in DOMAIN log[i], Committable(i, matchIndex[i], c)
    PROVE  /\ Holders(i, matchIndex[i], c) \in SUBSET Bootstrap
           /\ i \in Holders(i, matchIndex[i], c)
           /\ Blocking(Holders(i, matchIndex[i], c))
           /\ Secured(Holders(i, matchIndex[i], c), c, currentTerm[i])
<1> DEFINE B == Holders(i, matchIndex[i], c)
<1>1. ElectionInv /\ StaticConfig
  BY DEF Grounded, ElectionInv
<1>2. i \in Bootstrap
  BY <1>1, LeaderFounder DEF Grounded
<1>3. /\ log[i][c].term = currentTerm[i]
      /\ Cardinality(B) >= QuorumVotes(Bootstrap)
  BY <1>1, <1>2, FounderVoters DEF Committable
<1>4. B \in SUBSET Bootstrap /\ i \in B /\ B \subseteq Acceptors(i, c)
  BY <1>1, <1>2, FounderVoters, BootstrapFacts DEF Holders, Acceptors
<1> HIDE DEF B
<1>5. Blocking(B)
  BY <1>3, <1>4, MajorityBlocks
<1>6. Undecided(Acceptors(i, c), currentTerm[i])
  BY <1>4, <1>5 DEF Blocking, Undecided
<1>7. Secured(Acceptors(i, c), c, currentTerm[i])
  BY <1>3, <1>6 DEF AcceptorsSecure
<1>8. Secured(B, c, currentTerm[i])
  BY <1>4, <1>7 DEF Secured
<1> QED BY <1>4, <1>5, <1>8 DEF B

LEMMA CountsByAcceptors == Grounded /\ AcceptorsSecure => CountsSound
<1> SUFFICES ASSUME Grounded, AcceptorsSecure, NEW i \in Node, state[i] = Leader,
                    NEW c \in DOMAIN log[i], Committable(i, matchIndex[i], c)
             PROVE  Covered(i, c)
  BY DEF CountsSound
<1>1. c \in Nat /\ c > 0 /\ TermAt(log[i], c) = log[i][c].term
  BY LogFacts DEF TermAt, Grounded, ElectionInv
<1>2. log[i][c].term = currentTerm[i]
  BY DEF Committable
<1> QED BY <1>1, <1>2, CountedSecure, SecuredCovers

\* Who is counted holds the leader's log up to there.
CountsHeld ==
    \A i \in Node : state[i] = Leader => \A c \in DOMAIN log[i] :
        Committable(i, matchIndex[i], c) =>
            \A j \in Holders(i, matchIndex[i], c) : Agree(log[i], log[j], c)

\* What a follower takes over from an accepted request.
LEMMA AcceptCovers ==
    ASSUME Grounded, Grounded', RequestCommitsSecured, [Next]_vars, NEW m \in rpcs, Accepts(m),
           m.leaderCommit > 0
    PROVE  Covered(m.dst, m.leaderCommit)'
<1> DEFINE c == m.leaderCommit
           i == m.dst
           d == LastSent(m)
<1>0. ElectionInv /\ TypeOK /\ ElectionInv' /\ TypeOK'
  BY DEF Grounded, ElectionInv
<1>1. /\ m \in Requests /\ i \in Node /\ m.term \in Nat /\ c \in Nat /\ d \in Nat
      /\ currentTerm'[i] = m.term
  <2>1. m \in Requests /\ currentTerm' = [currentTerm EXCEPT ![i] = m.term]
    BY DEF Accepts
  <2>2. /\ i \in Node /\ m.term \in Nat /\ c \in Nat /\ m.prevLogIndex \in Nat
        /\ m.entries \in Seq(EntryRecord) /\ currentTerm \in [Node -> Nat]
    BY <1>0, <2>1, MessageKinds DEF Requests, AppendRequestType, TypeOK
  <2>3. Len(m.entries) \in Nat
    BY <2>2, LenProperties
  <2> QED BY <2>1, <2>2, <2>3 DEF LastSent
<1>11. PICK w \in Node : \E n \in DOMAIN log[w] :
          Fixed(w, n) /\ c <= n /\ log[w][n].term <= m.term
  BY <1>1 DEF RequestCommitsSecured
<1>2. PICK n \in DOMAIN log[w] : Fixed(w, n) /\ c <= n /\ log[w][n].term <= m.term
  BY <1>11
<1>3. c <= d /\ d > 0
  BY <1>1 DEF Grounded, CommitWithinSent
<1>4. Has(i, d, m.term)'
  <2>1. SUFFICES ASSUME NEW x, x = d PROVE Has(i, x, m.term)'
    BY DEF LastSent
  <2>2. x > 0 /\ x = LastSent(m)
    BY <1>3, <2>1
  <2> QED BY <2>2, AcceptHas
<1>5. n \in DOMAIN log'[w] /\ log'[w][n].term = log[w][n].term /\ Fixed(w, n)'
  BY <1>2, FixedKept
<1>6. log'[i] \in Seq(EntryRecord) /\ log'[w] \in Seq(EntryRecord)
  BY <1>0, <1>1 DEF TypeOK
<1>7. /\ DOMAIN log'[i] = 1..Len(log'[i]) /\ Len(log'[i]) \in Nat
      /\ DOMAIN log'[w] = 1..Len(log'[w]) /\ Len(log'[w]) \in Nat
  BY <1>6, LenProperties
<1> HIDE DEF c, d
<1>8. d \in DOMAIN log'[i] /\ log'[i][d].term = m.term
  BY <1>4 DEF Has
<1>9. log'[i][c].term = log'[w][c].term
  <2> SUFFICES ASSUME NEW t, t = log'[w][n].term PROVE log'[i][c].term = log'[w][c].term
    OBVIOUS
  <2>1. t \in Nat /\ t <= m.term
    BY <1>0, <1>2, <1>5, LogFacts
  <2>2. OnlyThrough(Links', n, t)
    <3>1. n # 0 /\ TermAt(log'[w], n) = t
      BY <1>5, <1>7 DEF TermAt
    <3> QED BY <1>5, <3>1 DEF Fixed, Secured
  <2>3. Within(log'[i], Links') /\ Within(log'[w], Links')
    BY <1>1 DEF Within, Links
  <2>4. Unique(Links') /\ Unbroken(Links')
    BY DEF Grounded, LogInv, LinksUnique, Unique, TermsUnbroken
  <2>5. log'[i][d].term \in Nat /\ log'[i][d].term >= t
    BY <1>1, <1>8, <2>1
  <2>6. SUFFICES ASSUME NEW l, l = log'[i], NEW h, h = log'[w], NEW links, links = Links',
                        NEW e, e = d, NEW x, x = c
                 PROVE  l[x].term = h[x].term
    OBVIOUS
  <2>7. /\ l \in Seq(EntryRecord) /\ h \in Seq(EntryRecord)
        /\ Within(l, links) /\ Within(h, links) /\ Unique(links) /\ Unbroken(links)
    BY <1>6, <2>3, <2>4, <2>6
  <2>8. n \in DOMAIN h /\ h[n].term = t /\ OnlyThrough(links, n, t)
    BY <1>5, <2>2, <2>6
  <2>9. /\ e \in DOMAIN l /\ l[e].term \in Nat /\ l[e].term >= t
        /\ x \in Nat /\ x > 0 /\ x <= n /\ x <= e
    BY <1>1, <1>2, <1>3, <1>8, <2>5, <2>6 DEF c
  <2> QED BY ONLY <2>1, <2>7, <2>8, <2>9, MergedGoesThrough
<1>10. c <= Len(log'[i])
  BY <1>1, <1>3, <1>7, <1>8
<1> QED BY <1>1, <1>2, <1>5, <1>9, <1>10 DEF Covered, c

\* A leader moves its commit index to what it counts; a follower takes its own over
\* from a request that covers it.
LEMMA CommitSecuredKept ==
    ASSUME Grounded, Grounded', CountsSound', CommitSecured, RequestCommitsSecured, [Next]_vars
    PROVE  CommitSecured'
<1>0. ElectionInv /\ TypeOK /\ ElectionInv' /\ TypeOK'
  BY DEF Grounded, ElectionInv
<1> SUFFICES ASSUME NEW i \in Node, NEW c, c = commitIndex'[i], c > 0
             PROVE  Covered(i, c)'
  BY DEF CommitSecured, Covered
<1>1. c \in Nat /\ commitIndex[i] \in Nat
  BY <1>0 DEF TypeOK
<1>2. ASSUME c = commitIndex[i] PROVE Covered(i, c)'
  <2>1. Covered(i, c)
    BY <1>2 DEF CommitSecured, Covered
  <2> QED BY <1>1, <2>1, CoveredKept
<1>3. CASE \E m \in rpcs : /\ Accepts(m) /\ m.dst = i
                           /\ commitIndex'[i] = FollowerCommit(i, m)
  <2>1. PICK m \in rpcs : /\ Accepts(m) /\ m.dst = i
                          /\ commitIndex'[i] = FollowerCommit(i, m)
    BY <1>3
  <2>2. m \in Requests /\ m.leaderCommit \in Nat /\ LastSent(m) \in Nat
    <3>1. m \in Requests
      BY <2>1 DEF Accepts
    <3>2. m.leaderCommit \in Nat /\ m.prevLogIndex \in Nat /\ m.entries \in Seq(EntryRecord)
      BY <1>0, <3>1, MessageKinds DEF Requests, AppendRequestType
    <3>3. Len(m.entries) \in Nat
      BY <3>2, LenProperties
    <3> QED BY <3>1, <3>2, <3>3 DEF LastSent
  <2>3. m.leaderCommit <= LastSent(m)
    BY <2>2 DEF Grounded, CommitWithinSent
  <2>4. FollowerCommit(i, m) = commitIndex[i] \/ FollowerCommit(i, m) = m.leaderCommit
    BY <2>2, <2>3 DEF FollowerCommit, LastSent
  <2>5. CASE c = m.leaderCommit
    BY <2>1, <2>5, AcceptCovers
  <2> QED BY <1>2, <2>1, <2>4, <2>5
<1>4. CASE \E m \in rpcs : /\ m.kind = "AppendEntriesReply" /\ m.dst = i
                           /\ state[i] = Leader /\ state' = state
                           /\ log' = log /\ currentTerm' = currentTerm
                           /\ commitIndex'[i] = LeaderCommit(i, matchIndex'[i])
  <2>1. CASE Committable(i, matchIndex'[i], c) /\ c <= Len(log[i])
    <3>1. Committable(i, matchIndex[i], c)'
      BY <1>4, <2>1 DEF Committable, Holders, VotersOf, BootstrapOf
    <3>2. c \in DOMAIN log'[i] /\ state'[i] = Leader
      BY <1>0, <1>1, <1>4, <2>1, LogFacts
    <3> QED BY <3>1, <3>2 DEF CountsSound
  <2> QED BY <1>0, <1>2, <1>4, <2>1, LeaderCommitCounted
<1> QED BY <1>0, <1>2, <1>3, <1>4, CommitOrigin

\* A new request tells the commit index of its sender; what is fixed stays so.
LEMMA RequestCommitsSecuredKept ==
    ASSUME Grounded, Grounded', CommitSecured, RequestCommitsSecured, [Next]_vars
    PROVE  RequestCommitsSecured'
<1>0. ElectionInv
  BY DEF Grounded
<1> SUFFICES ASSUME NEW m \in Requests', m.leaderCommit > 0
             PROVE  \E w \in Node : \E n \in DOMAIN log'[w] :
                        Fixed(w, n)' /\ m.leaderCommit <= n /\ log'[w][n].term <= m.term
  BY DEF RequestCommitsSecured
<1>1. \E w \in Node : \E n \in DOMAIN log[w] :
          Fixed(w, n) /\ m.leaderCommit <= n /\ log[w][n].term <= m.term
  <2>1. CASE \E r \in Requests : m.term = r.term /\ m.leaderCommit = r.leaderCommit
    BY <2>1 DEF RequestCommitsSecured
  <2>2. CASE m.src \in Node /\ m.term = currentTerm[m.src] /\ m.leaderCommit = commitIndex[m.src]
    BY <2>2 DEF CommitSecured
  <2> QED BY <1>0, <2>1, <2>2, RequestOrigin
<1>4. PICK w \in Node : \E n \in DOMAIN log[w] :
          Fixed(w, n) /\ m.leaderCommit <= n /\ log[w][n].term <= m.term
  BY <1>1
<1>2. PICK n \in DOMAIN log[w] :
          Fixed(w, n) /\ m.leaderCommit <= n /\ log[w][n].term <= m.term
  BY <1>4
<1>3. n \in DOMAIN log'[w] /\ log'[w][n].term = log[w][n].term /\ Fixed(w, n)'
  BY <1>2, FixedKept
<1> QED BY <1>2, <1>3

-----------------------------------------------------------------------------
(* The invariant.                                                           *)

\* At first there are no links, no messages and nothing committed or matched.
LEMMA InitCommits ==
    ASSUME Init
    PROVE  /\ CommitCore
           /\ rpcs = {} /\ Requests = {} /\ \A i, j \in Node : ~(matchIndex[i][j] > 0)
<1>1. rpcs = {} /\ Requests = {} /\ granted = {}
  BY DEF Init, Requests
<1>2. Links = {}
  <2>1. \A i \in Node : LogLinks(log[i]) = {}
    BY DEF Init, LogLinks
  <2> QED BY <1>1, <2>1 DEF Links
<1>3. VotesAsked /\ VoteRequestsSound /\ AmongFounders /\ CommitWithinSent
  BY <1>1 DEF VotesAsked, VoteRequestsSound, AmongFounders, CommitWithinSent
<1>4. LinksAscend /\ TermsUnbroken
  BY <1>2 DEF LinksAscend, Ascending, TermsUnbroken, Unbroken
<1>5. \A i, j \in Node : ~(matchIndex[i][j] > 0)
  BY DEF Init
<1>6. CommitSecured /\ RequestCommitsSecured
  <2>1. \A i \in Node : ~(commitIndex[i] > 0)
    BY DEF Init
  <2> QED BY <1>1, <2>1 DEF CommitSecured, RequestCommitsSecured
<1> QED BY <1>1, <1>3, <1>4, <1>5, <1>6 DEF CommitCore

\* The facts on which both inductive steps stand.
LEMMA CommitsGrounded ==
    ASSUME ElectionInv, ElectionInv', LogInv, LogInv', CommitCore, [Next]_vars
    PROVE  Grounded /\ Grounded'
<1>1. VotesAsked' /\ VoteRequestsSound' /\ AmongFounders'
  BY VotesAskedKept, VoteRequestsSoundKept, AmongFoundersKept DEF CommitCore
<1>2. CommitWithinSent' /\ LinksAscend' /\ TermsUnbroken'
  BY CommitWithinSentKept, LinksAscendKept, TermsUnbrokenKept DEF CommitCore
<1> QED BY <1>1, <1>2 DEF CommitCore, Grounded

\* Where leaders count what is covered, only that is committed.
LEMMA CommitCoreKept ==
    ASSUME Grounded, Grounded', CommitCore, CountsSound', [Next]_vars
    PROVE  CommitCore'
<1>1. CommitSecured' /\ RequestCommitsSecured'
  BY CommitSecuredKept, RequestCommitsSecuredKept DEF CommitCore
<1> QED BY <1>1 DEF CommitCore, Grounded

\* One conjunct after the other, on what the earlier ones say of both states.
LEMMA NextCommitInv ==
    ASSUME Cardinality(Bootstrap) <= 4, ElectionInv, ElectionInv', LogInv, LogInv',
           CommitInv, [Next]_vars
    PROVE  CommitInv'
<1>1. Grounded /\ Grounded'
  BY CommitsGrounded DEF CommitInv
<1>2. PendingSecured'
  BY <1>1, PendingSecuredKept DEF CommitInv
<1>3. RepliesSecured'
  BY <1>1, RepliesSecuredKept DEF CommitInv
<1>4. MatchSecured'
  BY <1>1, MatchSecuredKept DEF CommitInv
<1>5. CountsSound'
  <2>1. (Grounded /\ MatchSecured => CountsSound)'
    BY CountsByMatches, PTL
  <2> QED BY <1>1, <1>4, <2>1
<1>6. CommitCore'
  BY <1>1, <1>5, CommitCoreKept DEF CommitInv
<1> QED BY <1>2, <1>3, <1>4, <1>6 DEF CommitInv

\* Whatever is counted and told as committed is secured, in every reachable state of
\* a cluster of at most four voters (replication.go:155-183, service.go:91-97).
THEOREM CommitInvariant ==
    ASSUME Cardinality(Bootstrap) <= 4
    PROVE  Spec => []CommitInv
<1>1. Init => CommitInv
  BY InitCommits DEF CommitInv, PendingSecured, RepliesSecured, MatchSecured
<1>2. ElectionInv /\ ElectionInv' /\ LogInv /\ LogInv' /\ CommitInv /\ [Next]_vars => CommitInv'
  BY NextCommitInv
<1> QED BY <1>1, <1>2, ElectionInvariant, LogInvariant, PTL DEF Spec

\* A leader that has been told nothing secures its entries alone.
LEMMA InitCreditInv == Init => CreditInv
<1> SUFFICES ASSUME Init PROVE CreditInv
  OBVIOUS
<1>1. CommitCore /\ rpcs = {} /\ Requests = {} /\ \A i, j \in Node : ~(matchIndex[i][j] > 0)
  BY InitCommits
<1>2. CreditsAmongFounders /\ AnswersElected
  BY <1>1 DEF CreditsAmongFounders, AnswersElected
<1>3. \A i \in Node : state[i] # Leader
  BY DEF Init, Leader, Follower
<1> QED BY <1>1, <1>2, <1>3 DEF CreditInv, LeadersHoldSent, AcceptorsHold, AcceptorsSecure

\* The same for what a leader is told in its term.
LEMMA NextCreditInv ==
    ASSUME ElectionInv, ElectionInv', LogInv, LogInv', CreditInv, CreditsInTerm, [Next]_vars
    PROVE  CreditInv'
<1>1. Grounded /\ Grounded'
  BY CommitsGrounded DEF CreditInv
<1>2. CreditsAmongFounders' /\ AnswersElected' /\ LeadersHoldSent'
  BY <1>1, CreditsAmongFoundersKept, AnswersElectedKept, LeadersHoldSentKept DEF CreditInv
<1>3. AcceptorsHold' /\ AcceptorsSecure'
  BY <1>1, AcceptorsHoldKept, AcceptorsSecureKept DEF CreditInv
<1>4. CountsSound'
  <2>1. (Grounded /\ AcceptorsSecure => CountsSound)'
    BY CountsByAcceptors, PTL
  <2> QED BY <1>1, <1>3, <2>1
<1>5. CommitCore'
  BY <1>1, <1>4, CommitCoreKept DEF CreditInv
<1> QED BY <1>2, <1>3, <1>5 DEF CreditInv

\* Who has accepted a leader's entries secures them, and only that is committed, in
\* a cluster of any size whose leaders credit replies in their term alone
\* (replication.go:90-115 checks rf.state, and not the term of the request).
THEOREM CreditInvariant == CreditSpec => []CreditInv
<1>1. Init => CreditInv
  BY InitCreditInv
<1>2. /\ ElectionInv /\ ElectionInv' /\ LogInv /\ LogInv' /\ CreditInv
      /\ [Next]_vars /\ [CreditsInTerm]_vars
      => CreditInv'
  <2> SUFFICES ASSUME ElectionInv, ElectionInv', LogInv, LogInv', CreditInv,
                      [Next]_vars, [CreditsInTerm]_vars
               PROVE  CreditInv'
    OBVIOUS
  <2>1. CreditsInTerm
    <3>1. CASE UNCHANGED vars
      BY <3>1 DEF CreditsInTerm, HandleAppendEntriesReply, vars
    <3> QED BY <3>1
  <2> QED BY <2>1, NextCreditInv
<1> QED BY <1>1, <1>2, ElectionInvariant, LogInvariant, PTL DEF CreditSpec, Spec

-----------------------------------------------------------------------------
(* What follows from it in every state.                                     *)

\* Two positions that are fixed are on every log that holds the further one.
LEMMA FixedCommon ==
    ASSUME Grounded, NEW v \in Node, NEW n \in DOMAIN log[v], Fixed(v, n),
           NEW w \in Node, NEW k \in DOMAIN log[w], Reaches(k, log[w][k].term, n, log[v][n].term)
    PROVE  n <= k /\ Agree(log[w], log[v], n)
<1> DEFINE t == log[v][n].term
<1>0. ElectionInv /\ TypeOK /\ Unique(Links)
  BY DEF Grounded, ElectionInv, LogInv, LinksUnique, Unique
<1>1. /\ log[v] \in Seq(EntryRecord) /\ log[w] \in Seq(EntryRecord)
      /\ DOMAIN log[v] = 1..Len(log[v]) /\ Len(log[v]) \in Nat
      /\ t \in Nat
  BY <1>0, LogFacts
<1>2. n \in Nat /\ n > 0
  BY <1>1
<1>3. OnlyThrough(Links, n, t)
  <2>1. TermAt(log[v], n) = t
    BY <1>2 DEF TermAt
  <2> QED BY <2>1 DEF Fixed, Secured
<1>4. Within(log[w], Links) /\ Within(log[v], Links)
  BY LogWithin
<1> HIDE DEF t
<1>5. n \in DOMAIN log[w] /\ n <= k /\ log[w][n].term = t
  <2>1. SUFFICES ASSUME NEW l, l = log[w]
                 PROVE  n \in DOMAIN l /\ n <= k /\ l[n].term = t
    OBVIOUS
  <2>2. l \in Seq(EntryRecord) /\ Within(l, Links) /\ k \in DOMAIN l /\ Reaches(k, l[k].term, n, t)
    BY <1>1, <1>4, <2>1 DEF t
  <2> QED BY ONLY <1>1, <1>2, <1>3, <2>2, LogGoesThrough
<1>6. Agree(log[w], log[v], n)
  BY <1>0, <1>1, <1>4, <1>5, LinkedLogsAgree DEF t
<1> QED BY <1>5, <1>6

\* Logs agree as far as they are covered.
LEMMA CoveredAgree ==
    ASSUME Grounded, NEW i \in Node, NEW j \in Node, NEW c \in Nat, NEW d \in Nat,
           c > 0, c <= d, Covered(i, c), Covered(j, d)
    PROVE  Agree(log[i], log[j], c)
<1>0. ElectionInv /\ TypeOK /\ LogMatching
  BY UniqueLinksMatch DEF Grounded, ElectionInv, LogInv
<1>1. PICK v \in Node : \E n \in DOMAIN log[v] :
          Fixed(v, n) /\ c <= n /\ log[v][c].term = log[i][c].term
  BY DEF Covered
<1>2. PICK n \in DOMAIN log[v] : Fixed(v, n) /\ c <= n /\ log[v][c].term = log[i][c].term
  BY <1>1
<1>3. PICK w \in Node : \E k \in DOMAIN log[w] :
          Fixed(w, k) /\ d <= k /\ log[w][d].term = log[j][d].term
  BY DEF Covered
<1>4. PICK k \in DOMAIN log[w] : Fixed(w, k) /\ d <= k /\ log[w][d].term = log[j][d].term
  BY <1>3
<1>5. /\ DOMAIN log[v] = 1..Len(log[v]) /\ Len(log[v]) \in Nat
      /\ DOMAIN log[w] = 1..Len(log[w]) /\ Len(log[w]) \in Nat
      /\ DOMAIN log[i] = 1..Len(log[i]) /\ Len(log[i]) \in Nat
      /\ DOMAIN log[j] = 1..Len(log[j]) /\ Len(log[j]) \in Nat
      /\ log[v][n].term \in Nat /\ log[w][k].term \in Nat
  BY <1>0, LogFacts
<1>6. /\ n \in Nat /\ k \in Nat /\ c \in DOMAIN log[i] /\ c \in DOMAIN log[v]
      /\ d \in DOMAIN log[j] /\ d \in DOMAIN log[w] /\ c \in DOMAIN log[j] /\ c \in DOMAIN log[w]
  BY <1>2, <1>4, <1>5 DEF Covered
<1>7. log[v][c] = log[w][c]
  <2>1. CASE Reaches(k, log[w][k].term, n, log[v][n].term)
    <3>1. Agree(log[w], log[v], n)
      BY <1>2, <2>1, FixedCommon
    <3>2. c \in 1..n
      BY <1>2, <1>6
    <3> QED BY <3>1, <3>2 DEF Agree
  <2>2. CASE Reaches(n, log[v][n].term, k, log[w][k].term)
    <3>1. Agree(log[v], log[w], k)
      BY <1>4, <2>2, FixedCommon
    <3>2. c \in 1..k
      BY <1>4, <1>6
    <3> QED BY <3>1, <3>2 DEF Agree
  <2>3. \/ Reaches(k, log[w][k].term, n, log[v][n].term)
        \/ Reaches(n, log[v][n].term, k, log[w][k].term)
    BY <1>5, <1>6 DEF Reaches
  <2> QED BY <2>1, <2>2, <2>3
<1>8. log[j][c] = log[w][c]
  <2>1. Agree(log[j], log[w], d)
    BY <1>0, <1>4, <1>6 DEF LogMatching
  <2>2. c \in 1..d
    OBVIOUS
  <2> QED BY <2>1, <2>2 DEF Agree
<1>9. log[i][c].term = log[j][c].term
  BY <1>2, <1>7, <1>8
<1> QED BY <1>0, <1>6, <1>9 DEF LogMatching

\* Nothing is all that two logs need not agree on.
LEMMA NothingAgrees ==
    ASSUME TypeOK, NEW i \in Node, NEW j \in Node
    PROVE  Agree(log[i], log[j], 0)
BY LogFacts DEF Agree

\* What two nodes know as committed is part of what is fixed, in logs that contain
\* one another up to there (FixedCommon), so it is the same.
LEMMA CommitsAgree == Grounded /\ CommitSecured => StateMachineSafety
<1> SUFFICES ASSUME Grounded, CommitSecured, NEW i \in Node, NEW j \in Node,
                    commitIndex[i] <= commitIndex[j]
             PROVE  Agree(log[i], log[j], commitIndex[i])
  BY DEF StateMachineSafety
<1>0. TypeOK /\ commitIndex[i] \in Nat /\ commitIndex[j] \in Nat
  BY DEF Grounded, ElectionInv, TypeOK
<1>1. CASE commitIndex[i] = 0
  BY <1>0, <1>1, NothingAgrees
<1>2. CASE commitIndex[i] > 0
  <2>1. commitIndex[j] > 0
    BY <1>0, <1>2
  <2>2. Covered(i, commitIndex[i]) /\ Covered(j, commitIndex[j])
    BY <1>2, <2>1 DEF CommitSecured, Covered
  <2> QED BY <1>0, <1>2, <2>2, CoveredAgree
<1> QED BY <1>0, <1>1, <1>2

\* The log of a leader that has reached the term of a fixed entry has come past it,
\* hence through it.
LEMMA LeaderHoldsFixed ==
    ASSUME Grounded, NEW i \in Node, state[i] = Leader,
           NEW w \in Node, NEW n \in DOMAIN log[w], Fixed(w, n),
           log[w][n].term <= currentTerm[i]
    PROVE  Agree(log[i], log[w], n)
<1>0. ElectionInv /\ TypeOK /\ LogInv
  BY DEF Grounded, ElectionInv
<1>1. /\ DOMAIN log[i] = 1..Len(log[i]) /\ Len(log[i]) \in Nat
      /\ DOMAIN log[w] = 1..Len(log[w]) /\ Len(log[w]) \in Nat
      /\ log[w][n].term \in Nat /\ currentTerm[i] \in Nat
  BY <1>0, LogFacts DEF TypeOK
<1> DEFINE e == <<currentTerm[i], i>>
<1>2. e \in elected /\ e[1] = currentTerm[e[2]] /\ e[2] = i /\ e[1] = currentTerm[i]
  BY <1>0 DEF ElectionInv, LeadersElected
<1> HIDE DEF e
<1>3. LastTerm(log[i]) = currentTerm[i] /\ currentTerm[i] > 0
  BY <1>0, <1>2, ElectedFounder DEF Grounded, ElectionInv, ElectedLogEnds
<1>4. /\ Len(log[i]) \in DOMAIN log[i]
      /\ log[i][Len(log[i])].term = currentTerm[i]
  <2>1. Len(log[i]) # 0
    BY <1>3 DEF LastTerm, TermAt
  <2> QED BY <1>1, <1>3, <2>1 DEF LastTerm, TermAt
<1>5. Reaches(Len(log[i]), log[i][Len(log[i])].term, n, log[w][n].term)
  <2>1. CASE log[w][n].term = currentTerm[i]
    <3> DEFINE a == <<n, TermAt(log[w], n - 1), log[w][n]>>
    <3>1. a \in Links /\ a[1] = n /\ a[3].term = log[w][n].term
      BY LogWithin, LinkOf
    <3> HIDE DEF a
    <3>2. n <= Len(log[i])
      BY <1>0, <1>2, <2>1, <3>1 DEF LogInv, LeaderHolds
    <3> QED BY <1>1, <1>4, <2>1, <3>2 DEF Reaches
  <2>2. CASE log[w][n].term # currentTerm[i]
    BY <1>1, <1>4, <2>2 DEF Reaches
  <2> QED BY <2>1, <2>2
<1> QED BY <1>4, <1>5, FixedCommon

\* A leader of the highest term has reached the term of every fixed entry.
LEMMA LeadersComplete == Grounded /\ CommitSecured => LeaderCompleteness
<1> SUFFICES ASSUME Grounded, CommitSecured, NEW i \in Node, NEW j \in Node,
                    state[i] = Leader, \A k \in Node : currentTerm[k] <= currentTerm[i]
             PROVE  Agree(log[i], log[j], commitIndex[j])
  BY DEF LeaderCompleteness
<1>0. ElectionInv /\ TypeOK /\ LogMatching /\ LogInv /\ commitIndex[j] \in Nat
  BY UniqueLinksMatch DEF Grounded, ElectionInv, LogInv, TypeOK
<1>1. CASE commitIndex[j] = 0
  BY <1>0, <1>1, NothingAgrees
<1>2. CASE commitIndex[j] > 0
  <2> SUFFICES ASSUME NEW c \in Nat, c > 0, Covered(j, c) PROVE Agree(log[i], log[j], c)
    BY <1>0, <1>2 DEF CommitSecured, Covered
  <2>1. PICK w \in Node : \E n \in DOMAIN log[w] :
            Fixed(w, n) /\ c <= n /\ log[w][c].term = log[j][c].term
    BY DEF Covered
  <2>2. PICK n \in DOMAIN log[w] : Fixed(w, n) /\ c <= n /\ log[w][c].term = log[j][c].term
    BY <2>1
  <2>3. /\ DOMAIN log[i] = 1..Len(log[i]) /\ Len(log[i]) \in Nat
        /\ DOMAIN log[j] = 1..Len(log[j]) /\ Len(log[j]) \in Nat
        /\ DOMAIN log[w] = 1..Len(log[w]) /\ Len(log[w]) \in Nat
        /\ log[w][n].term \in Nat /\ currentTerm[i] \in Nat /\ currentTerm[w] \in Nat
    BY <1>0, LogFacts DEF TypeOK
  <2>4. log[w][n].term <= currentTerm[i]
    <3>1. log[w][n].term <= currentTerm[w] /\ currentTerm[w] <= currentTerm[i]
      BY <1>0 DEF ElectionInv, TermsBehind
    <3> QED BY <2>3, <3>1
  <2>5. Agree(log[i], log[w], n)
    BY <2>2, <2>4, LeaderHoldsFixed
  <2>6. c \in 1..n /\ c \in DOMAIN log[i] /\ c \in DOMAIN log[j]
    <3>1. c <= Len(log[j]) /\ n <= Len(log[i])
      BY <2>5 DEF Covered, Agree
    <3> QED BY <2>2, <2>3, <3>1
  <2>7. log[i][c].term = log[j][c].term
    BY <2>2, <2>5, <2>6 DEF Agree
  <2> QED BY <1>0, <2>6, <2>7 DEF LogMatching
<1> QED BY <1>0, <1>1, <1>2

\* What a leader counts for a follower is a position both logs hold.
LEMMA MatchedAgree ==
    ASSUME Grounded, MatchSecured, NEW i \in Node, NEW j \in Node
    PROVE  Agree(log[i], log[j], matchIndex[i][j])
<1>0. TypeOK /\ LogMatching /\ matchIndex[i][j] \in Nat
  BY UniqueLinksMatch DEF Grounded, ElectionInv, LogInv, TypeOK
<1>1. CASE matchIndex[i][j] = 0
  BY <1>0, <1>1, NothingAgrees
<1>2. CASE matchIndex[i][j] > 0
  <2>1. Secured({i, j}, matchIndex[i][j], TermAt(log[i], matchIndex[i][j]))
    BY <1>2 DEF MatchSecured
  <2>2. /\ Has(i, matchIndex[i][j], TermAt(log[i], matchIndex[i][j]))
        /\ Has(j, matchIndex[i][j], TermAt(log[i], matchIndex[i][j]))
    BY <2>1 DEF Secured
  <2> QED BY <1>0, <2>2 DEF Has, LogMatching
<1> QED BY <1>0, <1>1, <1>2

LEMMA MatchesAgree == Grounded /\ MatchSecured => MatchIndexSound
BY MatchedAgree DEF MatchIndexSound

\* Who has accepted a leader's entries has them, while it is in the leader's term.
LEMMA CreditsAgree == Grounded /\ LeadersHoldSent /\ AcceptorsHold => MatchIndexSound
<1> SUFFICES ASSUME Grounded, LeadersHoldSent, AcceptorsHold, NEW i \in Node, NEW j \in Node,
                    state[i] = Leader, i # j, currentTerm[j] = currentTerm[i]
             PROVE  Agree(log[i], log[j], matchIndex[i][j])
  BY DEF MatchIndexSound
<1>0. TypeOK /\ LogMatching /\ matchIndex[i][j] \in Nat
  BY UniqueLinksMatch DEF Grounded, ElectionInv, LogInv, TypeOK
<1>1. CASE matchIndex[i][j] = 0
  BY <1>0, <1>1, NothingAgrees
<1>2. CASE matchIndex[i][j] > 0
  <2>1. Has(i, matchIndex[i][j], currentTerm[i])
    BY <1>2 DEF LeadersHoldSent
  <2>2. j \in Acceptors(i, matchIndex[i][j])
    BY <1>0 DEF Acceptors
  <2>3. Has(j, matchIndex[i][j], currentTerm[i])
    BY <2>1, <2>2 DEF AcceptorsHold, Has
  <2> QED BY <1>0, <2>1, <2>3 DEF Has, LogMatching
<1> QED BY <1>0, <1>1, <1>2

\* Up to its match index a follower's log is the leader's.
LEMMA HeldByMatches == Grounded /\ MatchSecured => CountsHeld
<1> SUFFICES ASSUME Grounded, MatchSecured, NEW i \in Node, state[i] = Leader,
                    NEW c \in DOMAIN log[i], NEW j \in Holders(i, matchIndex[i], c)
             PROVE  Agree(log[i], log[j], c)
  BY DEF CountsHeld
<1>1. TypeOK /\ StaticConfig /\ i \in Bootstrap
  BY LeaderFounder DEF Grounded, ElectionInv
<1>2. j \in Node /\ (j = i \/ matchIndex[i][j] >= c)
  BY <1>1, FounderVoters, BootstrapFacts DEF Holders
<1>3. /\ DOMAIN log[i] = 1..Len(log[i]) /\ Len(log[i]) \in Nat /\ c \in Nat
      /\ Len(log[j]) \in Nat
  BY <1>1, <1>2, LogFacts
<1>4. CASE j = i
  BY <1>3, <1>4 DEF Agree
<1>5. CASE matchIndex[i][j] >= c
  <2>1. Agree(log[i], log[j], matchIndex[i][j]) /\ matchIndex[i][j] \in Nat
    BY <1>1, <1>2, MatchedAgree DEF TypeOK
  <2> QED BY <1>3, <1>5, <2>1 DEF Agree
<1> QED BY <1>2, <1>4, <1>5

\* Who has accepted an entry that is counted holds it.
LEMMA HeldByAcceptors == Grounded /\ AcceptorsSecure => CountsHeld
<1> SUFFICES ASSUME Grounded, AcceptorsSecure, NEW i \in Node, state[i] = Leader,
                    NEW c \in DOMAIN log[i], Committable(i, matchIndex[i], c),
                    NEW j \in Holders(i, matchIndex[i], c)
             PROVE  Agree(log[i], log[j], c)
  BY DEF CountsHeld
<1>1. LogMatching
  BY UniqueLinksMatch DEF Grounded, ElectionInv, LogInv
<1>2. /\ j \in Node /\ Has(i, c, currentTerm[i]) /\ Has(j, c, currentTerm[i])
  BY CountedSecure, BootstrapFacts DEF Secured
<1> QED BY <1>1, <1>2 DEF Has, LogMatching

-----------------------------------------------------------------------------
(* And of every step.                                                       *)

\* A leader's commit index only rises (updateCommitIndex); a follower that
\* accepts a request has a log that reaches its own commit index, and takes no less.
LEMMA CommitGrows ==
    ASSUME ElectionInv, CommitWithinSent, [Next]_vars, NEW i \in Node
    PROVE  commitIndex[i] <= commitIndex'[i]
<1>0. TypeOK /\ commitIndex[i] \in Nat
  BY DEF ElectionInv, TypeOK
<1>1. CASE commitIndex'[i] = commitIndex[i]
  BY <1>0, <1>1
<1>2. CASE \E m \in rpcs : Accepts(m) /\ m.dst = i /\ commitIndex'[i] = FollowerCommit(i, m)
  <2>1. PICK m \in rpcs : Accepts(m) /\ m.dst = i /\ commitIndex'[i] = FollowerCommit(i, m)
    BY <1>2
  <2>2. m \in Requests /\ m.leaderCommit \in Nat /\ LastSent(m) \in Nat
    <3>1. m \in Requests
      BY <2>1 DEF Accepts
    <3>2. m.leaderCommit \in Nat /\ m.prevLogIndex \in Nat /\ m.entries \in Seq(EntryRecord)
      BY <1>0, <3>1, MessageKinds DEF Requests, AppendRequestType
    <3>3. Len(m.entries) \in Nat
      BY <3>2, LenProperties
    <3> QED BY <3>1, <3>2, <3>3 DEF LastSent
  <2>3. m.leaderCommit <= LastSent(m)
    BY <2>2 DEF CommitWithinSent
  <2> QED BY <1>0, <2>1, <2>2, <2>3 DEF FollowerCommit, LastSent
<1>3. CASE \E m \in rpcs : /\ m.kind = "AppendEntriesReply" /\ m.dst = i
                           /\ state[i] = Leader /\ state' = state
                           /\ log' = log /\ currentTerm' = currentTerm
                           /\ commitIndex'[i] = LeaderCommit(i, matchIndex'[i])
  <2>1. \/ LeaderCommit(i, matchIndex'[i]) = commitIndex[i]
        \/ /\ LeaderCommit(i, matchIndex'[i]) \in Nat
           /\ LeaderCommit(i, matchIndex'[i]) > commitIndex[i]
    BY <1>0, LeaderCommitCounted
  <2> QED BY <1>0, <1>3, <2>1
<1> QED BY <1>0, <1>1, <1>2, <1>3, CommitOrigin

\* Up to an entry of the same term before and after a step, a log is the same.
LEMMA LogsKeptAgree ==
    ASSUME Grounded, Grounded', [Next]_vars, NEW i \in Node,
           NEW c \in DOMAIN log[i], c \in DOMAIN log'[i], log'[i][c].term = log[i][c].term
    PROVE  Agree(log[i], log'[i], c)
<1>0. ElectionInv /\ ElectionInv' /\ TypeOK /\ Unique(Links)
  BY DEF Grounded, ElectionInv, LogInv, LinksUnique, Unique
<1>1. log[i] \in Seq(EntryRecord) /\ log'[i] \in Seq(EntryRecord)
  BY <1>0 DEF ElectionInv, TypeOK
<1>2. /\ DOMAIN log[i] = 1..Len(log[i]) /\ Len(log[i]) \in Nat
      /\ DOMAIN log'[i] = 1..Len(log'[i]) /\ Len(log'[i]) \in Nat
  BY <1>1, LenProperties
<1>3. CASE \E m \in rpcs : Accepts(m) /\ m.dst = i
  <2>1. LogLinks(log'[i]) \subseteq Links
    BY <1>0, <1>3, AcceptedLinks
  <2>2. Within(log'[i], Links) /\ Within(log[i], Links)
    BY <2>1, LogWithin DEF Within
  <2> QED BY <1>0, <1>1, <2>2, LinkedLogsAgree
<1>4. CASE \A k \in DOMAIN log[i] : k \in DOMAIN log'[i] /\ log'[i][k] = log[i][k]
  <2>1. c <= Len(log[i]) /\ c <= Len(log'[i]) /\ \A k \in 1..c : k \in DOMAIN log[i]
    BY <1>2
  <2> QED BY <1>4, <2>1 DEF Agree
<1> QED BY <1>0, <1>3, <1>4, LogsKept

\* No step changes an entry a node knows as committed: its log reaches past a fixed
\* position only through it.
LEMMA CommitsKept ==
    ASSUME Grounded, Grounded', CommitSecured, [Next]_vars, NEW i \in Node
    PROVE  /\ commitIndex'[i] >= commitIndex[i]
           /\ Agree(log[i], log'[i], commitIndex[i])
<1>0. /\ ElectionInv /\ TypeOK /\ CommitWithinSent /\ commitIndex[i] \in Nat /\ commitIndex'[i] \in Nat
      /\ log[i] \in Seq(EntryRecord) /\ log'[i] \in Seq(EntryRecord)
  BY DEF Grounded, ElectionInv, TypeOK
<1>1. commitIndex'[i] >= commitIndex[i]
  BY <1>0, CommitGrows
<1>2. CASE commitIndex[i] = 0
  <2>1. Len(log[i]) \in Nat /\ Len(log'[i]) \in Nat
    BY <1>0, LenProperties
  <2> QED BY <1>1, <1>2, <2>1 DEF Agree
<1>3. CASE commitIndex[i] > 0
  <2> SUFFICES ASSUME NEW c \in Nat, c > 0, Covered(i, c) PROVE Agree(log[i], log'[i], c)
    BY <1>0, <1>1, <1>3 DEF CommitSecured, Covered
  <2>1. c \in DOMAIN log[i] /\ c \in DOMAIN log'[i] /\ log'[i][c].term = log[i][c].term
    BY CoveredKept
  <2> QED BY <2>1, LogsKeptAgree
<1> QED BY <1>0, <1>2, <1>3

\* A leader that moves its commit index is backed: who it counts holds its log.
LEMMA CountBacked ==
    ASSUME Grounded, Grounded', CountsHeld', [Next]_vars, NEW i \in Node,
           state'[i] = Leader, commitIndex'[i] > commitIndex[i]
    PROVE  Cardinality({j \in VotersOf(i) : Agree(log[i], log[j], commitIndex'[i])})
               >= QuorumVotes(VotersOf(i))
<1> DEFINE c == commitIndex'[i]
           B == Holders(i, matchIndex'[i], c)
           A == {j \in VotersOf(i) : Agree(log[i], log[j], c)}
<1>0. /\ ElectionInv /\ ElectionInv' /\ TypeOK /\ StaticConfig
      /\ commitIndex[i] \in Nat /\ c \in Nat
  BY DEF Grounded, ElectionInv, TypeOK
<1>1. c > commitIndex[i]
  OBVIOUS
<1>2. state[i] = Leader /\ currentTerm'[i] = currentTerm[i]
  <2>1. ~Wins(i)
    BY <1>0, <1>1 DEF Wins
  <2> QED BY <1>0, <2>1, LeaderOrigin
<1>3. ~\E m \in rpcs : Accepts(m) /\ m.dst = i
  BY <1>0, <1>2, LeadersLogKept
<1>4. log' = log /\ currentTerm' = currentTerm /\ c = LeaderCommit(i, matchIndex'[i])
  <2>1. ~(commitIndex'[i] = commitIndex[i])
    BY <1>0, <1>1
  <2> QED BY <1>0, <1>3, <2>1, CommitOrigin
<1>5. Committable(i, matchIndex'[i], c) /\ c \in DOMAIN log[i]
  <2>1. c # commitIndex[i] /\ c > 0
    BY <1>0, <1>1
  <2>2. Committable(i, matchIndex'[i], c) /\ c <= Len(log[i])
    BY <1>0, <1>4, <2>1, LeaderCommitCounted
  <2> QED BY <1>0, <2>1, <2>2, LogFacts
<1>6. \A j \in B : Agree(log[i], log[j], c)
  <2> SUFFICES ASSUME NEW n, n = c
               PROVE  \A j \in Holders(i, matchIndex'[i], n) : Agree(log[i], log[j], n)
    OBVIOUS
  <2>1. Committable(i, matchIndex[i], n)'
    BY <1>4, <1>5 DEF Committable, Holders, VotersOf, BootstrapOf
  <2>2. \A j \in Holders(i, matchIndex[i], n)' : Agree(log'[i], log'[j], n)
    BY <1>4, <1>5, <2>1 DEF CountsHeld
  <2> QED BY <1>4, <2>2 DEF Holders, VotersOf, BootstrapOf
<1>7. B \in SUBSET A /\ Cardinality(B) >= QuorumVotes(VotersOf(i))
  BY <1>5, <1>6 DEF Committable, Holders
<1>8. VotersOf(i) = Bootstrap /\ IsFiniteSet(A)
  <2>1. VotersOf(i) = Bootstrap
    BY <1>0, <1>2, LeaderFounder, FounderVoters DEF Grounded
  <2>2. A \in SUBSET Bootstrap
    BY <2>1
  <2> QED BY <2>1, <2>2, BootstrapFacts, FS_Subset
<1> HIDE DEF A, B
<1>9. /\ Cardinality(B) <= Cardinality(A)
      /\ Cardinality(A) \in Nat /\ Cardinality(B) \in Nat
  BY <1>7, <1>8, FS_Subset, FS_CardinalityType
<1>10. QuorumVotes(VotersOf(i)) \in Nat
  <2>1. Cardinality(Bootstrap) \in Nat
    BY BootstrapFacts, FS_CardinalityType
  <2> QED BY <1>8, <2>1 DEF QuorumVotes
<1>11. Cardinality(A) >= QuorumVotes(VotersOf(i))
  BY <1>7, <1>9, <1>10
<1> QED BY <1>11 DEF A

-----------------------------------------------------------------------------
(* The properties.                                                          *)

\* What both inductive invariants give a state, and a step.
LEMMA CommitCoreSuffices ==
    /\ ElectionInv /\ LogInv /\ CommitCore => StateMachineSafety /\ LeaderCompleteness
    /\ /\ ElectionInv /\ ElectionInv' /\ LogInv /\ LogInv' /\ CommitCore /\ CommitCore'
       /\ [Next]_vars
       => [\A i \in Node : /\ commitIndex'[i] >= commitIndex[i]
                           /\ Agree(log[i], log'[i], commitIndex[i])]_vars
<1>1. ElectionInv /\ LogInv /\ CommitCore => StateMachineSafety /\ LeaderCompleteness
  BY CommitsAgree, LeadersComplete DEF CommitCore, Grounded
<1>2. ASSUME ElectionInv, ElectionInv', LogInv, LogInv', CommitCore, CommitCore', [Next]_vars,
             NEW i \in Node
      PROVE  /\ commitIndex'[i] >= commitIndex[i]
             /\ Agree(log[i], log'[i], commitIndex[i])
  BY <1>2, CommitsKept DEF CommitCore, Grounded
<1> QED BY <1>1, <1>2

LEMMA CommitInvCore == CommitInv => CommitCore
BY DEF CommitInv

LEMMA CreditInvCore == CreditInv => CommitCore
BY DEF CreditInv

\* Nodes apply the same entries, in every reachable state of a cluster of at most
\* four voters (replication.go:204-234 applies up to commitIndex).
THEOREM StateMachineSafetyHolds ==
    ASSUME Cardinality(Bootstrap) <= 4
    PROVE  Spec => []StateMachineSafety
BY CommitCoreSuffices, CommitInvCore, ElectionInvariant, LogInvariant, CommitInvariant, PTL

\* And of any cluster, as long as every reply that a leader credits in
\* sendAppendEntries is one of its term (replication.go:90-115).
THEOREM CreditedStateMachineSafety == CreditSpec => []StateMachineSafety
BY CommitCoreSuffices, CreditInvCore, ElectionInvariant, LogInvariant, CreditInvariant, PTL
   DEF CreditSpec

\* A leader of the highest term holds everything any node knows as committed, with at
\* most four voters (the vote of service.go:147-155, the count of replication.go:155-183).
THEOREM LeaderCompletenessHolds ==
    ASSUME Cardinality(Bootstrap) <= 4
    PROVE  Spec => []LeaderCompleteness
BY CommitCoreSuffices, CommitInvCore, ElectionInvariant, LogInvariant, CommitInvariant, PTL

\* And with any number of voters, as long as sendAppendEntries credits replies in
\* their term (replication.go:90-115).
THEOREM CreditedLeaderCompleteness == CreditSpec => []LeaderCompleteness
BY CommitCoreSuffices, CreditInvCore, ElectionInvariant, LogInvariant, CreditInvariant, PTL
   DEF CreditSpec

\* What a leader believes replicated is in the follower's log, even where it was
\* told so in an earlier leadership (replication.go:107-115).
THEOREM MatchIndexSoundHolds ==
    ASSUME Cardinality(Bootstrap) <= 4
    PROVE  Spec => []MatchIndexSound
<1>1. ElectionInv /\ LogInv /\ CommitInv => MatchIndexSound
  BY MatchesAgree DEF CommitInv, CommitCore, Grounded
<1> QED BY <1>1, ElectionInvariant, LogInvariant, CommitInvariant, PTL

\* And with any number of voters, as long as sendAppendEntries credits replies in
\* their term (replication.go:90-115).
THEOREM CreditedMatchIndexSound == CreditSpec => []MatchIndexSound
<1>1. ElectionInv /\ LogInv /\ CreditInv => MatchIndexSound
  BY CreditsAgree DEF CreditInv, CommitCore, Grounded
<1> QED BY <1>1, ElectionInvariant, LogInvariant, CreditInvariant, PTL DEF CreditSpec

\* No step takes a commit index back or touches the entries it covers
\* (service.go:91-97, replication.go:155-183), with at most four voters.
THEOREM CommittedNeverLostHolds ==
    ASSUME Cardinality(Bootstrap) <= 4
    PROVE  Spec => CommittedNeverLost
BY CommitCoreSuffices, CommitInvCore, ElectionInvariant, LogInvariant, CommitInvariant, PTL
   DEF Spec, CommittedNeverLost

\* And with any number of voters, as long as sendAppendEntries credits replies in
\* their term (replication.go:90-115).
THEOREM CreditedCommittedNeverLost == CreditSpec => CommittedNeverLost
BY CommitCoreSuffices, CreditInvCore, ElectionInvariant, LogInvariant, CreditInvariant, PTL
   DEF CreditSpec, Spec, CommittedNeverLost

\* When a leader declares an index committed, a majority of the voters hold its log
\* up to there (updateCommitIndex, replication.go:155-183), with at most four voters:
\* even if it counts replies of an earlier leadership.
THEOREM CommitBackedHolds ==
    ASSUME Cardinality(Bootstrap) <= 4
    PROVE  Spec => CommitBacked
<1>1. ElectionInv /\ LogInv /\ CommitInv => CountsHeld
  BY HeldByMatches DEF CommitInv, CommitCore, Grounded
<1>2. CountsHeld' /\ ElectionInv /\ ElectionInv' /\ LogInv /\ LogInv' /\ CommitInv /\ CommitInv'
      /\ [Next]_vars
      => [\A i \in Node : state'[i] = Leader /\ commitIndex'[i] > commitIndex[i] =>
             Cardinality({j \in VotersOf(i) : Agree(log[i], log[j], commitIndex'[i])})
                 >= QuorumVotes(VotersOf(i))]_vars
  BY CountBacked DEF CommitInv, CommitCore, Grounded
<1> QED BY <1>1, <1>2, ElectionInvariant, LogInvariant, CommitInvariant, PTL
       DEF Spec, CommitBacked

\* And with any number of voters, as long as sendAppendEntries credits replies in
\* their term (replication.go:90-115).
THEOREM CreditedCommitBacked == CreditSpec => CommitBacked
<1>1. ElectionInv /\ LogInv /\ CreditInv => CountsHeld
  BY HeldByAcceptors DEF CreditInv, CommitCore, Grounded
<1>2. CountsHeld' /\ ElectionInv /\ ElectionInv' /\ LogInv /\ LogInv' /\ CreditInv /\ CreditInv'
      /\ [Next]_vars
      => [\A i \in Node : state'[i] = Leader /\ commitIndex'[i] > commitIndex[i] =>
             Cardinality({j \in VotersOf(i) : Agree(log[i], log[j], commitIndex'[i])})
                 >= QuorumVotes(VotersOf(i))]_vars
  BY CountBacked DEF CreditInv, CommitCore, Grounded
<1> QED BY <1>1, <1>2, ElectionInvariant, LogInvariant, CreditInvariant, PTL
       DEF CreditSpec, Spec, CommitBacked

-----------------------------------------------------------------------------
(* The refinement of ReplicatedLog.                                         *)

\* A function to the naturals on a finite set has a greatest value.
LEMMA FiniteMaximum ==
    ASSUME NEW S, IsFiniteSet(S), S # {}, NEW f \in [S -> Nat]
    PROVE  \E i \in S : \A j \in S : f[j] <= f[i]
<1> DEFINE above(i) == {j \in S : f[j] > f[i]}
           counts == {Cardinality(above(i)) : i \in S}
<1>1. \A i \in S : /\ IsFiniteSet(above(i)) /\ Cardinality(above(i)) \in Nat
  <2> SUFFICES ASSUME NEW i \in S PROVE IsFiniteSet(above(i)) /\ Cardinality(above(i)) \in Nat
    OBVIOUS
  <2>1. above(i) \in SUBSET S
    OBVIOUS
  <2> HIDE DEF above
  <2> QED BY <2>1, FS_Subset, FS_CardinalityType
<1>2. counts \in SUBSET Nat /\ counts # {}
  <2> HIDE DEF above
  <2> QED BY <1>1
<1>3. PICK x \in counts : \A y \in counts : x <= y
  <2> HIDE DEF counts
  <2> QED BY <1>2, LeastExists
<1>4. PICK i \in S : x = Cardinality(above(i))
  OBVIOUS
<1> SUFFICES ASSUME NEW j \in S, ~(f[j] <= f[i]) PROVE FALSE
  OBVIOUS
<1>5. j \in above(i) /\ f[j] \in Nat /\ f[i] \in Nat
  OBVIOUS
<1>6. above(j) \in SUBSET (above(i) \ {j})
  BY <1>5
<1> HIDE DEF above
<1>7. /\ IsFiniteSet(above(i) \ {j})
      /\ Cardinality(above(i) \ {j}) = Cardinality(above(i)) - 1
  BY <1>1, <1>5, FS_RemoveElement
<1>8. Cardinality(above(j)) <= Cardinality(above(i)) - 1
  BY <1>6, <1>7, FS_Subset
<1>9. Cardinality(above(i)) <= Cardinality(above(j))
  BY <1>3, <1>4
<1> QED BY <1>1, <1>8, <1>9

\* What agrees up to c has the same prefix of that length, one of any longer one.
LEMMA AgreedPrefix ==
    ASSUME NEW S, NEW a \in Seq(S), NEW b \in Seq(S), NEW c \in Nat, NEW d \in Nat,
           c <= d, d <= Len(b), Agree(a, b, c)
    PROVE  /\ Promise!IsPrefix(SubSeq(a, 1, c), SubSeq(b, 1, d))
           /\ Len(SubSeq(a, 1, c)) = c
           /\ c = d => SubSeq(a, 1, c) = SubSeq(b, 1, d)
<1> DEFINE A == SubSeq(a, 1, c)
           B == SubSeq(b, 1, d)
           P == SubSeq(B, 1, c)
<1>1. /\ DOMAIN a = 1..Len(a) /\ Len(a) \in Nat
      /\ DOMAIN b = 1..Len(b) /\ Len(b) \in Nat
      /\ c <= Len(a) /\ \A k \in 1..c : a[k] = b[k]
  BY LenProperties DEF Agree
<1>2. (\A k \in 1..c : a[k] \in S) /\ (\A k \in 1..d : b[k] \in S)
  <2>1. (\A k \in 1..c : k \in 1..Len(a)) /\ (\A k \in 1..d : k \in 1..Len(b))
    BY <1>1
  <2> QED BY <2>1, ElementOfSeq
<1>3. A \in Seq(S) /\ Len(A) = c /\ \A k \in 1..c : A[k] = a[k]
  <2>1. /\ SubSeq(a, 1, c) \in Seq(S)
        /\ Len(SubSeq(a, 1, c)) = IF 1 <= c THEN c - 1 + 1 ELSE 0
        /\ \A k \in 1..(c - 1 + 1) : SubSeq(a, 1, c)[k] = a[1 + k - 1]
    BY <1>2, SubSeqProperties
  <2>2. \A k \in 1..c : k \in 1..(c - 1 + 1) /\ 1 + k - 1 = k
    OBVIOUS
  <2> HIDE DEF A
  <2>3. Len(A) = c /\ A \in Seq(S)
    BY <2>1 DEF A
  <2> QED BY <2>1, <2>2, <2>3 DEF A
<1>4. B \in Seq(S) /\ Len(B) = d /\ \A k \in 1..d : B[k] = b[k]
  <2>1. /\ SubSeq(b, 1, d) \in Seq(S)
        /\ Len(SubSeq(b, 1, d)) = IF 1 <= d THEN d - 1 + 1 ELSE 0
        /\ \A k \in 1..(d - 1 + 1) : SubSeq(b, 1, d)[k] = b[1 + k - 1]
    BY <1>2, SubSeqProperties
  <2>2. \A k \in 1..d : k \in 1..(d - 1 + 1) /\ 1 + k - 1 = k
    OBVIOUS
  <2>3. Len(B) = d /\ B \in Seq(S)
    BY <2>1 DEF B
  <2> HIDE DEF B
  <2> QED BY <2>1, <2>2, <2>3 DEF B
<1> HIDE DEF A, B
<1>5. P \in Seq(S) /\ Len(P) = c /\ \A k \in 1..c : P[k] = B[k]
  <2>1. \A k \in 1..c : B[k] \in S
    <3>1. \A k \in 1..c : k \in 1..d
      OBVIOUS
    <3> QED BY <1>2, <1>4, <3>1
  <2>2. /\ SubSeq(B, 1, c) \in Seq(S)
        /\ Len(SubSeq(B, 1, c)) = IF 1 <= c THEN c - 1 + 1 ELSE 0
        /\ \A k \in 1..(c - 1 + 1) : SubSeq(B, 1, c)[k] = B[1 + k - 1]
    BY <2>1, SubSeqProperties
  <2>3. \A k \in 1..c : k \in 1..(c - 1 + 1) /\ 1 + k - 1 = k
    OBVIOUS
  <2>4. Len(P) = c /\ P \in Seq(S)
    BY <2>2 DEF P
  <2> HIDE DEF P
  <2> QED BY <2>2, <2>3, <2>4 DEF P
<1> HIDE DEF P
<1>6. A = P
  <2>1. \A k \in 1..c : k \in 1..d /\ A[k] = P[k]
    BY <1>1, <1>3, <1>4, <1>5
  <2> QED BY <1>3, <1>5, <2>1, SeqEqual
<1>7. c = d => A = B
  <2>1. ASSUME c = d PROVE A = B
    <3>1. \A k \in 1..c : A[k] = B[k]
      BY <1>1, <1>3, <1>4, <2>1
    <3> QED BY <1>3, <1>4, <2>1, <3>1, SeqEqual
  <2> QED BY <2>1
<1>8. Promise!IsPrefix(A, B)
  BY <1>3, <1>4, <1>6 DEF Promise!IsPrefix, P
<1> QED BY <1>3, <1>7, <1>8 DEF A, B

\* A step moves the commit index of one node at most.
LEMMA OneCommits ==
    ASSUME TypeOK, [Next]_vars
    PROVE  \/ commitIndex' = commitIndex
           \/ \E i \in Node : commitIndex' = [commitIndex EXCEPT ![i] = commitIndex'[i]]
<1>0. commitIndex \in [Node -> Nat]
  BY DEF TypeOK
<1>1. CASE \E x \in Node : StartElection(x)
  BY <1>1 DEF StartElection
<1>2. CASE \E m \in rpcs : HandleRequestVote(m)
  BY <1>2 DEF HandleRequestVote, RefuseStaleVote, RefuseWhileLeaderAlive, DecideVote
<1>3. CASE \E m \in rpcs : HandleRequestVoteReply(m)
  BY <1>3 DEF HandleRequestVoteReply
<1>4. CASE \E m \in rpcs : RequestVoteFails(m)
  BY <1>4 DEF RequestVoteFails
<1>5. CASE \E x, y \in Node : SendAppendEntries(x, y)
  BY <1>5 DEF SendAppendEntries
<1>6. CASE \E m \in rpcs : HandleAppendEntries(m)
  <2>1. PICK m \in rpcs : HandleAppendEntries(m)
    BY <1>6
  <2>2. m.dst \in Node
    BY MessageKinds
  <2>3. CASE Accepts(m)
    <3>1. commitIndex' = [commitIndex EXCEPT ![m.dst] = FollowerCommit(m.dst, m)]
      BY <2>3 DEF Accepts
    <3> QED BY <1>0, <2>2, <3>1
  <2> QED BY <2>1, <2>3, HandleOutcome
<1>7. CASE \E m \in rpcs : HandleAppendEntriesReply(m)
  <2>1. PICK m \in rpcs : HandleAppendEntriesReply(m)
    BY <1>7
  <2>2. m.dst \in Node
    BY MessageKinds
  <2>3. \/ commitIndex' = commitIndex
        \/ commitIndex' = [commitIndex EXCEPT ![m.dst] = LeaderCommit(m.dst, matchIndex'[m.dst])]
    BY <2>1 DEF HandleAppendEntriesReply
  <2> QED BY <1>0, <2>2, <2>3
<1>8. CASE \E m \in rpcs : AppendEntriesFails(m)
  BY <1>8 DEF AppendEntriesFails
<1>9. CASE \E m \in rpcs : AppendEntriesTimeout(m)
  BY <1>9 DEF AppendEntriesTimeout
<1>10. CASE \E x \in Node, v \in Value : Submit(x, v)
  BY <1>10 DEF Submit
<1>11. CASE \E x \in Node : StepDown(x)
  BY <1>11 DEF StepDown
<1>12. CASE UNCHANGED vars
  BY <1>12 DEF vars
<1> QED BY <1>1, <1>2, <1>3, <1>4, <1>5, <1>6, <1>7, <1>8, <1>9, <1>10, <1>11, <1>12 DEF Next

\* The node that knows most is one.
LEMMA ForemostKnows ==
    ASSUME TypeOK, TypeOK', Node # {}
    PROVE  /\ Foremost \in Node /\ \A j \in Node : commitIndex[j] <= commitIndex[Foremost]
           /\ Foremost' \in Node /\ \A j \in Node : commitIndex'[j] <= commitIndex'[Foremost']
<1>1. commitIndex \in [Node -> Nat] /\ commitIndex' \in [Node -> Nat] /\ IsFiniteSet(Node)
  BY NodeAssumption DEF TypeOK
<1>2. \E i \in Node : \A j \in Node : commitIndex[j] <= commitIndex[i]
  BY <1>1, FiniteMaximum
<1>3. \E i \in Node : \A j \in Node : commitIndex'[j] <= commitIndex'[i]
  BY <1>1, FiniteMaximum
<1>4. Foremost \in Node /\ \A j \in Node : commitIndex[j] <= commitIndex[Foremost]
  BY <1>2 DEF Foremost
<1>5. Foremost' \in Node /\ \A j \in Node : commitIndex'[j] <= commitIndex'[Foremost']
  BY <1>3 DEF Foremost
<1> QED BY <1>4, <1>5

\* What has been chosen.
Chosen == SubSeq(log[Foremost], 1, commitIndex[Foremost])

\* Nothing is chosen or learned at first.
LEMMA InitPromise ==
    ASSUME Init, Node # {}
    PROVE  Promise!Init
<1>1. TypeOK /\ Foremost \in Node
  <2>1. ElectionInv
    BY InitElectionInv
  <2>2. commitIndex \in [Node -> Nat] /\ IsFiniteSet(Node)
    BY <2>1, NodeAssumption DEF ElectionInv, TypeOK
  <2>3. \E i \in Node : \A j \in Node : commitIndex[j] <= commitIndex[i]
    BY <2>2, FiniteMaximum
  <2> QED BY <2>1, <2>3 DEF ElectionInv, Foremost
<1>2. SubSeq(<<>>, 1, 0) = <<>>
  BY SubSeqEmpty
<1>3. \A i \in Node : log[i] = <<>> /\ commitIndex[i] = 0
  BY DEF Init
<1>4. learned = [i \in Node |-> <<>>]
  BY <1>2, <1>3 DEF learned
<1> QED BY <1>1, <1>2, <1>3, <1>4 DEF Promise!Init

\* What every state says of the committed prefixes, and what a step does to them.
CommitsBounded == \A i \in Node : commitIndex[i] \in Nat /\ commitIndex[i] <= Len(log[i])

\* What the commit indexes of two states cover is a prefix of one log: a step of Raft
\* either lets one node learn more of what is chosen, or chooses more, or neither.
LEMMA NextPromise ==
    ASSUME TypeOK, TypeOK', Node # {}, CommitsBounded, CommitsBounded', StateMachineSafety',
           \A i \in Node : /\ commitIndex'[i] >= commitIndex[i]
                           /\ Agree(log[i], log'[i], commitIndex[i]),
           [Next]_vars
    PROVE  [Promise!Next]_(Promise!logVars)
<1> DEFINE F == Foremost
           G == Foremost'
<1>1. /\ F \in Node /\ \A j \in Node : commitIndex[j] <= commitIndex[F]
      /\ G \in Node /\ \A j \in Node : commitIndex'[j] <= commitIndex'[G]
  BY ForemostKnows
<1>2. \A i \in Node : /\ commitIndex[i] \in Nat /\ commitIndex[i] <= Len(log[i])
                      /\ commitIndex'[i] \in Nat /\ commitIndex'[i] <= Len(log'[i])
                      /\ log[i] \in Seq(EntryRecord) /\ log'[i] \in Seq(EntryRecord)
                      /\ Len(log'[i]) \in Nat /\ Len(log[i]) \in Nat
  BY LenProperties DEF CommitsBounded, TypeOK
<1>3. /\ learned = [i \in Node |-> SubSeq(log[i], 1, commitIndex[i])]
      /\ learned' = [i \in Node |-> SubSeq(log'[i], 1, commitIndex'[i])]
      /\ Chosen = learned[F] /\ Chosen' = learned'[G]
  BY <1>1 DEF learned, Chosen
\* What a node had learned is what its log still holds.
<1>4. ASSUME NEW i \in Node
      PROVE  /\ learned[i] = SubSeq(log'[i], 1, commitIndex[i])
             /\ Len(learned[i]) = commitIndex[i] /\ Len(learned'[i]) = commitIndex'[i]
             /\ Promise!IsPrefix(learned[i], learned'[i])
  <2>1. Agree(log[i], log'[i], commitIndex[i]) /\ commitIndex[i] <= commitIndex'[i]
    BY <1>2
  <2>2. Agree(log'[i], log'[i], commitIndex'[i])
    BY <1>2 DEF Agree
  <2>3. learned[i] = SubSeq(log'[i], 1, commitIndex[i]) /\ Len(learned[i]) = commitIndex[i]
    BY <1>2, <1>3, <2>1, AgreedPrefix DEF Agree
  <2>4. Len(learned'[i]) = commitIndex'[i]
    BY <1>2, <1>3, <2>2, AgreedPrefix
  <2>5. Promise!IsPrefix(learned[i], learned'[i])
    BY <1>2, <1>3, <2>1, AgreedPrefix
  <2> QED BY <2>3, <2>4, <2>5
\* What two nodes have learned after the step: one of the two is a prefix.
<1>5. ASSUME NEW i \in Node, NEW j \in Node, NEW c \in Nat, c <= commitIndex'[i],
             commitIndex'[i] <= commitIndex'[j]
      PROVE  /\ Promise!IsPrefix(SubSeq(log'[i], 1, c), learned'[j])
             /\ c = commitIndex'[j] => SubSeq(log'[i], 1, c) = learned'[j]
  <2>1. Agree(log'[i], log'[j], commitIndex'[i])
    BY <1>5 DEF StateMachineSafety
  <2>2. Agree(log'[i], log'[j], c)
    <3>1. \A k \in 1..c : k \in 1..commitIndex'[i]
      BY <1>2, <1>5
    <3>2. c <= Len(log'[i]) /\ c <= Len(log'[j])
      BY <1>2, <1>5
    <3> QED BY <2>1, <3>1, <3>2 DEF Agree
  <2>3. c <= commitIndex'[j]
    BY <1>2, <1>5
  <2> QED BY <1>2, <1>3, <2>2, <2>3, AgreedPrefix
<1>6. CASE commitIndex' = commitIndex
  <2>1. G = F
    BY <1>6 DEF Foremost
  <2>2. \A i \in Node : learned'[i] = learned[i]
    BY <1>3, <1>4, <1>6
  <2>3. learned' = learned
    BY <1>3, <2>2
  <2>4. Chosen' = Chosen
    BY <1>1, <1>3, <2>1, <2>2
  <2> QED BY <2>3, <2>4 DEF Promise!logVars, Chosen
<1>7. CASE /\ commitIndex' # commitIndex
           /\ \E i \in Node : commitIndex' = [commitIndex EXCEPT ![i] = commitIndex'[i]]
  <2>1. PICK i \in Node : commitIndex' = [commitIndex EXCEPT ![i] = commitIndex'[i]]
    BY <1>7
  <2>2. /\ \A j \in Node \ {i} : commitIndex'[j] = commitIndex[j]
        /\ commitIndex'[i] > commitIndex[i]
    <3>1. commitIndex \in [Node -> Nat]
      BY DEF TypeOK
    <3>2. \A j \in Node \ {i} : commitIndex'[j] = commitIndex[j]
      BY <2>1, <3>1
    <3>3. commitIndex'[i] # commitIndex[i]
      BY <1>7, <2>1, <3>1
    <3> QED BY <1>2, <3>2, <3>3
  <2>3. \A j \in Node \ {i} : learned'[j] = learned[j]
    BY <1>3, <1>4, <2>2
  <2>4. learned' = [learned EXCEPT ![i] = learned'[i]]
    BY <1>3, <2>3
  <2>5. learned'[i] # learned[i]
    BY <1>2, <1>4, <2>2
  <2>6. CASE commitIndex'[i] > commitIndex[F]
    <3>1. G = i
      BY <1>1, <1>2, <2>2, <2>6
    <3>2. Chosen' = learned'[i]
      BY <1>3, <3>1
    <3>3. Promise!IsPrefix(Chosen, Chosen')
      <4>1. commitIndex[F] <= commitIndex'[F] /\ commitIndex'[F] <= commitIndex'[i]
        BY <1>1, <3>1
      <4>2. Promise!IsPrefix(SubSeq(log'[F], 1, commitIndex[F]), learned'[i])
        BY <1>1, <1>2, <1>5, <4>1
      <4> QED BY <1>1, <1>3, <1>4, <3>2, <4>2
    <3>4. Chosen # Chosen'
      BY <1>1, <1>2, <1>3, <1>4, <2>6, <3>2
    <3>5. Promise!Choose(i)
      BY <2>4, <3>2, <3>3, <3>4 DEF Promise!Choose, Promise!IsStrictPrefix, Chosen
    <3> QED BY <2>5, <3>5 DEF Promise!Next
  <2>7. CASE ~(commitIndex'[i] > commitIndex[F])
    <3>1. F # i /\ commitIndex'[F] = commitIndex[F] /\ commitIndex'[i] <= commitIndex'[F]
      BY <1>1, <1>2, <2>2, <2>7
    <3>2. commitIndex'[G] = commitIndex'[F]
      <4>1. \A j \in Node : commitIndex'[j] <= commitIndex'[F]
        BY <1>1, <2>2, <3>1
      <4> QED BY <1>1, <1>2, <4>1
    <3>3. Chosen' = Chosen
      <4>1. SubSeq(log'[F], 1, commitIndex'[F]) = learned'[G]
        BY <1>1, <1>2, <1>5, <3>2
      <4> QED BY <1>1, <1>3, <1>4, <3>1, <4>1
    <3>4. Promise!IsPrefix(learned[i], learned'[i])
      BY <1>4
    <3>5. Promise!IsPrefix(learned'[i], Chosen)
      <4>1. Promise!IsPrefix(SubSeq(log'[i], 1, commitIndex'[i]), learned'[F])
        BY <1>1, <1>2, <1>5, <3>1
      <4>2. learned'[F] = learned[F]
        BY <1>1, <2>3, <3>1
      <4> QED BY <1>1, <1>3, <4>1, <4>2
    <3>6. Promise!Learn(i)
      BY <2>4, <3>3, <3>4, <3>5 DEF Promise!Learn, Chosen
    <3> QED BY <2>5, <3>6 DEF Promise!Next
  <2> QED BY <2>6, <2>7
<1> QED BY <1>6, <1>7, OneCommits

\* Where what is committed rests on CommitCore, each step of Raft maps to one of
\* ReplicatedLog or to a stutter.
LEMMA CommitCoreRefines ==
    ASSUME Node # {}
    PROVE  /\ ElectionInv /\ ElectionInv' /\ LogInv /\ LogInv' /\ CommitCore /\ CommitCore'
           /\ [Next]_vars
           => [Promise!Next]_(Promise!logVars)
<1> SUFFICES ASSUME ElectionInv, ElectionInv', LogInv, LogInv', CommitCore, CommitCore',
                    [Next]_vars
             PROVE  [Promise!Next]_(Promise!logVars)
  OBVIOUS
<1>1. Grounded /\ Grounded' /\ CommitSecured /\ CommitSecured' /\ TypeOK /\ TypeOK'
  BY DEF CommitCore, Grounded, ElectionInv
<1>2. CommitsBounded /\ CommitsBounded'
  <2>1. \A i \in Node : /\ commitIndex[i] \in Nat /\ Len(log[i]) \in Nat
                        /\ commitIndex'[i] \in Nat /\ Len(log'[i]) \in Nat
    BY <1>1, LenProperties DEF TypeOK
  <2> QED BY <1>1, <2>1 DEF CommitsBounded, CommitSecured
<1>3. \A i \in Node : /\ commitIndex'[i] >= commitIndex[i]
                      /\ Agree(log[i], log'[i], commitIndex[i])
  BY <1>1, CommitsKept
<1>4. StateMachineSafety'
  <2>1. (ElectionInv /\ LogInv /\ CommitCore => StateMachineSafety)'
    BY CommitCoreSuffices, PTL
  <2> QED BY <2>1
<1> QED BY <1>1, <1>2, <1>3, <1>4, NextPromise

\* Raft implements ReplicatedLog, in every cluster of one to four voters: what its
\* nodes hand to their state machines (replication.go:204-234) is one growing log.
THEOREM RefinesReplicatedLog ==
    ASSUME Cardinality(Bootstrap) <= 4, Node # {}
    PROVE  Spec => ImplementsReplicatedLog
<1>1. Init => Promise!Init
  BY InitPromise
<1> QED BY <1>1, CommitCoreRefines, CommitInvCore, ElectionInvariant, LogInvariant,
           CommitInvariant, PTL DEF Spec, ImplementsReplicatedLog, Promise!Spec

\* And in a cluster of any size, as long as replies are credited in their term: what
\* a client is told is applied stays the one log of all (replication.go:204-234).
THEOREM CreditedRefinesReplicatedLog ==
    ASSUME Node # {}
    PROVE  CreditSpec => ImplementsReplicatedLog
<1>1. Init => Promise!Init
  BY InitPromise
<1> QED BY <1>1, CommitCoreRefines, CreditInvCore, ElectionInvariant, LogInvariant,
           CreditInvariant, PTL DEF CreditSpec, Spec, ImplementsReplicatedLog, Promise!Spec
=============================================================================
