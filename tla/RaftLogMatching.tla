-------------------------- MODULE RaftLogMatching --------------------------
(***************************************************************************)
(* Why logs match, as an inductive invariant of Raft's Spec on top of      *)
(* ElectionInv.  A link is an entry at its index together with the term of *)
(* the entry before it.  AppendEntries compares exactly one such term, so  *)
(* links, in logs and in requests under way, are what it moves around.     *)
(***************************************************************************)
EXTENDS RaftElection

\* The links of a log.
LogLinks(l) == {<<k, TermAt(l, k - 1), l[k]>> : k \in DOMAIN l}

\* The links of entries sent to follow an entry of index prev and term prevTerm.
EntryLinks(prev, prevTerm, entries) ==
    {<<prev + k, IF k = 1 THEN prevTerm ELSE entries[k - 1].term, entries[k]>> :
        k \in DOMAIN entries}

SentLinks(m) == EntryLinks(m.prevLogIndex, m.prevLogTerm, m.entries)

Requests == {m \in rpcs : m.kind = "AppendEntries"}

Links == (UNION {LogLinks(log[i]) : i \in Node}) \cup (UNION {SentLinks(m) : m \in Requests})

\* An index and a term determine the entry and the term before it.
LinksUnique ==
    \A a, b \in Links : a[1] = b[1] /\ a[3].term = b[3].term => a = b

\* Every term in a log is one in which somebody was elected.
LinksElected ==
    \A a \in Links : \E n \in Node : <<a[3].term, n>> \in elected

\* Who was elected in its current term holds all there is of that term, leader
\* still or not: what it appends next is at an index new to the term.
LeaderHolds ==
    \A e \in elected : e[1] = currentTerm[e[2]] =>
        \A a \in Links : a[3].term = e[1] => a[1] <= Len(log[e[2]])

\* A candidate has not been elected in its term already.
CandidatesFresh ==
    \A i \in Node : state[i] = Candidate => <<currentTerm[i], i>> \notin elected

\* The inductive invariant behind LogMatching: a term's leader is the only one to
\* make links of the term, one for each index, and AppendEntries makes none: where
\* it splices, the term before the splice has been compared.
LogInv ==
    /\ LinksUnique
    /\ LinksElected
    /\ LeaderHolds
    /\ CandidatesFresh
=============================================================================
