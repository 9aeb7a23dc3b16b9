-------------------------- MODULE RaftApplyProofs --------------------------
(***************************************************************************)
(* The applier and the futures, for every number of clients and futures    *)
(* and every length of the log: the machine gets the committed commands in *)
(* order, no waiter is forgotten, no future leaks, and an answer comes     *)
(* after the entries it answers for.                                       *)
(***************************************************************************)
EXTENDS RaftApply, TLAPS, WellFoundedInduction, FiniteSetTheorems, SequenceTheorems

\* The batch is a copy of the log above lastApplied, as far as it is not done:
\* what follows Reached.  An entry whose error is about to be filed is its first.
BatchOfLog ==
    /\ commitIndex <= Len(log) /\ lastApplied <= commitIndex
    /\ applier \in {"Applying", "Failed"} =>
          /\ batch.commit <= commitIndex
          /\ Len(batch.entries) <= batch.commit - lastApplied
          /\ \A j \in 1..Len(batch.entries) : batch.entries[j] = log[NextIndex + j - 1]
    /\ applier = "Failed" => batch.entries # <<>> /\ NextIndex \in failed

CallRecord ==
    [pc : CallState, op : {"None", "Put", "RemoveNode", "Get"}, index : Nat, term : Nat,
     future : FutureId \cup {NoFuture}, result : {"None", "Ok", "ApplyError", "Timeout"}]

Holds(c) == call[c].pc \in {"Waiting", "Leaving"}

HoldersOf(f) == {c \in Client : Holds(c) /\ call[c].future = f}

\* A waiter's future is in the map, under the waiter's index, until it has left.
Held ==
    \A c \in Client : Holds(c) =>
        call[c].future \in applyFutures /\ future[call[c].future].index = call[c].index

\* One future per index; it is resolved when its index is applied, and counts
\* its waiters.
FuturesSound ==
    /\ \A f, g \in applyFutures : future[f].index = future[g].index => f = g
    /\ \A f \in applyFutures : future[f].resolved <=> lastApplied >= future[f].index
    /\ \A f \in applyFutures : future[f].waiters = Cardinality(HoldersOf(f))

\* A call that has its answer, other than a timeout, has its index applied.
AnsweredApplied ==
    \A c \in Client :
        call[c].pc \in {"Leaving", "Returned"} /\ call[c].result \in {"Ok", "ApplyError"}
            => call[c].index <= lastApplied

\* The inductive invariant.
ApplyInv ==
    /\ ApplyTypeOK
    /\ BatchOfLog
    /\ MachineInOrder
    /\ Held
    /\ FuturesSound
    /\ NoLeakedFutures
    /\ AnsweredApplied

-----------------------------------------------------------------------------
(* The applier's side: log, batch and machine.                              *)

LEMMA ReachedBounds ==
    ASSUME ApplyTypeOK, BatchOfLog
    PROVE  /\ Reached \in Nat /\ lastApplied <= Reached /\ Reached <= commitIndex
           /\ commitIndex <= Len(log) /\ Len(log) \in Nat /\ commitIndex \in Nat
           /\ lastApplied \in Nat
           /\ applier \in {"Applying", "Failed"} =>
                 /\ NextIndex = Reached + 1
                 /\ batch.entries \in Seq(EntryRecord) /\ Len(batch.entries) \in Nat
                 /\ batch.commit \in Nat /\ Reached = batch.commit - Len(batch.entries)
                 /\ Reached <= batch.commit
<1>1. /\ Len(log) \in Nat /\ commitIndex \in Nat /\ lastApplied \in Nat
      /\ batch.entries \in Seq(EntryRecord) /\ batch.commit \in Nat
  BY LenProperties DEF ApplyTypeOK
<1>2. Len(batch.entries) \in Nat
  BY <1>1, LenProperties
<1>3. CASE applier \in {"Applying", "Failed"}
  <2>1. Reached = NextIndex - 1
    BY <1>3 DEF Reached
  <2>2. /\ Len(batch.entries) <= batch.commit - lastApplied
        /\ batch.commit <= commitIndex /\ commitIndex <= Len(log)
    BY <1>3 DEF BatchOfLog
  <2>3. Reached = batch.commit - Len(batch.entries) /\ NextIndex = Reached + 1
    BY <1>1, <1>2, <2>1 DEF NextIndex
  <2> HIDE DEF Reached, NextIndex
  <2>4. /\ Reached \in Nat /\ lastApplied <= Reached /\ Reached <= commitIndex
        /\ Reached <= batch.commit
    BY <1>1, <1>2, <2>2, <2>3
  <2> QED BY <1>1, <1>2, <2>2, <2>3, <2>4
<1>4. CASE applier \notin {"Applying", "Failed"}
  BY <1>1, <1>4 DEF BatchOfLog, Reached
<1> QED BY <1>3, <1>4

\* As long as the applier stands where it is, the machine is in order whatever
\* becomes of the log beyond the commit index.
LEMMA MachineKept ==
    ASSUME ApplyInv, UNCHANGED machine, failed \subseteq failed', Reached' = Reached,
           \A n \in 1..commitIndex : log'[n] = log[n]
    PROVE  MachineInOrder'
<1>1. \A n \in 1..Reached : log'[n] = log[n]
  BY ReachedBounds DEF ApplyInv
<1>2. ASSUME NEW n \in 1..Reached, IsCommand(log[n])' PROVE Done(n)'
  BY <1>1, <1>2 DEF ApplyInv, MachineInOrder, IsCommand, Done
<1>3. ASSUME NEW k \in DOMAIN machine
      PROVE  /\ machine[k][1] \in 1..Reached
             /\ machine[k][2] = log'[machine[k][1]].arg
             /\ \A j \in 1..(k - 1) : machine[j][1] < machine[k][1]
  BY <1>1 DEF ApplyInv, MachineInOrder
<1> QED BY <1>2, <1>3 DEF MachineInOrder

\* The log moves beyond the commit index, which moves forward; the applier is
\* left alone or woken.
LEMMA LogMoves ==
    ASSUME ApplyInv, UNCHANGED applyVars,
           log' \in Seq(EntryRecord), commitIndex' \in Nat,
           commitIndex <= commitIndex', commitIndex' <= Len(log'),
           \A n \in 1..commitIndex : log'[n] = log[n],
           applier' = applier \/ (applier = "Waiting" /\ applier' = "Woken")
    PROVE  BatchOfLog' /\ MachineInOrder' /\ Reached' = Reached
<1>1. UNCHANGED <<lastApplied, batch, machine, failed>>
  BY DEF applyVars
<1>2. Reached' = Reached /\ NextIndex' = NextIndex
  BY <1>1 DEF Reached, NextIndex
<1>3. lastApplied <= commitIndex'
  BY ReachedBounds DEF ApplyInv
<1>4. ASSUME applier \in {"Applying", "Failed"}, NEW j \in 1..Len(batch.entries)
      PROVE  batch.entries[j] = log'[NextIndex + j - 1]
  <2>1. batch.entries[j] = log[NextIndex + j - 1]
    BY <1>4 DEF ApplyInv, BatchOfLog
  <2>2. /\ NextIndex = Reached + 1 /\ Reached = batch.commit - Len(batch.entries)
        /\ Reached \in Nat /\ batch.commit \in Nat /\ Len(batch.entries) \in Nat
        /\ commitIndex \in Nat
    BY <1>4, ReachedBounds DEF ApplyInv
  <2>3. batch.commit <= commitIndex
    BY <1>4 DEF ApplyInv, BatchOfLog
  <2>4. j \in Nat /\ 1 <= j /\ j <= Len(batch.entries)
    BY <2>2
  <2>5. NextIndex + j - 1 = Reached + j
    BY <2>2, <2>4
  <2>6. Reached + j \in Nat /\ 1 <= Reached + j /\ Reached + j <= batch.commit
    BY ONLY <2>2, <2>4
  <2>7. NextIndex + j - 1 \in 1..commitIndex
    BY ONLY <2>2, <2>3, <2>5, <2>6
  <2> QED BY <2>1, <2>7
<1>5. applier \in {"Applying", "Failed"} => batch.commit <= commitIndex'
  BY ReachedBounds DEF ApplyInv, BatchOfLog
<1>6. BatchOfLog'
  BY <1>1, <1>2, <1>3, <1>4, <1>5 DEF ApplyInv, BatchOfLog
<1> QED BY <1>1, <1>2, <1>6, MachineKept

\* The top of the loop takes what is committed and not applied.
LEMMA LoopTopTakes ==
    ASSUME ApplyInv, NEW applied \in Nat, applied <= commitIndex,
           LoopTop(applied), lastApplied' = applied,
           UNCHANGED <<log, commitIndex, failed>>
    PROVE  /\ BatchOfLog' /\ Reached' = applied
           /\ applier' \in ApplierState
           /\ batch' \in [base : Nat, commit : Nat, entries : Seq(EntryRecord)]
<1>1. /\ log \in Seq(EntryRecord) /\ Len(log) \in Nat /\ commitIndex \in Nat
      /\ commitIndex <= Len(log)
  BY LenProperties DEF ApplyInv, ApplyTypeOK, BatchOfLog
<1>2. CASE commitIndex > applied
  <2> DEFINE part == SubSeq(log, applied + 1, commitIndex)
  <2>1. applier' = "Applying"
        /\ batch' = [base |-> applied, commit |-> commitIndex, entries |-> part]
    BY <1>2 DEF LoopTop, TakeBatch
  <2>2. \A i \in (applied + 1)..commitIndex : log[i] \in EntryRecord
    BY <1>1, ElementOfSeq
  <2>3. /\ part \in Seq(EntryRecord)
        /\ Len(part) = IF applied + 1 <= commitIndex THEN commitIndex - (applied + 1) + 1 ELSE 0
        /\ \A i \in 1..(commitIndex - (applied + 1) + 1) : part[i] = log[(applied + 1) + i - 1]
    BY <1>1, <2>2, SubSeqProperties
  <2> HIDE DEF part
  <2>4. Len(part) = commitIndex - applied
    BY <1>1, <1>2, <2>3
  <2>5. \A i \in 1..Len(part) : part[i] = log[(applied + 1) + i - 1]
    <3>1. commitIndex - (applied + 1) + 1 = Len(part)
      BY ONLY <1>1, <2>4, applied \in Nat
    <3> QED BY ONLY <2>3, <3>1
  <2>6. NextIndex' = applied + 1
    BY <1>1, <2>1, <2>4 DEF NextIndex
  <2>7. Reached' = applied
    BY <2>1, <2>6 DEF Reached
  <2>8. BatchOfLog'
    BY <1>1, <2>1, <2>4, <2>5, <2>6 DEF BatchOfLog
  <2> QED BY <1>1, <2>1, <2>3, <2>7, <2>8 DEF ApplierState
<1>3. CASE ~(commitIndex > applied)
  <2>1. applier' \in {"Waiting", "Done"} /\ batch' = NoBatch
    BY <1>3 DEF LoopTop
  <2>2. Reached' = applied
    BY <2>1 DEF Reached
  <2>3. BatchOfLog'
    BY <1>1, <2>1 DEF BatchOfLog
  <2>4. <<>> \in Seq(EntryRecord)
    BY EmptySeq
  <2> QED BY <2>1, <2>2, <2>3, <2>4 DEF ApplierState, NoBatch
<1> QED BY <1>2, <1>3

\* The first entry of a batch leaves it.
LEMMA BatchShrinks ==
    ASSUME ApplyInv, applier \in {"Applying", "Failed"}, batch.entries # <<>>,
           applier' = "Applying", batch' = [batch EXCEPT !.entries = Tail(@)],
           UNCHANGED <<log, commitIndex, lastApplied>>
    PROVE  /\ BatchOfLog' /\ Reached' = NextIndex /\ NextIndex = Reached + 1
           /\ batch' \in [base : Nat, commit : Nat, entries : Seq(EntryRecord)]
           /\ Head(batch.entries) = log[NextIndex] /\ log[NextIndex] \in EntryRecord
           /\ NextIndex \in 1..commitIndex
<1> DEFINE es == batch.entries
           rest == Tail(es)
<1>1. /\ es \in Seq(EntryRecord) /\ Len(es) \in Nat /\ batch.commit \in Nat
      /\ NextIndex = Reached + 1 /\ Reached = batch.commit - Len(es)
      /\ lastApplied \in Nat /\ Reached \in Nat /\ lastApplied <= Reached
      /\ commitIndex \in Nat
  BY ReachedBounds DEF ApplyInv
<1>2. /\ batch.commit <= commitIndex
      /\ Len(es) <= batch.commit - lastApplied
      /\ \A j \in 1..Len(es) : es[j] = log[NextIndex + j - 1]
      /\ commitIndex <= Len(log) /\ lastApplied <= commitIndex
  BY DEF ApplyInv, BatchOfLog
<1>3. /\ rest \in Seq(EntryRecord) /\ Len(rest) = Len(es) - 1
      /\ \A i \in 1..Len(rest) : rest[i] = es[i + 1]
      /\ Head(es) \in EntryRecord /\ Head(es) = es[1]
  BY <1>1, HeadTailProperties
<1>4. Len(es) >= 1
  BY <1>1, EmptySeq
<1>5. batch'.entries = rest /\ batch'.commit = batch.commit
      /\ batch' \in [base : Nat, commit : Nat, entries : Seq(EntryRecord)]
  BY <1>3 DEF ApplyInv, ApplyTypeOK
<1> HIDE DEF rest
<1>6. NextIndex' = NextIndex + 1
  BY <1>1, <1>3, <1>5 DEF NextIndex
<1>7. Reached' = NextIndex
  BY <1>1, <1>6 DEF Reached
<1>8. ASSUME NEW j \in 1..Len(rest) PROVE rest[j] = log[(NextIndex + 1) + j - 1]
  <2>1. j + 1 \in 1..Len(es)
    BY ONLY <1>1, <1>3, j \in 1..Len(rest)
  <2>2. NextIndex + (j + 1) - 1 = (NextIndex + 1) + j - 1
    BY <1>1
  <2>3. es[j + 1] = log[NextIndex + (j + 1) - 1]
    <3> HIDE DEF es
    <3> QED BY <1>2, <2>1
  <2> QED BY <1>3, <2>2, <2>3
<1>9. Head(es) = log[NextIndex]
  <2>1. 1 \in 1..Len(es) /\ NextIndex + 1 - 1 = NextIndex
    BY <1>1, <1>4
  <2> QED BY <1>2, <1>3, <2>1
<1>10. BatchOfLog'
  <2>1. Len(rest) <= batch.commit - lastApplied
    BY <1>1, <1>2, <1>3
  <2> QED BY <1>2, <1>5, <1>6, <1>8, <2>1 DEF BatchOfLog
<1>11. NextIndex \in 1..commitIndex
  BY <1>1, <1>2, <1>4
<1>12. log[NextIndex] \in EntryRecord
  BY <1>3, <1>9
<1> QED BY <1>1, <1>5, <1>7, <1>9, <1>10, <1>11, <1>12
-----------------------------------------------------------------------------
(* The futures' side.                                                       *)

LEMMA FutureTypes ==
    ASSUME ApplyTypeOK
    PROVE  /\ applyFutures \subseteq FutureId /\ lastApplied \in Nat
           /\ \A f \in FutureId : /\ future[f].index \in Nat /\ future[f].waiters \in Nat
                                  /\ future[f].resolved \in BOOLEAN
           /\ \A c \in Client : call[c].index \in Nat
BY DEF ApplyTypeOK

LEMMA HoldersFinite ==
    ASSUME NEW f
    PROVE  /\ IsFiniteSet(HoldersOf(f)) /\ Cardinality(HoldersOf(f)) \in Nat
           /\ Cardinality(HoldersOf(f)) = 0 <=> HoldersOf(f) = {}
<1>1. HoldersOf(f) \in SUBSET Client /\ IsFiniteSet(Client)
  BY ApplyAssumption DEF HoldersOf
<1>2. IsFiniteSet(HoldersOf(f))
  BY <1>1, FS_Subset
<1> QED BY <1>2, FS_CardinalityType, FS_EmptySet

\* A non-empty set of naturals has a least element.
LEMMA LeastExists ==
    ASSUME NEW S \in SUBSET Nat, S # {}
    PROVE  \E x \in S : \A y \in S : x <= y
<1> DEFINE less == {p \in Nat \X Nat : p[1] < p[2]}
<1>1. IsWellFoundedOn(less, Nat)
  BY NatLessThanWellFounded DEF OpToRel
<1> HIDE DEF less
<1>2. PICK x \in S : \A y \in S : <<y, x>> \notin less
  BY <1>1, WFMin
<1>3. ASSUME NEW y \in S PROVE x <= y
  <2>1. <<y, x>> \in Nat \X Nat /\ <<y, x>>[1] = y /\ <<y, x>>[2] = x
    OBVIOUS
  <2>2. CASE y < x
    <3>1. <<y, x>> \in less
      BY <2>1, <2>2 DEF less
    <3> QED BY <3>1, <1>2
  <2> QED BY <2>2
<1> QED BY <1>3

\* getFuture finds the future of an index, or makes one at an address nobody uses.
LEMMA GotFacts ==
    ASSUME ApplyTypeOK, NEW index \in Nat, FutureLeft(index)
    PROVE  /\ FutureOf(index) \in FutureId
           /\ \/ /\ FutureOf(index) \in applyFutures
                 /\ future[FutureOf(index)].index = index
                 /\ Got(index) = future[FutureOf(index)]
              \/ /\ FutureOf(index) \notin applyFutures
                 /\ \A c \in Client : call[c].future # FutureOf(index)
                 /\ \A f \in applyFutures : future[f].index # index
                 /\ Got(index) = NewFuture(index)
<1> DEFINE a == FutureOf(index)
<1>1. CASE At(index) # {}
  <2>1. a \in At(index)
    BY <1>1 DEF FutureOf
  <2>2. Got(index) = future[a]
    BY <1>1 DEF Got
  <2> QED BY <2>1, <2>2, FutureTypes DEF At
<1>2. CASE At(index) = {}
  <2>1. FutureId \ Live # {} /\ FutureId \ Live \in SUBSET Nat
    BY <1>2, ApplyAssumption DEF FutureLeft
  <2>2. \E f \in FutureId \ Live : \A g \in FutureId \ Live : f <= g
    BY <2>1, LeastExists
  <2>3. Fresh \in FutureId \ Live
    BY <2>2 DEF Fresh
  <2>4. a = Fresh /\ Got(index) = NewFuture(index)
    BY <1>2 DEF FutureOf, Got
  <2>5. a \notin applyFutures /\ \A c \in Client : call[c].future # a
    BY <2>3, <2>4 DEF Live
  <2> QED BY <1>2, <2>3, <2>4, <2>5 DEF At
<1> QED BY <1>1, <1>2

\* Nothing that concerns the futures changes: a call that begins, or that
\* returns without having waited, holds none.
LEMMA FuturesKept ==
    ASSUME ApplyInv, UNCHANGED <<future, applyFutures, lastApplied>>,
           Reached' \in Nat, Reached' >= Reached,
           \A c \in Client :
              \/ call'[c] = call[c]
              \/ /\ ~Holds(c) /\ call'[c].pc \notin {"Waiting", "Leaving"}
                 /\ call'[c].pc = "Returned" => call'[c].index <= lastApplied
    PROVE  Held' /\ FuturesSound' /\ NoLeakedFutures' /\ AnsweredApplied'
<1>1. \A c \in Client : /\ Holds(c)' <=> Holds(c)
                        /\ Holds(c) => call'[c] = call[c]
  BY DEF Holds
<1>2. ASSUME NEW f PROVE HoldersOf(f)' = HoldersOf(f)
  BY <1>1 DEF HoldersOf
<1>3. Held'
  BY <1>1 DEF ApplyInv, Held
<1>4. FuturesSound'
  BY <1>2 DEF ApplyInv, FuturesSound
<1>5. NoLeakedFutures'
  <2>1. ASSUME NEW f \in applyFutures
        PROVE  \/ \E c \in Client : call'[c].pc \in {"Waiting", "Leaving"} /\ call'[c].future = f
               \/ future[f].err /\ future[f].index \in (lastApplied + 1)..Reached'
    <3>1. CASE \E c \in Client : call[c].pc \in {"Waiting", "Leaving"} /\ call[c].future = f
      BY <1>1, <3>1 DEF Holds
    <3>2. CASE future[f].err /\ future[f].index \in (lastApplied + 1)..Reached
      BY <3>2, FutureTypes, ReachedBounds DEF ApplyInv
    <3> QED BY <3>1, <3>2 DEF ApplyInv, NoLeakedFutures
  <2> QED BY <2>1 DEF NoLeakedFutures
<1>6. AnsweredApplied'
  BY DEF ApplyInv, AnsweredApplied
<1> QED BY <1>3, <1>4, <1>5, <1>6

\* A waiter whose future is in the map keeps it there: it is counted.
LEMMA HolderCounted ==
    ASSUME ApplyInv, NEW c \in Client, Holds(c)
    PROVE  /\ call[c].future \in applyFutures
           /\ future[call[c].future].index = call[c].index
           /\ c \in HoldersOf(call[c].future)
           /\ future[call[c].future].waiters > 0
<1> DEFINE f == call[c].future
<1>1. f \in applyFutures /\ future[f].index = call[c].index
  BY DEF ApplyInv, Held
<1>2. c \in HoldersOf(f)
  BY DEF HoldersOf
<1>3. future[f].waiters = Cardinality(HoldersOf(f))
  BY <1>1 DEF ApplyInv, FuturesSound
<1>4. Cardinality(HoldersOf(f)) \in Nat \ {0}
  BY <1>2, HoldersFinite
<1> QED BY <1>1, <1>2, <1>3, <1>4
-----------------------------------------------------------------------------
(* Init and the steps of the cluster.                                       *)

LEMMA InitApplyInv == Init => ApplyInv
<1> SUFFICES ASSUME Init PROVE ApplyInv
  OBVIOUS
<1>1. /\ <<>> \in Seq(EntryRecord) /\ Len(<<>>) = 0
      /\ <<>> \in Seq(Nat \X (Client \cup {Nil, Other}))
  BY EmptySeq
<1>2. ApplyTypeOK
  BY <1>1 DEF Init, ApplyTypeOK, ApplierState, CallState, NoBatch, IdleCall
<1>3. BatchOfLog /\ Reached = 0
  BY <1>1 DEF Init, BatchOfLog, Reached
<1>4. MachineInOrder
  <2>1. DOMAIN machine = {}
    BY DEF Init
  <2> QED BY <1>3, <2>1 DEF MachineInOrder
<1>5. Held /\ FuturesSound /\ NoLeakedFutures /\ AnsweredApplied
  BY DEF Init, Held, Holds, FuturesSound, NoLeakedFutures, AnsweredApplied, IdleCall
<1> QED BY <1>2, <1>3, <1>4, <1>5 DEF ApplyInv

\* A log that gets an entry at its end.
LEMMA Appended ==
    ASSUME ApplyInv, NEW e \in EntryRecord
    PROVE  /\ Append(log, e) \in Seq(EntryRecord) /\ commitIndex <= Len(Append(log, e))
           /\ \A n \in 1..commitIndex : Append(log, e)[n] = log[n]
<1>1. log \in Seq(EntryRecord) /\ Len(log) \in Nat /\ commitIndex \in Nat /\ commitIndex <= Len(log)
  BY LenProperties DEF ApplyInv, ApplyTypeOK, BatchOfLog
<1>2. /\ Append(log, e) \in Seq(EntryRecord) /\ Len(Append(log, e)) = Len(log) + 1
      /\ \A n \in 1..Len(log) : Append(log, e)[n] = log[n]
  BY <1>1, AppendProperties
<1> QED BY <1>1, <1>2

\* What the cluster does to the node, and the beginnings of calls and of Stop,
\* leave the applier and the futures what they rest on.
LEMMA ClusterStep ==
    ASSUME ApplyInv, UNCHANGED <<applyVars, futureVars>>,
           log' \in Seq(EntryRecord), commitIndex' \in Nat, currentTerm' \in Nat,
           leader' \in BOOLEAN, stop' \in {"Running", "Closed", "Stopped"},
           commitIndex <= commitIndex', commitIndex' <= Len(log'),
           \A n \in 1..commitIndex : log'[n] = log[n],
           applier' = applier \/ (applier = "Waiting" /\ applier' = "Woken"),
           \/ UNCHANGED call
           \/ \E c \in Client, op \in {"Put", "RemoveNode", "Get"}, index \in Nat :
                 call[c].pc = "Idle" /\ Calls(c, op, index)
    PROVE  ApplyInv'
<1>1. UNCHANGED <<lastApplied, batch, machine, failed, future, applyFutures>>
  BY DEF applyVars, futureVars
<1>2. BatchOfLog' /\ MachineInOrder' /\ Reached' = Reached
  BY LogMoves
<1>3. /\ call' \in [Client -> CallRecord]
      /\ \A c \in Client :
            call'[c] = call[c] \/ (call[c].pc = "Idle" /\ call'[c].pc = "Called")
  <2>1. call \in [Client -> CallRecord] /\ currentTerm \in Nat
    BY DEF ApplyInv, ApplyTypeOK, CallRecord
  <2>2. CASE UNCHANGED call
    BY <2>1, <2>2
  <2>3. ASSUME NEW c \in Client, NEW op \in {"Put", "RemoveNode", "Get"}, NEW index \in Nat,
               call[c].pc = "Idle", Calls(c, op, index)
        PROVE  /\ call' \in [Client -> CallRecord]
               /\ \A d \in Client :
                     call'[d] = call[d] \/ (call[d].pc = "Idle" /\ call'[d].pc = "Called")
    <3> DEFINE new == [IdleCall EXCEPT !.pc = "Called", !.op = op, !.index = index,
                                       !.term = currentTerm]
    <3>1. new \in CallRecord /\ new.pc = "Called"
      BY <2>1 DEF IdleCall, CallRecord, CallState
    <3>2. call' = [call EXCEPT ![c] = new]
      BY <2>3 DEF Calls
    <3> HIDE DEF new
    <3>3. call' \in [Client -> CallRecord]
      BY <2>1, <3>1, <3>2
    <3>4. \A d \in Client : call'[d] = IF d = c THEN new ELSE call[d]
      BY <2>1, <3>2
    <3> QED BY <2>3, <3>1, <3>3, <3>4
  <2> QED BY <2>2, <2>3
<1>4. ApplyTypeOK'
  BY <1>1, <1>3 DEF ApplyInv, ApplyTypeOK, ApplierState, CallRecord
<1>5. Reached \in Nat
  BY ReachedBounds DEF ApplyInv
<1>6. \A c \in Client :
         \/ call'[c] = call[c]
         \/ /\ ~Holds(c) /\ call'[c].pc \notin {"Waiting", "Leaving"}
            /\ call'[c].pc = "Returned" => call'[c].index <= lastApplied
  BY <1>3 DEF Holds
<1>7. Held' /\ FuturesSound' /\ NoLeakedFutures' /\ AnsweredApplied'
  BY <1>1, <1>2, <1>5, <1>6, FuturesKept
<1> QED BY <1>2, <1>4, <1>7 DEF ApplyInv

LEMMA BecomeLeaderInv ==
    ASSUME ApplyInv, BecomeLeader
    PROVE  ApplyInv'
<1> DEFINE e == Entry(EntryNormal, currentTerm + 1, Nil)
<1>1. /\ leader' = TRUE /\ currentTerm' = currentTerm + 1 /\ log' = Append(log, e)
      /\ UNCHANGED <<commitIndex, applyVars, applier, futureVars, stop, call>>
  BY DEF BecomeLeader
<1>2. currentTerm \in Nat /\ commitIndex \in Nat /\ stop \in {"Running", "Closed", "Stopped"}
  BY DEF ApplyInv, ApplyTypeOK
<1>3. e \in EntryRecord
  BY <1>2 DEF Entry, EntryRecord
<1> HIDE DEF e
<1>4. /\ log' \in Seq(EntryRecord) /\ commitIndex' <= Len(log')
      /\ \A n \in 1..commitIndex : log'[n] = log[n]
  BY <1>1, <1>3, Appended
<1> QED BY <1>1, <1>2, <1>4, ClusterStep

LEMMA BecomeFollowerInv ==
    ASSUME ApplyInv, BecomeFollower
    PROVE  ApplyInv'
<1>1. /\ leader' = FALSE /\ currentTerm' = currentTerm + 1
      /\ UNCHANGED <<log, commitIndex, applyVars, applier, futureVars, stop, call>>
  BY DEF BecomeFollower
<1>2. /\ currentTerm \in Nat /\ commitIndex \in Nat /\ stop \in {"Running", "Closed", "Stopped"}
      /\ log \in Seq(EntryRecord) /\ commitIndex <= Len(log)
  BY DEF ApplyInv, ApplyTypeOK, BatchOfLog
<1>3. leader' \in BOOLEAN
  BY <1>1
<1>4. /\ log' \in Seq(EntryRecord) /\ commitIndex' \in Nat /\ currentTerm' \in Nat
      /\ stop' \in {"Running", "Closed", "Stopped"} /\ UNCHANGED <<applyVars, futureVars, call>>
      /\ commitIndex <= commitIndex' /\ commitIndex' <= Len(log')
      /\ \A n \in 1..commitIndex : log'[n] = log[n]
  BY <1>1, <1>2
<1> QED BY <1>1, <1>3, <1>4, ClusterStep

LEMMA ReceiveEntryInv ==
    ASSUME ApplyInv, NEW k \in 1..MaxLogLen, NEW arg \in {Nil, Other}, ReceiveEntry(k, arg)
    PROVE  ApplyInv'
<1> DEFINE e == Entry(EntryNormal, currentTerm, arg)
           kept == SubSeq(log, 1, k - 1)
<1>1. /\ k \in (commitIndex + 1)..(Len(log) + 1) /\ log' = Append(kept, e)
      /\ UNCHANGED <<currentTerm, leader, commitIndex, applyVars, applier, futureVars, stop, call>>
  BY DEF ReceiveEntry
<1>2. /\ currentTerm \in Nat /\ commitIndex \in Nat /\ stop \in {"Running", "Closed", "Stopped"}
      /\ log \in Seq(EntryRecord) /\ Len(log) \in Nat /\ leader \in BOOLEAN /\ k \in Nat
  BY <1>1, ApplyAssumption, LenProperties DEF ApplyInv, ApplyTypeOK
<1>3. e \in EntryRecord
  BY <1>2 DEF Entry, EntryRecord
<1> HIDE DEF e
<1>4. \A n \in 1..(k - 1) : log[n] \in EntryRecord
  BY <1>1, <1>2, ElementOfSeq
<1>5. /\ kept \in Seq(EntryRecord)
      /\ Len(kept) = IF 1 <= k - 1 THEN k - 1 - 1 + 1 ELSE 0
      /\ \A n \in 1..(k - 1 - 1 + 1) : kept[n] = log[1 + n - 1]
  BY <1>2, <1>4, SubSeqProperties
<1> HIDE DEF kept
<1>6. Len(kept) = k - 1 /\ \A n \in 1..(k - 1) : kept[n] = log[n]
  BY <1>1, <1>2, <1>5
<1>7. /\ log' \in Seq(EntryRecord) /\ Len(log') = k
      /\ \A n \in 1..(k - 1) : log'[n] = kept[n]
  <2>1. /\ Append(kept, e) \in Seq(EntryRecord) /\ Len(Append(kept, e)) = Len(kept) + 1
        /\ \A n \in 1..Len(kept) : Append(kept, e)[n] = kept[n]
    BY <1>3, <1>5, AppendProperties
  <2> QED BY <1>1, <1>2, <1>6, <2>1
<1>8. \A n \in 1..commitIndex : log'[n] = log[n]
  BY <1>1, <1>2, <1>6, <1>7
<1>9. commitIndex' <= Len(log')
  BY <1>1, <1>2, <1>7
<1> QED BY <1>1, <1>2, <1>7, <1>8, <1>9, ClusterStep

LEMMA CommitInv ==
    ASSUME ApplyInv, NEW n \in 1..MaxLogLen, Commit(n)
    PROVE  ApplyInv'
<1>1. /\ n \in (commitIndex + 1)..Len(log) /\ commitIndex' = n
      /\ applier' = applier \/ (applier = "Waiting" /\ applier' = "Woken")
      /\ UNCHANGED <<log, currentTerm, leader, applyVars, futureVars, stop, call>>
  BY DEF Commit, Broadcast
<1>2. /\ currentTerm \in Nat /\ commitIndex \in Nat /\ stop \in {"Running", "Closed", "Stopped"}
      /\ log \in Seq(EntryRecord) /\ Len(log) \in Nat /\ leader \in BOOLEAN
  BY LenProperties DEF ApplyInv, ApplyTypeOK
<1> QED BY <1>1, <1>2, ClusterStep

LEMMA StopInv ==
    ASSUME ApplyInv, CloseStop \/ BroadcastStop
    PROVE  ApplyInv'
<1>1. /\ applier' = applier \/ (applier = "Waiting" /\ applier' = "Woken")
      /\ stop' \in {"Running", "Closed", "Stopped"}
      /\ UNCHANGED <<log, currentTerm, leader, commitIndex, applyVars, futureVars, call>>
  BY DEF CloseStop, BroadcastStop, Broadcast, raftVars
<1>2. /\ currentTerm \in Nat /\ commitIndex \in Nat
      /\ log \in Seq(EntryRecord) /\ commitIndex <= Len(log) /\ leader \in BOOLEAN
  BY DEF ApplyInv, ApplyTypeOK, BatchOfLog
<1> QED BY <1>1, <1>2, ClusterStep

LEMMA BeginInv ==
    ASSUME ApplyInv, NEW c \in Client, Put(c) \/ RemoveNode(c) \/ Get(c)
    PROVE  ApplyInv'
<1>1. /\ call[c].pc = "Idle"
      /\ UNCHANGED <<currentTerm, leader, commitIndex, applyVars, applier, futureVars, stop>>
  BY DEF Put, RemoveNode, Get, raftVars
<1>2. /\ currentTerm \in Nat /\ commitIndex \in Nat /\ stop \in {"Running", "Closed", "Stopped"}
      /\ log \in Seq(EntryRecord) /\ Len(log) \in Nat /\ leader \in BOOLEAN
      /\ commitIndex <= Len(log)
  BY LenProperties DEF ApplyInv, ApplyTypeOK, BatchOfLog
<1>3. \E op \in {"Put", "RemoveNode", "Get"}, index \in Nat : Calls(c, op, index)
  BY <1>2 DEF Put, RemoveNode, Get
<1>4. /\ log' \in Seq(EntryRecord) /\ commitIndex <= Len(log')
      /\ \A n \in 1..commitIndex : log'[n] = log[n]
  <2>1. CASE Put(c)
    <3>1. Entry(EntryNormal, currentTerm, c) \in EntryRecord
      BY <1>2 DEF Entry, EntryRecord
    <3> QED BY <2>1, <3>1, Appended DEF Put
  <2>2. CASE RemoveNode(c)
    <3>1. Entry(EntryRemoveNode, currentTerm, Other) \in EntryRecord
      BY <1>2 DEF Entry, EntryRecord
    <3> QED BY <2>2, <3>1, Appended DEF RemoveNode
  <2>3. CASE Get(c)
    BY <1>2, <2>3 DEF Get, raftVars
  <2> QED BY <2>1, <2>2, <2>3
<1> QED BY <1>1, <1>2, <1>3, <1>4, ClusterStep

-----------------------------------------------------------------------------
(* The applier.                                                             *)

LEMMA ApplierStartsInv ==
    ASSUME ApplyInv, ApplierStarts
    PROVE  ApplyInv'
<1>1. /\ applier = "Woken" /\ LoopTop(lastApplied)
      /\ UNCHANGED <<log, currentTerm, leader, commitIndex, lastApplied, machine, failed,
                     future, applyFutures, stop, call>>
  BY DEF ApplierStarts, raftVars, futureVars
<1>2. lastApplied \in Nat /\ lastApplied <= commitIndex
  BY DEF ApplyInv, ApplyTypeOK, BatchOfLog
<1>3. /\ BatchOfLog' /\ Reached' = lastApplied /\ applier' \in ApplierState
      /\ batch' \in [base : Nat, commit : Nat, entries : Seq(EntryRecord)]
  BY <1>1, <1>2, LoopTopTakes
<1>4. ApplyTypeOK'
  BY <1>1, <1>3 DEF ApplyInv, ApplyTypeOK
<1>5. Reached = lastApplied
  BY <1>1 DEF Reached
<1>6. MachineInOrder'
  BY <1>1, <1>3, <1>5, MachineKept
<1>7. Held' /\ FuturesSound' /\ NoLeakedFutures' /\ AnsweredApplied'
  BY <1>1, <1>2, <1>3, <1>5, FuturesKept
<1> QED BY <1>3, <1>4, <1>6, <1>7 DEF ApplyInv

\* The applier passes an entry that is no command, or whose error is on record.
LEMMA MachineSkips ==
    ASSUME ApplyInv, UNCHANGED <<log, machine, failed>>, Reached \in Nat, Reached' = Reached + 1,
           IsCommand(log[Reached + 1]) => Reached + 1 \in failed
    PROVE  MachineInOrder'
<1>1. ASSUME NEW n \in 1..(Reached + 1), IsCommand(log[n]) PROVE Done(n)
  <2>1. CASE n \in 1..Reached
    BY <1>1, <2>1 DEF ApplyInv, MachineInOrder
  <2>2. CASE n = Reached + 1
    BY <1>1, <2>2 DEF Done
  <2> QED BY <2>1, <2>2
<1>2. ASSUME NEW k \in DOMAIN machine
      PROVE  /\ machine[k][1] \in 1..(Reached + 1)
             /\ machine[k][2] = log[machine[k][1]].arg
             /\ \A j \in 1..(k - 1) : machine[j][1] < machine[k][1]
  BY DEF ApplyInv, MachineInOrder
<1>3. \A n : /\ IsCommand(log[n])' <=> IsCommand(log[n])
             /\ Done(n)' <=> Done(n)
  BY DEF IsCommand, Done
<1> QED BY <1>1, <1>2, <1>3 DEF MachineInOrder

\* The machine takes the next command.
LEMMA MachineTakes ==
    ASSUME ApplyInv, UNCHANGED <<log, failed>>, Reached \in Nat, Reached' = Reached + 1,
           log[Reached + 1] \in EntryRecord,
           machine' = Append(machine, <<Reached + 1, log[Reached + 1].arg>>)
    PROVE  MachineInOrder' /\ machine' \in Seq(Nat \X (Client \cup {Nil, Other}))
<1> DEFINE new == <<Reached + 1, log[Reached + 1].arg>>
           len == Len(machine)
<1>1. machine \in Seq(Nat \X (Client \cup {Nil, Other})) /\ len \in Nat
      /\ DOMAIN machine = 1..len
  BY LenProperties DEF ApplyInv, ApplyTypeOK
<1>2. new \in Nat \X (Client \cup {Nil, Other}) /\ new[1] = Reached + 1
      /\ new[2] = log[Reached + 1].arg
  BY DEF EntryRecord
<1> HIDE DEF new
<1>3. /\ machine' \in Seq(Nat \X (Client \cup {Nil, Other})) /\ Len(machine') = len + 1
      /\ \A k \in 1..len : machine'[k] = machine[k]
      /\ machine'[len + 1] = new
  BY <1>1, <1>2, AppendProperties DEF new
<1>4. DOMAIN machine' = 1..(len + 1)
  BY <1>1, <1>3, LenProperties
<1> HIDE DEF len
<1>5. ASSUME NEW n \in 1..(Reached + 1), IsCommand(log[n])
      PROVE  n \in failed \/ \E k \in 1..(len + 1) : machine'[k] = <<n, log[n].arg>>
  <2>1. CASE n \in 1..Reached
    <3>1. n \in failed \/ \E k \in 1..len : machine[k] = <<n, log[n].arg>>
      BY <1>1, <1>5, <2>1 DEF ApplyInv, MachineInOrder, Done
    <3>2. \A k \in 1..len : k \in 1..(len + 1)
      BY <1>1
    <3> QED BY ONLY <1>3, <3>1, <3>2
  <2>2. CASE n = Reached + 1
    <3>1. len + 1 \in 1..(len + 1)
      BY <1>1
    <3>2. machine'[len + 1] = <<n, log[n].arg>>
      BY <1>3, <2>2 DEF new
    <3>3. \E k \in 1..(len + 1) : machine'[k] = <<n, log[n].arg>>
      BY <3>1, <3>2, Zenon
    <3> QED BY <3>3
  <2>3. n \in 1..Reached \/ n = Reached + 1
    OBVIOUS
  <2> QED BY <2>1, <2>2, <2>3
<1>6. ASSUME NEW k \in 1..len
      PROVE  /\ machine[k][1] \in 1..Reached
             /\ machine[k][2] = log[machine[k][1]].arg
             /\ \A j \in 1..(k - 1) : machine[j][1] < machine[k][1]
  BY <1>1 DEF ApplyInv, MachineInOrder
<1>7. ASSUME NEW k \in 1..(len + 1)
      PROVE  /\ machine'[k][1] \in 1..(Reached + 1)
             /\ machine'[k][2] = log[machine'[k][1]].arg
             /\ \A j \in 1..(k - 1) : machine'[j][1] < machine'[k][1]
  <2>1. CASE k \in 1..len
    <3>1. \A j \in 1..(k - 1) : j \in 1..len
      BY <1>1, <2>1
    <3>2. \A j \in 1..(k - 1) : machine'[j][1] < machine'[k][1]
      BY <1>3, <1>6, <2>1, <3>1
    <3> QED BY <1>3, <1>6, <2>1, <3>2
  <2>2. CASE k = len + 1
    <3>1. \A j \in 1..(k - 1) : j \in 1..len
      BY <1>1, <2>2
    <3>2. \A j \in 1..(k - 1) : machine'[j][1] < Reached + 1
      BY <1>3, <1>6, <3>1
    <3> QED BY <1>2, <1>3, <2>2, <3>2
  <2> QED BY <1>1, <2>1, <2>2
<1>8. \A n : IsCommand(log[n])' <=> IsCommand(log[n])
  BY DEF IsCommand
<1>9. \A n \in 1..(Reached + 1) : IsCommand(log[n])' => Done(n)'
  BY <1>4, <1>5, <1>8 DEF Done
<1> QED BY <1>3, <1>4, <1>7, <1>9 DEF MachineInOrder

LEMMA ApplyEntryInv ==
    ASSUME ApplyInv, ApplyEntry
    PROVE  ApplyInv'
<1> DEFINE e == Head(batch.entries)
<1>1. /\ applier = "Applying" /\ batch.entries # <<>>
      /\ UNCHANGED <<log, currentTerm, leader, commitIndex, lastApplied, future, applyFutures,
                     stop, call>>
      /\ \/ /\ ~IsCommand(e)
            /\ batch' = [batch EXCEPT !.entries = Tail(@)]
            /\ UNCHANGED <<applier, machine, failed>>
         \/ /\ IsCommand(e)
            /\ batch' = [batch EXCEPT !.entries = Tail(@)]
            /\ machine' = Append(machine, <<NextIndex, e.arg>>)
            /\ UNCHANGED <<applier, failed>>
         \/ /\ IsCommand(e)
            /\ applier' = "Failed"
            /\ failed' = failed \cup {NextIndex}
            /\ UNCHANGED <<batch, machine>>
  BY DEF ApplyEntry, raftVars, futureVars
<1>2. Reached \in Nat /\ NextIndex = Reached + 1 /\ lastApplied \in Nat
  BY <1>1, ReachedBounds DEF ApplyInv
<1> SUFFICES ApplyTypeOK' /\ BatchOfLog' /\ MachineInOrder' /\ Reached' \in Nat /\ Reached' >= Reached
  <2>1. Held' /\ FuturesSound' /\ NoLeakedFutures' /\ AnsweredApplied'
    BY <1>1, FuturesKept
  <2> QED BY <2>1 DEF ApplyInv
<1>3. ASSUME applier' = "Applying", batch' = [batch EXCEPT !.entries = Tail(@)]
      PROVE  /\ BatchOfLog' /\ Reached' = Reached + 1
             /\ batch' \in [base : Nat, commit : Nat, entries : Seq(EntryRecord)]
             /\ e = log[Reached + 1] /\ log[Reached + 1] \in EntryRecord
  BY <1>1, <1>2, <1>3, BatchShrinks
<1> HIDE DEF e
<1>4. CASE ~IsCommand(e) /\ batch' = [batch EXCEPT !.entries = Tail(@)]
           /\ UNCHANGED <<applier, machine, failed>>
  <2>1. MachineInOrder'
    BY <1>1, <1>2, <1>3, <1>4, MachineSkips
  <2>2. ApplyTypeOK'
    BY <1>1, <1>3, <1>4 DEF ApplyInv, ApplyTypeOK
  <2> QED BY <1>1, <1>2, <1>3, <1>4, <2>1, <2>2
<1>5. CASE batch' = [batch EXCEPT !.entries = Tail(@)]
           /\ machine' = Append(machine, <<NextIndex, e.arg>>) /\ UNCHANGED <<applier, failed>>
  <2>1. MachineInOrder' /\ machine' \in Seq(Nat \X (Client \cup {Nil, Other}))
    BY <1>1, <1>2, <1>3, <1>5, MachineTakes
  <2>2. ApplyTypeOK'
    BY <1>1, <1>3, <1>5, <2>1 DEF ApplyInv, ApplyTypeOK
  <2> QED BY <1>1, <1>2, <1>3, <1>5, <2>1, <2>2
<1>6. CASE applier' = "Failed" /\ failed' = failed \cup {NextIndex} /\ UNCHANGED <<batch, machine>>
  <2>1. Reached' = Reached /\ NextIndex' = NextIndex
    BY <1>1, <1>6 DEF Reached, NextIndex
  <2>2. BatchOfLog'
    BY <1>1, <1>6, <2>1 DEF ApplyInv, BatchOfLog
  <2>3. MachineInOrder'
    BY <1>1, <1>6, <2>1, MachineKept
  <2>4. ApplyTypeOK'
    BY <1>1, <1>2, <1>6 DEF ApplyInv, ApplyTypeOK, ApplierState
  <2> QED BY <1>2, <2>1, <2>2, <2>3, <2>4
<1> QED BY <1>1, <1>4, <1>5, <1>6

LEMMA FileErrorInv ==
    ASSUME ApplyInv, FileError
    PROVE  ApplyInv'
<1> DEFINE n == NextIndex
           a == FutureOf(n)
           b == [Got(n) EXCEPT !.err = TRUE]
<1>1. /\ applier = "Failed" /\ FutureLeft(n) /\ applier' = "Applying"
      /\ future' = [future EXCEPT ![a] = b]
      /\ applyFutures' = applyFutures \cup {a}
      /\ batch' = [batch EXCEPT !.entries = Tail(@)]
      /\ UNCHANGED <<log, currentTerm, leader, commitIndex, lastApplied, machine, failed, stop, call>>
  BY DEF FileError, raftVars
<1>2. /\ Reached \in Nat /\ n = Reached + 1 /\ n \in Nat /\ lastApplied \in Nat
      /\ lastApplied <= Reached
  BY <1>1, ReachedBounds DEF ApplyInv
<1>3. batch.entries # <<>> /\ n \in failed
  BY <1>1 DEF ApplyInv, BatchOfLog
<1>4. /\ BatchOfLog' /\ Reached' = Reached + 1
      /\ batch' \in [base : Nat, commit : Nat, entries : Seq(EntryRecord)]
  BY <1>1, <1>2, <1>3, BatchShrinks
<1>5. MachineInOrder'
  BY <1>1, <1>2, <1>3, <1>4, MachineSkips
<1>6. /\ a \in FutureId
      /\ \/ a \in applyFutures /\ future[a].index = n /\ Got(n) = future[a]
         \/ /\ a \notin applyFutures /\ Got(n) = NewFuture(n)
            /\ \A c \in Client : call[c].future # a
            /\ \A f \in applyFutures : future[f].index # n
  BY <1>1, <1>2, GotFacts DEF ApplyInv
<1> HIDE DEF a, n
<1>7. /\ applyFutures \subseteq FutureId
      /\ future \in [FutureId -> [index : Nat, resolved : BOOLEAN, err : BOOLEAN, waiters : Nat]]
  BY DEF ApplyInv, ApplyTypeOK
<1>8. /\ Got(n) \in [index : Nat, resolved : BOOLEAN, err : BOOLEAN, waiters : Nat]
      /\ Got(n).index = n /\ ~Got(n).resolved /\ Got(n).waiters = Cardinality(HoldersOf(a))
  <2>1. CASE a \in applyFutures /\ future[a].index = n /\ Got(n) = future[a]
    <3>1. ~(lastApplied >= n)
      BY <1>2
    <3> QED BY <1>6, <1>7, <2>1, <3>1 DEF ApplyInv, FuturesSound
  <2>2. CASE Got(n) = NewFuture(n) /\ \A c \in Client : call[c].future # a
    <3>1. HoldersOf(a) = {}
      BY <2>2 DEF HoldersOf
    <3>2. Cardinality(HoldersOf(a)) = 0
      BY <3>1, FS_EmptySet
    <3>3. Got(n) = [index |-> n, resolved |-> FALSE, err |-> FALSE, waiters |-> 0]
      BY <2>2 DEF NewFuture
    <3>4. Got(n) \in [index : Nat, resolved : BOOLEAN, err : BOOLEAN, waiters : Nat]
      <4>1. n \in Nat /\ 0 \in Nat /\ FALSE \in BOOLEAN
        BY <1>2
      <4> QED BY <3>3, <4>1
    <3>5. Got(n).index = n /\ Got(n).waiters = 0
      BY <3>3
    <3>6. ~Got(n).resolved
      BY <3>3
    <3> QED BY <3>2, <3>4, <3>5, <3>6
  <2> QED BY <1>6, <2>1, <2>2
<1>9. /\ b \in [index : Nat, resolved : BOOLEAN, err : BOOLEAN, waiters : Nat]
      /\ b.index = n /\ ~b.resolved /\ b.err /\ b.waiters = Cardinality(HoldersOf(a))
  BY <1>8
<1> HIDE DEF b
<1>10. /\ future' \in [FutureId -> [index : Nat, resolved : BOOLEAN, err : BOOLEAN, waiters : Nat]]
       /\ applyFutures' \subseteq FutureId
       /\ future'[a] = b /\ \A f \in applyFutures : f # a => future'[f] = future[f]
  BY <1>1, <1>6, <1>7, <1>9
<1>11. ApplyTypeOK'
  BY <1>1, <1>4, <1>10 DEF ApplyInv, ApplyTypeOK, ApplierState
<1>12. \A f : HoldersOf(f)' = HoldersOf(f)
  BY <1>1 DEF HoldersOf, Holds
<1>13. \A f \in applyFutures : future'[f].index = future[f].index
  BY <1>6, <1>9, <1>10
<1>14. Held'
  BY <1>1, <1>13 DEF ApplyInv, Held, Holds
<1>15. FuturesSound'
  <2>1. ASSUME NEW f \in applyFutures', NEW g \in applyFutures', future'[f].index = future'[g].index
        PROVE  f = g
    <3>1. CASE a \in applyFutures
      BY <1>1, <1>13, <2>1, <3>1 DEF ApplyInv, FuturesSound
    <3>2. CASE a \notin applyFutures
      <4>1. \A h \in applyFutures : future'[h].index # future'[a].index
        BY <1>6, <1>9, <1>10, <1>13, <3>2
      <4> QED BY <1>1, <1>13, <2>1, <4>1 DEF ApplyInv, FuturesSound
    <3> QED BY <3>1, <3>2
  <2>2. ASSUME NEW f \in applyFutures'
        PROVE  /\ future'[f].resolved <=> lastApplied' >= future'[f].index
               /\ future'[f].waiters = Cardinality(HoldersOf(f))
    <3>1. CASE f = a
      BY <1>1, <1>2, <1>9, <1>10, <3>1
    <3>2. CASE f # a
      BY <1>1, <1>10, <3>2 DEF ApplyInv, FuturesSound
    <3> QED BY <3>1, <3>2
  <2> QED BY <1>12, <2>1, <2>2 DEF FuturesSound
<1>16. NoLeakedFutures'
  <2>1. ASSUME NEW f \in applyFutures'
        PROVE  \/ \E c \in Client : call[c].pc \in {"Waiting", "Leaving"} /\ call[c].future = f
               \/ future'[f].err /\ future'[f].index \in (lastApplied + 1)..(Reached + 1)
    <3>1. CASE f = a
      BY <1>2, <1>9, <1>10, <3>1
    <3>2. CASE f # a
      <4>1. f \in applyFutures /\ future'[f] = future[f]
        BY <1>1, <1>10, <3>2
      <4>2. \/ \E c \in Client : call[c].pc \in {"Waiting", "Leaving"} /\ call[c].future = f
            \/ future[f].err /\ future[f].index \in (lastApplied + 1)..Reached
        BY <4>1 DEF ApplyInv, NoLeakedFutures
      <4>3. future[f].index \in (lastApplied + 1)..Reached
               => future[f].index \in (lastApplied + 1)..(Reached + 1)
        BY <1>2
      <4> QED BY <4>1, <4>2, <4>3
    <3> QED BY <3>1, <3>2
  <2> QED BY <1>1, <1>4, <2>1 DEF NoLeakedFutures
<1>17. AnsweredApplied'
  BY <1>1 DEF ApplyInv, AnsweredApplied
<1> QED BY <1>4, <1>5, <1>11, <1>14, <1>15, <1>16, <1>17 DEF ApplyInv

LEMMA FinishBatchInv ==
    ASSUME ApplyInv, FinishBatch
    PROVE  ApplyInv'
<1> DEFINE to == batch.commit
<1>1. /\ applier = "Applying" /\ batch.entries = <<>> /\ lastApplied' = to
      /\ ResolveFutures(to) /\ LoopTop(to)
      /\ UNCHANGED <<log, currentTerm, leader, commitIndex, machine, failed, stop, call>>
  BY DEF FinishBatch, AppliedTo, raftVars
<1>2. Reached = to /\ to \in Nat /\ to <= commitIndex /\ lastApplied \in Nat /\ lastApplied <= to
  <2>1. Len(batch.entries) = 0
    BY <1>1, EmptySeq
  <2>2. /\ batch.commit \in Nat /\ Reached = batch.commit - Len(batch.entries)
        /\ Reached <= commitIndex /\ lastApplied <= Reached /\ lastApplied \in Nat
    BY <1>1, ReachedBounds DEF ApplyInv
  <2> QED BY <2>1, <2>2
<1> HIDE DEF to
<1>3. /\ BatchOfLog' /\ Reached' = to /\ applier' \in ApplierState
      /\ batch' \in [base : Nat, commit : Nat, entries : Seq(EntryRecord)]
  BY <1>1, <1>2, LoopTopTakes
<1>4. MachineInOrder'
  BY <1>1, <1>2, <1>3, MachineKept
<1>5. /\ applyFutures \subseteq FutureId
      /\ future \in [FutureId -> [index : Nat, resolved : BOOLEAN, err : BOOLEAN, waiters : Nat]]
  BY DEF ApplyInv, ApplyTypeOK
<1>6. /\ future' = [f \in FutureId |-> IF f \in applyFutures /\ future[f].index <= to
                                       THEN [future[f] EXCEPT !.resolved = TRUE] ELSE future[f]]
      /\ applyFutures' = {f \in applyFutures : future[f].waiters > 0 \/ future[f].index > to
                                                  \/ future[f].resolved}
  BY <1>1 DEF ResolveFutures
<1>7. /\ future' \in [FutureId -> [index : Nat, resolved : BOOLEAN, err : BOOLEAN, waiters : Nat]]
      /\ applyFutures' \subseteq applyFutures
      /\ \A f \in FutureId : /\ future'[f].index = future[f].index
                             /\ future'[f].waiters = future[f].waiters
                             /\ future'[f].err = future[f].err
  BY <1>5, <1>6
<1>8. ApplyTypeOK'
  BY <1>1, <1>2, <1>3, <1>5, <1>7 DEF ApplyInv, ApplyTypeOK
<1>9. \A f : HoldersOf(f)' = HoldersOf(f)
  BY <1>1 DEF HoldersOf, Holds
<1>10. Held'
  <2>1. ASSUME NEW c \in Client, Holds(c)
        PROVE  call[c].future \in applyFutures' /\ future'[call[c].future].index = call[c].index
    BY <1>5, <1>6, <1>7, <2>1, HolderCounted
  <2> QED BY <1>1, <2>1 DEF Held, Holds
<1>11. FuturesSound'
  <2>1. ASSUME NEW f \in applyFutures' PROVE future'[f].resolved <=> lastApplied' >= future'[f].index
    <3>1. f \in applyFutures /\ f \in FutureId /\ future[f].index \in Nat
      BY <1>5, <1>7
    <3>2. future[f].resolved <=> lastApplied >= future[f].index
      BY <3>1 DEF ApplyInv, FuturesSound
    <3>3. CASE future[f].index <= to
      <4>1. future'[f].resolved
        BY <1>5, <1>6, <3>1, <3>3
      <4> QED BY <1>1, <1>2, <1>7, <3>1, <3>3, <4>1
    <3>4. CASE ~(future[f].index <= to)
      <4>1. future'[f] = future[f]
        BY <1>6, <3>1, <3>4
      <4>2. ~(lastApplied >= future[f].index) /\ ~(to >= future[f].index)
        BY <1>2, <3>1, <3>4
      <4> QED BY <1>1, <3>2, <4>1, <4>2
    <3> QED BY <3>3, <3>4
  <2> QED BY <1>5, <1>7, <1>9, <2>1 DEF ApplyInv, FuturesSound
<1>12. NoLeakedFutures'
  <2>1. ASSUME NEW f \in applyFutures'
        PROVE  \E c \in Client : call[c].pc \in {"Waiting", "Leaving"} /\ call[c].future = f
    <3>1. f \in applyFutures /\ future[f].index \in Nat
      BY <1>5, <1>7
    <3>2. CASE future[f].waiters > 0
      <4>1. Cardinality(HoldersOf(f)) # 0
        BY <3>1, <3>2 DEF ApplyInv, FuturesSound
      <4>2. PICK c : c \in HoldersOf(f)
        BY <4>1, HoldersFinite
      <4> QED BY <4>2 DEF HoldersOf, Holds
    <3>3. CASE future[f].index > to \/ future[f].resolved
      <4>1. ~(future[f].index \in (lastApplied + 1)..Reached)
        BY <1>2, <3>1, <3>3 DEF ApplyInv, FuturesSound
      <4> QED BY <3>1, <4>1 DEF ApplyInv, NoLeakedFutures
    <3> QED BY <1>6, <3>2, <3>3
  <2> QED BY <1>1, <2>1 DEF NoLeakedFutures
<1>13. AnsweredApplied'
  <2>1. \A c \in Client : call[c].index \in Nat
    BY FutureTypes DEF ApplyInv
  <2> QED BY <1>1, <1>2, <2>1 DEF ApplyInv, AnsweredApplied
<1> QED BY <1>3, <1>4, <1>8, <1>10, <1>11, <1>12, <1>13 DEF ApplyInv

-----------------------------------------------------------------------------
(* The waiting calls.                                                       *)

\* What the applier and the machine rest on stays as it is.
LEMMA ApplierKept ==
    ASSUME ApplyInv, UNCHANGED <<log, commitIndex, lastApplied, applier, batch, machine, failed>>
    PROVE  BatchOfLog' /\ MachineInOrder' /\ Reached' = Reached
<1>1. Reached' = Reached /\ NextIndex' = NextIndex
  BY DEF Reached, NextIndex
<1>2. BatchOfLog'
  BY <1>1 DEF ApplyInv, BatchOfLog
<1> QED BY <1>1, <1>2, MachineKept

\* One call changes.
LEMMA CallChanges ==
    ASSUME ApplyInv, NEW c \in Client, NEW rec \in CallRecord, call' = [call EXCEPT ![c] = rec]
    PROVE  /\ call' \in [Client -> CallRecord]
           /\ call'[c] = rec /\ \A d \in Client : d # c => call'[d] = call[d]
BY DEF ApplyInv, ApplyTypeOK, CallRecord

\* The index is applied already.
LEMMA FoundAppliedInv ==
    ASSUME ApplyInv, NEW c \in Client, call[c].pc = "Called", lastApplied >= call[c].index,
           Returns(c, "Ok"), UNCHANGED <<raftVars, applyVars, applier, futureVars, stop>>
    PROVE  ApplyInv'
<1> DEFINE rec == [call[c] EXCEPT !.pc = "Returned", !.result = "Ok", !.future = NoFuture]
<1>1. UNCHANGED <<log, currentTerm, leader, commitIndex, lastApplied, batch, machine, failed,
                  applier, future, applyFutures, stop>>
  BY DEF raftVars, applyVars, futureVars
<1>2. call[c] \in CallRecord
  BY DEF ApplyInv, ApplyTypeOK, CallRecord
<1>3. call' = [call EXCEPT ![c] = rec]
  BY DEF Returns
<1>4. rec \in CallRecord /\ rec.pc = "Returned" /\ rec.index = call[c].index
  BY <1>2 DEF CallRecord, CallState
<1> HIDE DEF rec
<1>5. /\ call' \in [Client -> CallRecord]
      /\ call'[c] = rec /\ \A d \in Client : d # c => call'[d] = call[d]
  BY <1>3, <1>4, CallChanges
<1>6. BatchOfLog' /\ MachineInOrder' /\ Reached' = Reached /\ Reached \in Nat
  BY <1>1, ApplierKept, ReachedBounds DEF ApplyInv
<1>7. ApplyTypeOK'
  BY <1>1, <1>5 DEF ApplyInv, ApplyTypeOK, CallRecord
<1>8. \A d \in Client :
         \/ call'[d] = call[d]
         \/ /\ ~Holds(d) /\ call'[d].pc \notin {"Waiting", "Leaving"}
            /\ call'[d].pc = "Returned" => call'[d].index <= lastApplied
  <2>1. ~Holds(c) /\ rec.pc \notin {"Waiting", "Leaving"} /\ rec.index <= lastApplied
    <3>1. call[c].index \in Nat /\ lastApplied \in Nat
      BY FutureTypes DEF ApplyInv
    <3> QED BY <1>4, <3>1 DEF Holds
  <2> QED BY <1>5, <2>1
<1>9. Held' /\ FuturesSound' /\ NoLeakedFutures' /\ AnsweredApplied'
  BY <1>1, <1>6, <1>8, FuturesKept
<1> QED BY <1>6, <1>7, <1>9 DEF ApplyInv

\* The call joins the future of its index, or makes it.
LEMMA JoinsFutureInv ==
    ASSUME ApplyInv, NEW c \in Client, call[c].pc = "Called", lastApplied < call[c].index,
           FutureLeft(call[c].index),
           future' = [future EXCEPT ![FutureOf(call[c].index)] =
                         [Got(call[c].index) EXCEPT !.waiters = @ + 1]],
           applyFutures' = applyFutures \cup {FutureOf(call[c].index)},
           call' = [call EXCEPT ![c].pc = "Waiting", ![c].future = FutureOf(call[c].index)],
           UNCHANGED <<raftVars, applyVars, applier, stop>>
    PROVE  ApplyInv'
<1>0. PICK n, a : n = call[c].index /\ a = FutureOf(n)
  OBVIOUS
<1> DEFINE b == [Got(n) EXCEPT !.waiters = @ + 1]
           rec == [call[c] EXCEPT !.pc = "Waiting", !.future = a]
           FutureRecord == [index : Nat, resolved : BOOLEAN, err : BOOLEAN, waiters : Nat]
<1>1. UNCHANGED <<log, currentTerm, leader, commitIndex, lastApplied, batch, machine, failed,
                  applier, stop>>
  BY DEF raftVars, applyVars
<1>2. call[c] \in CallRecord /\ n \in Nat /\ lastApplied \in Nat
  BY <1>0 DEF ApplyInv, ApplyTypeOK, CallRecord
<1>3. /\ a \in FutureId
      /\ \/ a \in applyFutures /\ future[a].index = n /\ Got(n) = future[a]
         \/ /\ a \notin applyFutures /\ Got(n) = NewFuture(n)
            /\ \A d \in Client : call[d].future # a
            /\ \A f \in applyFutures : future[f].index # n
  BY <1>0, <1>2, GotFacts DEF ApplyInv
<1>4. call' = [call EXCEPT ![c] = rec] /\ rec \in CallRecord
      /\ rec.pc = "Waiting" /\ rec.future = a /\ rec.index = n
  BY <1>0, <1>2, <1>3 DEF CallRecord, CallState
<1>5. /\ future' = [future EXCEPT ![a] = b] /\ applyFutures' = applyFutures \cup {a}
      /\ lastApplied < n
  BY <1>0
<1> HIDE DEF rec
<1>6. /\ call' \in [Client -> CallRecord]
      /\ call'[c] = rec /\ \A d \in Client : d # c => call'[d] = call[d]
  BY <1>4, CallChanges
<1>7. /\ applyFutures \subseteq FutureId /\ future \in [FutureId -> FutureRecord]
  BY DEF ApplyInv, ApplyTypeOK
<1>8. /\ Got(n) \in FutureRecord
      /\ Got(n).index = n /\ ~Got(n).resolved /\ Got(n).waiters = Cardinality(HoldersOf(a))
  <2>1. CASE a \in applyFutures /\ future[a].index = n /\ Got(n) = future[a]
    <3>1. ~(lastApplied >= n)
      BY <1>2, <1>5
    <3> QED BY <1>3, <1>7, <2>1, <3>1 DEF ApplyInv, FuturesSound
  <2>2. CASE Got(n) = NewFuture(n) /\ \A d \in Client : call[d].future # a
    <3>1. HoldersOf(a) = {}
      BY <2>2 DEF HoldersOf
    <3>2. Cardinality(HoldersOf(a)) = 0
      BY <3>1, FS_EmptySet
    <3>3. Got(n) = [index |-> n, resolved |-> FALSE, err |-> FALSE, waiters |-> 0]
      BY <2>2 DEF NewFuture
    <3>4. Got(n) \in FutureRecord
      <4>1. n \in Nat /\ 0 \in Nat /\ FALSE \in BOOLEAN
        BY <1>2
      <4> QED BY <3>3, <4>1
    <3>5. Got(n).index = n /\ Got(n).waiters = 0
      BY <3>3
    <3>6. ~Got(n).resolved
      BY <3>3
    <3> QED BY <3>2, <3>4, <3>5, <3>6
  <2> QED BY <1>3, <2>1, <2>2
<1>9. /\ b \in FutureRecord
      /\ b.index = n /\ ~b.resolved /\ b.err = Got(n).err
      /\ b.waiters = Cardinality(HoldersOf(a)) + 1
  BY <1>8
<1> HIDE DEF b
<1>10. /\ future' \in [FutureId -> FutureRecord] /\ applyFutures' \subseteq FutureId
       /\ future'[a] = b /\ \A f \in applyFutures : f # a => future'[f] = future[f]
  BY <1>3, <1>5, <1>7, <1>9
<1>11. ApplyTypeOK'
  BY <1>1, <1>6, <1>10 DEF ApplyInv, ApplyTypeOK, CallRecord
<1>12. c \notin HoldersOf(a) /\ HoldersOf(a)' = HoldersOf(a) \cup {c}
  <2>1. c \notin HoldersOf(a)
    BY DEF HoldersOf, Holds
  <2>2. \A d \in Client : d \in HoldersOf(a)' <=> d \in HoldersOf(a) \cup {c}
    <3>1. c \in HoldersOf(a)'
      BY <1>4, <1>6 DEF HoldersOf, Holds
    <3>2. \A d \in Client : d # c => (d \in HoldersOf(a)' <=> d \in HoldersOf(a))
      BY <1>6 DEF HoldersOf, Holds
    <3> QED BY <3>1, <3>2
  <2>3. HoldersOf(a)' \subseteq Client /\ HoldersOf(a) \subseteq Client
    BY DEF HoldersOf
  <2> QED BY <2>1, <2>2, <2>3
<1>13. ASSUME NEW f, f # a PROVE HoldersOf(f)' = HoldersOf(f)
  <2>1. c \notin HoldersOf(f) /\ c \notin HoldersOf(f)'
    BY <1>4, <1>6, <1>13 DEF HoldersOf, Holds
  <2>2. \A d \in Client : d # c => (d \in HoldersOf(f)' <=> d \in HoldersOf(f))
    BY <1>6 DEF HoldersOf, Holds
  <2>3. HoldersOf(f)' \subseteq Client /\ HoldersOf(f) \subseteq Client
    BY DEF HoldersOf
  <2>4. \A d : d \in HoldersOf(f)' <=> d \in HoldersOf(f)
    BY ONLY <2>1, <2>2, <2>3
  <2> QED BY ONLY <2>4
<1>14. b.waiters = Cardinality(HoldersOf(a)')
  <2>1. IsFiniteSet(HoldersOf(a))
    BY ONLY HoldersFinite
  <2>2. Cardinality(HoldersOf(a) \cup {c}) = Cardinality(HoldersOf(a)) + 1
    BY ONLY <1>12, <2>1, FS_AddElement
  <2> QED BY ONLY <1>9, <1>12, <2>2
<1>15. \A f \in applyFutures : future'[f].index = future[f].index
  BY <1>3, <1>9, <1>10
<1>16. Held'
  <2>1. ASSUME NEW d \in Client, Holds(d)'
        PROVE  call'[d].future \in applyFutures' /\ future'[call'[d].future].index = call'[d].index
    <3>1. CASE d = c
      BY <1>4, <1>5, <1>6, <1>9, <1>10, <3>1
    <3>2. CASE d # c
      BY <1>5, <1>6, <1>15, <2>1, <3>2 DEF ApplyInv, Held, Holds
    <3> QED BY <3>1, <3>2
  <2> QED BY <2>1 DEF Held
<1>17. FuturesSound'
  <2>1. ASSUME NEW f \in applyFutures', NEW g \in applyFutures', future'[f].index = future'[g].index
        PROVE  f = g
    <3>1. CASE a \in applyFutures
      BY <1>5, <1>15, <2>1, <3>1 DEF ApplyInv, FuturesSound
    <3>2. CASE a \notin applyFutures
      <4>1. \A h \in applyFutures : future'[h].index # future'[a].index
        BY <1>3, <1>9, <1>10, <1>15, <3>2
      <4> QED BY <1>5, <1>15, <2>1, <4>1 DEF ApplyInv, FuturesSound
    <3> QED BY <3>1, <3>2
  <2>2. ASSUME NEW f \in applyFutures'
        PROVE  /\ future'[f].resolved <=> lastApplied' >= future'[f].index
               /\ future'[f].waiters = Cardinality(HoldersOf(f)')
    <3>1. CASE f = a
      <4>1. ~(lastApplied >= n)
        BY <1>2, <1>5
      <4> QED BY <1>1, <1>9, <1>10, <1>14, <3>1, <4>1
    <3>2. CASE f # a
      BY <1>1, <1>5, <1>10, <1>13, <3>2 DEF ApplyInv, FuturesSound
    <3> QED BY <3>1, <3>2
  <2> QED BY <2>1, <2>2 DEF FuturesSound
<1>18. BatchOfLog' /\ MachineInOrder' /\ Reached' = Reached
  BY <1>1, ApplierKept
<1>19. NoLeakedFutures'
  <2>1. ASSUME NEW f \in applyFutures'
        PROVE  \/ \E d \in Client : call'[d].pc \in {"Waiting", "Leaving"} /\ call'[d].future = f
               \/ future'[f].err /\ future'[f].index \in (lastApplied + 1)..Reached
    <3>1. CASE f = a
      BY <1>4, <1>6, <3>1
    <3>2. CASE f # a
      <4>1. f \in applyFutures /\ future'[f] = future[f]
        BY <1>5, <1>10, <3>2
      <4>2. CASE \E d \in Client : call[d].pc \in {"Waiting", "Leaving"} /\ call[d].future = f
        <5>1. PICK d \in Client : call[d].pc \in {"Waiting", "Leaving"} /\ call[d].future = f
          BY <4>2
        <5>2. d # c
          BY <5>1
        <5> QED BY <1>6, <5>1, <5>2
      <4> QED BY <4>1, <4>2 DEF ApplyInv, NoLeakedFutures
    <3> QED BY <3>1, <3>2
  <2> QED BY <1>1, <1>18, <2>1 DEF NoLeakedFutures
<1>20. AnsweredApplied'
  BY <1>1, <1>4, <1>6 DEF ApplyInv, AnsweredApplied
<1> QED BY <1>11, <1>16, <1>17, <1>18, <1>19, <1>20 DEF ApplyInv

LEMMA WaitForAppliedInv ==
    ASSUME ApplyInv, NEW c \in Client, WaitForApplied(c)
    PROVE  ApplyInv'
<1>1. call[c].pc = "Called" /\ UNCHANGED <<raftVars, applyVars, applier, stop>>
  BY DEF WaitForApplied
<1>2. CASE lastApplied >= call[c].index /\ Returns(c, "Ok") /\ UNCHANGED futureVars
  BY <1>1, <1>2, FoundAppliedInv
<1>3. CASE /\ lastApplied < call[c].index
           /\ FutureLeft(call[c].index)
           /\ future' = [future EXCEPT ![FutureOf(call[c].index)] =
                            [Got(call[c].index) EXCEPT !.waiters = @ + 1]]
           /\ applyFutures' = applyFutures \cup {FutureOf(call[c].index)}
           /\ call' = [call EXCEPT ![c].pc = "Waiting", ![c].future = FutureOf(call[c].index)]
  BY <1>1, <1>3, JoinsFutureInv
<1> QED BY <1>2, <1>3 DEF WaitForApplied

\* The select is over, with an answer only if the index is applied.
LEMMA LeavesInv ==
    ASSUME ApplyInv, NEW c \in Client, NEW result \in {"Ok", "ApplyError", "Timeout"},
           call[c].pc = "Waiting", Leaves(c, result),
           result # "Timeout" => call[c].index <= lastApplied
    PROVE  ApplyInv'
<1> DEFINE rec == [call[c] EXCEPT !.pc = "Leaving", !.result = result]
<1>1. /\ call' = [call EXCEPT ![c] = rec]
      /\ UNCHANGED <<log, currentTerm, leader, commitIndex, lastApplied, batch, machine, failed,
                     applier, future, applyFutures, stop>>
  BY DEF Leaves, raftVars, applyVars, futureVars
<1>2. call[c] \in CallRecord
  BY DEF ApplyInv, ApplyTypeOK, CallRecord
<1>3. /\ rec \in CallRecord /\ rec.pc = "Leaving" /\ rec.index = call[c].index
      /\ rec.future = call[c].future /\ rec.result = result
  BY <1>2 DEF CallRecord, CallState
<1> HIDE DEF rec
<1>4. /\ call' \in [Client -> CallRecord]
      /\ call'[c] = rec /\ \A d \in Client : d # c => call'[d] = call[d]
  BY <1>1, <1>3, CallChanges
<1>5. \A d \in Client : /\ Holds(d)' <=> Holds(d)
                        /\ call'[d].future = call[d].future /\ call'[d].index = call[d].index
  BY <1>3, <1>4 DEF Holds
<1>6. ASSUME NEW f PROVE HoldersOf(f)' = HoldersOf(f)
  BY <1>5 DEF HoldersOf
<1>7. BatchOfLog' /\ MachineInOrder' /\ Reached' = Reached
  BY <1>1, ApplierKept
<1>8. ApplyTypeOK'
  BY <1>1, <1>4 DEF ApplyInv, ApplyTypeOK, CallRecord
<1>9. Held'
  BY <1>1, <1>5 DEF ApplyInv, Held
<1>10. FuturesSound'
  BY <1>1, <1>6 DEF ApplyInv, FuturesSound
<1>11. NoLeakedFutures'
  <2>1. ASSUME NEW f \in applyFutures, NEW d \in Client,
               call[d].pc \in {"Waiting", "Leaving"}, call[d].future = f
        PROVE  call'[d].pc \in {"Waiting", "Leaving"} /\ call'[d].future = f
    BY <1>5, <2>1 DEF Holds
  <2> QED BY <1>1, <1>7, <2>1 DEF ApplyInv, NoLeakedFutures
<1>12. AnsweredApplied'
  <2>1. ASSUME NEW d \in Client, call'[d].pc \in {"Leaving", "Returned"},
               call'[d].result \in {"Ok", "ApplyError"}
        PROVE  call'[d].index <= lastApplied
    <3>1. CASE d = c
      BY <1>3, <1>4, <2>1, <3>1
    <3>2. CASE d # c
      BY <1>4, <2>1, <3>2 DEF ApplyInv, AnsweredApplied
    <3> QED BY <3>1, <3>2
  <2> QED BY <1>1, <2>1 DEF AnsweredApplied
<1> QED BY <1>7, <1>8, <1>9, <1>10, <1>11, <1>12 DEF ApplyInv

LEMMA SelectInv ==
    ASSUME ApplyInv, NEW c \in Client, Notified(c) \/ TimesOut(c)
    PROVE  ApplyInv'
<1>1. CASE Notified(c)
  <2>1. /\ call[c].pc = "Waiting" /\ future[call[c].future].resolved
        /\ Leaves(c, "Ok") \/ Leaves(c, "ApplyError")
    BY <1>1 DEF Notified
  <2>2. call[c].future \in applyFutures /\ future[call[c].future].index = call[c].index
    BY <2>1, HolderCounted DEF Holds
  <2>3. call[c].index <= lastApplied
    <3>1. lastApplied >= call[c].index
      BY <2>1, <2>2 DEF ApplyInv, FuturesSound
    <3>2. lastApplied \in Nat /\ call[c].index \in Nat
      BY FutureTypes DEF ApplyInv
    <3> QED BY <3>1, <3>2
  <2> QED BY <2>1, <2>3, LeavesInv
<1>2. CASE TimesOut(c)
  BY <1>2, LeavesInv DEF TimesOut
<1> QED BY <1>1, <1>2

\* The last waiter of a future takes it out of the map, and no other.
LEMMA LeaveInv ==
    ASSUME ApplyInv, NEW c \in Client, Leave(c)
    PROVE  ApplyInv'
<1>0. PICK a : a = call[c].future
  OBVIOUS
<1> DEFINE b == [future[a] EXCEPT !.waiters = @ - 1]
           rec == [call[c] EXCEPT !.pc = "Returned", !.result = call[c].result,
                                  !.future = NoFuture]
           FutureRecord == [index : Nat, resolved : BOOLEAN, err : BOOLEAN, waiters : Nat]
<1>1. /\ call[c].pc = "Leaving" /\ LeftInMap(c)
      /\ call' = [call EXCEPT ![c] = rec] /\ future' = [future EXCEPT ![a] = b]
      /\ UNCHANGED <<log, currentTerm, leader, commitIndex, lastApplied, batch, machine, failed,
                     applier, stop>>
  BY <1>0 DEF Leave, Returns, raftVars, applyVars
<1>2. /\ a \in applyFutures /\ future[a].index = call[c].index /\ c \in HoldersOf(a)
      /\ future[a].waiters > 0
  BY <1>0, <1>1, HolderCounted DEF Holds
<1>3. /\ applyFutures \subseteq FutureId /\ future \in [FutureId -> FutureRecord]
      /\ call[c] \in CallRecord
  BY DEF ApplyInv, ApplyTypeOK, CallRecord
<1>4. /\ rec \in CallRecord /\ rec.pc = "Returned" /\ rec.index = call[c].index
      /\ rec.result = call[c].result
  BY <1>3 DEF CallRecord, CallState
<1> HIDE DEF rec
<1>5. /\ call' \in [Client -> CallRecord]
      /\ call'[c] = rec /\ \A d \in Client : d # c => call'[d] = call[d]
  BY <1>1, <1>4, CallChanges
<1>6. future[a].waiters = Cardinality(HoldersOf(a))
  BY <1>2 DEF ApplyInv, FuturesSound
<1>7. /\ b \in FutureRecord /\ b.index = future[a].index /\ b.waiters = future[a].waiters - 1
      /\ b.resolved = future[a].resolved /\ b.err = future[a].err
  BY <1>2, <1>3
<1> HIDE DEF b
<1>8. /\ future' \in [FutureId -> FutureRecord] /\ future'[a] = b
      /\ \A f \in applyFutures : f # a => future'[f] = future[f]
  BY <1>1, <1>2, <1>3, <1>7
\* Who holds what.
<1>9. HoldersOf(a)' = HoldersOf(a) \ {c}
  <2>1. c \notin HoldersOf(a)'
    BY <1>4, <1>5 DEF HoldersOf, Holds
  <2>2. \A d \in Client : d # c => (d \in HoldersOf(a)' <=> d \in HoldersOf(a))
    BY <1>5 DEF HoldersOf, Holds
  <2>3. HoldersOf(a)' \subseteq Client /\ HoldersOf(a) \subseteq Client
    BY DEF HoldersOf
  <2> QED BY <2>1, <2>2, <2>3
<1>10. ASSUME NEW f, f # a PROVE HoldersOf(f)' = HoldersOf(f)
  <2>1. c \notin HoldersOf(f) /\ c \notin HoldersOf(f)'
    BY <1>0, <1>4, <1>5, <1>10 DEF HoldersOf, Holds
  <2>2. \A d \in Client : d # c => (d \in HoldersOf(f)' <=> d \in HoldersOf(f))
    BY <1>5 DEF HoldersOf, Holds
  <2>3. HoldersOf(f)' \subseteq Client /\ HoldersOf(f) \subseteq Client
    BY DEF HoldersOf
  <2> QED BY <2>1, <2>2, <2>3
<1>11. b.waiters = Cardinality(HoldersOf(a)')
  BY <1>2, <1>6, <1>7, <1>9, HoldersFinite, FS_RemoveElement
\* What is in the map.
<1>12. /\ applyFutures' \subseteq applyFutures
       /\ \A f \in applyFutures : f # a => f \in applyFutures'
       /\ HoldersOf(a)' # {} => a \in applyFutures'
       /\ a \in applyFutures' => HoldersOf(a)' # {}
  <2>1. CASE future[a].waiters = 1
    <3>1. applyFutures' = {f \in applyFutures : future[f].index # call[c].index}
      BY <1>0, <1>1, <2>1 DEF LeftInMap
    <3>2. \A f \in applyFutures : f # a => future[f].index # call[c].index
      BY <1>2 DEF ApplyInv, FuturesSound
    <3>3. a \notin applyFutures'
      BY <1>2, <3>1
    <3>4. Cardinality(HoldersOf(a)') = 0
      BY <1>7, <1>11, <2>1
    <3>5. HoldersOf(a)' = {}
      <4>1. IsFiniteSet(HoldersOf(a)')
        BY <1>9, HoldersFinite, FS_RemoveElement
      <4> QED BY <3>4, <4>1, FS_EmptySet
    <3> QED BY <3>1, <3>2, <3>3, <3>5
  <2>2. CASE future[a].waiters # 1
    <3>1. applyFutures' = applyFutures
      BY <1>0, <1>1, <2>2 DEF LeftInMap
    <3>2. Cardinality(HoldersOf(a)') # 0
      <4>1. future[a].waiters \in Nat
        BY <1>2, <1>3
      <4> QED BY <1>7, <1>11, <2>2, <4>1
    <3>3. HoldersOf(a)' # {}
      BY <3>2, FS_EmptySet
    <3> QED BY <1>2, <3>1, <3>3
  <2> QED BY <2>1, <2>2
<1>13. BatchOfLog' /\ MachineInOrder' /\ Reached' = Reached
  BY <1>1, ApplierKept
<1>14. ApplyTypeOK'
  BY <1>1, <1>3, <1>5, <1>8, <1>12 DEF ApplyInv, ApplyTypeOK, CallRecord
<1>15. \A f \in applyFutures : /\ future'[f].index = future[f].index
                               /\ future'[f].resolved = future[f].resolved
                               /\ future'[f].err = future[f].err
  BY <1>7, <1>8
<1>16. Held'
  <2>1. ASSUME NEW d \in Client, Holds(d)'
        PROVE  call'[d].future \in applyFutures' /\ future'[call'[d].future].index = call'[d].index
    <3>1. d # c /\ call'[d] = call[d] /\ Holds(d)
      BY <1>4, <1>5, <2>1 DEF Holds
    <3>2. call[d].future \in applyFutures /\ future[call[d].future].index = call[d].index
      BY <3>1 DEF ApplyInv, Held
    <3>3. call[d].future = a => d \in HoldersOf(a)'
      BY <1>9, <3>1 DEF HoldersOf
    <3>4. call[d].future \in applyFutures'
      BY <1>12, <3>2, <3>3
    <3> QED BY <1>15, <3>1, <3>2, <3>4
  <2> QED BY <2>1 DEF Held
<1>17. FuturesSound'
  <2>1. ASSUME NEW f \in applyFutures', NEW g \in applyFutures', future'[f].index = future'[g].index
        PROVE  f = g
    BY <1>12, <1>15, <2>1 DEF ApplyInv, FuturesSound
  <2>2. ASSUME NEW f \in applyFutures'
        PROVE  /\ future'[f].resolved <=> lastApplied' >= future'[f].index
               /\ future'[f].waiters = Cardinality(HoldersOf(f)')
    <3>1. f \in applyFutures
      BY <1>12
    <3>2. future[f].resolved <=> lastApplied >= future[f].index
      BY <3>1 DEF ApplyInv, FuturesSound
    <3>3. future'[f].resolved <=> lastApplied' >= future'[f].index
      BY <1>1, <1>15, <3>1, <3>2
    <3>4. future'[f].waiters = Cardinality(HoldersOf(f)')
      <4>1. CASE f = a
        BY <1>8, <1>11, <4>1
      <4>2. CASE f # a
        BY <1>8, <1>10, <3>1, <4>2 DEF ApplyInv, FuturesSound
      <4> QED BY <4>1, <4>2
    <3> QED BY <3>3, <3>4
  <2> QED BY <2>1, <2>2 DEF FuturesSound
<1>18. NoLeakedFutures'
  <2>1. ASSUME NEW f \in applyFutures'
        PROVE  \/ \E d \in Client : call'[d].pc \in {"Waiting", "Leaving"} /\ call'[d].future = f
               \/ future'[f].err /\ future'[f].index \in (lastApplied + 1)..Reached
    <3>1. CASE f = a
      <4>1. PICK d : d \in HoldersOf(a) \ {c}
        BY <1>9, <1>12, <3>1
      <4>2. d \in Client /\ Holds(d) /\ call[d].future = a /\ d # c
        BY <4>1 DEF HoldersOf
      <4> QED BY <1>5, <3>1, <4>2 DEF Holds
    <3>2. CASE f # a
      <4>1. f \in applyFutures
        BY <1>12
      <4>2. CASE \E d \in Client : call[d].pc \in {"Waiting", "Leaving"} /\ call[d].future = f
        <5>1. PICK d \in Client : call[d].pc \in {"Waiting", "Leaving"} /\ call[d].future = f
          BY <4>2
        <5>2. d # c
          BY <1>0, <3>2, <5>1
        <5> QED BY <1>5, <5>1, <5>2
      <4> QED BY <1>15, <4>1, <4>2 DEF ApplyInv, NoLeakedFutures
    <3> QED BY <3>1, <3>2
  <2> QED BY <1>1, <1>13, <2>1 DEF NoLeakedFutures
<1>19. AnsweredApplied'
  <2>1. ASSUME NEW d \in Client, call'[d].pc \in {"Leaving", "Returned"},
               call'[d].result \in {"Ok", "ApplyError"}
        PROVE  call'[d].index <= lastApplied
    <3>1. CASE d = c
      BY <1>1, <1>4, <1>5, <2>1, <3>1 DEF ApplyInv, AnsweredApplied
    <3>2. CASE d # c
      BY <1>5, <2>1, <3>2 DEF ApplyInv, AnsweredApplied
    <3> QED BY <3>1, <3>2
  <2> QED BY <1>1, <2>1 DEF AnsweredApplied
<1> QED BY <1>13, <1>14, <1>16, <1>17, <1>18, <1>19 DEF ApplyInv

-----------------------------------------------------------------------------
LEMMA NextApplyInv == ApplyInv /\ [Next]_vars => ApplyInv'
<1> SUFFICES ASSUME ApplyInv, [Next]_vars PROVE ApplyInv'
  OBVIOUS
<1>1. CASE BecomeLeader \/ BecomeFollower
  BY <1>1, BecomeLeaderInv, BecomeFollowerInv
<1>2. CASE \E k \in 1..MaxLogLen, arg \in {Nil, Other} : ReceiveEntry(k, arg)
  BY <1>2, ReceiveEntryInv
<1>3. CASE \E n \in 1..MaxLogLen : Commit(n)
  BY <1>3, CommitInv
<1>4. CASE ApplierStep
  BY <1>4, ApplierStartsInv, ApplyEntryInv, FileErrorInv, FinishBatchInv DEF ApplierStep
<1>5. CASE CloseStop \/ BroadcastStop
  BY <1>5, StopInv
<1>6. CASE \E c \in Client : Put(c) \/ RemoveNode(c) \/ Get(c)
  BY <1>6, BeginInv
<1>7. CASE \E c \in Client : CallStep(c) \/ TimesOut(c)
  BY <1>7, WaitForAppliedInv, SelectInv, LeaveInv DEF CallStep
<1>8. CASE UNCHANGED vars
  <2>1. UNCHANGED <<log, currentTerm, leader, commitIndex, lastApplied, batch, machine, failed,
                    applier, future, applyFutures, stop, call>>
    BY <1>8 DEF vars, raftVars, applyVars, futureVars
  <2>2. BatchOfLog' /\ MachineInOrder' /\ Reached' = Reached /\ Reached \in Nat
    BY <2>1, ApplierKept, ReachedBounds DEF ApplyInv
  <2>3. Held' /\ FuturesSound' /\ NoLeakedFutures' /\ AnsweredApplied'
    BY <2>1, <2>2, FuturesKept
  <2>4. ApplyTypeOK'
    BY <2>1 DEF ApplyInv, ApplyTypeOK
  <2> QED BY <2>2, <2>3, <2>4 DEF ApplyInv
<1> QED BY <1>1, <1>2, <1>3, <1>4, <1>5, <1>6, <1>7, <1>8 DEF Next

THEOREM ApplyInvariant == Spec => []ApplyInv
BY InitApplyInv, NextApplyInv, PTL DEF Spec

\* Type correctness.
THEOREM ApplyTypeCorrect == Spec => []ApplyTypeOK
<1>1. ApplyInv => ApplyTypeOK
  BY DEF ApplyInv
<1> QED BY <1>1, ApplyInvariant, PTL

\* The machine gets the committed commands in the order of the log, each once,
\* whatever moves while the applier works without the lock (replication.go:204-234).
THEOREM MachineInOrderHolds == Spec => []MachineInOrder
<1>1. ApplyInv => MachineInOrder
  BY DEF ApplyInv
<1> QED BY <1>1, ApplyInvariant, PTL

\* The future a waiter holds is the one resolveFutures finds (futures.go:12-50).
THEOREM NoWaiterIsForgotten == Spec => []NoWaiterForgotten
<1>1. ApplyInv => NoWaiterForgotten
  <2> SUFFICES ASSUME ApplyInv, NEW c \in Client, call[c].pc = "Waiting"
               PROVE  /\ call[c].future \in applyFutures
                      /\ future[call[c].future].index = call[c].index
                      /\ future[call[c].future].resolved <=> lastApplied >= call[c].index
    BY DEF NoWaiterForgotten
  <2>1. call[c].future \in applyFutures /\ future[call[c].future].index = call[c].index
    BY HolderCounted DEF Holds
  <2> QED BY <2>1 DEF ApplyInv, FuturesSound
<1> QED BY <1>1, ApplyInvariant, PTL

\* What is in the map has a waiter, or an error of the batch under way
\* (futures.go:22-33, 45-50).
THEOREM NoFutureLeaks == Spec => []NoLeakedFutures
<1>1. ApplyInv => NoLeakedFutures
  BY DEF ApplyInv
<1> QED BY <1>1, ApplyInvariant, PTL

\* A call answers after every command up to its index has reached the machine
\* or failed there (futures.go:37, 57).
THEOREM AnswersFollowApply == Spec => []AnswersAfterApply
<1>1. ApplyInv => AnswersAfterApply
  <2> SUFFICES ASSUME ApplyInv, NEW c \in Client, call[c].pc = "Returned",
                      call[c].result \in {"Ok", "ApplyError"},
                      NEW n \in 1..call[c].index, IsCommand(log[n])
               PROVE  Done(n)
    BY DEF AnswersAfterApply
  <2>1. call[c].index <= lastApplied /\ call[c].index \in Nat
    BY FutureTypes DEF ApplyInv, AnsweredApplied
  <2>2. lastApplied <= Reached /\ Reached \in Nat /\ lastApplied \in Nat
    BY ReachedBounds DEF ApplyInv
  <2>3. n \in 1..Reached
    BY <2>1, <2>2
  <2> QED BY <2>3 DEF ApplyInv, MachineInOrder
<1> QED BY <1>1, ApplyInvariant, PTL
=============================================================================
