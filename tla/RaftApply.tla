----------------------------- MODULE RaftApply -----------------------------
(***************************************************************************)
(* One node's way from a committed entry to the answer a client gets:      *)
(* applier (replication.go), the futures (futures.go) and the calls that   *)
(* wait on them (Submit, SubmitAndWait, RemoveNode, ReadBarrier).          *)
(*                                                                         *)
(* The rest of the cluster is what module Raft guarantees about this       *)
(* node's log: entries up to commitIndex stay, entries beyond it may be    *)
(* replaced by a later leader's, commitIndex grows.                        *)
(*                                                                         *)
(* Every critical section under rf.mu is one action; fsm.Apply runs        *)
(* outside the lock, one step per entry.  Futures are shared by pointer,   *)
(* so they have an identity: applyFutures is the set of those in the map.  *)
(***************************************************************************)
EXTENDS RaftLog

CONSTANTS Client,        \* goroutines serving a client's request
          FutureId,      \* addresses of indexFuture
          NoFuture,
          Nil,           \* the nil command of a no-op
          Other          \* a command or a node id that came from another leader

\* Bounds of the model, in the guards of the actions they bound.
CONSTANTS MaxTerm,       \* no leadership begins in a term beyond it
          MaxLogLen,     \* nothing is appended to a log this long
          Stops          \* may the node be stopped?

ASSUME ApplyAssumption ==
    /\ IsFiniteSet(Client)
    /\ FutureId \subseteq Nat
    /\ NoFuture \notin FutureId
    /\ {MaxTerm, MaxLogLen} \subseteq Nat
    /\ Stops \in BOOLEAN

VARIABLES
    log,           \* this node's, as in Raft
    currentTerm,
    leader,        \* rf.state = Leader
    commitIndex,
    lastApplied,
    applier,       \* where the applier goroutine is: see ApplierState
    batch,         \* its baseIndex, its commitIndex and the entries it copied
    future,        \* the indexFuture at each address
    applyFutures,  \* the addresses in rf.applyFutures
    stop,          \* how far Stop has come
    call,          \* per client, its call
    machine,       \* history: <<index, command>> of each Apply that succeeded
    failed         \* history: the indices at which Apply failed

raftVars   == <<log, currentTerm, leader, commitIndex>>
applyVars  == <<lastApplied, batch, machine, failed>>
futureVars == <<future, applyFutures>>
vars == <<raftVars, applyVars, applier, futureVars, stop, call>>

\* Woken: about to take rf.mu at the top of the loop.  Waiting: in applyCond.Wait.
\* Applying: outside the lock, with a batch.  Failed: about to file an error.
ApplierState == {"Woken", "Waiting", "Applying", "Failed", "Done"}

\* Called: before waitForApplied takes rf.mu.  Leaving: before its deferred part.
CallState == {"Idle", "Called", "Waiting", "Leaving", "Returned"}

IdleCall == [pc |-> "Idle", op |-> "None", index |-> 0, term |-> 0,
             future |-> NoFuture, result |-> "None"]

NoBatch == [base |-> 0, commit |-> 0, entries |-> <<>>]

Init ==
    /\ log = <<>> /\ currentTerm = 0 /\ leader = FALSE /\ commitIndex = 0
    /\ lastApplied = 0 /\ batch = NoBatch /\ machine = <<>> /\ failed = {}
    /\ applier = "Woken"
    /\ future = [f \in FutureId |-> [index |-> 0, resolved |-> FALSE, err |-> FALSE,
                                     waiters |-> 0]]
    /\ applyFutures = {}
    /\ stop = "Running"
    /\ call = [c \in Client |-> IdleCall]

-----------------------------------------------------------------------------
(* The node in its cluster: what Raft's handlers do to log and commitIndex. *)

\* A bug: nobody wakes the applier.
BroadcastForgotten == UNCHANGED applier

\* applyCond.Broadcast.
Broadcast == applier' = IF applier = "Waiting" THEN "Woken" ELSE applier

\* becomeLeader in a new term, with its no-op.
BecomeLeader ==
    /\ ~leader /\ currentTerm < MaxTerm /\ Len(log) < MaxLogLen
    /\ leader' = TRUE
    /\ currentTerm' = currentTerm + 1
    /\ log' = Append(log, Entry(EntryNormal, currentTerm + 1, Nil))
    /\ UNCHANGED <<commitIndex, applyVars, applier, futureVars, stop, call>>

\* A message of a newer term.
BecomeFollower ==
    /\ currentTerm < MaxTerm
    /\ leader' = FALSE
    /\ currentTerm' = currentTerm + 1
    /\ UNCHANGED <<log, commitIndex, applyVars, applier, futureVars, stop, call>>

\* AppendEntries of the current leader, which has command arg at index k.
ReceiveEntry(k, arg) ==
    /\ ~leader /\ currentTerm > 0
    /\ k \in (commitIndex + 1)..(Len(log) + 1) /\ k <= MaxLogLen
    /\ k <= Len(log) => log[k].term # currentTerm
    /\ log' = Append(SubSeq(log, 1, k - 1), Entry(EntryNormal, currentTerm, arg))
    /\ UNCHANGED <<currentTerm, leader, commitIndex, applyVars, applier, futureVars, stop,
                   call>>

\* updateCommitIndex on a leader, part 5 of AppendEntries on a follower.
Commit(n) ==
    /\ n \in (commitIndex + 1)..Len(log)
    /\ leader => log[n].term = currentTerm
    /\ commitIndex' = n
    /\ Broadcast
    /\ UNCHANGED <<log, currentTerm, leader, applyVars, futureVars, stop, call>>

-----------------------------------------------------------------------------
(* futures.go                                                               *)

\* The addresses in use: in the map, or held by a waiter.
Live == applyFutures \cup {call[c].future : c \in Client}

Fresh == CHOOSE f \in FutureId \ Live : \A g \in FutureId \ Live : f <= g

At(index) == {f \in applyFutures : future[f].index = index}

\* getFuture(index): the address, and what is there.  Bound: FutureLeft.
FutureLeft(index) == At(index) # {} \/ FutureId \ Live # {}

FutureOf(index) == IF At(index) # {} THEN CHOOSE f \in At(index) : TRUE ELSE Fresh

NewFuture(index) == [index |-> index, resolved |-> FALSE, err |-> FALSE, waiters |-> 0]

\* A bug: a future that is there already is made anew.
GotAnew(index) == NewFuture(index)

Got(index) == IF At(index) # {} THEN future[FutureOf(index)] ELSE NewFuture(index)

\* A bug: the future of upTo itself is left for the next time.
ResolveFuturesBelow(upTo) ==
    /\ future' = [f \in FutureId |->
          IF f \in applyFutures /\ future[f].index < upTo
          THEN [future[f] EXCEPT !.resolved = TRUE] ELSE future[f]]
    /\ applyFutures' = {f \in applyFutures : future[f].waiters > 0 \/ future[f].index >= upTo}

\* A bug: a resolved future that nobody waits on stays in the map.
ResolveFuturesKept(upTo) ==
    /\ future' = [f \in FutureId |->
          IF f \in applyFutures /\ future[f].index <= upTo
          THEN [future[f] EXCEPT !.resolved = TRUE] ELSE future[f]]
    /\ UNCHANGED applyFutures

\* resolveFutures.
ResolveFutures(upTo) ==
    /\ future' = [f \in FutureId |->
          IF f \in applyFutures /\ future[f].index <= upTo
          THEN [future[f] EXCEPT !.resolved = TRUE] ELSE future[f]]
    /\ applyFutures' = {f \in applyFutures : future[f].waiters > 0 \/ future[f].index > upTo
                                                \/ future[f].resolved}

-----------------------------------------------------------------------------
(* applier (replication.go).                                                *)

\* A bug: the entry at lastApplied is taken again.
TakeBatchTwice(applied) ==
    batch' = [base |-> applied, commit |-> commitIndex,
              entries |-> SubSeq(log, IF applied = 0 THEN 1 ELSE applied, commitIndex)]

\* The copy of the committed entries that are not applied yet.
TakeBatch(applied) ==
    batch' = [base |-> applied, commit |-> commitIndex,
              entries |-> SubSeq(log, applied + 1, commitIndex)]

\* The top of the loop under rf.mu, with the value lastApplied has there.
LoopTop(applied) ==
    IF commitIndex > applied
    THEN applier' = "Applying" /\ TakeBatch(applied)
    ELSE /\ applier' = IF stop = "Running" THEN "Waiting" ELSE "Done"
         /\ batch' = NoBatch

ApplierStarts ==
    /\ applier = "Woken"
    /\ LoopTop(lastApplied)
    /\ UNCHANGED <<raftVars, lastApplied, machine, failed, futureVars, stop, call>>

\* The index of the batch's next entry: entries are dropped as they are done.
NextIndex == batch.commit - Len(batch.entries) + 1

IsCommand(e) == e.type = EntryNormal /\ e.arg # Nil

\* One round of the loop over entries.  A command may fail: the store's Put does.
ApplyEntry ==
    /\ applier = "Applying" /\ batch.entries # <<>>
    /\ \/ /\ ~IsCommand(Head(batch.entries))
          /\ batch' = [batch EXCEPT !.entries = Tail(@)]
          /\ UNCHANGED <<applier, machine, failed>>
       \/ /\ IsCommand(Head(batch.entries))
          /\ batch' = [batch EXCEPT !.entries = Tail(@)]
          /\ machine' = Append(machine, <<NextIndex, Head(batch.entries).arg>>)
          /\ UNCHANGED <<applier, failed>>
       \/ /\ IsCommand(Head(batch.entries))
          /\ applier' = "Failed"
          /\ failed'  = failed \cup {NextIndex}
          /\ UNCHANGED <<batch, machine>>
    /\ UNCHANGED <<raftVars, lastApplied, futureVars, stop, call>>

\* The error is filed with the future of its index, waited on or not.
FileError ==
    /\ applier = "Failed"
    /\ FutureLeft(NextIndex)
    /\ future' = [future EXCEPT ![FutureOf(NextIndex)] = [Got(NextIndex) EXCEPT !.err = TRUE]]
    /\ applyFutures' = applyFutures \cup {FutureOf(NextIndex)}
    /\ applier' = "Applying"
    /\ batch'   = [batch EXCEPT !.entries = Tail(@)]
    /\ UNCHANGED <<raftVars, lastApplied, machine, failed, stop, call>>

\* A bug: lastApplied moves to the commitIndex of now, not of the batch.
AppliedToCommitIndex == commitIndex

AppliedTo == batch.commit

\* The batch is done: lastApplied moves, futures are resolved, the loop goes on.
FinishBatch ==
    /\ applier = "Applying" /\ batch.entries = <<>>
    /\ lastApplied' = AppliedTo
    /\ ResolveFutures(AppliedTo)
    /\ LoopTop(AppliedTo)
    /\ UNCHANGED <<raftVars, machine, failed, stop, call>>

\* Stop: close(stopCh), then Broadcast under rf.mu.
CloseStop ==
    /\ Stops /\ stop = "Running"
    /\ stop' = "Closed"
    /\ UNCHANGED <<raftVars, applyVars, applier, futureVars, call>>

BroadcastStop ==
    /\ stop = "Closed"
    /\ stop' = "Stopped"
    /\ Broadcast
    /\ UNCHANGED <<raftVars, applyVars, futureVars, call>>

-----------------------------------------------------------------------------
(* The calls of clients (raft.go, readindex.go, futures.go).                *)

Calls(c, op, index) ==
    call' = [call EXCEPT ![c] = [IdleCall EXCEPT !.pc = "Called", !.op = op,
                                                 !.index = index, !.term = currentTerm]]

\* SubmitAndWait up to waitForApplied: Submit.
Put(c) ==
    /\ call[c].pc = "Idle" /\ leader /\ Len(log) < MaxLogLen
    /\ log' = Append(log, Entry(EntryNormal, currentTerm, c))
    /\ Calls(c, "Put", Len(log) + 1)
    /\ UNCHANGED <<currentTerm, leader, commitIndex, applyVars, applier, futureVars, stop>>

\* RemoveNode up to waitForApplied.
RemoveNode(c) ==
    /\ call[c].pc = "Idle" /\ leader /\ Len(log) < MaxLogLen
    /\ \A n \in (commitIndex + 1)..Len(log) : log[n].type # EntryRemoveNode
    /\ log' = Append(log, Entry(EntryRemoveNode, currentTerm, Other))
    /\ Calls(c, "RemoveNode", Len(log) + 1)
    /\ UNCHANGED <<currentTerm, leader, commitIndex, applyVars, applier, futureVars, stop>>

\* ReadBarrier up to waitForApplied: ReadIndex has found a commit index of the
\* leader's own term.
Get(c) ==
    /\ call[c].pc = "Idle" /\ leader
    /\ TermAt(log, commitIndex) = currentTerm
    /\ Calls(c, "Get", commitIndex)
    /\ UNCHANGED <<raftVars, applyVars, applier, futureVars, stop>>

Returns(c, result) ==
    call' = [call EXCEPT ![c].pc = "Returned", ![c].result = result, ![c].future = NoFuture]

\* waitForApplied up to its select.
WaitForApplied(c) ==
    LET index == call[c].index IN
    /\ call[c].pc = "Called"
    /\ \/ /\ lastApplied >= index
          /\ Returns(c, "Ok")
          /\ UNCHANGED futureVars
       \/ /\ lastApplied < index
          /\ FutureLeft(index)
          /\ future' = [future EXCEPT ![FutureOf(index)] = [Got(index) EXCEPT !.waiters = @ + 1]]
          /\ applyFutures' = applyFutures \cup {FutureOf(index)}
          /\ call' = [call EXCEPT ![c].pc = "Waiting", ![c].future = FutureOf(index)]
    /\ UNCHANGED <<raftVars, applyVars, applier, stop>>

Leaves(c, result) ==
    /\ call' = [call EXCEPT ![c].pc = "Leaving", ![c].result = result]
    /\ UNCHANGED <<raftVars, applyVars, applier, futureVars, stop>>

\* The select: the future is done.
Notified(c) ==
    /\ call[c].pc = "Waiting" /\ future[call[c].future].resolved
    /\ Leaves(c, IF future[call[c].future].err THEN "ApplyError" ELSE "Ok")

\* The select: the context is done.  RemoveNode's never is.
TimesOut(c) ==
    call[c].pc = "Waiting" /\ call[c].op # "RemoveNode" /\ Leaves(c, "Timeout")

\* A bug: a waiter that leaves takes the future out of the map under the others.
LeftInMapAlone(c) ==
    applyFutures' = {f \in applyFutures : future[f].index # call[c].index}

\* What the last waiter of a future takes out of the map.
LeftInMap(c) ==
    applyFutures' = IF future[call[c].future].waiters = 1
                    THEN {f \in applyFutures : future[f].index # call[c].index}
                    ELSE applyFutures

\* The deferred part of waitForApplied, and its return.
Leave(c) ==
    /\ call[c].pc = "Leaving"
    /\ future' = [future EXCEPT ![call[c].future].waiters = @ - 1]
    /\ LeftInMap(c)
    /\ Returns(c, call[c].result)
    /\ UNCHANGED <<raftVars, applyVars, applier, stop>>

-----------------------------------------------------------------------------
ApplierStep == ApplierStarts \/ ApplyEntry \/ FileError \/ FinishBatch

CallStep(c) == WaitForApplied(c) \/ Notified(c) \/ Leave(c)

Next ==
    \/ BecomeLeader
    \/ BecomeFollower
    \/ \E k \in 1..MaxLogLen, arg \in {Nil, Other} : ReceiveEntry(k, arg)
    \/ \E n \in 1..MaxLogLen : Commit(n)
    \/ ApplierStep
    \/ CloseStop
    \/ BroadcastStop
    \/ \E c \in Client : Put(c)
    \/ \E c \in Client : RemoveNode(c)
    \/ \E c \in Client : Get(c)
    \/ \E c \in Client : CallStep(c)
    \/ \E c \in Client : TimesOut(c)

Spec == Init /\ [][Next]_vars

\* The applier and the goroutine of each call are scheduled, and Stop goes on
\* once called.  Nothing is assumed of clients, timeouts or the cluster.
Fairness ==
    /\ WF_vars(ApplierStep)
    /\ WF_vars(BroadcastStop)
    /\ \A c \in Client : WF_vars(CallStep(c))

FairSpec == Spec /\ Fairness

-----------------------------------------------------------------------------
(* Properties.                                                              *)

EntryRecord ==
    [type : {EntryNormal, EntryRemoveNode}, term : Nat, arg : Client \cup {Nil, Other}]

ApplyTypeOK ==
    /\ log \in Seq(EntryRecord)
    /\ currentTerm \in Nat /\ leader \in BOOLEAN
    /\ commitIndex \in Nat /\ lastApplied \in Nat
    /\ applier \in ApplierState
    /\ batch \in [base : Nat, commit : Nat, entries : Seq(EntryRecord)]
    /\ future \in [FutureId ->
          [index : Nat, resolved : BOOLEAN, err : BOOLEAN, waiters : Nat]]
    /\ applyFutures \subseteq FutureId
    /\ stop \in {"Running", "Closed", "Stopped"}
    /\ call \in [Client ->
          [pc : CallState, op : {"None", "Put", "RemoveNode", "Get"}, index : Nat, term : Nat,
           future : FutureId \cup {NoFuture}, result : {"None", "Ok", "ApplyError", "Timeout"}]]
    /\ machine \in Seq(Nat \X (Client \cup {Nil, Other}))
    /\ failed \subseteq Nat

\* The entries applied so far: those before the batch, and its first ones.
Reached == IF applier \in {"Applying", "Failed"} THEN NextIndex - 1 ELSE lastApplied

Done(n) == n \in failed \/ \E k \in DOMAIN machine : machine[k] = <<n, log[n].arg>>

\* The state machine has been given every committed command up to where the
\* applier is, in the order of the log, each once, and nothing else, whatever
\* the log and commitIndex do while the applier works without the lock.
MachineInOrder ==
    /\ \A n \in 1..Reached : IsCommand(log[n]) => Done(n)
    /\ \A k \in DOMAIN machine :
          /\ machine[k][1] \in 1..Reached
          /\ machine[k][2] = log[machine[k][1]].arg
          /\ \A j \in 1..(k - 1) : machine[j][1] < machine[k][1]

\* A waiter's future is the one a later resolveFutures will find in the map,
\* or is resolved already: several waiters share it, others come and go.
NoWaiterForgotten ==
    \A c \in Client : call[c].pc = "Waiting" =>
        LET f == call[c].future IN
        /\ f \in applyFutures /\ future[f].index = call[c].index
        /\ future[f].resolved <=> lastApplied >= call[c].index

\* futures_test.go, "no leaked futures": what is in the map has a waiter or
\* holds an error of the batch being applied.
NoLeakedFutures ==
    \A f \in applyFutures :
        \/ \E c \in Client : call[c].pc \in {"Waiting", "Leaving"} /\ call[c].future = f
        \/ future[f].err /\ future[f].index \in (lastApplied + 1)..Reached

\* A call that returns without a timeout returns after everything up to its
\* index has reached the machine (or failed): a Get reads all of it.
AnswersAfterApply ==
    \A c \in Client : call[c].pc = "Returned" /\ call[c].result \in {"Ok", "ApplyError"} =>
        \A n \in 1..call[c].index : IsCommand(log[n]) => Done(n)

\* A call whose index is committed is answered, unless the node is stopped: no
\* wake-up of the applier is lost, and none of a waiter.
CommittedAnswered ==
    \A c \in Client :
        call[c].pc \in {"Called", "Waiting"} /\ commitIndex >= call[c].index
            ~> call[c].pc = "Returned" \/ stop # "Running"

\* Stop ends the applier (WaitStopped returns), although it may be about to
\* wait when Stop is called.
StopEndsApplier == stop = "Closed" ~> applier = "Done"

-----------------------------------------------------------------------------
(* What the documentation says and the code does not do.                    *)

\* thesis/chapter4.tex: a client is told that its write succeeded only if the
\* write is safe.
AcknowledgedIsApplied ==
    \A c \in Client :
        /\ call[c].pc = "Returned" /\ call[c].op = "Put" /\ call[c].result = "Ok"
        /\ call[c].index \notin failed
        => \E k \in DOMAIN machine : machine[k][2] = c
=============================================================================
