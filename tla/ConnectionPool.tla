--------------------------- MODULE ConnectionPool ---------------------------
(***************************************************************************)
(* internal/network: the calls one node makes to one peer.  RPCClient      *)
(* keeps a few connections in slots, dials when a slot is empty, backs off *)
(* after a failed dial, and closes a slot's connection when a call on it   *)
(* fails.  FaultInjectingRPCClient before it and RaftRPCServerAdapter at   *)
(* the peer refuse calls while their node is isolated.                     *)
(*                                                                         *)
(* A critical section under slot.mu is one action, except that a dial      *)
(* keeps the mutex while it lasts.  A tick is initialDialBackoff, 25 ms.   *)
(* The scheduler is taken to be faster than that: a goroutine that can run *)
(* does so before the next tick.  net/rpc: an error of the connection, or  *)
(* Close, ends every call under way on it and every later one at once.     *)
(***************************************************************************)
EXTENDS Integers, FiniteSets

CONSTANTS Caller,        \* goroutines in sendAppendEntries or startElection
          PoolSize,      \* defaultRPCPoolSize
          Conn,          \* TCP connections
          NoConn,        \* a nil *rpc.Client
          NoCaller,      \* a free slot.mu
          MaxBackoff,    \* maxDialBackoff in ticks
          MaxFailures    \* bound: dialFailures is not counted beyond it

Slot == 0..(PoolSize - 1)

ASSUME PoolAssumption ==
    /\ PoolSize \in Nat \ {0} /\ MaxBackoff \in Nat \ {0} /\ MaxFailures \in Nat \ {0}
    /\ NoConn \notin Conn /\ NoCaller \notin Caller

VARIABLES
    next,       \* c.next
    slot,       \* rpcConn: client, dialFailures, ticks until retryAfter, mu
    call,       \* per caller: where it is, in which slot, on which connection
    conn,       \* per connection: Open; Lost, nobody has noticed; or Shut
    connected,  \* FaultInjectingRPCClient of this node
    enabled,    \* RaftRPCServerAdapter of the peer
    sound       \* does the network work? if not, dials fail and answers are late

vars == <<next, slot, call, conn, connected, enabled, sound>>

IdleCall == [pc |-> "Idle", slot |-> 0, conn |-> NoConn]

\* NewRPCClient, NewFaultInjectingRPCClient, NewRaftRPCServerAdapter.
Init ==
    /\ next = 0
    /\ slot = [s \in Slot |-> [client |-> NoConn, dialFailures |-> 0, wait |-> 0,
                               mu |-> NoCaller]]
    /\ call = [c \in Caller |-> IdleCall]
    /\ conn = [k \in Conn |-> "Shut"]
    /\ connected = TRUE /\ enabled = TRUE /\ sound = TRUE

-----------------------------------------------------------------------------
\* Ticks from the n-th failed dial in a row to the next one.
NextDialBackoff(n) == IF 2^(n - 1) \in 1..MaxBackoff THEN 2^(n - 1) ELSE MaxBackoff

At(c, pc) == call[c].pc = pc

Returns(c) == call' = [call EXCEPT ![c] = IdleCall]

\* The calls under way on k, whose client has been closed, are done with an error.
EndCalls(k) ==
    [c \in Caller |-> IF At(c, "Sent") /\ call[c].conn = k
                      THEN [call[c] EXCEPT !.pc = "Failed"] ELSE call[c]]

InUse == {slot[s].client : s \in Slot} \cup {call[c].conn : c \in Caller}

-----------------------------------------------------------------------------
(* One call.                                                                *)

\* The proxy lets the call pass, and pickConn takes the next slot.
Call(c) ==
    /\ At(c, "Idle") /\ connected
    /\ next' = (next + 1) % PoolSize
    /\ call' = [call EXCEPT ![c] = [IdleCall EXCEPT !.pc = "Waiting", !.slot = next']]
    /\ UNCHANGED <<slot, conn, connected, enabled, sound>>

\* getConnection with a client in the slot.
ReuseConnection(c) ==
    LET s == call[c].slot IN
    /\ At(c, "Waiting") /\ slot[s].mu = NoCaller
    /\ slot[s].client # NoConn
    /\ call' = [call EXCEPT ![c].pc = "Got", ![c].conn = slot[s].client]
    /\ UNCHANGED <<next, slot, conn, connected, enabled, sound>>

\* getConnection before retryAfter: the call fails.
BackOff(c) ==
    LET s == call[c].slot IN
    /\ At(c, "Waiting") /\ slot[s].mu = NoCaller
    /\ slot[s].client = NoConn /\ slot[s].wait > 0
    /\ Returns(c)
    /\ UNCHANGED <<next, slot, conn, connected, enabled, sound>>

\* A bug: the mutex is released for the time of the dial.
DialUnlocked(c) ==
    LET s == call[c].slot IN
    /\ At(c, "Waiting") /\ slot[s].mu = NoCaller
    /\ slot[s].client = NoConn /\ slot[s].wait = 0
    /\ call' = [call EXCEPT ![c].pc = "Dialing"]
    /\ UNCHANGED <<next, slot, conn, connected, enabled, sound>>

\* getConnection dials, with the mutex held.
Dial(c) ==
    LET s == call[c].slot IN
    /\ At(c, "Waiting") /\ slot[s].mu = NoCaller
    /\ slot[s].client = NoConn /\ slot[s].wait = 0
    /\ slot' = [slot EXCEPT ![s].mu = c]
    /\ call' = [call EXCEPT ![c].pc = "Dialing"]
    /\ UNCHANGED <<next, conn, connected, enabled, sound>>

DialSucceeds(c) ==
    LET s == call[c].slot IN
    /\ At(c, "Dialing") /\ sound
    /\ \E k \in Conn \ InUse :
          /\ conn' = [conn EXCEPT ![k] = "Open"]
          /\ slot' = [slot EXCEPT ![s] = [client |-> k, dialFailures |-> 0, wait |-> 0,
                                          mu |-> NoCaller]]
          /\ call' = [call EXCEPT ![c].pc = "Got", ![c].conn = k]
    /\ UNCHANGED <<next, connected, enabled, sound>>

\* The backoff counts from before the dial: a slow one has used it up.
DialFails(c) ==
    LET s == call[c].slot
        n == IF slot[s].dialFailures < MaxFailures THEN slot[s].dialFailures + 1
             ELSE MaxFailures
    IN
    /\ At(c, "Dialing") /\ ~sound
    /\ \E spent \in {0, NextDialBackoff(n)} :
          slot' = [slot EXCEPT ![s] = [client |-> NoConn, dialFailures |-> n,
                                       wait |-> NextDialBackoff(n) - spent, mu |-> NoCaller]]
    /\ Returns(c)
    /\ UNCHANGED <<next, conn, connected, enabled, sound>>

\* client.Go.
Send(c) ==
    /\ At(c, "Got")
    /\ call' = [call EXCEPT ![c].pc = IF conn[call[c].conn] = "Shut" THEN "Failed" ELSE "Sent"]
    /\ UNCHANGED <<next, slot, conn, connected, enabled, sound>>

\* The peer's handler has run and its reply arrives; an adapter that is switched
\* off answers with an error.
Reply(c) ==
    /\ At(c, "Sent") /\ conn[call[c].conn] = "Open" /\ sound
    /\ IF enabled THEN Returns(c) ELSE call' = [call EXCEPT ![c].pc = "Failed"]
    /\ UNCHANGED <<next, slot, conn, connected, enabled, sound>>

\* A bug: a call waits for its answer however long that takes.
NeverTimesOut(c) == FALSE

\* The timeout of call: the connection stays.
TimesOut(c) ==
    /\ At(c, "Sent")
    /\ ~sound \/ conn[call[c].conn] = "Lost"
    /\ Returns(c)
    /\ UNCHANGED <<next, slot, conn, connected, enabled, sound>>

\* A bug: a new connection may be dialed at once.
SlotResetAtOnce(s) == [slot[s] EXCEPT !.client = NoConn]

\* A bug: the closed client stays in the slot.
SlotResetKeepsClient(s) == [slot[s] EXCEPT !.wait = 1]

\* resetConnection: the slot afterwards.
SlotReset(s) == [slot[s] EXCEPT !.client = NoConn, !.wait = 1]

\* The call was done with an error: resetConnection, and call returns it.
Reset(c) ==
    LET s == call[c].slot
        k == slot[s].client
    IN
    /\ At(c, "Failed") /\ slot[s].mu = NoCaller
    /\ conn' = IF k = NoConn THEN conn ELSE [conn EXCEPT ![k] = "Shut"]
    /\ slot' = [slot EXCEPT ![s] = SlotReset(s)]
    /\ call' = [EndCalls(k) EXCEPT ![c] = IdleCall]
    /\ UNCHANGED <<next, connected, enabled, sound>>

-----------------------------------------------------------------------------
(* The network, the peer and time.                                          *)

\* The peer's process ends, or the path to it.
LoseConnection(k) ==
    /\ ~sound /\ conn[k] = "Open"
    /\ conn' = [conn EXCEPT ![k] = "Lost"]
    /\ UNCHANGED <<next, slot, call, connected, enabled, sound>>

\* An error reaches net/rpc's reader: a reset by the peer, or keepalive.
NoticeLoss(k) ==
    /\ conn[k] = "Lost"
    /\ conn' = [conn EXCEPT ![k] = "Shut"]
    /\ call' = EndCalls(k)
    /\ UNCHANGED <<next, slot, connected, enabled, sound>>

NetworkChanges ==
    /\ sound' = ~sound
    /\ UNCHANGED <<next, slot, call, conn, connected, enabled>>

\* SetPartitioned on this node, as far as its calls to the peer go.
SwitchOutgoing ==
    /\ connected' = ~connected
    /\ UNCHANGED <<next, slot, call, conn, enabled, sound>>

\* SetPartitioned on the peer, as far as calls from this node go.
SwitchIncoming ==
    /\ enabled' = ~enabled
    /\ UNCHANGED <<next, slot, call, conn, connected, sound>>

\* Can the goroutine of c go on without an event from outside?
Runnable(c) ==
    \/ At(c, "Got")
    \/ call[c].pc \in {"Waiting", "Failed"} /\ slot[call[c].slot].mu = NoCaller

Tick ==
    /\ \A c \in Caller : ~Runnable(c)
    /\ slot' = [s \in Slot |-> [slot[s] EXCEPT !.wait = IF @ > 0 THEN @ - 1 ELSE 0]]
    /\ UNCHANGED <<next, call, conn, connected, enabled, sound>>

-----------------------------------------------------------------------------
GetConnection(c) == ReuseConnection(c) \/ BackOff(c) \/ Dial(c)
DialEnds(c)      == DialSucceeds(c) \/ DialFails(c)
CallEnds(c)      == Reply(c) \/ TimesOut(c)

Next ==
    \/ \E c \in Caller : Call(c)
    \/ \E c \in Caller : GetConnection(c)
    \/ \E c \in Caller : DialEnds(c)
    \/ \E c \in Caller : Send(c)
    \/ \E c \in Caller : CallEnds(c)
    \/ \E c \in Caller : Reset(c)
    \/ \E k \in Conn : LoseConnection(k)
    \/ \E k \in Conn : NoticeLoss(k)
    \/ NetworkChanges
    \/ SwitchOutgoing
    \/ SwitchIncoming
    \/ Tick

Spec == Init /\ [][Next]_vars

\* Goroutines run, sync.Mutex lets every waiter in, a dial ends (its 5 s, or the
\* answer to CONNECT), a call ends by its timeout, keepalive finds a lost
\* connection, time passes.  Nothing is assumed of network, switches or callers.
Fairness ==
    /\ \A c \in Caller : /\ SF_vars(GetConnection(c)) /\ SF_vars(Reset(c))
                         /\ WF_vars(DialEnds(c)) /\ WF_vars(Send(c)) /\ WF_vars(CallEnds(c))
    /\ \A k \in Conn : WF_vars(NoticeLoss(k))
    /\ \A s \in Slot : []<>(slot[s].wait = 0)

FairSpec == Spec /\ Fairness

-----------------------------------------------------------------------------
(* Properties.                                                              *)

CallState == {"Idle", "Waiting", "Dialing", "Got", "Sent", "Failed"}

\* A slot's mutex is held by the goroutine that dials for the slot, and an empty
\* slot is the only one anybody dials for.
MutexHeld ==
    /\ \A c \in Caller : \A s \in Slot :
          slot[s].mu = c <=> At(c, "Dialing") /\ call[c].slot = s
    /\ \A s \in Slot : slot[s].mu # NoCaller => slot[s].client = NoConn

\* Types, and who holds the mutexes.
PoolTypeOK ==
    /\ next \in Slot
    /\ slot \in [Slot -> [client : Conn \cup {NoConn}, dialFailures : 0..MaxFailures,
                          wait : 0..MaxBackoff, mu : Caller \cup {NoCaller}]]
    /\ call \in [Caller -> [pc : CallState, slot : Slot, conn : Conn \cup {NoConn}]]
    /\ conn \in [Conn -> {"Open", "Lost", "Shut"}]
    /\ {connected, enabled, sound} \subseteq BOOLEAN
    /\ MutexHeld

\* resetConnection closes what the slot holds when it runs, which need not be what
\* the call failed on.  It is that, or nothing: the 25 ms before a new dial are
\* what keeps a late failure from closing a connection others have begun to use.
LateFailureHarmless ==
    \A c \in Caller : At(c, "Failed") =>
        slot[call[c].slot].client \in {call[c].conn, NoConn}

\* Every call returns, so that sendAppendEntries may call the peer again, however
\* long it queues for the mutex behind dials, for which no timeout runs yet.
EveryCallReturns == \A c \in Caller : ~At(c, "Idle") ~> At(c, "Idle")

Healthy == sound /\ connected /\ enabled

\* The ways in which a call returns an error.
ErrorStep == \E c \in Caller : BackOff(c) \/ DialFails(c) \/ TimesOut(c) \/ Reset(c)

\* Once network and switches stay as they should be, calls stop failing: no slot
\* keeps a dead connection, and failures do not beget each other for ever.
Recovers == <>[]Healthy => <>[][~ErrorStep]_vars
=============================================================================
