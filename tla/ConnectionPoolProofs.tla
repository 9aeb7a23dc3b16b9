------------------------ MODULE ConnectionPoolProofs ------------------------
(***************************************************************************)
(* Why a late failure does no harm, for every number of callers, slots and *)
(* connections and every backoff.                                          *)
(***************************************************************************)
EXTENDS ConnectionPool, TLAPS

\* A call that has a connection has the one its slot holds, or that one is closed,
\* the slot has been reset and no dial can have begun since: the wait is not over,
\* and it does not go on while the goroutine of the call can run.
OnCurrent(c) ==
    LET s == call[c].slot IN
    /\ call[c].conn \in Conn
    /\ \/ slot[s].client = call[c].conn
       \/ /\ conn[call[c].conn] = "Shut"
          /\ slot[s].client = NoConn /\ slot[s].wait > 0 /\ slot[s].mu = NoCaller

CallsCurrent ==
    /\ \A c \in Caller : At(c, "Got") \/ At(c, "Failed") => OnCurrent(c)
    /\ \A c \in Caller : At(c, "Sent") => /\ call[c].conn \in Conn
                                          /\ slot[call[c].slot].client = call[c].conn

\* The inductive invariant.
PoolInv == PoolTypeOK /\ CallsCurrent

SlotType == [client : Conn \cup {NoConn}, dialFailures : 0..MaxFailures,
             wait : 0..MaxBackoff, mu : Caller \cup {NoCaller}]

CallType == [pc : CallState, slot : Slot, conn : Conn \cup {NoConn}]

\* The call of d is done with an error if it was under way on k.
Ended(d, k) ==
    /\ call'[d] \in CallType
    /\ call'[d].slot = call[d].slot /\ call'[d].conn = call[d].conn
    /\ call'[d].pc = IF call[d].pc = "Sent" /\ call[d].conn = k THEN "Failed" ELSE call[d].pc

\* nextDialBackoff stays between the first backoff and the greatest.
LEMMA BackoffBounded == ASSUME NEW n \in Nat PROVE NextDialBackoff(n) \in 1..MaxBackoff
  BY PoolAssumption DEF NextDialBackoff

\* What resetConnection leaves in a slot.
LEMMA ResetRecord ==
    ASSUME NEW x \in SlotType, NEW y, y = [x EXCEPT !.client = NoConn, !.wait = 1]
    PROVE  y \in SlotType /\ y.wait = 1 /\ y.client = NoConn /\ y.mu = x.mu
<1>1. y = [client |-> NoConn, dialFailures |-> x.dialFailures, wait |-> 1, mu |-> x.mu]
  BY DEF SlotType
<1>2. 1 \in 0..MaxBackoff
  BY PoolAssumption
<1> QED
  BY <1>1, <1>2 DEF SlotType

LEMMA InitPoolInv == Init => PoolInv
  BY PoolAssumption DEF Init, PoolInv, PoolTypeOK, MutexHeld, CallsCurrent, IdleCall, At,
                        CallState, Slot

\* What is left to show of PoolInv' when the other variables keep their types.
LEMMA Parts ==
    ASSUME slot' \in [Slot -> SlotType], call' \in [Caller -> CallType], next' \in Slot,
           conn' \in [Conn -> {"Open", "Lost", "Shut"}],
           {connected, enabled, sound}' \subseteq BOOLEAN,
           MutexHeld', CallsCurrent'
    PROVE  PoolInv'
  BY DEF PoolInv, PoolTypeOK, SlotType, CallType

\* A step of caller c that leaves the slots alone.
LEMMA CallStep ==
    ASSUME PoolInv, UNCHANGED <<slot, conn, connected, enabled, sound>>, next' \in Slot,
           NEW c \in Caller, NEW r \in CallType, call' = [call EXCEPT ![c] = r],
           call[c].pc # "Dialing", r.pc # "Dialing",
           r.pc \in {"Got", "Sent"} => r.conn \in Conn /\ slot[r.slot].client = r.conn,
           r.pc = "Failed" => r.conn \in Conn /\
                 (\/ slot[r.slot].client = r.conn
                  \/ /\ conn[r.conn] = "Shut"
                     /\ slot[r.slot].client = NoConn /\ slot[r.slot].wait > 0
                     /\ slot[r.slot].mu = NoCaller)
    PROVE  PoolInv'
<1>1. /\ slot' \in [Slot -> SlotType] /\ call' \in [Caller -> CallType]
      /\ conn' \in [Conn -> {"Open", "Lost", "Shut"}]
      /\ {connected, enabled, sound}' \subseteq BOOLEAN
  BY DEF PoolInv, PoolTypeOK, SlotType, CallType
<1>2. \A d \in Caller : call'[d] = IF d = c THEN r ELSE call[d]
  BY DEF PoolInv, PoolTypeOK
<1>3. MutexHeld'
  BY <1>2 DEF PoolInv, PoolTypeOK, MutexHeld, At
<1>4. CallsCurrent'
  BY <1>2 DEF PoolInv, CallsCurrent, OnCurrent, At
<1> QED BY <1>1, <1>3, <1>4, Parts

LEMMA NextPoolInv == PoolInv /\ [Next]_vars => PoolInv'
<1> SUFFICES ASSUME PoolInv, [Next]_vars PROVE PoolInv'
  OBVIOUS
<1>0. /\ slot \in [Slot -> SlotType] /\ call \in [Caller -> CallType] /\ next \in Slot
      /\ conn \in [Conn -> {"Open", "Lost", "Shut"}]
      /\ {connected, enabled, sound} \subseteq BOOLEAN
      /\ MutexHeld /\ CallsCurrent
  BY DEF PoolInv, PoolTypeOK, SlotType, CallType
<1>i. IdleCall \in CallType
  BY PoolAssumption DEF IdleCall, CallType, CallState, Slot
<1>1. ASSUME NEW c \in Caller, Call(c) PROVE PoolInv'
  <2> DEFINE r == [IdleCall EXCEPT !.pc = "Waiting", !.slot = next']
  <2>1. next' \in Slot
    BY <1>0, <1>1, PoolAssumption DEF Call, Slot
  <2>2. r \in CallType /\ r.pc = "Waiting"
    BY <2>1 DEF IdleCall, CallType, CallState
  <2>3. /\ call' = [call EXCEPT ![c] = r] /\ call[c].pc # "Dialing"
        /\ UNCHANGED <<slot, conn, connected, enabled, sound>>
    BY <1>1 DEF Call, At
  <2> QED
    BY <2>1, <2>2, <2>3, CallStep
<1>2. ASSUME NEW c \in Caller, GetConnection(c) PROVE PoolInv'
  <2>1. CASE ReuseConnection(c)
    <3> DEFINE r == [call[c] EXCEPT !.pc = "Got", !.conn = slot[call[c].slot].client]
    <3>1. r \in CallType /\ r.pc = "Got" /\ r.conn \in Conn /\ slot[r.slot].client = r.conn
      BY <1>0, <2>1 DEF ReuseConnection, CallType, SlotType, CallState
    <3>2. /\ call' = [call EXCEPT ![c] = r] /\ call[c].pc # "Dialing"
          /\ UNCHANGED <<next, slot, conn, connected, enabled, sound>>
      BY <2>1 DEF ReuseConnection, At
    <3> QED
      BY <1>0, <3>1, <3>2, CallStep
  <2>2. CASE BackOff(c)
    BY <1>0, <1>i, <2>2, CallStep DEF BackOff, Returns, At, IdleCall
  <2>3. CASE Dial(c)
    <3> DEFINE s == call[c].slot
    <3>1. /\ s \in Slot /\ slot[s].mu = NoCaller /\ slot[s].client = NoConn /\ slot[s].wait = 0
          /\ call[c].pc = "Waiting"
          /\ slot' = [slot EXCEPT ![s].mu = c] /\ call' = [call EXCEPT ![c].pc = "Dialing"]
          /\ UNCHANGED <<next, conn, connected, enabled, sound>>
      BY <1>0, <2>3 DEF Dial, At, CallType
    <3>2. slot' \in [Slot -> SlotType] /\ call' \in [Caller -> CallType]
      BY <1>0, <3>1 DEF SlotType, CallType, CallState
    <3>3. MutexHeld'
      BY <1>0, <3>1, PoolAssumption DEF MutexHeld, At, SlotType, CallType
    <3>4. CallsCurrent'
      BY <1>0, <3>1, PoolAssumption DEF CallsCurrent, OnCurrent, At, SlotType, CallType
    <3> QED
      BY <1>0, <3>1, <3>2, <3>3, <3>4, Parts
  <2> QED BY <1>2, <2>1, <2>2, <2>3 DEF GetConnection
<1>3. ASSUME NEW c \in Caller, DialEnds(c) PROVE PoolInv'
  <2> DEFINE s == call[c].slot
  <2>1. /\ s \in Slot /\ call[c].pc = "Dialing" /\ slot[s].mu = c /\ slot[s].client = NoConn
        /\ c # NoCaller
    BY <1>0, <1>3, PoolAssumption DEF DialEnds, DialSucceeds, DialFails, At, CallType, MutexHeld
  <2>2. \A d \in Caller : call[d].slot = s => call[d].pc \notin {"Got", "Sent", "Failed"}
    BY <1>0, <2>1, PoolAssumption DEF CallsCurrent, OnCurrent, At
  <2>3. CASE DialSucceeds(c)
    <3>1. PICK k \in Conn :
            /\ k \notin InUse
            /\ conn' = [conn EXCEPT ![k] = "Open"]
            /\ slot' = [slot EXCEPT ![s] = [client |-> k, dialFailures |-> 0, wait |-> 0,
                                            mu |-> NoCaller]]
            /\ call' = [call EXCEPT ![c].pc = "Got", ![c].conn = k]
            /\ UNCHANGED <<next, connected, enabled, sound>>
      BY <2>3 DEF DialSucceeds
    <3>2. /\ slot' \in [Slot -> SlotType] /\ call' \in [Caller -> CallType]
          /\ conn' \in [Conn -> {"Open", "Lost", "Shut"}]
      <4>1. [client |-> k, dialFailures |-> 0, wait |-> 0, mu |-> NoCaller] \in SlotType
        BY PoolAssumption DEF SlotType
      <4>2. [[call[c] EXCEPT !.pc = "Got"] EXCEPT !.conn = k] \in CallType
        BY <1>0 DEF CallType, CallState
      <4> QED
        BY <1>0, <3>1, <4>1, <4>2
    <3>3. MutexHeld'
      BY <1>0, <2>1, <3>1, PoolAssumption DEF MutexHeld, At, SlotType, CallType
    <3>4. \A d \in Caller : call[d].conn # k
      BY <3>1 DEF InUse
    <3>5. \A d \in Caller \ {c} : At(d, "Got") \/ At(d, "Failed") => OnCurrent(d)'
      BY <1>0, <2>1, <2>2, <3>1, <3>4 DEF CallsCurrent, OnCurrent, At, CallType
    <3>6. CallsCurrent'
      BY <1>0, <2>1, <2>2, <3>1, <3>5 DEF CallsCurrent, OnCurrent, At, CallType
    <3> QED
      BY <1>0, <3>1, <3>2, <3>3, <3>6, Parts
  <2>4. CASE DialFails(c)
    <3>1. PICK n \in 0..MaxFailures, w \in 0..MaxBackoff :
            /\ slot' = [slot EXCEPT ![s] = [client |-> NoConn, dialFailures |-> n, wait |-> w,
                                            mu |-> NoCaller]]
            /\ call' = [call EXCEPT ![c] = IdleCall]
            /\ UNCHANGED <<next, conn, connected, enabled, sound>>
      <4> DEFINE n == IF slot[s].dialFailures < MaxFailures THEN slot[s].dialFailures + 1
                      ELSE MaxFailures
      <4>1. n \in 0..MaxFailures /\ n \in Nat
        BY <1>0, <2>1, PoolAssumption DEF SlotType
      <4>2. NextDialBackoff(n) \in 1..MaxBackoff
        BY <4>1, BackoffBounded
      <4>3. \A spent \in {0, NextDialBackoff(n)} : NextDialBackoff(n) - spent \in 0..MaxBackoff
        BY <4>2, PoolAssumption
      <4> QED
        BY <2>4, <4>1, <4>3 DEF DialFails, Returns
    <3>2. /\ slot' \in [Slot -> SlotType] /\ call' \in [Caller -> CallType]
      BY <1>0, <1>i, <2>1, <3>1, PoolAssumption DEF SlotType
    <3>3. MutexHeld'
      BY <1>0, <2>1, <3>1, PoolAssumption DEF MutexHeld, At, SlotType, CallType, IdleCall
    <3>4. CallsCurrent'
      BY <1>0, <2>1, <2>2, <3>1 DEF CallsCurrent, OnCurrent, At, SlotType, CallType, IdleCall
    <3> QED
      BY <1>0, <3>1, <3>2, <3>3, <3>4, Parts
  <2> QED BY <1>3, <2>3, <2>4 DEF DialEnds
<1>4. ASSUME NEW c \in Caller, Send(c) PROVE PoolInv'
  <2> DEFINE r == [call[c] EXCEPT !.pc = IF conn[call[c].conn] = "Shut" THEN "Failed"
                                         ELSE "Sent"]
  <2>1. OnCurrent(c) /\ call[c].pc = "Got"
    BY <1>0, <1>4 DEF Send, CallsCurrent, At
  <2>2. /\ r \in CallType /\ r.pc \in {"Sent", "Failed"}
        /\ r.conn = call[c].conn /\ r.slot = call[c].slot
    BY <1>0 DEF CallType, CallState
  <2>3. /\ call' = [call EXCEPT ![c] = r]
        /\ UNCHANGED <<next, slot, conn, connected, enabled, sound>>
    BY <1>0, <1>4 DEF Send
  <2>4. /\ r.pc = "Sent" => r.conn \in Conn /\ slot[r.slot].client = r.conn
        /\ r.pc = "Failed" => r.conn \in Conn /\
              (\/ slot[r.slot].client = r.conn
               \/ /\ conn[r.conn] = "Shut"
                  /\ slot[r.slot].client = NoConn /\ slot[r.slot].wait > 0
                  /\ slot[r.slot].mu = NoCaller)
    BY <1>0, <2>1, <2>2 DEF OnCurrent, CallType
  <2> QED
    <3> HIDE DEF r
    <3> QED BY <1>0, <2>1, <2>2, <2>3, <2>4, CallStep
<1>5. ASSUME NEW c \in Caller, CallEnds(c) PROVE PoolInv'
  <2>1. CASE call' = [call EXCEPT ![c] = IdleCall]
    BY <1>0, <1>i, <1>5, <2>1, CallStep DEF CallEnds, Reply, TimesOut, At, IdleCall
  <2>2. CASE call' = [call EXCEPT ![c].pc = "Failed"]
    <3> DEFINE r == [call[c] EXCEPT !.pc = "Failed"]
    <3>1. /\ call[c].pc = "Sent" /\ call[c].conn \in Conn
          /\ slot[call[c].slot].client = call[c].conn
          /\ UNCHANGED <<next, slot, conn, connected, enabled, sound>>
      BY <1>0, <1>5 DEF CallEnds, Reply, TimesOut, At, CallsCurrent
    <3>2. /\ r \in CallType /\ r.pc = "Failed" /\ r.conn = call[c].conn
          /\ r.slot = call[c].slot /\ call' = [call EXCEPT ![c] = r]
      BY <1>0, <2>2 DEF CallType, CallState
    <3> QED
      BY <1>0, <3>1, <3>2, CallStep
  <2> QED
    BY <1>5, <2>1, <2>2 DEF CallEnds, Reply, TimesOut, Returns
<1>6. ASSUME NEW c \in Caller, Reset(c) PROVE PoolInv'
  <2> DEFINE s == call[c].slot
             k == slot[s].client
  <2>1. /\ s \in Slot /\ call[c].pc = "Failed" /\ slot[s].mu = NoCaller
        /\ conn' = IF k = NoConn THEN conn ELSE [conn EXCEPT ![k] = "Shut"]
        /\ slot' = [slot EXCEPT ![s] = [slot[s] EXCEPT !.client = NoConn, !.wait = 1]]
        /\ call' = [EndCalls(k) EXCEPT ![c] = IdleCall]
        /\ UNCHANGED <<next, connected, enabled, sound>>
    BY <1>0, <1>6 DEF Reset, SlotReset, At, CallType
  <2>2. \A t \in Slot : /\ slot'[t].mu = slot[t].mu
                        /\ slot'[t].client = IF t = s THEN NoConn ELSE slot[t].client
                        /\ slot'[t].wait = IF t = s THEN 1 ELSE slot[t].wait
                        /\ slot'[t] \in SlotType
    <3>1. ASSUME NEW t \in Slot PROVE slot[t] \in SlotType
      BY <1>0
    <3>2. slot'[s] = [slot[s] EXCEPT !.client = NoConn, !.wait = 1]
      BY <1>0, <2>1
    <3>3. slot'[s] \in SlotType /\ slot'[s].wait = 1 /\ slot'[s].client = NoConn
          /\ slot'[s].mu = slot[s].mu
      BY <2>1, <3>1, <3>2, ResetRecord
    <3>4. \A t \in Slot \ {s} : slot'[t] = slot[t]
      BY <1>0, <2>1
    <3>5. ASSUME NEW t \in Slot
          PROVE  /\ slot'[t].mu = slot[t].mu
                 /\ slot'[t].client = IF t = s THEN NoConn ELSE slot[t].client
                 /\ slot'[t].wait = IF t = s THEN 1 ELSE slot[t].wait
                 /\ slot'[t] \in SlotType
      <4>1. CASE t = s
        BY <3>3, <4>1
      <4>2. CASE t # s
        <5>1. slot'[t] = slot[t]
          BY <3>4, <4>2
        <5> QED BY <3>1, <4>2, <5>1
      <4> QED BY <4>1, <4>2
    <3> QED
      BY <3>5
  <2>3. call'[c].pc = "Idle" /\ call'[c] \in CallType
    BY <1>i, <2>1 DEF EndCalls, IdleCall
  <2>4. \A d \in Caller \ {c} : Ended(d, k)
    BY <1>0, <2>1 DEF EndCalls, Ended, At, CallType, CallState
  <2>5. /\ slot' \in [Slot -> SlotType]
        /\ call' \in [Caller -> CallType]
        /\ conn' \in [Conn -> {"Open", "Lost", "Shut"}]
    <3>1. DOMAIN slot' = Slot /\ slot' = [t \in Slot |-> slot'[t]]
      BY <1>0, <2>1
    <3>2. call' = [d \in Caller |-> call'[d]]
      BY <2>1 DEF EndCalls
    <3>3. \A d \in Caller : call'[d] \in CallType
      BY <2>3, <2>4 DEF Ended
    <3>4. conn' \in [Conn -> {"Open", "Lost", "Shut"}]
      BY <1>0, <2>1
    <3> HIDE DEF s, k
    <3> QED
      <4>1. \A t \in Slot : slot'[t] \in SlotType
        BY <2>2
      <4>2. slot' \in [Slot -> SlotType]
        BY <3>1, <4>1
      <4>3. call' \in [Caller -> CallType]
        BY <3>2, <3>3
      <4> QED
        BY <3>4, <4>2, <4>3
  <2>6. MutexHeld'
    BY <1>0, <2>1, <2>2, <2>3, <2>4 DEF MutexHeld, At, Ended
  <2>7. CallsCurrent'
    <3>1. ASSUME NEW d \in Caller, call'[d].pc \in {"Got", "Failed"} PROVE OnCurrent(d)'
      <4>1. /\ d # c /\ Ended(d, k) /\ call[d].slot \in Slot
            /\ call[d].conn \in Conn /\ NoConn \notin Conn
        BY <1>0, <2>3, <2>4, <3>1, PoolAssumption DEF CallsCurrent, OnCurrent, At, Ended, CallType
      <4>2. slot[call[d].slot].client = call[d].conn \/ OnCurrent(d)
        BY <1>0, <3>1, <4>1 DEF CallsCurrent, At, Ended
      <4>3. CASE call[d].slot = s
        <5>1. conn'[call[d].conn] = "Shut"
          BY <1>0, <2>1, <4>1, <4>2, <4>3 DEF OnCurrent
        <5> QED
          <6>1. /\ call'[d].slot = s /\ call'[d].conn = call[d].conn
                /\ slot'[s].client = NoConn /\ slot'[s].wait = 1 /\ slot'[s].mu = NoCaller
            BY <2>1, <2>2, <4>1, <4>3 DEF Ended
          <6> QED
            BY <4>1, <5>1, <6>1 DEF OnCurrent
      <4>4. CASE call[d].slot # s
        BY <1>0, <2>1, <2>2, <4>1, <4>2, <4>4 DEF OnCurrent, Ended
      <4> QED
        BY <4>3, <4>4
    <3>2. ASSUME NEW d \in Caller, call'[d].pc = "Sent"
          PROVE  call'[d].conn \in Conn /\ slot'[call'[d].slot].client = call'[d].conn
      BY <1>0, <2>1, <2>2, <2>3, <2>4, <3>2 DEF CallsCurrent, At, Ended, CallType
    <3> QED
      BY <3>1, <3>2 DEF CallsCurrent, At
  <2> QED
    BY <1>0, <2>1, <2>5, <2>6, <2>7, Parts
<1>7. ASSUME NEW k \in Conn, LoseConnection(k) PROVE PoolInv'
  BY <1>7 DEF LoseConnection, PoolInv, PoolTypeOK, MutexHeld, CallsCurrent, At, OnCurrent
<1>8. ASSUME NEW k \in Conn, NoticeLoss(k) PROVE PoolInv'
  <2>1. \A d \in Caller : Ended(d, k)
    BY <1>0, <1>8 DEF NoticeLoss, EndCalls, Ended, At, CallType, CallState
  <2>2. call' = [d \in Caller |-> call'[d]] /\ UNCHANGED <<next, slot, connected, enabled, sound>>
    BY <1>8 DEF NoticeLoss, EndCalls
  <2>3. call' \in [Caller -> CallType]
    BY <2>1, <2>2 DEF Ended
  <2>4. MutexHeld'
    BY <1>0, <2>1, <2>2 DEF MutexHeld, At, Ended
  <2>5. \A l \in Conn : conn[l] = "Shut" => conn'[l] = "Shut"
    BY <1>0, <1>8 DEF NoticeLoss
  <2>6. CallsCurrent'
    BY <1>0, <2>1, <2>2, <2>5 DEF CallsCurrent, OnCurrent, At, Ended
  <2>7. conn' \in [Conn -> {"Open", "Lost", "Shut"}]
    BY <1>0, <1>8 DEF NoticeLoss
  <2> QED
    BY <1>0, <2>2, <2>3, <2>4, <2>6, <2>7, Parts
<1>9. CASE NetworkChanges \/ SwitchOutgoing \/ SwitchIncoming \/ UNCHANGED vars
  <2>1. UNCHANGED <<next, slot, call, conn>>
    BY <1>9 DEF NetworkChanges, SwitchOutgoing, SwitchIncoming, vars
  <2>2. {connected, enabled, sound}' \subseteq BOOLEAN
    BY <1>0, <1>9 DEF NetworkChanges, SwitchOutgoing, SwitchIncoming, vars
  <2>3. MutexHeld' /\ CallsCurrent'
    BY <1>0, <2>1 DEF MutexHeld, CallsCurrent, OnCurrent, At
  <2> QED
    BY <1>0, <2>1, <2>2, <2>3, Parts
<1>10. CASE Tick
  <2>1. /\ slot' \in [Slot -> SlotType]
        /\ \A s \in Slot : slot'[s].client = slot[s].client /\ slot'[s].mu = slot[s].mu
        /\ UNCHANGED <<next, call, conn, connected, enabled, sound>>
    <3>1. ASSUME NEW s \in Slot
          PROVE  /\ slot'[s] \in SlotType
                 /\ slot'[s].client = slot[s].client /\ slot'[s].mu = slot[s].mu
      <4>1. slot[s].wait \in 0..MaxBackoff /\ slot[s] \in SlotType
        BY <1>0 DEF SlotType
      <4>2. (IF slot[s].wait > 0 THEN slot[s].wait - 1 ELSE 0) \in 0..MaxBackoff
        BY <4>1, PoolAssumption
      <4> QED
        BY <1>10, <4>1, <4>2 DEF Tick, SlotType
    <3> QED
      BY <1>10, <3>1 DEF Tick
  <2>2. MutexHeld'
    BY <1>0, <2>1 DEF MutexHeld, At
  <2>3. CallsCurrent'
    BY <1>0, <1>10, <2>1 DEF Tick, Runnable, CallsCurrent, OnCurrent, At, CallType
  <2> QED
    BY <1>0, <2>1, <2>2, <2>3, Parts
<1> QED
  BY <1>1, <1>2, <1>3, <1>4, <1>5, <1>6, <1>7, <1>8, <1>9, <1>10 DEF Next

\* The inductive invariant of the pool.
THEOREM PoolInvariant == Spec => []PoolInv
<1>1. PoolInv /\ [Next]_vars => PoolInv'
  BY NextPoolInv
<1> QED BY InitPoolInv, <1>1, PTL DEF Spec

\* Types, and who holds a slot's mutex.
THEOREM PoolTypeCorrect == Spec => []PoolTypeOK
<1>1. PoolInv => PoolTypeOK
  BY DEF PoolInv
<1> QED BY PoolInvariant, <1>1, PTL

\* resetConnection never closes a connection that another call has dialed since
\* the failure it answers to.
THEOREM LateFailureNeverHarms == Spec => []LateFailureHarmless
<1>1. PoolInv => LateFailureHarmless
  BY DEF PoolInv, CallsCurrent, OnCurrent, LateFailureHarmless
<1> QED BY PoolInvariant, <1>1, PTL
=============================================================================
