-------------------------- MODULE DiskStoreProofs --------------------------
(***************************************************************************)
(* What Put acknowledged is kept, and never answered with something older, *)
(* for every set of keys, every number of Puts and restarts and every      *)
(* choice of faults.                                                       *)
(***************************************************************************)
EXTENDS DiskStore, TLAPS, WellFoundedInduction, SequenceTheorems

\* A Put between its write and its return has its record in the file, after Sync
\* in the part that is durable.
PendingWritten ==
    /\ step # "Idle" => /\ puts \in 1..MaxPuts
                        /\ \E p \in 1..Len(file) : file[p] = Whole(putting, puts)
    /\ step = "Synced" => durable = Len(file)

\* What was acknowledged was put.
AckedPut == \A k \in Key : acked[k] <= puts

\* The inductive invariant.
StoreInv ==
    /\ StoreTypeOK
    /\ PendingWritten
    /\ AckedPut
    /\ AckedDurable
    /\ NeverOlder

-----------------------------------------------------------------------------
(* About the file.                                                          *)

LEMMA PieceFacts ==
    ASSUME NEW k \in Key, NEW n \in 1..MaxPuts
    PROVE  Whole(k, n) \in Piece /\ Half \in Piece /\ NewLine \in Piece
BY DEF Piece

\* Something appended leaves what is there alone.
LEMMA Appended ==
    ASSUME NEW S, NEW f \in Seq(S), NEW part \in Seq(S)
    PROVE  /\ f \o part \in Seq(S)
           /\ Len(f \o part) \in Nat /\ Len(f \o part) = Len(f) + Len(part)
           /\ \A p \in 1..Len(f) : (f \o part)[p] = f[p]
<1>1. Len(f) \in Nat /\ Len(part) \in Nat
  BY LenProperties
<1>2. /\ f \o part \in Seq(S)
      /\ Len(f \o part) = Len(f) + Len(part)
      /\ \A p \in 1..Len(f) + Len(part) : (f \o part)[p] =
            IF p <= Len(f) THEN f[p] ELSE part[p - Len(f)]
  BY ConcatProperties
<1>3. \A p \in 1..Len(f) : p \in 1..Len(f) + Len(part) /\ p <= Len(f)
  BY <1>1
<1> QED BY <1>1, <1>2, <1>3

\* What a power loss leaves of a file is a beginning of it, and perhaps a torn
\* record.
LEMMA Beginning ==
    ASSUME NEW S, NEW f \in Seq(S), NEW n \in 0..Len(f)
    PROVE  /\ SubSeq(f, 1, n) \in Seq(S) /\ Len(SubSeq(f, 1, n)) = n
           /\ \A p \in 1..n : SubSeq(f, 1, n)[p] = f[p]
<1>1. Len(f) \in Nat
  BY LenProperties
<1>2. \A p \in 1..n : f[p] \in S
  BY <1>1, ElementOfSeq
<1>3. /\ SubSeq(f, 1, n) \in Seq(S)
      /\ Len(SubSeq(f, 1, n)) = IF 1 <= n THEN n - 1 + 1 ELSE 0
      /\ \A p \in 1..(n - 1 + 1) : SubSeq(f, 1, n)[p] = f[1 + p - 1]
  BY <1>1, <1>2, SubSeqProperties
<1>4. n - 1 + 1 = n /\ \A p \in 1..n : 1 + p - 1 = p
  BY <1>1
<1>5. Len(SubSeq(f, 1, n)) = n
  BY <1>1, <1>3
<1> QED BY <1>3, <1>4, <1>5

\* What is durable stays so, and with it what was acknowledged.
LEMMA AckedStays ==
    ASSUME StoreInv, acked' = acked, durable' >= durable, durable' \in Nat,
           \A p \in 1..durable : file'[p] = file[p]
    PROVE  AckedDurable'
<1>1. durable \in Nat
  BY DEF StoreInv, StoreTypeOK
<1>2. ASSUME NEW k \in Key, acked[k] # 0
      PROVE  \E p \in 1..durable' : file'[p] = Whole(k, acked[k])
  <2>1. PICK p \in 1..durable : file[p] = Whole(k, acked[k])
    BY <1>2 DEF StoreInv, AckedDurable
  <2>2. p \in 1..durable' /\ file'[p] = file[p]
    BY <1>1
  <2> QED BY <2>1, <2>2
<1> QED BY <1>2 DEF AckedDurable

\* A non-empty set of naturals has a least element.
LEMMA LeastExists ==
    ASSUME NEW S \in SUBSET Nat, S # {}
    PROVE  \E x \in S : \A y \in S : x <= y
<1> DEFINE less == {p \in Nat \X Nat : p[1] < p[2]}
<1>1. IsWellFoundedOn(less, Nat)
  BY NatLessThanWellFounded DEF OpToRel
<1> HIDE DEF less
<1>2. PICK x \in S : \A y \in S : <<y, x>> \notin less
  BY <1>1, WFMin
<1>3. ASSUME NEW y \in S PROVE x <= y
  <2>1. <<y, x>> \in Nat \X Nat /\ <<y, x>>[1] = y /\ <<y, x>>[2] = x
    OBVIOUS
  <2>2. CASE y < x
    <3>1. <<y, x>> \in less
      BY <2>1, <2>2 DEF less
    <3> QED BY <3>1, <1>2
  <2> QED BY <2>2
<1> QED BY <1>3

\* A non-empty set of naturals with a bound has a greatest element.
LEMMA GreatestExists ==
    ASSUME NEW S \in SUBSET Nat, S # {}, NEW b \in Nat, \A y \in S : y <= b
    PROVE  \E x \in S : \A y \in S : y <= x
<1> DEFINE T == {b - y : y \in S}
<1>1. T \in SUBSET Nat /\ T # {}
  <2>1. \A y \in S : b - y \in Nat
    OBVIOUS
  <2> QED BY <2>1
<1>2. PICK t \in T : \A u \in T : t <= u
  BY <1>1, LeastExists
<1>3. PICK x \in S : t = b - x
  OBVIOUS
<1>4. ASSUME NEW y \in S PROVE y <= x
  BY <1>2, <1>3
<1> QED BY <1>4

\* restore leaves in the map the last value of a key, which is no older than one
\* that is in the file.
LEMMA RestoredLast ==
    ASSUME StoreTypeOK, NEW key \in Key
    PROVE  /\ Restored(key) \in 0..MaxPuts
           /\ \A n \in ValuesOf(key) : Restored(key) >= n
<1> DEFINE V == ValuesOf(key)
           last == CHOOSE n \in V : \A k \in V : n >= k
<1>1. puts \in 0..MaxPuts /\ puts \in Nat /\ MaxPuts \in Nat
  BY StoreAssumption DEF StoreTypeOK
<1>2. V \subseteq 1..puts
  BY DEF ValuesOf
<1>3. V \in SUBSET Nat /\ \A n \in V : n <= puts
  BY <1>1, <1>2
<1>4. Restored(key) = IF V = {} THEN 0 ELSE last
  BY DEF Restored
<1> HIDE DEF V
<1>5. CASE V = {}
  BY <1>1, <1>4, <1>5 DEF V
<1>6. CASE V # {}
  <2>1. PICK x \in V : \A y \in V : y <= x
    BY <1>1, <1>3, <1>6, GreatestExists
  <2>2. \A y \in V : x >= y
    BY <1>3, <2>1
  <2>3. last \in V /\ \A k \in V : last >= k
    BY <2>1, <2>2
  <2>4. PICK n \in V : n = last
    BY <2>3
  <2>5. n \in 1..puts
    BY <1>2
  <2>6. n \in 0..MaxPuts
    BY <1>1, <2>5
  <2>7. Restored(key) = last
    BY <1>4, <1>6
  <2> QED BY <2>3, <2>4, <2>6, <2>7 DEF V
<1> QED BY <1>5, <1>6

-----------------------------------------------------------------------------
(* Init and the actions.                                                    *)

\* A Put begun later leaves what was acknowledged before among the Puts.
LEMMA AckedPutStays ==
    ASSUME StoreInv, acked' = acked, puts' = puts + 1
    PROVE  AckedPut'
<1>1. puts \in Nat
  BY StoreAssumption DEF StoreInv, StoreTypeOK
<1>2. ASSUME NEW k \in Key PROVE acked[k] <= puts + 1
  <2>1. acked[k] \in 0..MaxPuts /\ MaxPuts \in Nat
    BY StoreAssumption DEF StoreInv, StoreTypeOK
  <2>2. acked[k] <= puts
    BY DEF StoreInv, AckedPut
  <2> QED BY <1>1, <2>1, <2>2
<1> QED BY <1>2 DEF AckedPut

LEMMA InitStoreInv == Init => StoreInv
<1> SUFFICES ASSUME Init PROVE StoreInv
  OBVIOUS
<1>1. <<>> \in Seq(Piece) /\ Len(<<>>) = 0
  BY EmptySeq
<1>2. 0 \in 0..MaxPuts /\ 0 \in 0..MaxRestarts
  BY StoreAssumption
<1>3. file \in Seq(Piece) /\ durable \in 0..Len(file)
  BY <1>1 DEF Init
<1>4. data \in [Key -> 0..MaxPuts] /\ acked \in [Key -> 0..MaxPuts]
  BY <1>2 DEF Init
<1>5. StoreTypeOK
  BY <1>2, <1>3, <1>4 DEF Init, StoreTypeOK
<1> QED BY <1>5 DEF Init, StoreInv, PendingWritten, AckedPut, AckedDurable, NeverOlder

LEMMA WriteRecordInv ==
    ASSUME StoreInv, NEW key \in Key, WriteRecord(key)
    PROVE  StoreInv'
<1> DEFINE line == <<Whole(key, puts + 1), NewLine>>
<1>1. /\ process = "Up" /\ step = "Idle" /\ ~closed /\ puts < MaxPuts
      /\ puts' = puts + 1 /\ putting' = key /\ file' = file \o line /\ step' = "Written"
      /\ UNCHANGED <<durable, data, process, closed, restarts, acked>>
  BY DEF WriteRecord
<1>2. /\ puts \in Nat /\ puts + 1 \in 1..MaxPuts /\ MaxPuts \in Nat
      /\ file \in Seq(Piece) /\ Len(file) \in Nat /\ durable \in 0..Len(file)
      /\ acked \in [Key -> 0..MaxPuts]
  BY <1>1, StoreAssumption, LenProperties DEF StoreInv, StoreTypeOK
<1>3. line \in Seq(Piece) /\ Len(line) = 2 /\ line[1] = Whole(key, puts + 1)
  BY <1>2, PieceFacts
<1> HIDE DEF line
<1>4. /\ file' \in Seq(Piece) /\ Len(file') = Len(file) + 2
      /\ \A p \in 1..Len(file) : file'[p] = file[p]
  <2>1. /\ file \o line \in Seq(Piece) /\ Len(file \o line) = Len(file) + Len(line)
        /\ \A p \in 1..Len(file) : (file \o line)[p] = file[p]
    BY <1>2, <1>3, Appended
  <2> QED BY <1>1, <1>3, <2>1
<1>5. file'[Len(file) + 1] = Whole(key, puts + 1)
  <2> DEFINE a == Len(file)
  <2>1. \A p \in 1..Len(file) + Len(line) : (file \o line)[p] =
            IF p <= Len(file) THEN file[p] ELSE line[p - Len(file)]
    BY <1>2, <1>3, ConcatProperties
  <2>2. a + 1 \in 1..a + Len(line) /\ ~(a + 1 <= a) /\ (a + 1) - a = 1
    BY <1>2, <1>3
  <2>3. (file \o line)[a + 1] = line[(a + 1) - a]
    <3> HIDE DEF a
    <3> QED BY <2>1, <2>2 DEF a
  <2> QED BY <1>1, <1>3, <2>2, <2>3
<1>6. StoreTypeOK'
  BY <1>1, <1>2, <1>4 DEF StoreInv, StoreTypeOK
<1>7. PendingWritten'
  <2>1. Len(file) + 1 \in 1..Len(file')
    BY <1>2, <1>4
  <2> QED BY <1>1, <1>2, <1>5, <2>1 DEF PendingWritten
<1>8. AckedPut'
  BY <1>1, AckedPutStays
<1>9. AckedDurable'
  BY <1>1, <1>2, <1>4, AckedStays
<1>10. NeverOlder'
  BY <1>1 DEF StoreInv, NeverOlder
<1> QED BY <1>6, <1>7, <1>8, <1>9, <1>10 DEF StoreInv

LEMMA WriteFailsInv ==
    ASSUME StoreInv, NEW key \in Key, WriteFails(key)
    PROVE  StoreInv'
<1>1. /\ process = "Up" /\ step = "Idle" /\ ~closed /\ puts < MaxPuts
      /\ puts' = puts + 1 /\ putting' = key
      /\ UNCHANGED <<durable, data, step, process, closed, restarts, acked>>
  BY DEF WriteFails
<1>2. /\ puts \in Nat /\ puts + 1 \in 1..MaxPuts /\ MaxPuts \in Nat
      /\ file \in Seq(Piece) /\ Len(file) \in Nat /\ durable \in 0..Len(file)
      /\ acked \in [Key -> 0..MaxPuts]
  BY <1>1, StoreAssumption, LenProperties DEF StoreInv, StoreTypeOK
<1>3. PICK part \in {<<>>, <<Half>>, <<Whole(key, puts + 1)>>} : file' = file \o part
  BY DEF WriteFails
<1>4. part \in Seq(Piece) /\ Len(part) \in Nat
  <2>1. Whole(key, puts + 1) \in Piece /\ Half \in Piece
    BY <1>2, PieceFacts
  <2>2. <<>> \in Seq(Piece) /\ <<Half>> \in Seq(Piece) /\ <<Whole(key, puts + 1)>> \in Seq(Piece)
    BY <2>1, EmptySeq
  <2> QED BY <2>2, LenProperties
<1>5. /\ file' \in Seq(Piece) /\ Len(file') = Len(file) + Len(part)
      /\ \A p \in 1..Len(file) : file'[p] = file[p]
  BY <1>2, <1>3, <1>4, Appended
<1>6. StoreTypeOK'
  BY <1>1, <1>2, <1>4, <1>5 DEF StoreInv, StoreTypeOK
<1>7. PendingWritten'
  BY <1>1 DEF PendingWritten
<1>8. AckedPut'
  BY <1>1, AckedPutStays
<1>9. AckedDurable'
  BY <1>1, <1>2, <1>5, AckedStays
<1>10. NeverOlder'
  BY <1>1 DEF StoreInv, NeverOlder
<1> QED BY <1>6, <1>7, <1>8, <1>9, <1>10 DEF StoreInv

LEMMA SyncInv ==
    ASSUME StoreInv, Sync
    PROVE  StoreInv'
<1>1. /\ process = "Up" /\ step = "Written" /\ durable' = Len(file) /\ step' = "Synced"
      /\ UNCHANGED <<file, data, putting, process, closed, puts, restarts, acked>>
  BY DEF Sync, SyncFile
<1>2. Len(file) \in Nat /\ durable \in 0..Len(file)
  BY LenProperties DEF StoreInv, StoreTypeOK
<1>3. StoreTypeOK'
  BY <1>1, <1>2 DEF StoreInv, StoreTypeOK
<1>4. PendingWritten'
  BY <1>1 DEF StoreInv, PendingWritten
<1>5. AckedDurable'
  BY <1>1, <1>2, AckedStays
<1> QED BY <1>1, <1>3, <1>4, <1>5 DEF StoreInv, AckedPut, NeverOlder

LEMMA AssignInv ==
    ASSUME StoreInv, Assign
    PROVE  StoreInv'
<1>1. /\ process = "Up" /\ step = "Synced" /\ step' = "Idle"
      /\ data' = [data EXCEPT ![putting] = puts] /\ acked' = [acked EXCEPT ![putting] = puts]
      /\ UNCHANGED <<file, durable, putting, process, closed, puts, restarts>>
  BY DEF Assign
<1>2. /\ putting \in Key /\ puts \in 0..MaxPuts /\ MaxPuts \in Nat
      /\ data \in [Key -> 0..MaxPuts] /\ acked \in [Key -> 0..MaxPuts]
  BY StoreAssumption DEF StoreInv, StoreTypeOK
<1>3. StoreTypeOK'
  BY <1>1, <1>2 DEF StoreInv, StoreTypeOK
<1>4. PendingWritten'
  BY <1>1 DEF PendingWritten
<1>5. ASSUME NEW k \in Key
      PROVE  /\ k = putting => data'[k] = puts /\ acked'[k] = puts
             /\ k # putting => data'[k] = data[k] /\ acked'[k] = acked[k]
  BY <1>1, <1>2
<1>6. AckedPut'
  BY <1>1, <1>2, <1>5 DEF StoreInv, AckedPut
<1>7. AckedDurable'
  <2>1. \E p \in 1..durable : file[p] = Whole(putting, puts)
    BY <1>1 DEF StoreInv, PendingWritten
  <2>2. ASSUME NEW k \in Key, acked'[k] # 0
        PROVE  \E p \in 1..durable : file[p] = Whole(k, acked'[k])
    <3>1. CASE k = putting
      BY <1>5, <2>1, <3>1
    <3>2. CASE k # putting
      BY <1>5, <2>2, <3>2 DEF StoreInv, AckedDurable
    <3> QED BY <3>1, <3>2
  <2> QED BY <1>1, <2>2 DEF AckedDurable
<1>8. NeverOlder'
  BY <1>1, <1>2, <1>5 DEF StoreInv, NeverOlder
<1> QED BY <1>3, <1>4, <1>6, <1>7, <1>8 DEF StoreInv

\* A Sync that fails, and Close, change nothing the store's promises are about.
LEMMA ReturnsInv ==
    ASSUME StoreInv, SyncFails \/ Close
    PROVE  StoreInv'
<1>1. /\ process = "Up" /\ step' = "Idle"
      /\ UNCHANGED <<file, durable, data, putting, process, puts, restarts, acked>>
      /\ closed' \in BOOLEAN
  BY DEF SyncFails, Close, StoreInv, StoreTypeOK
<1>2. StoreTypeOK'
  BY <1>1 DEF StoreInv, StoreTypeOK
<1> QED BY <1>1, <1>2 DEF StoreInv, PendingWritten, AckedPut, AckedDurable, NeverOlder

LEMMA ProcessEndsInv ==
    ASSUME StoreInv, ProcessEnds
    PROVE  StoreInv'
<1>1. /\ process' = "Down" /\ step' = "Idle" /\ closed' = FALSE
      /\ UNCHANGED <<file, durable, data, putting, puts, restarts, acked>>
  BY DEF ProcessEnds, Ends
<1>2. StoreTypeOK'
  BY <1>1 DEF StoreInv, StoreTypeOK
<1> QED BY <1>1, <1>2 DEF StoreInv, PendingWritten, AckedPut, AckedDurable, NeverOlder

LEMMA PowerLossInv ==
    ASSUME StoreInv, PowerLoss
    PROVE  StoreInv'
<1>1. /\ process' = "Down" /\ step' = "Idle" /\ closed' = FALSE
      /\ UNCHANGED <<data, putting, puts, restarts, acked>>
  BY DEF PowerLoss, Ends
<1>2. file \in Seq(Piece) /\ Len(file) \in Nat /\ durable \in 0..Len(file)
  BY LenProperties DEF StoreInv, StoreTypeOK
<1>3. PICK n \in durable..Len(file) :
         \/ file' = SubSeq(file, 1, n) /\ durable' = n
         \/ file' = Append(SubSeq(file, 1, n), Half) /\ durable' = n + 1
  BY DEF PowerLoss
<1>4. n \in 0..Len(file) /\ n \in Nat /\ n >= durable
  BY <1>2
<1> DEFINE kept == SubSeq(file, 1, n)
<1>5. kept \in Seq(Piece) /\ Len(kept) = n /\ \A p \in 1..n : kept[p] = file[p]
  BY <1>2, <1>4, Beginning
<1> HIDE DEF kept
<1>6. /\ file' \in Seq(Piece) /\ durable' = Len(file') /\ durable' \in Nat
      /\ durable' >= n /\ \A p \in 1..n : file'[p] = file[p]
  <2>1. CASE file' = kept /\ durable' = n
    BY <1>4, <1>5, <2>1
  <2>2. CASE file' = Append(kept, Half) /\ durable' = n + 1
    <3>1. Half \in Piece
      BY DEF Piece
    <3>2. /\ Append(kept, Half) \in Seq(Piece) /\ Len(Append(kept, Half)) = n + 1
          /\ \A p \in 1..n : Append(kept, Half)[p] = kept[p]
      BY <1>4, <1>5, <3>1, AppendProperties
    <3> QED BY <1>4, <1>5, <2>2, <3>2
  <2> QED BY <1>3, <2>1, <2>2 DEF kept
<1>7. StoreTypeOK'
  <2>1. durable' \in 0..Len(file')
    BY <1>6
  <2> QED BY <1>1, <1>6, <2>1 DEF StoreInv, StoreTypeOK
<1>8. AckedDurable'
  <2>1. durable' >= durable /\ \A p \in 1..durable : file'[p] = file[p]
    BY <1>2, <1>4, <1>6
  <2> QED BY <1>1, <1>6, <2>1, AckedStays
<1> QED BY <1>1, <1>7, <1>8 DEF StoreInv, PendingWritten, AckedPut, NeverOlder

\* restore reads every acknowledged record there is.
LEMMA RestartInv ==
    ASSUME StoreInv, Restart
    PROVE  StoreInv'
<1>1. /\ process = "Down" /\ restarts < MaxRestarts /\ restarts' = restarts + 1
      /\ UNCHANGED <<file, durable, step, putting, closed, puts, acked>>
      /\ \/ process' = "Up" /\ data' = [k \in Key |-> Restored(k)]
         \/ process' = "Refused" /\ data' = [k \in Key |-> 0]
  BY DEF Restart
<1>2. /\ puts \in Nat /\ MaxPuts \in Nat /\ MaxRestarts \in Nat
      /\ file \in Seq(Piece) /\ Len(file) \in Nat /\ DOMAIN file = 1..Len(file)
      /\ durable \in 0..Len(file) /\ acked \in [Key -> 0..MaxPuts]
      /\ restarts \in 0..MaxRestarts /\ step = "Idle"
  BY <1>1, StoreAssumption, LenProperties DEF StoreInv, StoreTypeOK
<1>3. \A k \in Key : Restored(k) \in 0..MaxPuts
  BY RestoredLast DEF StoreInv
<1>4. StoreTypeOK'
  <2>1. data' \in [Key -> 0..MaxPuts] /\ restarts' \in 0..MaxRestarts
    BY <1>1, <1>2, <1>3
  <2> QED BY <1>1, <1>2, <2>1 DEF StoreInv, StoreTypeOK
<1>5. ASSUME NEW k \in Key, acked[k] # 0 PROVE acked[k] \in ValuesOf(k)
  <2>1. PICK p \in 1..durable : file[p] = Whole(k, acked[k])
    BY <1>5 DEF StoreInv, AckedDurable
  <2>2. p \in DOMAIN file
    BY <1>2
  <2>3. acked[k] \in 1..puts
    BY <1>2, <1>5 DEF StoreInv, AckedPut
  <2> QED BY <2>1, <2>2, <2>3 DEF ValuesOf
<1>6. ASSUME process' = "Up", NEW k \in Key PROVE data'[k] >= acked[k]
  <2>1. data'[k] = Restored(k) /\ Restored(k) \in Nat
    BY <1>1, <1>3, <1>6
  <2>2. CASE acked[k] = 0
    BY <2>1, <2>2
  <2>3. CASE acked[k] # 0
    BY <1>5, <2>1, <2>3, RestoredLast DEF StoreInv
  <2> QED BY <2>2, <2>3
<1> QED BY <1>1, <1>2, <1>4, <1>6 DEF StoreInv, PendingWritten, AckedPut, AckedDurable,
                                      NeverOlder

-----------------------------------------------------------------------------
LEMMA NextStoreInv == StoreInv /\ [Next]_vars => StoreInv'
<1> SUFFICES ASSUME StoreInv, [Next]_vars PROVE StoreInv'
  OBVIOUS
<1>1. CASE \E k \in Key : WriteRecord(k)
  BY <1>1, WriteRecordInv
<1>2. CASE \E k \in Key : WriteFails(k)
  BY <1>2, WriteFailsInv
<1>3. CASE Sync
  BY <1>3, SyncInv
<1>4. CASE Assign
  BY <1>4, AssignInv
<1>5. CASE SyncFails \/ Close
  BY <1>5, ReturnsInv
<1>6. CASE ProcessEnds
  BY <1>6, ProcessEndsInv
<1>7. CASE PowerLoss
  BY <1>7, PowerLossInv
<1>8. CASE Restart
  BY <1>8, RestartInv
<1>9. CASE UNCHANGED vars
  BY <1>9 DEF vars, StoreInv, StoreTypeOK, PendingWritten, AckedPut, AckedDurable, NeverOlder
<1> QED BY <1>1, <1>2, <1>3, <1>4, <1>5, <1>6, <1>7, <1>8, <1>9 DEF Next

THEOREM StoreInvariant == Spec => []StoreInv
BY InitStoreInv, NextStoreInv, PTL DEF Spec

\* Type correctness; in particular no Put is under way on a closed file or in a
\* process that has ended.
THEOREM StoreTypeCorrect == Spec => []StoreTypeOK
<1>1. StoreInv => StoreTypeOK
  BY DEF StoreInv
<1> QED BY <1>1, StoreInvariant, PTL

\* What Put acknowledged survives every power loss, torn write and restart
\* (disk.go:63-80).
THEOREM AckedDurableHolds == Spec => []AckedDurable
<1>1. StoreInv => AckedDurable
  BY DEF StoreInv
<1> QED BY <1>1, StoreInvariant, PTL

\* A store that is up never has an older value than it acknowledged: restore
\* reads the file to its end (disk.go:44-61).
THEOREM NeverOlderHolds == Spec => []NeverOlder
<1>1. StoreInv => NeverOlder
  BY DEF StoreInv
<1> QED BY <1>1, StoreInvariant, PTL
=============================================================================
