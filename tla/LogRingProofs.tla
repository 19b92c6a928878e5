--------------------------- MODULE LogRingProofs ---------------------------
(***************************************************************************)
(* Proofs about the ring buffer, for any size and any number of messages.  *)
(***************************************************************************)
EXTENDS LogRing, FiniteSetTheorems, SequenceTheorems, TLAPS

\* The variables the ring buffer is made of keep their types.
RingType ==
  /\ rblast \in Slot
  /\ logs \in [Slot -> 0 .. MaxLogged]
  /\ logged \in 0 .. MaxLogged

RingInv == RingType /\ RingInOrder

\* Going back stays in the ring, and reaches every slot once.
LEMMA BackInRing ==
  ASSUME rblast \in Slot, NEW k \in Slot
  PROVE  /\ Back(k) \in Slot
         /\ Back(k) = rblast <=> k = 0
BY SizeAssumption DEF Slot, Back

LEMMA StepInRing == ASSUME NEW r \in Slot PROVE Step(r) \in Slot
BY SizeAssumption DEF Slot, Step

\* After a step of the index, what was k - 1 places back is k places back.
LEMMA BackAfterStep ==
  ASSUME rblast \in Slot, rblast' = Step(rblast), NEW k \in Slot, k # 0
  PROVE  k - 1 \in Slot /\ Back(k)' = Back(k - 1) /\ Back(k)' # rblast'
BY SizeAssumption DEF Slot, Step, Back

LEMMA RingInductive ==
  /\ Init => RingInv
  /\ RingInv /\ [Next]_vars => RingInv'
<1>1. ASSUME Init PROVE RingInv
  <2>1. 0 \in Slot /\ 0 \in 0 .. MaxLogged
    BY SizeAssumption, MaxLoggedAssumption DEF Slot
  <2>2. RingType
    BY <1>1, <2>1 DEF Init, RingType
  <2>3. \A k \in Slot : Back(k) \in Slot
    BY <2>2, BackInRing DEF RingType
  <2>4. RingInOrder
    BY <1>1, <2>3 DEF Init, RingInOrder, Slot
  <2>5. QED
    BY <2>2, <2>4 DEF RingInv
<1>2. ASSUME RingInv, AddLog PROVE RingInv'
  <2>1. /\ rblast \in Slot /\ logged \in Nat /\ logged < MaxLogged
        /\ logs \in [Slot -> 0 .. MaxLogged]
    BY <1>2, MaxLoggedAssumption DEF RingInv, RingType, AddLog
  <2>2. /\ rblast' = Step(rblast) /\ rblast' \in Slot
        /\ logs' = [logs EXCEPT ![rblast'] = logged + 1]
        /\ logged' = logged + 1
    BY <1>2, <2>1, StepInRing DEF AddLog
  <2>3. RingType'
    BY <2>1, <2>2, MaxLoggedAssumption DEF RingType
  <2>4. ASSUME failing = {}, NEW k \in Slot
        PROVE  (logs[Back(k)])' = IF k < logged' THEN logged' - k ELSE 0
    <3>1. k \in Nat /\ Back(k)' \in Slot
      BY <2>2, SizeAssumption DEF Slot, Back
    <3>2. CASE k = 0
      <4>1. Back(k)' = rblast'
        BY <2>2, <3>1, <3>2, SizeAssumption DEF Back, Slot
      <4>2. QED
        BY <2>1, <2>2, <3>2, <4>1
    <3>3. CASE k # 0
      <4>1. k - 1 \in Slot /\ Back(k)' = Back(k - 1) /\ Back(k)' # rblast'
        BY <2>1, <2>2, <3>3, BackAfterStep
      <4>2. logs[Back(k - 1)] = IF k - 1 < logged THEN logged - (k - 1) ELSE 0
        BY <1>2, <2>4, <4>1 DEF RingInv, RingInOrder
      <4>3. (logs[Back(k)])' = logs[Back(k - 1)]
        BY <2>1, <2>2, <3>1, <4>1
      <4>4. QED
        BY <2>1, <2>2, <3>1, <4>2, <4>3
    <3>4. QED
      BY <3>2, <3>3
  <2>5. failing' = failing
    BY <1>2 DEF AddLog
  <2>6. QED
    BY <2>3, <2>4, <2>5 DEF RingInv, RingInOrder
<1>3. ASSUME RingInv, UNCHANGED <<rblast, logs, logged, failing>> PROVE RingInv'
  BY <1>3 DEF RingInv, RingType, RingInOrder, Back
<1>4. ASSUME RingInv, AddLogFails PROVE RingInv'
  <2>1. failing' # {}
    BY <1>4 DEF AddLogFails
  <2>2. RingType'
    BY <1>4, StepInRing DEF RingInv, RingType, AddLogFails
  <2>3. QED
    BY <2>1, <2>2 DEF RingInv, RingInOrder
<1>5. ASSUME RingInv, [Next]_vars PROVE RingInv'
  <2>1. AddLog \/ AddLogFails \/ UNCHANGED <<rblast, logs, logged, failing>>
    BY <1>5 DEF Next, GetLogs, GetLogsFails, vars
  <2>2. QED
    BY <1>2, <1>3, <1>4, <1>5, <2>1
<1>6. QED
  BY <1>1, <1>5

\* Read backwards from the last slot written, the ring holds the newest
\* messages, where no allocation fails.
THEOREM RingAlwaysInOrder == Spec => []RingInOrder
<1>1. RingInv => RingInOrder
  BY DEF RingInv
<1>2. QED
  BY <1>1, RingInductive, PTL DEF Spec

-----------------------------------------------------------------------------
(***************************************************************************)
(* The ring buffer implements LogHistory.                                  *)
(***************************************************************************)
Newest(n) == [i \in 1 .. n |-> logged + 1 - i]

LEMMA ReadableIsNewest ==
  ASSUME RingInv, failing = {}, NEW n \in 1 .. Size
  PROVE  Readable(n) = Newest(History!Shorter(n, logged))
<1> DEFINE m == History!Shorter(n, logged)
           K == {k \in 0 .. n - 1 : \A j \in 0 .. k : logs[Back(j)] # 0}
<1>1. n \in Nat /\ Size \in Nat /\ n <= Size /\ n > 0 /\ logged \in Nat
  BY SizeAssumption, MaxLoggedAssumption DEF RingInv, RingType
<1>2. m \in Nat /\ m <= n /\ m <= logged /\ (m = n \/ m = logged)
  BY <1>1 DEF History!Shorter
<1>3. \A j \in 0 .. n - 1 : logs[Back(j)] = IF j < logged THEN logged - j ELSE 0
  BY <1>1 DEF RingInv, RingInOrder, Slot
<1> HIDE DEF m
<1>4. K = 0 .. m - 1
  <2>1. ASSUME NEW k \in K PROVE k \in 0 .. m - 1
    <3>1. k \in 0 .. n - 1 /\ logs[Back(k)] # 0
      BY <1>1, <2>1
    <3>2. k < logged
      BY <1>1, <1>3, <3>1
    <3>3. QED
      BY <1>1, <1>2, <3>1, <3>2
  <2>2. ASSUME NEW k \in 0 .. m - 1 PROVE k \in K
    <3>1. k \in 0 .. n - 1
      BY <1>1, <1>2
    <3>2. ASSUME NEW j \in 0 .. k PROVE logs[Back(j)] # 0
      <4>1. j \in 0 .. n - 1 /\ j < logged
        BY <1>1, <1>2, <3>1
      <4>2. QED
        BY <1>1, <1>3, <4>1
    <3>3. QED
      BY <3>1, <3>2
  <2>3. QED
    BY <2>1, <2>2
<1>5. Cardinality(0 .. m - 1) = m
  BY <1>2, FS_Interval
<1>6. Copied(n) = m
  BY <1>4, <1>5 DEF Copied
<1>7. ASSUME NEW i \in 1 .. m PROVE logs[Back(i - 1)] = logged + 1 - i
  <2>1. i - 1 \in 0 .. n - 1 /\ i - 1 < logged
    BY <1>1, <1>2
  <2>2. QED
    BY <1>1, <1>3, <2>1
<1>8. QED
  BY <1>6, <1>7 DEF Readable, Newest, m

LEMMA NewestIsSeq ==
  ASSUME NEW n \in Nat, logged \in Nat
  PROVE  Newest(n) \in Seq(Int) /\ Len(Newest(n)) = n
BY DEF Newest

LEMMA FirstOfNewest ==
  ASSUME NEW n \in Nat, NEW k \in 1 .. Size, Size \in Nat, logged \in Nat
  PROVE  History!First(k, Newest(n)) = Newest(History!Shorter(k, n))
<1> DEFINE m == History!Shorter(k, n)
<1>1. m \in Nat /\ m <= n
  BY DEF History!Shorter
<1> HIDE DEF m
<1>2. SubSeq(Newest(n), 1, m) = [i \in 1 .. m |-> Newest(n)[i]]
  BY <1>1, NewestIsSeq
<1>3. \A i \in 1 .. m : Newest(n)[i] = logged + 1 - i
  BY <1>1 DEF Newest
<1>4. QED
  BY <1>2, <1>3, NewestIsSeq DEF History!First, Newest, m

\* What a reader of the whole ring gets.
Shown == failing = {} => Readable(Size) = Newest(History!Shorter(Size, logged))

LEMMA HistoryStep ==
  ASSUME RingInv, failing = {}, Shown, Shown', AddLog
  PROVE  History!HistoryNext
<1>1. /\ Size \in Nat /\ Size > 0 /\ logged \in Nat /\ MaxLogged \in Nat
      /\ logged' = logged + 1 /\ logged < MaxLogged /\ answer' = answer
      /\ failing' = {}
  BY SizeAssumption, MaxLoggedAssumption DEF RingInv, RingType, AddLog
<1> DEFINE m == History!Shorter(Size, logged)
           k == History!Shorter(Size, m + 1)
           longer == [i \in 1 .. m + 1 |-> logged + 2 - i]
<1>2. /\ m \in Nat /\ k \in 1 .. m + 1 /\ k \in Nat
      /\ k = History!Shorter(Size, logged')
  BY <1>1 DEF History!Shorter
<1>3. Readable(Size) = Newest(m)
  BY DEF Shown
<1>4. Readable(Size)' = [i \in 1 .. k |-> logged + 2 - i]
  <2>1. Readable(Size)' = [i \in 1 .. History!Shorter(Size, logged') |-> logged' + 1 - i]
    BY <1>1 DEF Shown, Newest, History!Shorter
  <2>2. \A i \in 1 .. k : logged' + 1 - i = logged + 2 - i
    BY <1>1, <1>2
  <2>3. QED
    BY <1>2, <2>1, <2>2
<1> HIDE DEF m, k
<1>5. <<logged + 1>> \o Newest(m) = longer
  <2>1. Newest(m) \in Seq(Int) /\ Len(Newest(m)) = m
    BY <1>1, <1>2, NewestIsSeq
  <2>2. <<logged + 1>> \in Seq(Int) /\ Len(<<logged + 1>>) = 1
    BY <1>1
  <2>3. /\ <<logged + 1>> \o Newest(m) \in Seq(Int)
        /\ Len(<<logged + 1>> \o Newest(m)) = m + 1
        /\ \A i \in 1 .. m + 1 :
             (<<logged + 1>> \o Newest(m))[i] =
               IF i <= 1 THEN <<logged + 1>>[i] ELSE Newest(m)[i - 1]
    BY <1>2, <2>1, <2>2, ConcatProperties
  <2>4. \A i \in 1 .. m + 1 : (<<logged + 1>> \o Newest(m))[i] = logged + 2 - i
    <3> SUFFICES ASSUME NEW i \in 1 .. m + 1
                 PROVE  (<<logged + 1>> \o Newest(m))[i] = logged + 2 - i
      OBVIOUS
    <3>1. CASE i = 1
      BY <1>1, <1>2, <2>3, <3>1
    <3>2. CASE i # 1
      <4>1. i - 1 \in 1 .. m /\ ~(i <= 1)
        BY <1>2, <3>2
      <4>2. Newest(m)[i - 1] = logged + 1 - (i - 1)
        BY <4>1 DEF Newest
      <4>3. (<<logged + 1>> \o Newest(m))[i] = Newest(m)[i - 1]
        BY <2>3, <4>1
      <4>4. logged + 1 - (i - 1) = logged + 2 - i
        BY <1>1, <1>2
      <4>5. QED
        BY <4>2, <4>3, <4>4
    <3>3. QED
      BY <3>1, <3>2
  <2>5. <<logged + 1>> \o Newest(m) =
          [i \in 1 .. m + 1 |-> (<<logged + 1>> \o Newest(m))[i]]
    <3> DEFINE s == <<logged + 1>> \o Newest(m)
    <3>1. s \in Seq(Int) /\ Len(s) = m + 1
      BY <2>3
    <3> HIDE DEF s
    <3>2. s = [i \in 1 .. Len(s) |-> s[i]]
      BY <3>1
    <3>3. QED
      BY <3>1, <3>2 DEF s
  <2>6. QED
    BY <2>4, <2>5
<1>6. SubSeq(longer, 1, k) = [i \in 1 .. k |-> logged + 2 - i]
  <2>1. longer \in Seq(Int) /\ Len(longer) = m + 1
    BY <1>1, <1>2
  <2>2. \A i \in 1 .. k : longer[i] = logged + 2 - i
    BY <1>2
  <2>3. SubSeq(longer, 1, k) = [i \in 1 .. k |-> longer[i]]
    <3> HIDE DEF longer
    <3>1. k <= Len(longer) /\ 1 <= k
      BY <1>2, <2>1
    <3>2. QED
      BY <1>2, <2>1, <3>1
  <2>4. QED
    BY <2>2, <2>3
<1>7. Len(longer) = m + 1
  <2>1. DOMAIN longer = 1 .. m + 1
    OBVIOUS
  <2>2. QED
    BY <1>2, <2>1
<1> HIDE DEF longer
<1>8. History!First(Size, <<logged + 1>> \o Readable(Size)) = Readable(Size)'
  BY <1>3, <1>4, <1>5, <1>6, <1>7 DEF History!First, k
<1>9. History!Record(logged + 1)
  BY <1>1, <1>8 DEF History!Record
<1>10. logged + 1 \in 1 .. MaxLogged
  BY <1>1
<1>11. QED
  BY <1>9, <1>10 DEF History!HistoryNext

LEMMA HistoryRead ==
  ASSUME RingInv, failing = {}, Shown, Shown', NEW n \in 1 .. Size, GetLogs(n)
  PROVE  History!HistoryNext
<1>1. Size \in Nat /\ logged \in Nat /\ n \in Nat
  BY SizeAssumption, MaxLoggedAssumption DEF RingInv, RingType
<1>2. answer' = Newest(History!Shorter(n, logged)) /\ logged' = logged /\ failing' = {}
  BY ReadableIsNewest DEF GetLogs
<1>3. Readable(Size)' = Readable(Size)
  BY <1>2 DEF Shown, Newest, History!Shorter
<1> DEFINE m == History!Shorter(Size, logged)
<1>4. m \in Nat /\ History!Shorter(n, m) = History!Shorter(n, logged)
  BY <1>1 DEF History!Shorter
<1> HIDE DEF m
<1>5. History!First(n, Newest(m)) = Newest(History!Shorter(n, m))
  BY <1>1, <1>4, FirstOfNewest
<1>6. History!Read(n)
  BY <1>2, <1>3, <1>4, <1>5 DEF History!Read, Shown, m
<1>7. QED
  BY <1>6 DEF History!HistoryNext

\* Where no allocation fails, the ring buffer is a log that keeps the last
\* Size messages and hands them out newest first.
THEOREM RingImplementsHistory == Spec => IsHistory
<1>1. ASSUME Init PROVE History!HistoryInit
  <2>1. RingInv /\ logged = 0
    BY <1>1, RingInductive DEF Init
  <2>2. Size \in 1 .. Size /\ History!Shorter(Size, 0) = 0
    BY SizeAssumption DEF History!Shorter
  <2>3. failing = {} => Readable(Size) = Newest(0)
    BY <2>1, <2>2, ReadableIsNewest
  <2>4. Newest(0) = <<>>
    BY DEF Newest
  <2>5. QED
    BY <1>1, <2>3, <2>4 DEF Init, History!HistoryInit
<1>2. RingInv => Shown
  BY SizeAssumption, ReadableIsNewest DEF Shown
<1>3. ASSUME RingInv, Shown, Shown', [Next]_vars
      PROVE  [History!HistoryNext]_(History!historyVars)
  <2>1. failing' = failing
    BY <1>3 DEF Next, AddLog, AddLogFails, GetLogs, GetLogsFails, vars
  <2>2. CASE failing # {}
    BY <2>1, <2>2 DEF History!historyVars
  <2>3. CASE failing = {} /\ AddLog
    BY <1>3, <2>3, HistoryStep
  <2>4. ASSUME failing = {}, NEW n \in 1 .. Size, GetLogs(n) PROVE History!HistoryNext
    BY <1>3, <2>4, HistoryRead
  <2>5. CASE UNCHANGED vars
    BY <2>5 DEF vars, History!historyVars, Readable, Copied, Back
  <2>6. failing = {} => ~AddLogFails /\ \A n : ~GetLogsFails(n)
    BY DEF AddLogFails, GetLogsFails
  <2>7. QED
    BY <1>3, <2>2, <2>3, <2>4, <2>5, <2>6 DEF Next
<1>4. QED
  BY <1>1, <1>2, <1>3, RingInductive, PTL DEF Spec, IsHistory, History!HistorySpec

-----------------------------------------------------------------------------
(***************************************************************************)
(* What holds whatever fails: a message is in one slot only, and a reader  *)
(* gets what is in different slots.                                        *)
(***************************************************************************)
Distinct ==
  \A s, t \in Slot : logs[s] <= logged /\ (logs[s] = logs[t] /\ logs[s] # 0 => s = t)

SlotsInv == TypeOK /\ Distinct

\* The copying stops before the first empty slot, and after n messages.
LEMMA CopiedAreMessages ==
  ASSUME NEW n \in 1 .. Size
  PROVE  /\ Copied(n) \in 0 .. n
         /\ \A i \in 1 .. Copied(n) : i - 1 \in Slot /\ logs[Back(i - 1)] # 0
<1> DEFINE K == {k \in 0 .. n - 1 : \A j \in 0 .. k : logs[Back(j)] # 0}
<1>1. n \in Nat /\ n > 0 /\ Size \in Nat /\ n <= Size
  BY SizeAssumption
<1>2. K \subseteq 0 .. n - 1
  OBVIOUS
<1>3. IsFiniteSet(0 .. n - 1) /\ Cardinality(0 .. n - 1) = n
  BY <1>1, FS_Interval
<1>4. IsFiniteSet(K) /\ Cardinality(K) \in Nat /\ Cardinality(K) <= n
  BY <1>2, <1>3, FS_Subset, FS_CardinalityType
<1>5. ASSUME NEW i \in 1 .. Cardinality(K) PROVE i - 1 \in K
  <2>1. i \in Nat /\ i >= 1 /\ i <= Cardinality(K)
    BY <1>4
  <2>2. SUFFICES ASSUME i - 1 \notin K PROVE FALSE
    OBVIOUS
  <2>3. \A k \in K : k < i - 1
    <3> SUFFICES ASSUME NEW k \in K, k >= i - 1 PROVE FALSE
      BY <1>1, <2>1
    <3>1. i - 1 \in 0 .. n - 1 /\ 0 .. i - 1 \subseteq 0 .. k
      BY <1>1, <2>1
    <3>2. i - 1 \in K
      BY <3>1
    <3>3. QED
      BY <2>2, <3>2
  <2>4. K \subseteq 0 .. i - 2
    BY <1>1, <2>1, <2>3
  <2>5. IsFiniteSet(0 .. i - 2) /\ Cardinality(0 .. i - 2) = i - 1
    <3>1. 0 \in Int /\ i - 2 \in Int
      BY <2>1
    <3>2. /\ IsFiniteSet(0 .. i - 2)
          /\ Cardinality(0 .. i - 2) = IF 0 > i - 2 THEN 0 ELSE i - 2 - 0 + 1
      BY <3>1, FS_Interval
    <3>3. QED
      BY <2>1, <3>2
  <2>6. Cardinality(K) <= i - 1
    BY <2>4, <2>5, FS_Subset
  <2>7. QED
    BY <1>4, <2>1, <2>6
<1>6. Copied(n) = Cardinality(K)
  BY DEF Copied
<1>7. \A k \in K : k \in 0 .. k /\ k \in Slot
  BY <1>1 DEF Slot
<1> HIDE DEF K
<1>8. \A k \in K : k \in Slot /\ logs[Back(k)] # 0
  BY <1>7 DEF K
<1>9. QED
  BY <1>1, <1>4, <1>5, <1>6, <1>8

\* Different numbers of places back are different slots.
LEMMA BackApart ==
  ASSUME rblast \in Slot, NEW j \in Slot, NEW k \in Slot, Back(j) = Back(k)
  PROVE  j = k
BY SizeAssumption DEF Slot, Back

LEMMA ReadableType ==
  ASSUME TypeOK, NEW n \in 1 .. Size
  PROVE  Readable(n) \in Seq(0 .. MaxLogged)
<1>1. Copied(n) \in Nat /\ \A i \in 1 .. Copied(n) : i - 1 \in Slot
  BY CopiedAreMessages
<1>2. \A i \in 1 .. Copied(n) : logs[Back(i - 1)] \in 0 .. MaxLogged
  BY <1>1, BackInRing DEF TypeOK
<1> DEFINE m == Copied(n)
           T == 0 .. MaxLogged
<1>3. Readable(n) \in [1 .. m -> T]
  BY <1>2 DEF Readable
<1>4. m \in Nat
  BY <1>1
<1> HIDE DEF m, T
<1>5. Readable(n) \in Seq(T)
  BY <1>3, <1>4
<1>6. QED
  BY <1>5 DEF T

LEMMA SlotsInductive ==
  /\ Init => SlotsInv
  /\ SlotsInv /\ [Next]_vars => SlotsInv'
<1>1. ASSUME Init PROVE SlotsInv
  <2>1. 0 \in Slot /\ 0 \in 0 .. MaxLogged /\ <<>> \in Seq(0 .. MaxLogged)
    BY SizeAssumption, MaxLoggedAssumption DEF Slot
  <2>2. TypeOK
    BY <1>1, <2>1 DEF Init, TypeOK
  <2>3. Distinct
    BY <1>1 DEF Init, Distinct
  <2>4. QED
    BY <2>2, <2>3 DEF SlotsInv
<1>2. ASSUME SlotsInv, AddLog PROVE SlotsInv'
  <2>1. /\ rblast \in Slot /\ logged \in Nat /\ logged < MaxLogged
        /\ logs \in [Slot -> 0 .. MaxLogged]
    BY <1>2, MaxLoggedAssumption DEF SlotsInv, TypeOK, AddLog
  <2>2. /\ rblast' \in Slot /\ logs' = [logs EXCEPT ![rblast'] = logged + 1]
        /\ logged' = logged + 1 /\ UNCHANGED <<answer, locked, failing>>
    BY <1>2, <2>1, StepInRing DEF AddLog
  <2>3. TypeOK'
    BY <1>2, <2>1, <2>2, MaxLoggedAssumption DEF SlotsInv, TypeOK
  <2>4. ASSUME NEW s \in Slot, NEW t \in Slot
        PROVE  logs'[s] <= logged' /\ (logs'[s] = logs'[t] /\ logs'[s] # 0 => s = t)
    <3>1. /\ logs[s] \in Nat /\ logs[t] \in Nat /\ logs[s] <= logged /\ logs[t] <= logged
          /\ logs[s] = logs[t] /\ logs[s] # 0 => s = t
      BY <1>2, <2>1, MaxLoggedAssumption DEF SlotsInv, Distinct
    <3>2. /\ logs'[s] = IF s = rblast' THEN logged + 1 ELSE logs[s]
          /\ logs'[t] = IF t = rblast' THEN logged + 1 ELSE logs[t]
      BY <2>1, <2>2
    <3>3. QED
      BY <2>1, <2>2, <3>1, <3>2
  <2>5. QED
    BY <2>3, <2>4 DEF SlotsInv, Distinct
<1>3. ASSUME SlotsInv, AddLogFails PROVE SlotsInv'
  BY <1>3, StepInRing DEF SlotsInv, TypeOK, Distinct, AddLogFails
<1>4. ASSUME SlotsInv, NEW n \in 1 .. Size, GetLogs(n) PROVE SlotsInv'
  <2>1. answer' \in Seq(0 .. MaxLogged)
    BY <1>4, ReadableType DEF SlotsInv, GetLogs
  <2>2. QED
    BY <1>4, <2>1 DEF SlotsInv, TypeOK, Distinct, GetLogs
<1>5. ASSUME SlotsInv, NEW n \in 1 .. Size, GetLogsFails(n) PROVE SlotsInv'
  BY <1>5 DEF SlotsInv, TypeOK, Distinct, GetLogsFails
<1>6. ASSUME SlotsInv, UNCHANGED vars PROVE SlotsInv'
  BY <1>6 DEF SlotsInv, TypeOK, Distinct, vars
<1>7. QED
  BY <1>1, <1>2, <1>3, <1>4, <1>5, <1>6 DEF Next

LEMMA SlotsApart == ASSUME SlotsInv PROVE NoRepeats
<1> SUFFICES ASSUME NEW i \in 1 .. Copied(Size), NEW j \in 1 .. Copied(Size),
                    Readable(Size)[i] = Readable(Size)[j]
             PROVE  i = j
  BY DEF NoRepeats
<1>1. Size \in 1 .. Size
  BY SizeAssumption
<1>2. /\ Copied(Size) \in Nat
      /\ i - 1 \in Slot /\ logs[Back(i - 1)] # 0 /\ j - 1 \in Slot
  BY <1>1, CopiedAreMessages
<1>3. rblast \in Slot
  BY DEF SlotsInv, TypeOK
<1>4. Back(i - 1) \in Slot /\ Back(j - 1) \in Slot
  BY <1>2, <1>3, BackInRing
<1>5. Back(i - 1) = Back(j - 1)
  BY <1>2, <1>4 DEF Readable, SlotsInv, Distinct
<1>6. i - 1 = j - 1
  BY <1>2, <1>3, <1>5, BackApart
<1>7. QED
  BY <1>2, <1>6

\* Whatever allocations fail, what readers and writers leave is a ring of messages.
THEOREM RingTyped == Spec => []TypeOK
<1>1. SlotsInv => TypeOK
  BY DEF SlotsInv
<1>2. QED
  BY <1>1, SlotsInductive, PTL DEF Spec

\* Whatever allocations fail, no reader is given a message twice.
THEOREM NeverRepeats == Spec => []NoRepeats
<1>1. SlotsInv => NoRepeats
  BY SlotsApart
<1>2. QED
  BY <1>1, SlotsInductive, PTL DEF Spec
=============================================================================
