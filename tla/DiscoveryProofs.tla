-------------------------- MODULE DiscoveryProofs --------------------------
(***************************************************************************)
(* Proofs about device discovery, for any threads, names and topology.     *)
(***************************************************************************)
EXTENDS Discovery, SequenceTheorems, TLAPS

-----------------------------------------------------------------------------
(***************************************************************************)
(* How the stack operators change a stack.                                 *)
(***************************************************************************)

LEMMA TopInStack ==
  ASSUME TypeOK, NEW t \in Thread, stack[t] # <<>>
  PROVE  /\ Len(stack[t]) \in Nat \ {0}
         /\ Len(stack[t]) \in 1 .. Len(stack[t])
         /\ Top(t) \in Call
<1>1. stack[t] \in Seq(Call)
  BY DEF TypeOK
<1>2. Len(stack[t]) \in Nat \ {0}
  BY <1>1, EmptySeq
<1>3. QED
  BY <1>1, <1>2, ElementOfSeq DEF Top

LEMMA SetTopFacts ==
  ASSUME TypeOK, NEW t \in Thread, stack[t] # <<>>, NEW c \in Call, SetTop(t, c)
  PROVE  /\ stack' \in [Thread -> Seq(Call)]
         /\ \A s \in Thread : s # t => stack'[s] = stack[s]
         /\ stack'[t] # <<>>
         /\ Len(stack'[t]) = Len(stack[t])
         /\ \A i \in 1 .. Len(stack[t]) :
              stack'[t][i] = IF i = Len(stack[t]) THEN c ELSE stack[t][i]
<1> DEFINE n == Len(stack[t])
           new == [stack[t] EXCEPT ![n] = c]
<1>1. stack \in [Thread -> Seq(Call)] /\ stack[t] \in Seq(Call)
  BY DEF TypeOK
<1>2. n \in Nat \ {0} /\ n \in 1 .. n
  BY TopInStack
<1>3. /\ new \in Seq(Call)
      /\ Len(new) = n
      /\ \A i \in 1 .. n : new[i] = IF i = n THEN c ELSE stack[t][i]
  BY <1>1, <1>2, ExceptSeq
<1>4. stack' = [stack EXCEPT ![t] = new]
  BY DEF SetTop
<1>5. new # <<>>
  BY <1>2, <1>3, EmptySeq
<1> HIDE DEF new, n
<1>6. stack'[t] = new /\ \A s \in Thread : s # t => stack'[s] = stack[s]
  BY <1>1, <1>4
<1>7. stack' \in [Thread -> Seq(Call)]
  BY <1>1, <1>3, <1>4
<1>8. QED
  BY <1>3, <1>5, <1>6, <1>7 DEF n

LEMMA PushFacts ==
  ASSUME TypeOK, NEW t \in Thread, NEW c \in Call, Push(t, c)
  PROVE  /\ stack' \in [Thread -> Seq(Call)]
         /\ \A s \in Thread : s # t => stack'[s] = stack[s]
         /\ stack'[t] # <<>>
         /\ Len(stack[t]) \in Nat
         /\ Len(stack'[t]) = Len(stack[t]) + 1
         /\ \A i \in 1 .. Len(stack[t]) : stack'[t][i] = stack[t][i]
         /\ stack'[t][Len(stack[t]) + 1] = c
<1> DEFINE new == Append(stack[t], c)
<1>1. stack \in [Thread -> Seq(Call)] /\ stack[t] \in Seq(Call)
  BY DEF TypeOK
<1>2. /\ new \in Seq(Call)
      /\ new # <<>>
      /\ Len(new) = Len(stack[t]) + 1
      /\ \A i \in 1 .. Len(stack[t]) : new[i] = stack[t][i]
      /\ new[Len(stack[t]) + 1] = c
  BY <1>1, AppendProperties
<1>3. stack' = [stack EXCEPT ![t] = new]
  BY DEF Push
<1>4. Len(stack[t]) \in Nat
  BY <1>1, LenProperties
<1> HIDE DEF new
<1>5. QED
  BY <1>1, <1>2, <1>3, <1>4

LEMMA PopFacts ==
  ASSUME TypeOK, StackShape, NEW t \in Thread, stack[t] # <<>>,
         NEW ok \in BOOLEAN, Pop(t, ok)
  PROVE  /\ stack' \in [Thread -> Seq(Call)]
         /\ \A s \in Thread : s # t => stack'[s] = stack[s]
         /\ Len(stack[t]) \in Nat \ {0}
         /\ Len(stack[t]) = 1 => stack'[t] = <<>>
         /\ Len(stack[t]) > 1 =>
              /\ stack'[t] # <<>>
              /\ Caller(t) \in Call /\ Resume(Caller(t), ok) \in Call
              /\ Caller(t) = stack[t][Len(stack[t]) - 1]
              /\ Len(stack'[t]) = Len(stack[t]) - 1
              /\ \A i \in 1 .. Len(stack[t]) - 1 :
                   stack'[t][i] = IF i = Len(stack[t]) - 1
                                  THEN Resume(Caller(t), ok) ELSE stack[t][i]
<1> DEFINE n == Len(stack[t])
           front == SubSeq(stack[t], 1, n - 1)
           r == Resume(Caller(t), ok)
           new == [front EXCEPT ![n - 1] = r]
<1>1. stack \in [Thread -> Seq(Call)] /\ stack[t] \in Seq(Call)
  BY DEF TypeOK
<1>2. n \in Nat \ {0}
  BY TopInStack
<1>3. CASE n = 1
  <2>1. stack' = [stack EXCEPT ![t] = <<>>]
    BY <1>3 DEF Pop
  <2>2. <<>> \in Seq(Call)
    BY EmptySeq
  <2>3. QED
    BY <1>1, <1>3, <2>1, <2>2
<1>4. CASE n > 1
  <2>1. n - 1 \in 1 .. n /\ n - 1 \in Int /\ 1 \in Int
    BY <1>2, <1>4
  <2>2. Caller(t) \in Call
    BY <1>1, <2>1, ElementOfSeq DEF Caller
  <2>3. Caller(t).todo # <<>> /\ Caller(t).todo \in Seq(Name)
    BY <1>2, <1>4, <2>1, <2>2 DEF StackShape, Caller, Frames, Call
  <2>4. Tail(Caller(t).todo) \in Seq(Name)
    BY <2>3, HeadTailProperties
  <2>5. r \in Call
    BY <2>2, <2>4 DEF Resume, Call, Steps
  <2>6. \A i \in 1 .. n - 1 : stack[t][i] \in Call
    BY <1>1, <1>2, ElementOfSeq
  <2>7. /\ front \in Seq(Call)
        /\ Len(front) = n - 1
        /\ \A i \in 1 .. n - 1 : front[i] = stack[t][i]
    <3>1. /\ front \in Seq(Call)
          /\ Len(front) = IF 1 <= n - 1 THEN (n - 1) - 1 + 1 ELSE 0
          /\ \A i \in 1 .. (n - 1) - 1 + 1 : front[i] = stack[t][1 + i - 1]
      <4> HIDE DEF n
      <4>1. QED BY <2>1, <2>6, SubSeqProperties
    <3>2. QED BY <3>1, <1>2, <1>4
  <2>8. /\ new \in Seq(Call)
        /\ Len(new) = n - 1
        /\ \A i \in 1 .. n - 1 : new[i] = IF i = n - 1 THEN r ELSE stack[t][i]
    <3> HIDE DEF front, r
    <3>1. n - 1 \in 1 .. Len(front)
      BY <1>2, <1>4, <2>7
    <3>2. QED BY <2>5, <2>7, <3>1, ExceptSeq
  <2>9. stack' = [stack EXCEPT ![t] = new]
    <3>1. n # 1
      <4> HIDE DEF n
      <4>1. QED BY <1>2, <1>4
    <3>2. stack' = [stack EXCEPT ![t] = Resumed(t, ok)]
      BY <3>1 DEF Pop
    <3>3. QED
      BY <3>2, Zenon DEF Resumed
  <2>10. new # <<>>
    BY <1>2, <1>4, <2>8, EmptySeq
  <2> HIDE DEF new
  <2>11. stack'[t] = new /\ \A s \in Thread : s # t => stack'[s] = stack[s]
    BY <1>1, <2>9
  <2>12. stack' \in [Thread -> Seq(Call)]
    BY <1>1, <2>8, <2>9
  <2>13. QED
    <3>1. Caller(t) = stack[t][n - 1]
      BY DEF Caller
    <3> HIDE DEF n, r
    <3>2. n # 1
      BY <1>4
    <3>3. QED
      BY <1>2, <3>1, <3>2, <2>2, <2>5, <2>8, <2>10, <2>11, <2>12 DEF n, r
<1>5. n = 1 \/ n > 1
  <2> HIDE DEF n
  <2>1. QED BY <1>2
<1>6. QED
  BY <1>3, <1>4, <1>5, Zenon

-----------------------------------------------------------------------------
(***************************************************************************)
(* The shape of the stacks.  Fits is what the shape asks of a call by      *)
(* itself, wherever it stands.                                             *)
(***************************************************************************)
Fits(c) ==
  /\ c.kind = "create" => c.pc # "mounts"
  /\ c.kind = "refresh" => c.pc \in {"bus", "explore", "publish", "fail", "mounts"}
  /\ c.kind = "mounts" => c.pc = "mounts"

LEMMA TopFits ==
  ASSUME TypeOK, StackShape, NEW t \in Thread, stack[t] # <<>>
  PROVE  Fits(Top(t)) /\ (Len(stack[t]) > 1 => Top(t).kind = "create")
<1>1. Len(stack[t]) \in Frames(t)
  BY TopInStack DEF Frames
<1>2. QED
  BY <1>1 DEF StackShape, Fits, Top

\* Changing the last call, its kind apart, keeps the shape.
LEMMA ShapeSetTop ==
  ASSUME TypeOK, StackShape, NEW t \in Thread, stack[t] # <<>>,
         NEW c \in Call, SetTop(t, c), c.kind = Top(t).kind, Fits(c)
  PROVE  StackShape'
<1> DEFINE n == Len(stack[t])
<1>1. n \in Nat \ {0}
  BY TopInStack
<1>2. /\ \A s \in Thread : s # t => stack'[s] = stack[s]
      /\ Len(stack'[t]) = n
      /\ \A i \in 1 .. n : stack'[t][i] = IF i = n THEN c ELSE stack[t][i]
  BY SetTopFacts
<1>3. \A i \in 1 .. n :
        /\ i < n => stack[t][i].pc \in {"explore", "mounts"} /\ stack[t][i].todo # <<>>
        /\ i > 1 => stack[t][i].kind = "create"
        /\ Fits(stack[t][i])
  BY DEF StackShape, Frames, Fits
<1>4. c.kind = stack[t][n].kind
  BY DEF Top
<1> HIDE DEF n
<1>5. \A i \in 1 .. n :
        /\ i < n => stack'[t][i].pc \in {"explore", "mounts"} /\ stack'[t][i].todo # <<>>
        /\ i > 1 => stack'[t][i].kind = "create"
        /\ Fits(stack'[t][i])
  BY <1>1, <1>2, <1>3, <1>4
<1>6. QED
  BY <1>2, <1>5 DEF StackShape, Frames, Fits

\* A call may be stacked on an exploration or a parse with something to look up.
LEMMA ShapePush ==
  ASSUME TypeOK, StackShape, NEW t \in Thread, NEW c \in Call, Push(t, c), Fits(c),
         stack[t] # <<>> =>
           /\ c.kind = "create"
           /\ Top(t).pc \in {"explore", "mounts"} /\ Top(t).todo # <<>>
  PROVE  StackShape'
<1> DEFINE n == Len(stack[t])
<1>1. /\ n \in Nat
      /\ \A s \in Thread : s # t => stack'[s] = stack[s]
      /\ Len(stack'[t]) = n + 1
      /\ \A i \in 1 .. n : stack'[t][i] = stack[t][i]
      /\ stack'[t][n + 1] = c
  BY PushFacts
<1>2. \A i \in 1 .. n :
        /\ i < n => stack[t][i].pc \in {"explore", "mounts"} /\ stack[t][i].todo # <<>>
        /\ i > 1 => stack[t][i].kind = "create"
        /\ Fits(stack[t][i])
  BY DEF StackShape, Frames, Fits
<1>3. n > 0 => /\ c.kind = "create"
               /\ stack[t][n].pc \in {"explore", "mounts"} /\ stack[t][n].todo # <<>>
  BY EmptySeq DEF Top
<1> HIDE DEF n
<1>4. \A i \in 1 .. n + 1 :
        /\ i < n + 1 => stack'[t][i].pc \in {"explore", "mounts"} /\ stack'[t][i].todo # <<>>
        /\ i > 1 => stack'[t][i].kind = "create"
        /\ Fits(stack'[t][i])
  <2> SUFFICES ASSUME NEW i \in 1 .. n + 1
               PROVE /\ i < n + 1 => stack'[t][i].pc \in {"explore", "mounts"}
                                      /\ stack'[t][i].todo # <<>>
                     /\ i > 1 => stack'[t][i].kind = "create"
                     /\ Fits(stack'[t][i])
    OBVIOUS
  <2>1. CASE i = n + 1
    BY <2>1, <1>1, <1>3
  <2>2. CASE i \in 1 .. n
    BY <2>2, <1>1, <1>2, <1>3
  <2>3. QED
    BY <1>1, <2>1, <2>2
<1>5. QED
  BY <1>1, <1>4 DEF StackShape, Frames, Fits

\* Returning keeps it too: the caller left on top went on, or failed.
LEMMA ShapePop ==
  ASSUME TypeOK, StackShape, NEW t \in Thread, stack[t] # <<>>,
         NEW ok \in BOOLEAN, Pop(t, ok)
  PROVE  StackShape'
<1> DEFINE n == Len(stack[t])
           r == Resume(Caller(t), ok)
<1>1. /\ \A s \in Thread : s # t => stack'[s] = stack[s]
      /\ n \in Nat \ {0}
      /\ n = 1 => stack'[t] = <<>>
      /\ n > 1 => /\ Len(stack'[t]) = n - 1
                  /\ Caller(t) \in Call
                  /\ Caller(t) = stack[t][n - 1]
                  /\ \A i \in 1 .. n - 1 :
                       stack'[t][i] = IF i = n - 1 THEN r ELSE stack[t][i]
  BY PopFacts
<1>2. \A i \in 1 .. n :
        /\ i < n => stack[t][i].pc \in {"explore", "mounts"} /\ stack[t][i].todo # <<>>
        /\ i > 1 => stack[t][i].kind = "create"
        /\ Fits(stack[t][i])
  BY DEF StackShape, Frames, Fits
<1>3. Caller(t) \in Call /\ Fits(Caller(t)) => Fits(r) /\ r.kind = Caller(t).kind
  BY DEF Fits, Resume, Call, Kinds, Steps
<1> HIDE DEF n, r
<1>4. CASE n = 1
  BY <1>1, <1>4, EmptySeq DEF StackShape, Frames
<1>5. CASE n > 1
  <2>1. Fits(r) /\ (n - 1 > 1 => r.kind = "create")
    BY <1>1, <1>2, <1>3, <1>5
  <2>2. \A i \in 1 .. n - 1 :
          /\ i < n - 1 => stack'[t][i].pc \in {"explore", "mounts"} /\ stack'[t][i].todo # <<>>
          /\ i > 1 => stack'[t][i].kind = "create"
          /\ Fits(stack'[t][i])
    BY <1>1, <1>2, <1>5, <2>1
  <2>3. QED
    BY <1>1, <1>5, <2>2 DEF StackShape, Frames, Fits
<1>6. n = 1 \/ n > 1
  BY <1>1
<1>7. QED
  BY <1>4, <1>5, <1>6

-----------------------------------------------------------------------------
(***************************************************************************)
(* What the stack operators do to the program counter of a thread and to   *)
(* its being in the middle of a refresh.                                   *)
(***************************************************************************)
LEMMA AtSetTop ==
  ASSUME TypeOK, NEW t \in Thread, stack[t] # <<>>, NEW c \in Call, SetTop(t, c)
  PROVE  /\ \A x : At(t, x)' <=> c.pc = x
         /\ Refreshing(t)' <=> IF Len(stack[t]) = 1
                                THEN c.kind = "refresh" /\ c.pc # "mounts"
                                ELSE Refreshing(t)
<1> DEFINE n == Len(stack[t])
<1>1. n \in Nat \ {0}
  BY TopInStack
<1>2. /\ stack'[t] # <<>>
      /\ Len(stack'[t]) = n
      /\ \A i \in 1 .. n : stack'[t][i] = IF i = n THEN c ELSE stack[t][i]
  BY SetTopFacts
<1>3. stack[t] # <<>>
  OBVIOUS
<1> HIDE DEF n
<1>4. stack'[t][n] = c /\ stack'[t][1] = IF n = 1 THEN c ELSE stack[t][1]
  BY <1>1, <1>2
<1>5. \A x : At(t, x)' <=> c.pc = x
  BY <1>2, <1>4 DEF At, Top
<1>6. Refreshing(t)' <=> IF n = 1 THEN c.kind = "refresh" /\ c.pc # "mounts"
                                  ELSE Refreshing(t)
  BY <1>2, <1>3, <1>4 DEF Refreshing
<1>7. QED
  BY <1>5, <1>6 DEF n

LEMMA AtPush ==
  ASSUME TypeOK, NEW t \in Thread, NEW c \in Call, Push(t, c)
  PROVE  /\ \A x : At(t, x)' <=> c.pc = x
         /\ Refreshing(t)' <=> IF stack[t] = <<>>
                                THEN c.kind = "refresh" /\ c.pc # "mounts"
                                ELSE Refreshing(t)
<1> DEFINE n == Len(stack[t])
<1>1. stack[t] = <<>> <=> n = 0
  BY EmptySeq DEF TypeOK
<1>2. /\ n \in Nat
      /\ stack'[t] # <<>>
      /\ Len(stack'[t]) = n + 1
      /\ \A i \in 1 .. n : stack'[t][i] = stack[t][i]
      /\ stack'[t][n + 1] = c
  BY PushFacts
<1> HIDE DEF n
<1>3. stack'[t][1] = IF n = 0 THEN c ELSE stack[t][1]
  BY <1>2
<1>4. \A x : At(t, x)' <=> c.pc = x
  BY <1>2 DEF At, Top
<1>5. Refreshing(t)' <=> IF n = 0 THEN c.kind = "refresh" /\ c.pc # "mounts"
                                  ELSE Refreshing(t)
  BY <1>1, <1>2, <1>3 DEF Refreshing
<1>6. QED
  BY <1>1, <1>4, <1>5

LEMMA AtPop ==
  ASSUME TypeOK, StackShape, NEW t \in Thread, stack[t] # <<>>,
         NEW ok \in BOOLEAN, Pop(t, ok)
  PROVE  /\ Len(stack[t]) = 1 => stack'[t] = <<>> /\ ~Refreshing(t)'
         /\ Len(stack[t]) # 1 =>
              /\ Len(stack[t]) > 1
              /\ Caller(t).pc \in {"explore", "mounts"}
              /\ \A x : At(t, x)' <=> Resume(Caller(t), ok).pc = x
              /\ Resume(Caller(t), ok).pc = Caller(t).pc \/
                   (Caller(t).pc = "explore" /\ Resume(Caller(t), ok).pc = "fail")
              /\ Refreshing(t)' <=> Refreshing(t)
<1> DEFINE n == Len(stack[t])
           r == Resume(Caller(t), ok)
<1>1. /\ n \in Nat \ {0}
      /\ n = 1 => stack'[t] = <<>>
      /\ n > 1 => /\ stack'[t] # <<>>
                  /\ Len(stack'[t]) = n - 1
                  /\ Caller(t) \in Call
                  /\ Caller(t) = stack[t][n - 1]
                  /\ \A i \in 1 .. n - 1 :
                       stack'[t][i] = IF i = n - 1 THEN r ELSE stack[t][i]
  BY PopFacts
<1>2. n > 1 => stack[t][n - 1].pc \in {"explore", "mounts"}
  <2>1. \A i \in 1 .. n : i < n => stack[t][i].pc \in {"explore", "mounts"}
    BY DEF StackShape, Frames
  <2> HIDE DEF n
  <2>2. QED BY <1>1, <2>1
<1>3. Caller(t) \in Call =>
        /\ r.kind = Caller(t).kind
        /\ r.pc = Caller(t).pc \/ (Caller(t).pc = "explore" /\ r.pc = "fail")
  BY DEF Resume, Call, Kinds, Steps
<1>4. stack[t] # <<>>
  OBVIOUS
<1> HIDE DEF n, r
<1>5. CASE n = 1
  BY <1>1, <1>5 DEF Refreshing, n
<1>6. CASE n > 1
  <2>1. stack'[t][n - 1] = r /\ stack'[t][1] = IF n = 2 THEN r ELSE stack[t][1]
    BY <1>1, <1>6
  <2>2. \A x : At(t, x)' <=> r.pc = x
    BY <1>1, <1>6, <2>1 DEF At, Top
  <2>3. n = 2 => Caller(t) = stack[t][1]
    BY <1>1
  <2>4. Refreshing(t)' <=> Refreshing(t)
    <3>1. CASE n = 2
      BY <3>1, <1>1, <1>2, <1>3, <1>4, <1>6, <2>1, <2>3 DEF Refreshing
    <3>2. CASE n # 2
      BY <3>2, <1>1, <1>4, <1>6, <2>1 DEF Refreshing
    <3>3. QED BY <3>1, <3>2
  <2>5. QED
    BY <1>1, <1>2, <1>3, <1>6, <2>2, <2>4 DEF n, r
<1>7. n = 1 \/ n > 1
  BY <1>1
<1>8. QED
  BY <1>5, <1>6, <1>7

-----------------------------------------------------------------------------
(***************************************************************************)
(* The lock, one thread at a time.                                         *)
(***************************************************************************)
Held(s) == (At(s, "check") \/ At(s, "mounts")) => owner = s /\ count > 0

Kept(s) ==
  Refreshing(s) =>
    /\ owner = s
    /\ count > (IF At(s, "check") THEN 1 ELSE 0)
    /\ ~At(s, "relock")

\* A step of t leaves the others their claims on the lock: either the lock does
\* not change, or t could take it, and then nobody else had a claim.
LEMMA LockStep ==
  ASSUME LockInv, NEW t \in Thread,
         stack' \in [Thread -> Seq(Call)],
         \A s \in Thread : s # t => stack'[s] = stack[s],
         StackShape',
         UNCHANGED <<owner, count>> \/ owner \in {NoThread, t},
         owner' \in Thread \cup {NoThread}, count' \in Nat,
         owner' = NoThread <=> count' = 0,
         active' \subseteq Thread \X Nat \X Name,
         table' \in [Name -> Nat],
         Held(t)', Kept(t)'
  PROVE  LockInv'
<1>1. ASSUME NEW s \in Thread, s # t
      PROVE  Held(s)' /\ Kept(s)'
  <2>1. stack'[s] = stack[s]
    BY <1>1
  <2>2. (\A x : At(s, x)' <=> At(s, x)) /\ (Refreshing(s)' <=> Refreshing(s))
    BY <2>1 DEF At, Top, Refreshing
  <2>3. Held(s) /\ Kept(s)
    BY DEF LockInv, LookupLocked, RefreshHoldsLock, Held, Kept
  <2>4. CASE UNCHANGED <<owner, count>>
    BY <2>2, <2>3, <2>4 DEF Held, Kept
  <2>5. CASE owner \in {NoThread, t}
    <3>1. owner # s
      BY <1>1, <2>5, ThreadAssumption
    <3>2. QED
      BY <2>2, <2>3, <3>1 DEF Held, Kept
  <2>6. QED
    BY <2>4, <2>5
<1>2. \A s \in Thread : Held(s)' /\ Kept(s)'
  BY <1>1
<1>3. TypeOK'
  BY DEF TypeOK
<1>4. LookupLocked' /\ RefreshHoldsLock'
  BY <1>2 DEF LookupLocked, RefreshHoldsLock, Held, Kept
<1>5. QED
  BY <1>3, <1>4 DEF LockInv

\* Taking the lock, and giving up some of it.
LEMMA LockFacts ==
  ASSUME LockInv, NEW t \in Thread, NEW k \in Nat \ {0}, Lock(t, k)
  PROVE  /\ owner \in {NoThread, t}
         /\ owner' = t /\ count' = count + k /\ count' \in Nat \ {0}
         /\ owner' \in Thread \cup {NoThread}
         /\ owner' = NoThread <=> count' = 0
BY ThreadAssumption DEF Lock, CanLock, LockInv, TypeOK

LEMMA UnlockFacts ==
  ASSUME LockInv, NEW t \in Thread, owner = t, NEW k \in Nat, k <= count, Unlock(t, k)
  PROVE  /\ count' = count - k /\ count' \in Nat
         /\ owner' \in Thread \cup {NoThread}
         /\ count' > 0 => owner' = t
         /\ owner' = NoThread <=> count' = 0
BY ThreadAssumption DEF Unlock, LockInv, TypeOK

LEMMA CallTypes ==
  ASSUME NEW k \in Kinds, NEW n \in Name, NEW p \in BOOLEAN, NEW at \in Steps,
         NEW rest \in Seq(Name)
  PROVE  CallOf(k, n, p, at, rest) \in Call
BY DEF CallOf, Call

-----------------------------------------------------------------------------
(***************************************************************************)
(* Each action keeps the lock invariant: starting an operation.            *)
(***************************************************************************)
LEMMA StartLookupLock ==
  ASSUME LockInv, NEW t \in Thread, NEW n \in Name, NEW p \in BOOLEAN,
         StartLookup(t, n, p)
  PROVE  LockInv'
<1> DEFINE c == CallOf("create", n, p, "check", <<>>)
<1>1. c \in Call
  BY CallTypes, EmptySeq DEF Kinds, Steps
<1>2. Push(t, c) /\ stack[t] = <<>> /\ Lock(t, 1) /\ UNCHANGED <<active, table>>
  BY DEF StartLookup
<1>3. c.kind = "create" /\ c.pc = "check" /\ Fits(c)
  BY DEF CallOf, Fits
<1>4. TypeOK /\ StackShape
  BY DEF LockInv
<1> HIDE DEF c
<1>5. StackShape'
  BY <1>1, <1>2, <1>3, <1>4, ShapePush
<1>6. (\A x : At(t, x)' <=> x = "check") /\ ~Refreshing(t)'
  BY <1>1, <1>2, <1>3, <1>4, AtPush
<1>7. /\ owner \in {NoThread, t} /\ owner' = t /\ count' \in Nat \ {0}
      /\ owner' \in Thread \cup {NoThread} /\ (owner' = NoThread <=> count' = 0)
  BY <1>2, LockFacts
<1>8. Held(t)' /\ Kept(t)'
  BY <1>6, <1>7 DEF Held, Kept
<1>9. QED
  BY <1>1, <1>2, <1>4, <1>5, <1>7, <1>8, PushFacts, LockStep DEF TypeOK

LEMMA StartMountsLock ==
  ASSUME LockInv, NEW t \in Thread, NEW n \in Name, StartMounts(t, n)
  PROVE  LockInv'
<1> DEFINE c == CallOf("mounts", n, TRUE, "mounts", Mounts)
<1>1. c \in Call
  BY CallTypes, NameAssumption DEF Kinds, Steps
<1>2. Push(t, c) /\ stack[t] = <<>> /\ Lock(t, 1) /\ UNCHANGED <<active, table>>
  BY DEF StartMounts
<1>3. c.kind = "mounts" /\ c.pc = "mounts" /\ Fits(c)
  BY DEF CallOf, Fits
<1>4. TypeOK /\ StackShape
  BY DEF LockInv
<1> HIDE DEF c
<1>5. StackShape'
  BY <1>1, <1>2, <1>3, <1>4, ShapePush
<1>6. (\A x : At(t, x)' <=> x = "mounts") /\ ~Refreshing(t)'
  BY <1>1, <1>2, <1>3, <1>4, AtPush
<1>7. /\ owner \in {NoThread, t} /\ owner' = t /\ count' \in Nat \ {0}
      /\ owner' \in Thread \cup {NoThread} /\ (owner' = NoThread <=> count' = 0)
  BY <1>2, LockFacts
<1>8. Held(t)' /\ Kept(t)'
  BY <1>6, <1>7 DEF Held, Kept
<1>9. QED
  BY <1>1, <1>2, <1>4, <1>5, <1>7, <1>8, PushFacts, LockStep DEF TypeOK

LEMMA RescanKnownLock ==
  ASSUME LockInv, NEW t \in Thread, NEW n \in Name, NEW k \in {1, 2},
         RescanKnown(t, n, k)
  PROVE  LockInv'
<1>1. PICK d \in Match(n) :
        /\ table' = [table EXCEPT ![d] = @ - 1]
        /\ Push(t, CallOf("refresh", d, FALSE, "bus", Slaves[d]))
  BY DEF RescanKnown
<1> DEFINE c == CallOf("refresh", d, FALSE, "bus", Slaves[d])
<1>2. d \in Name /\ table[d] > 0
  BY NameAssumption DEF Match
<1>3. c \in Call
  BY <1>2, CallTypes, NameAssumption DEF Kinds, Steps
<1>4. Push(t, c) /\ stack[t] = <<>> /\ Lock(t, k) /\ UNCHANGED active
  BY <1>1 DEF RescanKnown
<1>5. c.kind = "refresh" /\ c.pc = "bus" /\ Fits(c)
  BY DEF CallOf, Fits
<1>6. TypeOK /\ StackShape
  BY DEF LockInv
<1> HIDE DEF c
<1>7. StackShape'
  BY <1>3, <1>4, <1>5, <1>6, ShapePush
<1>8. \A x : At(t, x)' <=> x = "bus"
  BY <1>3, <1>4, <1>5, <1>6, AtPush
<1>9. /\ owner \in {NoThread, t} /\ owner' = t /\ count' \in Nat \ {0}
      /\ owner' \in Thread \cup {NoThread} /\ (owner' = NoThread <=> count' = 0)
  BY <1>4, LockFacts
<1>10. Held(t)' /\ Kept(t)'
  BY <1>8, <1>9 DEF Held, Kept
<1>11. table' \in [Name -> Nat]
  BY <1>1, <1>2, <1>6 DEF TypeOK
<1>12. QED
  BY <1>3, <1>4, <1>6, <1>7, <1>9, <1>10, <1>11, PushFacts, LockStep DEF TypeOK

LEMMA RescanUnknownLock ==
  ASSUME LockInv, NEW t \in Thread, NEW n \in Name, NEW k \in {1, 2},
         RescanUnknown(t, n, k)
  PROVE  LockInv'
<1> DEFINE c == CallOf("create", n, FALSE, "bus", Slaves[n])
<1>1. c \in Call
  BY CallTypes, NameAssumption DEF Kinds, Steps
<1>2. /\ Push(t, c) /\ stack[t] = <<>> /\ owner \in {NoThread, t}
      /\ active' = active \cup {<<t, 1, n>>} /\ table' = table
      /\ owner' = IF k = 1 THEN NoThread ELSE t
      /\ count' = k - 1
  BY DEF RescanUnknown, CanLock
<1>3. c.kind = "create" /\ c.pc = "bus" /\ Fits(c)
  BY DEF CallOf, Fits
<1>4. TypeOK /\ StackShape
  BY DEF LockInv
<1> HIDE DEF c
<1>5. StackShape'
  BY <1>1, <1>2, <1>3, <1>4, ShapePush
<1>6. (\A x : At(t, x)' <=> x = "bus") /\ ~Refreshing(t)'
  BY <1>1, <1>2, <1>3, <1>4, AtPush
<1>7. /\ owner' \in Thread \cup {NoThread} /\ count' \in Nat
      /\ (owner' = NoThread <=> count' = 0)
  BY <1>2, ThreadAssumption
<1>8. Held(t)' /\ Kept(t)'
  BY <1>6 DEF Held, Kept
<1>9. active' \subseteq Thread \X Nat \X Name /\ table' \in [Name -> Nat]
  BY <1>2, <1>4 DEF TypeOK
<1>10. QED
  BY <1>1, <1>2, <1>4, <1>5, <1>7, <1>8, <1>9, PushFacts, LockStep

-----------------------------------------------------------------------------
(***************************************************************************)
(* Each action keeps the lock invariant: the calls in progress.            *)
(***************************************************************************)

\* What LockInv says of a thread inside a call.
LEMMA InCall ==
  ASSUME LockInv, NEW t \in Thread, NEW at, At(t, at)
  PROVE  /\ TypeOK /\ StackShape
         /\ stack[t] # <<>> /\ Top(t) \in Call /\ Top(t).pc = at
         /\ Fits(Top(t))
         /\ Len(stack[t]) \in Nat \ {0}
         /\ Len(stack[t]) > 1 => Top(t).kind = "create"
         /\ at \in {"check", "mounts"} => owner = t /\ count \in Nat \ {0}
         /\ Refreshing(t) => owner = t /\ count > (IF at = "check" THEN 1 ELSE 0)
BY TopInStack, TopFits
   DEF LockInv, LookupLocked, RefreshHoldsLock, At, TypeOK

\* A refresh that is the last call of its thread is the outermost.
LEMMA RefreshingTop ==
  ASSUME LockInv, NEW t \in Thread, NEW at, At(t, at)
  PROVE  /\ Top(t).kind = "refresh" => Len(stack[t]) = 1
         /\ Len(stack[t]) = 1 =>
              (Refreshing(t) <=> Top(t).kind = "refresh" /\ at # "mounts")
<1>1. Len(stack[t]) \in Nat \ {0}
      /\ (Len(stack[t]) > 1 => Top(t).kind = "create")
      /\ stack[t] # <<>> /\ Top(t).pc = at
  BY InCall
<1>2. \A n \in Nat \ {0} : n = 1 \/ n > 1
  OBVIOUS
<1>3. Len(stack[t]) = 1 \/ Len(stack[t]) > 1
  BY <1>1, <1>2
<1>4. QED
  BY <1>1, <1>3 DEF Refreshing, Top

\* The steps that only move the program counter or the list of names, neither
\* into a lookup nor into or out of a refresh.
LEMMA MoveLock ==
  ASSUME LockInv, NEW t \in Thread, NEW at, At(t, at),
         NEW c \in Call, SetTop(t, c), c.kind = Top(t).kind, Fits(c),
         at # "mounts", c.pc \notin {"check", "mounts", "relock"},
         at # "check" => UNCHANGED <<owner, count>>,
         at = "check" => Unlock(t, 1),
         active' \subseteq Thread \X Nat \X Name,
         table' \in [Name -> Nat]
  PROVE  LockInv'
<1>1. /\ TypeOK /\ StackShape /\ stack[t] # <<>> /\ Top(t).pc = at
      /\ at = "check" => owner = t /\ count \in Nat \ {0}
      /\ Refreshing(t) => owner = t /\ count > (IF at = "check" THEN 1 ELSE 0)
  BY InCall
<1>2. StackShape'
  BY <1>1, ShapeSetTop
<1>3. \A x : At(t, x)' <=> c.pc = x
  BY <1>1, AtSetTop
<1>4. Refreshing(t)' <=> Refreshing(t)
  BY <1>1, AtSetTop, RefreshingTop
<1>5. /\ owner' \in Thread \cup {NoThread} /\ count' \in Nat
      /\ (owner' = NoThread <=> count' = 0)
      /\ UNCHANGED <<owner, count>> \/ owner = t
      /\ Refreshing(t) => owner' = t /\ count' > 0
  <2>1. CASE at = "check"
    <3>1. owner = t /\ Unlock(t, 1) /\ 1 <= count
      BY <1>1, <2>1
    <3>2. /\ count' = count - 1 /\ count' \in Nat
          /\ owner' \in Thread \cup {NoThread}
          /\ count' > 0 => owner' = t
          /\ owner' = NoThread <=> count' = 0
      BY <3>1, UnlockFacts
    <3>3. QED
      BY <1>1, <2>1, <3>1, <3>2
  <2>2. CASE at # "check"
    BY <1>1, <2>2 DEF LockInv, TypeOK
  <2>3. QED
    BY <2>1, <2>2
<1>6. Held(t)' /\ Kept(t)'
  BY <1>3, <1>4, <1>5 DEF Held, Kept
<1>7. QED
  BY <1>1, <1>2, <1>5, <1>6, SetTopFacts, LockStep

LEMMA LookupWaitLock ==
  ASSUME LockInv, NEW t \in Thread, LookupWait(t)
  PROVE  LockInv'
<1> DEFINE c == [Top(t) EXCEPT !.pc = "relock"]
<1>1. /\ TypeOK /\ StackShape /\ stack[t] # <<>> /\ Top(t) \in Call
      /\ Top(t).pc = "check" /\ Fits(Top(t)) /\ owner = t /\ ~Refreshing(t)
  BY InCall DEF LookupWait
<1>2. SetTop(t, c) /\ Unlock(t, 1) /\ UNCHANGED <<active, table>> /\ count = 1
  BY DEF LookupWait, Goto
<1>3. /\ c \in Call /\ c.kind = Top(t).kind /\ c.pc = "relock"
      /\ Fits(c) /\ c.kind # "refresh"
  BY <1>1 DEF Call, Steps, Fits
<1> HIDE DEF c
<1>4. StackShape'
  BY <1>1, <1>2, <1>3, ShapeSetTop
<1>5. (\A x : At(t, x)' <=> x = "relock") /\ ~Refreshing(t)'
  BY <1>1, <1>2, <1>3, AtSetTop
<1>6. /\ owner' \in Thread \cup {NoThread} /\ count' \in Nat
      /\ owner' = NoThread <=> count' = 0
  BY <1>1, <1>2, UnlockFacts
<1>7. Held(t)' /\ Kept(t)'
  BY <1>5 DEF Held, Kept
<1>8. QED
  BY <1>1, <1>2, <1>3, <1>4, <1>6, <1>7, SetTopFacts, LockStep DEF TypeOK

LEMMA LookupRelockLock ==
  ASSUME LockInv, NEW t \in Thread, LookupRelock(t)
  PROVE  LockInv'
<1> DEFINE c == [Top(t) EXCEPT !.pc = "check"]
<1>1. /\ TypeOK /\ StackShape /\ stack[t] # <<>> /\ Top(t) \in Call
      /\ Top(t).pc = "relock" /\ Fits(Top(t))
  BY InCall DEF LookupRelock
<1>2. SetTop(t, c) /\ Lock(t, 1) /\ UNCHANGED <<active, table>>
  BY DEF LookupRelock, Goto
<1>3. ~Refreshing(t)
  BY DEF LockInv, RefreshHoldsLock, LookupRelock
<1>4. /\ c \in Call /\ c.kind = Top(t).kind /\ c.pc = "check"
      /\ Fits(c) /\ c.kind # "refresh"
  BY <1>1 DEF Call, Steps, Fits
<1> HIDE DEF c
<1>5. StackShape'
  BY <1>1, <1>2, <1>4, ShapeSetTop
<1>6. (\A x : At(t, x)' <=> x = "check") /\ ~Refreshing(t)'
  BY <1>1, <1>2, <1>3, <1>4, AtSetTop
<1>7. /\ owner \in {NoThread, t} /\ owner' = t /\ count' \in Nat \ {0}
      /\ owner' \in Thread \cup {NoThread} /\ (owner' = NoThread <=> count' = 0)
  BY <1>2, LockFacts
<1>8. Held(t)' /\ Kept(t)'
  BY <1>6, <1>7 DEF Held, Kept
<1>9. QED
  BY <1>1, <1>2, <1>4, <1>5, <1>7, <1>8, SetTopFacts, LockStep DEF TypeOK

\* Returning from a call, in all its forms: the outermost frees the lock; a
\* nested one hands back to its exploration, which unlocks once, or to the
\* parse of the mounts, which needs the lock to be held.
LEMMA ReturnLock ==
  ASSUME LockInv, NEW t \in Thread, NEW at, At(t, at), NEW ok \in BOOLEAN, Pop(t, ok),
         UNCHANGED <<owner, count>> \/ owner \in {NoThread, t},
         owner' \in Thread \cup {NoThread}, count' \in Nat,
         owner' = NoThread <=> count' = 0,
         Len(stack[t]) # 1 /\ Caller(t).pc = "mounts" => owner' = t,
         Len(stack[t]) # 1 /\ Refreshing(t) => owner' = t,
         active' \subseteq Thread \X Nat \X Name,
         table' \in [Name -> Nat]
  PROVE  LockInv'
<1>1. TypeOK /\ StackShape /\ stack[t] # <<>>
  BY InCall
<1>2. StackShape'
  BY <1>1, ShapePop
<1>3. Held(t)' /\ Kept(t)'
  <2>1. CASE Len(stack[t]) = 1
    <3>1. stack'[t] = <<>> /\ ~Refreshing(t)'
      BY <1>1, <2>1, AtPop
    <3>2. QED
      BY <3>1 DEF Held, Kept, At
  <2>2. CASE Len(stack[t]) # 1
    <3> DEFINE r == Resume(Caller(t), ok)
    <3>1. /\ Caller(t).pc \in {"explore", "mounts"}
          /\ \A x : At(t, x)' <=> r.pc = x
          /\ r.pc = Caller(t).pc \/ (Caller(t).pc = "explore" /\ r.pc = "fail")
          /\ Refreshing(t)' <=> Refreshing(t)
      BY <1>1, <2>2, AtPop
    <3> HIDE DEF r
    <3>2. count' > 0 \/ owner' # t
      BY ThreadAssumption
    <3>3. QED
      BY <2>2, <3>1, <3>2 DEF Held, Kept
  <2>3. QED
    BY <2>1, <2>2
<1>4. QED
  BY <1>1, <1>2, <1>3, PopFacts, LockStep

LEMMA LookupHitLock ==
  ASSUME LockInv, NEW t \in Thread, LookupHit(t)
  PROVE  LockInv'
<1>1. /\ At(t, "check") /\ Return(t, TRUE) /\ UNCHANGED <<active, table>>
  BY DEF LookupHit
<1>2. /\ TypeOK /\ owner = t /\ count \in Nat \ {0}
      /\ Refreshing(t) => count > 1
  BY <1>1, InCall
<1>3. /\ owner' \in Thread \cup {NoThread} /\ count' \in Nat
      /\ owner' = NoThread <=> count' = 0
      /\ Len(stack[t]) # 1 /\ Caller(t).pc = "mounts" => owner' = t
      /\ Len(stack[t]) # 1 /\ Refreshing(t) => owner' = t
  <2>1. CASE Len(stack[t]) = 1
    BY <1>1, <2>1 DEF Return
  <2>2. CASE Len(stack[t]) # 1 /\ Caller(t).pc = "explore"
    <3>1. Unlock(t, 1)
      BY <1>1, <2>2 DEF Return
    <3>2. /\ count' = count - 1 /\ count' \in Nat
          /\ owner' \in Thread \cup {NoThread}
          /\ count' > 0 => owner' = t
          /\ owner' = NoThread <=> count' = 0
      BY <1>2, <3>1, UnlockFacts
    <3>3. QED
      BY <1>2, <2>2, <3>2
  <2>3. CASE Len(stack[t]) # 1 /\ Caller(t).pc # "explore"
    BY <1>1, <1>2, <2>3, ThreadAssumption DEF Return
  <2>4. QED
    BY <2>1, <2>2, <2>3
<1>4. QED
  BY <1>1, <1>2, <1>3, ReturnLock DEF Return, TypeOK

LEMMA LookupMissLock ==
  ASSUME LockInv, NEW t \in Thread, LookupMiss(t)
  PROVE  LockInv'
<1> DEFINE c == [Top(t) EXCEPT !.pc = "bus", !.todo = Slaves[Top(t).name]]
<1>1. /\ At(t, "check") /\ SetTop(t, c) /\ Unlock(t, 1)
      /\ active' = active \cup {Node(t)} /\ table' = table
  BY DEF LookupMiss
<1>2. /\ TypeOK /\ Top(t) \in Call /\ Top(t).pc = "check" /\ Fits(Top(t))
      /\ Len(stack[t]) \in Nat \ {0}
  BY <1>1, InCall
<1>3. /\ c \in Call /\ c.kind = Top(t).kind /\ c.pc = "bus" /\ Fits(c)
  BY <1>2, NameAssumption DEF Call, Steps, Fits
<1>4. active' \subseteq Thread \X Nat \X Name
  BY <1>1, <1>2 DEF TypeOK, Node, Call
<1> HIDE DEF c
<1>5. table' \in [Name -> Nat]
  BY <1>1, <1>2 DEF TypeOK
<1>6. QED
  BY <1>1, <1>3, <1>4, <1>5, MoveLock

\* Inside rescan the lock count does not move.
LEMMA RescanLock ==
  ASSUME LockInv, NEW t \in Thread,
         RescanBus(t) \/ RescanFails(t) \/ ExploreDone(t)
  PROVE  LockInv'
<1>1. PICK at \in {"bus", "explore"}, to \in {"explore", "fail", "publish"} :
        At(t, at) /\ Goto(t, to)
  BY DEF RescanBus, RescanFails, ExploreDone
<1>2. UNCHANGED <<owner, count, active, table>>
  BY DEF RescanBus, RescanFails, ExploreDone
<1> DEFINE c == [Top(t) EXCEPT !.pc = to]
<1>3. /\ TypeOK /\ Top(t) \in Call /\ Top(t).pc = at /\ Fits(Top(t))
  BY <1>1, InCall
<1>4. /\ c \in Call /\ c.kind = Top(t).kind /\ c.pc = to /\ Fits(c)
  BY <1>1, <1>3 DEF Call, Steps, Fits
<1>5. SetTop(t, c)
  BY <1>1 DEF Goto
<1> HIDE DEF c
<1>6. QED
  BY <1>1, <1>2, <1>3, <1>4, <1>5, MoveLock DEF TypeOK

LEMMA ExploreSlaveLock ==
  ASSUME LockInv, NEW t \in Thread, ExploreSlave(t)
  PROVE  LockInv'
<1> DEFINE c == CallOf("create", Head(Top(t).todo), FALSE, "check", <<>>)
<1>1. /\ At(t, "explore") /\ Top(t).todo # <<>> /\ Lock(t, 1) /\ Push(t, c)
      /\ UNCHANGED <<active, table>>
  BY DEF ExploreSlave
<1>2. /\ TypeOK /\ StackShape /\ stack[t] # <<>>
      /\ Top(t) \in Call /\ Top(t).pc = "explore"
      /\ Refreshing(t) => owner = t /\ count > 0
  BY <1>1, InCall
<1>3. Head(Top(t).todo) \in Name
  BY <1>1, <1>2, HeadTailProperties DEF Call
<1>4. c \in Call
  BY <1>3, CallTypes, EmptySeq DEF Kinds, Steps
<1>5. c.kind = "create" /\ c.pc = "check" /\ Fits(c)
  BY DEF CallOf, Fits
<1> HIDE DEF c
<1>6. StackShape'
  BY <1>1, <1>2, <1>4, <1>5, ShapePush
<1>7. (\A x : At(t, x)' <=> x = "check") /\ (Refreshing(t)' <=> Refreshing(t))
  BY <1>1, <1>2, <1>4, <1>5, AtPush
<1>8. /\ owner \in {NoThread, t} /\ owner' = t /\ count' = count + 1
      /\ count' \in Nat \ {0} /\ owner' \in Thread \cup {NoThread}
      /\ (owner' = NoThread <=> count' = 0)
  BY <1>1, LockFacts
<1>9. Held(t)' /\ Kept(t)'
  <2>1. Held(t)'
    BY <1>8 DEF Held
  <2>2. Refreshing(t) => count' > 1
    BY <1>2, <1>8 DEF TypeOK
  <2>3. QED
    BY <1>7, <1>8, <2>1, <2>2 DEF Kept
<1>10. QED
  BY <1>1, <1>2, <1>4, <1>6, <1>8, <1>9, PushFacts, LockStep DEF TypeOK

LEMMA MountLineLock ==
  ASSUME LockInv, NEW t \in Thread, MountLine(t)
  PROVE  LockInv'
<1> DEFINE c == CallOf("create", Head(Top(t).todo), TRUE, "check", <<>>)
<1>1. /\ At(t, "mounts") /\ Top(t).todo # <<>> /\ Push(t, c)
      /\ UNCHANGED <<owner, count, active, table>>
  BY DEF MountLine
<1>2. /\ TypeOK /\ StackShape /\ stack[t] # <<>>
      /\ Top(t) \in Call /\ Top(t).pc = "mounts" /\ Fits(Top(t))
      /\ owner = t /\ count \in Nat \ {0}
      /\ Len(stack[t]) > 1 => Top(t).kind = "create"
  BY <1>1, InCall
<1>3. ~Refreshing(t)
  <2>1. Len(stack[t]) = 1
    <3>1. \A n \in Nat \ {0} : n = 1 \/ n > 1
      OBVIOUS
    <3>2. Len(stack[t]) = 1 \/ Len(stack[t]) > 1
      BY <1>2, <3>1, TopInStack
    <3>3. QED BY <1>2, <3>2 DEF Fits
  <2>2. QED BY <1>1, <2>1, RefreshingTop
<1>4. Head(Top(t).todo) \in Name
  BY <1>1, <1>2, HeadTailProperties DEF Call
<1>5. c \in Call
  BY <1>4, CallTypes, EmptySeq DEF Kinds, Steps
<1>6. c.kind = "create" /\ c.pc = "check" /\ Fits(c)
  BY DEF CallOf, Fits
<1> HIDE DEF c
<1>7. StackShape'
  BY <1>1, <1>2, <1>5, <1>6, ShapePush
<1>8. (\A x : At(t, x)' <=> x = "check") /\ ~Refreshing(t)'
  BY <1>1, <1>2, <1>3, <1>5, <1>6, AtPush
<1>9. Held(t)' /\ Kept(t)'
  BY <1>1, <1>2, <1>8 DEF Held, Kept
<1>10. QED
  BY <1>1, <1>2, <1>5, <1>7, <1>9, PushFacts, LockStep, ThreadAssumption DEF TypeOK

LEMMA RescanPublishLock ==
  ASSUME LockInv, NEW t \in Thread, RescanPublish(t)
  PROVE  LockInv'
<1>1. /\ At(t, "publish")
      /\ table' = [table EXCEPT ![Top(t).name] = @ + 1]
      /\ UNCHANGED <<owner, count, active>>
  BY DEF RescanPublish
<1>2. /\ TypeOK /\ StackShape /\ stack[t] # <<>> /\ Top(t) \in Call
      /\ Top(t).pc = "publish" /\ Fits(Top(t))
      /\ Refreshing(t) => owner = t /\ count > 0
  BY <1>1, InCall
<1>3. table' \in [Name -> Nat]
  BY <1>1, <1>2 DEF TypeOK, Call
<1>4. CASE Top(t).kind = "refresh"
  <2> DEFINE c == [Top(t) EXCEPT !.pc = "mounts", !.todo = Mounts]
  <2>1. SetTop(t, c)
    BY <1>4 DEF RescanPublish
  <2>2. Len(stack[t]) = 1 /\ owner = t /\ count > 0
    BY <1>1, <1>2, <1>4, RefreshingTop
  <2>3. c \in Call /\ c.kind = "refresh" /\ c.pc = "mounts" /\ Fits(c)
    BY <1>2, <1>4, NameAssumption DEF Call, Steps, Fits
  <2> HIDE DEF c
  <2>4. StackShape'
    BY <1>2, <1>4, <2>1, <2>3, ShapeSetTop
  <2>5. (\A x : At(t, x)' <=> x = "mounts") /\ ~Refreshing(t)'
    BY <1>2, <2>1, <2>2, <2>3, AtSetTop
  <2>6. Held(t)' /\ Kept(t)'
    BY <1>1, <2>2, <2>5 DEF Held, Kept
  <2>7. QED
    BY <1>1, <1>2, <1>3, <2>1, <2>3, <2>4, <2>6, SetTopFacts, LockStep
       DEF TypeOK, LockInv
<1>5. CASE Top(t).kind # "refresh"
  <2> DEFINE c == [Top(t) EXCEPT !.pc = "del", !.ok = TRUE]
  <2>1. SetTop(t, c)
    BY <1>5 DEF RescanPublish
  <2>2. c \in Call /\ c.kind = Top(t).kind /\ c.pc = "del" /\ Fits(c)
    BY <1>2, <1>5 DEF Call, Steps, Fits
  <2> HIDE DEF c
  <2>3. QED
    BY <1>1, <1>2, <1>3, <2>1, <2>2, MoveLock DEF TypeOK
<1>6. QED
  BY <1>4, <1>5

LEMMA ClobberDeviceLock ==
  ASSUME LockInv, NEW t \in Thread, ClobberDevice(t)
  PROVE  LockInv'
<1>1. At(t, "fail") /\ owner \in {NoThread, t} /\ UNCHANGED <<active, table>>
  BY DEF ClobberDevice, CanLock
<1>2. /\ TypeOK /\ Top(t) \in Call /\ Top(t).pc = "fail" /\ Fits(Top(t))
  BY <1>1, InCall
<1>3. CASE Top(t).kind = "refresh"
  <2>1. Len(stack[t]) = 1
    BY <1>1, <1>3, RefreshingTop
  <2>2. Pop(t, FALSE) /\ owner' = NoThread /\ count' = 0
    BY <1>3, <2>1 DEF ClobberDevice, Return
  <2>3. QED
    BY <1>1, <1>2, <2>1, <2>2, ReturnLock DEF TypeOK
<1>4. CASE Top(t).kind # "refresh"
  <2> DEFINE c == [Top(t) EXCEPT !.pc = "del"]
  <2>1. SetTop(t, c) /\ UNCHANGED <<owner, count>>
    BY <1>4 DEF ClobberDevice, Goto
  <2>2. c \in Call /\ c.kind = Top(t).kind /\ c.pc = "del" /\ Fits(c)
    BY <1>2, <1>4 DEF Call, Steps, Fits
  <2> HIDE DEF c
  <2>3. QED
    BY <1>1, <1>2, <2>1, <2>2, MoveLock DEF TypeOK
<1>5. QED
  BY <1>3, <1>4

LEMMA FinishCreateLock ==
  ASSUME LockInv, NEW t \in Thread, FinishCreate(t)
  PROVE  LockInv'
<1>1. /\ At(t, "del") /\ owner \in {NoThread, t} /\ Pop(t, Top(t).ok)
      /\ active' = active \ {Node(t)} /\ table' = table
  BY DEF FinishCreate, CanLock
<1>2. /\ TypeOK /\ Top(t) \in Call
      /\ Refreshing(t) => owner = t
  BY <1>1, InCall
<1>3. /\ owner' \in Thread \cup {NoThread} /\ count' \in Nat
      /\ owner' = NoThread <=> count' = 0
      /\ Len(stack[t]) # 1 /\ Caller(t).pc = "mounts" => owner' = t
      /\ Len(stack[t]) # 1 /\ Refreshing(t) => owner' = t
  <2>1. CASE Len(stack[t]) = 1
    BY <2>1 DEF FinishCreate
  <2>2. CASE Len(stack[t]) # 1 /\ Caller(t).pc = "explore"
    BY <1>2, <2>2 DEF FinishCreate, TypeOK, LockInv
  <2>3. CASE Len(stack[t]) # 1 /\ Caller(t).pc # "explore"
    BY <1>2, <2>3, ThreadAssumption DEF FinishCreate, TypeOK
  <2>4. QED
    BY <2>1, <2>2, <2>3
<1>4. Top(t).ok \in BOOLEAN
  BY <1>2 DEF Call
<1>5. active' \subseteq Thread \X Nat \X Name /\ table' \in [Name -> Nat]
  BY <1>1, <1>2 DEF TypeOK
<1>6. QED
  BY <1>1, <1>3, <1>4, <1>5, ReturnLock

LEMMA MountsDoneLock ==
  ASSUME LockInv, NEW t \in Thread, MountsDone(t)
  PROVE  LockInv'
<1>1. At(t, "mounts") /\ Return(t, TRUE) /\ UNCHANGED <<active, table>>
  BY DEF MountsDone
<1>2. /\ TypeOK /\ StackShape /\ stack[t] # <<>> /\ Top(t).pc = "mounts"
      /\ Fits(Top(t)) /\ owner = t
      /\ Len(stack[t]) > 1 => Top(t).kind = "create"
  BY <1>1, InCall
<1>3. Len(stack[t]) = 1
  <2>1. \A n \in Nat \ {0} : n = 1 \/ n > 1
    OBVIOUS
  <2>2. Len(stack[t]) = 1 \/ Len(stack[t]) > 1
    BY <1>2, <2>1, TopInStack
  <2>3. QED BY <1>2, <2>2 DEF Fits
<1>4. Pop(t, TRUE) /\ owner' = NoThread /\ count' = 0
  BY <1>1, <1>3 DEF Return
<1>5. QED
  BY <1>1, <1>2, <1>3, <1>4, ReturnLock DEF TypeOK

-----------------------------------------------------------------------------
\* The lock invariant is inductive: at every moment the lock's owner and count
\* are what the threads' calls, however they nest, need them to be.
LEMMA LockInvInductive ==
  /\ Init => LockInv
  /\ LockInv /\ [Next]_vars => LockInv'
<1>1. ASSUME Init PROVE LockInv
  <2>1. \A t \in Thread : stack[t] = <<>> /\ Frames(t) = {}
    <3>1. \A t \in Thread : stack[t] = <<>>
      BY <1>1 DEF Init
    <3>2. Len(<<>>) = 0
      OBVIOUS
    <3>3. \A t \in Thread : Frames(t) = 1 .. 0
      BY <3>1, <3>2 DEF Frames
    <3>4. 1 .. 0 = {}
      OBVIOUS
    <3>5. QED
      BY <3>1, <3>3, <3>4
  <2>2. TypeOK
    BY <1>1, EmptySeq DEF Init, TypeOK
  <2>3. StackShape /\ LookupLocked /\ RefreshHoldsLock
    BY <2>1 DEF StackShape, LookupLocked, RefreshHoldsLock, At, Refreshing
  <2>4. owner = NoThread <=> count = 0
    BY <1>1 DEF Init
  <2>5. QED
    BY <2>2, <2>3, <2>4 DEF LockInv
<1>2. ASSUME LockInv, Next PROVE LockInv'
  <2>1. PICK t \in Thread : Start(t) \/ Proceed(t)
    BY <1>2 DEF Next
  <2>2. CASE Start(t)
    <3>1. PICK n \in Name :
            \/ \E p \in BOOLEAN : StartLookup(t, n, p)
            \/ StartMounts(t, n)
            \/ StartRescan(t, n)
      BY <2>2 DEF Start
    <3>2. CASE StartRescan(t, n)
      <4>1. PICK k \in {1, 2} : RescanKnown(t, n, k) \/ RescanUnknown(t, n, k)
        BY <3>2 DEF StartRescan
      <4>2. QED
        BY <1>2, <4>1, RescanKnownLock, RescanUnknownLock
    <3>3. QED
      BY <1>2, <3>1, <3>2, StartLookupLock, StartMountsLock
  <2>3. CASE LookupSpin(t)
    BY <1>2, <2>3 DEF LookupSpin, vars, LockInv, TypeOK, StackShape, Frames,
       LookupLocked, RefreshHoldsLock, At, Top, Refreshing
  <2>4. CASE Proceed(t) /\ ~LookupSpin(t)
    BY <1>2, <2>4, LookupWaitLock, LookupRelockLock, LookupHitLock, LookupMissLock,
       RescanLock, ExploreSlaveLock, RescanPublishLock, ClobberDeviceLock,
       FinishCreateLock, MountLineLock, MountsDoneLock DEF Proceed
  <2>5. QED
    BY <2>1, <2>2, <2>3, <2>4
<1>3. ASSUME LockInv, UNCHANGED vars PROVE LockInv'
  BY <1>3 DEF vars, LockInv, TypeOK, StackShape, Frames,
     LookupLocked, RefreshHoldsLock, At, Top, Refreshing
<1>4. QED
  BY <1>1, <1>2, <1>3

\* Every variable keeps its type.
THEOREM TypeCorrect == Spec => []TypeOK
<1>1. LockInv => TypeOK
  BY DEF LockInv
<1>2. QED
  BY <1>1, LockInvInductive, PTL DEF Spec

\* "growlight must be locked on entry!" (growlight.c:1213) holds of every call
\* of lookup_device, for any number of threads and any nesting of MD devices.
THEOREM LookupIsLocked == Spec => []LookupLocked
<1>1. LockInv => LookupLocked
  BY DEF LockInv
<1>2. QED
  BY <1>1, LockInvInductive, PTL DEF Spec

\* rescan_device never lets the lock go between unlinking a record and putting
\* it back, whatever the lookups of its slaves do on the way.
THEOREM RefreshIsLocked == Spec => []RefreshHoldsLock
<1>1. LockInv => RefreshHoldsLock
  BY DEF LockInv
<1>2. QED
  BY <1>1, LockInvInductive, PTL DEF Spec

-----------------------------------------------------------------------------
(***************************************************************************)
(* How often the mutex is locked.                                          *)
(***************************************************************************)
CountOf(t) ==
  IF owner = t
  THEN /\ stack[t] # <<>> /\ count > 0
       /\ count - Locks(t) \in (IF "uirescan" \in Ops[t] THEN {0, 1} ELSE {0})
  ELSE Locks(t) = 0

\* A step of t leaves the others' calls with what they have locked.
LEMMA CountStep ==
  ASSUME LockInv, LockInv', CountMatchesOwner, NEW t \in Thread,
         \A s \in Thread : s # t => stack'[s] = stack[s],
         UNCHANGED <<owner, count>> \/ (owner \in {NoThread, t} /\ owner' \in {NoThread, t}),
         CountOf(t)'
  PROVE  CountMatchesOwner'
<1>1. ASSUME NEW s \in Thread, s # t
      PROVE  CountOf(s)'
  <2>1. stack'[s] = stack[s] /\ s # NoThread
    BY <1>1, ThreadAssumption
  <2>2. Locks(s)' = Locks(s)
    BY <2>1 DEF Locks, At, Top, Refreshing
  <2>3. CountOf(s)
    BY DEF CountMatchesOwner, CountOf
  <2>4. CASE UNCHANGED <<owner, count>>
    BY <2>1, <2>2, <2>3, <2>4 DEF CountOf
  <2>5. CASE owner \in {NoThread, t} /\ owner' \in {NoThread, t}
    BY <1>1, <2>1, <2>2, <2>3, <2>5 DEF CountOf
  <2> QED
    BY <2>4, <2>5
<1>2. \A s \in Thread : CountOf(s)'
  BY <1>1
<1>3. owner' = NoThread => count' = 0
  BY DEF LockInv
<1> QED
  BY <1>2, <1>3 DEF CountMatchesOwner, CountOf

\* A thread without a call holds nothing.
LEMMA CountNone ==
  ASSUME LockInv, CountMatchesOwner, NEW t \in Thread, stack[t] = <<>>,
         owner \in {NoThread, t}
  PROVE  owner = NoThread /\ count = 0 /\ owner # t
BY ThreadAssumption DEF LockInv, CountMatchesOwner

LEMMA StartCount ==
  ASSUME LockInv, LockInv', CountMatchesOwner, NEW t \in Thread, Start(t)
  PROVE  CountMatchesOwner'
<1>1. TypeOK
  BY DEF LockInv
<1>2. PICK n \in Name :
        \/ \E p \in BOOLEAN : StartLookup(t, n, p)
        \/ StartMounts(t, n)
        \/ StartRescan(t, n)
  BY DEF Start
<1>3. stack[t] = <<>> /\ CanLock(t)
  BY <1>2 DEF StartLookup, StartMounts, StartRescan, RescanKnown, RescanUnknown, Lock
<1>4. owner = NoThread /\ count = 0 /\ owner # t
  BY <1>3, CountNone DEF CanLock
<1>5. ASSUME NEW c \in Call, Push(t, c), c.pc # "relock",
             owner' \in {NoThread, t}, count' \in Nat, owner' = t <=> count' > 0,
             count' - (IF c.pc = "check" \/ c.pc = "mounts" \/ c.kind = "refresh" THEN 1 ELSE 0)
               \in (IF "uirescan" \in Ops[t] THEN {0, 1} ELSE {0}),
             ~(c.kind = "refresh" /\ c.pc \in {"check", "mounts"})
      PROVE  CountMatchesOwner'
  <2>1. /\ \A x : At(t, x)' <=> c.pc = x
        /\ Refreshing(t)' <=> c.kind = "refresh" /\ c.pc # "mounts"
    BY <1>1, <1>3, <1>5, AtPush
  <2>2. Locks(t)' = IF c.pc = "check" \/ c.pc = "mounts" \/ c.kind = "refresh" THEN 1 ELSE 0
    BY <1>5, <2>1 DEF Locks
  <2>3. stack'[t] # <<>> /\ \A s \in Thread : s # t => stack'[s] = stack[s]
    BY <1>1, <1>5, PushFacts
  <2>4. CountOf(t)'
    BY <1>5, <2>2, <2>3, ThreadAssumption DEF CountOf
  <2> QED
    BY <1>4, <1>5, <2>3, <2>4, CountStep
<1>6. CASE \E p \in BOOLEAN : StartLookup(t, n, p)
  <2>1. PICK p \in BOOLEAN : StartLookup(t, n, p)
    BY <1>6
  <2> DEFINE c == CallOf("create", n, p, "check", <<>>)
  <2>2. c \in Call /\ c.kind = "create" /\ c.pc = "check"
    BY CallTypes, EmptySeq DEF Kinds, Steps, CallOf
  <2>3. Push(t, c) /\ owner' = t /\ count' = 1
    BY <1>4, <2>1 DEF StartLookup, Lock
  <2> HIDE DEF c
  <2> QED
    BY <1>5, <2>2, <2>3
<1>7. CASE StartMounts(t, n)
  <2> DEFINE c == CallOf("mounts", n, TRUE, "mounts", Mounts)
  <2>1. c \in Call /\ c.kind = "mounts" /\ c.pc = "mounts"
    BY CallTypes, NameAssumption DEF Kinds, Steps, CallOf
  <2>2. Push(t, c) /\ owner' = t /\ count' = 1
    <3>1. Push(t, c) /\ Lock(t, 1)
      BY <1>7 DEF StartMounts
    <3>2. owner' = t /\ count' = 0 + 1
      BY <1>4, <3>1 DEF Lock
    <3>3. 0 + 1 = 1
      OBVIOUS
    <3> QED
      BY <3>1, <3>2, <3>3
  <2> HIDE DEF c
  <2> QED
    BY <1>5, <2>1, <2>2
<1>8. CASE StartRescan(t, n)
  <2>1. PICK k \in {1, 2} : /\ (IF k = 1 THEN "rescan" ELSE "uirescan") \in Ops[t]
                            /\ RescanKnown(t, n, k) \/ RescanUnknown(t, n, k)
    BY <1>8 DEF StartRescan
  <2>2. k = 2 => "uirescan" \in Ops[t]
    BY <2>1
  <2>3. CASE RescanKnown(t, n, k)
    <3>1. PICK d \in Match(n) : Push(t, CallOf("refresh", d, FALSE, "bus", Slaves[d]))
      BY <2>3 DEF RescanKnown
    <3> DEFINE c == CallOf("refresh", d, FALSE, "bus", Slaves[d])
    <3>2. d \in Name
      BY NameAssumption DEF Match
    <3>3. c \in Call /\ c.kind = "refresh" /\ c.pc = "bus"
      BY <3>2, CallTypes, NameAssumption DEF Kinds, Steps, CallOf
    <3>4. Push(t, c) /\ owner' = t /\ count' = k
      <4>1. 0 + k = k /\ Lock(t, k)
        BY <2>3 DEF RescanKnown
      <4> QED
        BY <1>4, <3>1, <4>1 DEF Lock
    <3> HIDE DEF c
    <3>5. k \in Nat /\ k > 0 /\ k - 1 \in (IF "uirescan" \in Ops[t] THEN {0, 1} ELSE {0})
      BY <2>2
    <3> QED
      BY <1>5, <3>3, <3>4, <3>5
  <2>4. CASE RescanUnknown(t, n, k)
    <3> DEFINE c == CallOf("create", n, FALSE, "bus", Slaves[n])
    <3>1. c \in Call /\ c.kind = "create" /\ c.pc = "bus"
      BY CallTypes, NameAssumption DEF Kinds, Steps, CallOf
    <3>2. Push(t, c) /\ owner' = (IF k = 1 THEN NoThread ELSE t) /\ count' = k - 1
      BY <2>4 DEF RescanUnknown
    <3> HIDE DEF c
    <3>3. k - 1 \in Nat /\ k - 1 - 0 \in (IF "uirescan" \in Ops[t] THEN {0, 1} ELSE {0})
          /\ (k = 1 <=> ~(k - 1 > 0))
      BY <2>2
    <3>4. owner' \in {NoThread, t} /\ (owner' = t <=> count' > 0) /\ count' \in Nat
      BY <3>2, <3>3, ThreadAssumption
    <3> QED
      BY <1>5, <3>1, <3>2, <3>3, <3>4
  <2> QED
    BY <2>1, <2>3, <2>4
<1> QED
  BY <1>2, <1>6, <1>7, <1>8

\* A call that goes on keeps what it has locked, but for a lookup, which unlocks.
LEMMA MoveCount ==
  ASSUME LockInv, LockInv', CountMatchesOwner, NEW t \in Thread, NEW at, At(t, at),
         NEW c \in Call, SetTop(t, c), c.kind = Top(t).kind,
         at # "mounts", c.pc \notin {"check", "mounts"},
         at # "check" => UNCHANGED <<owner, count>>,
         at = "check" => Unlock(t, 1)
  PROVE  CountMatchesOwner'
<1>1. /\ TypeOK /\ stack[t] # <<>> /\ Top(t).pc = at
      /\ at = "check" => owner = t /\ count \in Nat \ {0}
  BY InCall
<1>2. /\ \A x : At(t, x)' <=> c.pc = x
      /\ \A x : At(t, x) <=> at = x
      /\ Refreshing(t)' <=> Refreshing(t)
      /\ stack'[t] # <<>> /\ \A s \in Thread : s # t => stack'[s] = stack[s]
  <2>1. \A x : At(t, x)' <=> c.pc = x
    BY <1>1, AtSetTop
  <2>2. \A x : At(t, x) <=> at = x
    BY <1>1 DEF At
  <2>3. Refreshing(t)' <=> Refreshing(t)
    BY <1>1, AtSetTop, RefreshingTop
  <2>4. stack'[t] # <<>> /\ \A s \in Thread : s # t => stack'[s] = stack[s]
    BY <1>1, SetTopFacts
  <2> QED
    BY <2>1, <2>2, <2>3, <2>4
<1>3. Locks(t) = (IF at = "check" THEN 1 ELSE 0) + (IF Refreshing(t) THEN 1 ELSE 0)
      /\ Locks(t)' = IF Refreshing(t) THEN 1 ELSE 0
  BY <1>2 DEF Locks
<1>4. CountOf(t) /\ count \in Nat /\ count' \in Nat
  BY DEF CountMatchesOwner, CountOf, LockInv, TypeOK
<1>5. CASE at = "check"
  <2>1. count' = count - 1 /\ owner' = IF count = 1 THEN NoThread ELSE t
    BY <1>1, <1>5 DEF Unlock
  <2>2. CountOf(t)'
    BY <1>1, <1>2, <1>3, <1>4, <1>5, <2>1, ThreadAssumption DEF CountOf
  <2> QED
    BY <1>1, <1>2, <1>5, <2>1, <2>2, CountStep
<1>6. CASE at # "check"
  <2>1. CountOf(t)'
    BY <1>2, <1>3, <1>4, <1>6 DEF CountOf
  <2> QED
    BY <1>2, <1>6, <2>1, CountStep
<1> QED
  BY <1>5, <1>6

\* Back from its wait, a lookup has the lock once.
LEMMA RelockCount ==
  ASSUME LockInv, LockInv', CountMatchesOwner, NEW t \in Thread, LookupRelock(t)
  PROVE  CountMatchesOwner'
<1> DEFINE c == [Top(t) EXCEPT !.pc = "check"]
<1>1. /\ TypeOK /\ stack[t] # <<>> /\ Top(t) \in Call /\ Top(t).pc = "relock"
  BY InCall DEF LookupRelock
<1>2. SetTop(t, c) /\ owner \in {NoThread, t} /\ owner' = t /\ count' = count + 1
  BY DEF LookupRelock, Goto, Lock, CanLock
<1>3. c \in Call /\ c.kind = Top(t).kind /\ c.pc = "check"
  BY <1>1 DEF Call, Steps
<1> HIDE DEF c
<1>4. /\ \A x : At(t, x)' <=> "check" = x
      /\ \A x : At(t, x) <=> "relock" = x
      /\ Refreshing(t)' <=> Refreshing(t)
      /\ stack'[t] # <<>> /\ \A s \in Thread : s # t => stack'[s] = stack[s]
  <2>1. At(t, "relock")
    BY DEF LookupRelock
  <2>2. \A x : At(t, x)' <=> "check" = x
    BY <1>1, <1>2, <1>3, AtSetTop
  <2>3. \A x : At(t, x) <=> "relock" = x
    BY <1>1 DEF At
  <2>4. Refreshing(t)' <=> Refreshing(t)
    BY <1>1, <1>2, <1>3, <2>1, AtSetTop, RefreshingTop
  <2>5. stack'[t] # <<>> /\ \A s \in Thread : s # t => stack'[s] = stack[s]
    BY <1>1, <1>2, <1>3, SetTopFacts
  <2> QED
    BY <2>2, <2>3, <2>4, <2>5
<1>5. Locks(t) = (IF Refreshing(t) THEN 1 ELSE 0) /\ Locks(t)' = Locks(t) + 1
  BY <1>4 DEF Locks
<1>6. CountOf(t) /\ count \in Nat /\ (owner = NoThread => count = 0)
  BY DEF CountMatchesOwner, CountOf, LockInv, TypeOK
<1>7. CountOf(t)'
  BY <1>2, <1>4, <1>5, <1>6, ThreadAssumption DEF CountOf
<1> QED
  BY <1>2, <1>4, <1>7, CountStep

\* Only the outermost call parses the mounts.
LEMMA ParsesOutermost ==
  ASSUME LockInv, NEW t \in Thread, stack[t] # <<>>
  PROVE  /\ At(t, "mounts") => Len(stack[t]) = 1 /\ ~Refreshing(t)
         /\ Len(stack[t]) > 1 /\ Caller(t).pc = "mounts" => ~Refreshing(t)
<1>1. Len(stack[t]) \in Nat \ {0} /\ stack[t] # <<>>
  BY TopInStack DEF LockInv
<1>2. \A i \in 1 .. Len(stack[t]) : i > 1 => stack[t][i].pc # "mounts"
  BY DEF LockInv, StackShape, Frames
<1>3. \A n \in Nat \ {0} : /\ n = 1 \/ (n \in 1 .. n /\ n > 1)
                           /\ n - 1 = 1 \/ n = 1 \/ (n - 1 \in 1 .. n /\ n - 1 > 1)
  OBVIOUS
<1>4. /\ Len(stack[t]) = 1 \/ (Len(stack[t]) \in 1 .. Len(stack[t]) /\ Len(stack[t]) > 1)
      /\ \/ Len(stack[t]) - 1 = 1 \/ Len(stack[t]) = 1
         \/ (Len(stack[t]) - 1 \in 1 .. Len(stack[t]) /\ Len(stack[t]) - 1 > 1)
  BY <1>1, <1>3
<1>5. At(t, "mounts") => Len(stack[t]) = 1 /\ ~Refreshing(t)
  BY <1>2, <1>4 DEF At, Top, Refreshing
<1>6. Len(stack[t]) > 1 /\ Caller(t).pc = "mounts" => ~Refreshing(t)
  BY <1>2, <1>4 DEF Caller, Refreshing
<1> QED
  BY <1>5, <1>6

\* A lookup that returns gives back what it was called with.
LEMMA HitCount ==
  ASSUME LockInv, LockInv', CountMatchesOwner, NEW t \in Thread, LookupHit(t),
         Len(stack[t]) # 1
  PROVE  CountMatchesOwner'
<1>1. At(t, "check") /\ Pop(t, TRUE)
      /\ IF Caller(t).pc = "explore" THEN Unlock(t, 1) ELSE UNCHANGED <<owner, count>>
  BY DEF LookupHit, Return
<1>2. TypeOK /\ StackShape /\ stack[t] # <<>> /\ owner = t /\ count \in Nat \ {0}
      /\ Top(t).pc = "check"
  BY <1>1, InCall
<1> DEFINE r == Resume(Caller(t), TRUE)
<1>3. /\ Len(stack[t]) > 1 /\ Caller(t).pc \in {"explore", "mounts"}
      /\ \A x : At(t, x)' <=> r.pc = x
      /\ r.pc = Caller(t).pc \/ (Caller(t).pc = "explore" /\ r.pc = "fail")
      /\ Refreshing(t)' <=> Refreshing(t)
  BY <1>1, <1>2, AtPop
<1>4. stack'[t] # <<>> /\ \A s \in Thread : s # t => stack'[s] = stack[s]
  BY <1>1, <1>2, <1>3, PopFacts
<1>5. Caller(t).pc = "mounts" => ~Refreshing(t)
  BY <1>2, <1>3, ParsesOutermost
<1> HIDE DEF r
<1>6. /\ Locks(t) = 1 + (IF Refreshing(t) THEN 1 ELSE 0)
      /\ Locks(t)' = IF Caller(t).pc = "explore" THEN Locks(t) - 1 ELSE Locks(t)
  BY <1>2, <1>3, <1>5 DEF Locks, At
<1>7. CountOf(t)
  BY DEF CountMatchesOwner, CountOf
<1>8. CASE Caller(t).pc = "explore"
  <2>1. count' = count - 1 /\ owner' = IF count = 1 THEN NoThread ELSE t
    BY <1>1, <1>2, <1>8 DEF Unlock
  <2>2. CountOf(t)'
    BY <1>2, <1>4, <1>6, <1>7, <1>8, <2>1, ThreadAssumption DEF CountOf
  <2> QED
    BY <1>2, <1>4, <2>1, <2>2, CountStep
<1>9. CASE Caller(t).pc # "explore"
  <2>1. CountOf(t)'
    BY <1>1, <1>2, <1>4, <1>6, <1>7, <1>9 DEF CountOf
  <2> QED
    BY <1>1, <1>4, <1>9, <2>1, CountStep
<1> QED
  BY <1>8, <1>9

\* So does one that has discovered the device, or failed to.
LEMMA FinishCount ==
  ASSUME LockInv, LockInv', CountMatchesOwner, NEW t \in Thread, FinishCreate(t),
         Len(stack[t]) # 1
  PROVE  CountMatchesOwner'
<1>1. /\ At(t, "del") /\ Pop(t, Top(t).ok) /\ owner \in {NoThread, t}
      /\ IF Caller(t).pc = "explore" THEN UNCHANGED <<owner, count>>
         ELSE owner' = t /\ count' = count + 1
  BY DEF FinishCreate, CanLock
<1>2. TypeOK /\ StackShape /\ stack[t] # <<>> /\ Top(t) \in Call /\ Top(t).pc = "del"
  BY <1>1, InCall
<1>3. Top(t).ok \in BOOLEAN
  BY <1>2 DEF Call
<1> DEFINE r == Resume(Caller(t), Top(t).ok)
<1>4. /\ Len(stack[t]) > 1 /\ Caller(t).pc \in {"explore", "mounts"}
      /\ \A x : At(t, x)' <=> r.pc = x
      /\ r.pc = Caller(t).pc \/ (Caller(t).pc = "explore" /\ r.pc = "fail")
      /\ Refreshing(t)' <=> Refreshing(t)
  BY <1>1, <1>2, <1>3, AtPop
<1>5. stack'[t] # <<>> /\ \A s \in Thread : s # t => stack'[s] = stack[s]
  BY <1>1, <1>2, <1>3, <1>4, PopFacts
<1>6. Caller(t).pc = "mounts" => ~Refreshing(t)
  BY <1>2, <1>4, ParsesOutermost
<1> HIDE DEF r
<1>7. /\ Locks(t) = IF Refreshing(t) THEN 1 ELSE 0
      /\ Locks(t)' = IF Caller(t).pc = "explore" THEN Locks(t) ELSE 1
      /\ Caller(t).pc # "explore" => Locks(t) = 0
  BY <1>2, <1>4, <1>6 DEF Locks, At
<1>8. CountOf(t) /\ count \in Nat /\ (owner = NoThread => count = 0)
  BY DEF CountMatchesOwner, CountOf, LockInv, TypeOK
<1>9. CountOf(t)'
  BY <1>1, <1>5, <1>7, <1>8, ThreadAssumption DEF CountOf
<1> QED
  BY <1>1, <1>5, <1>9, CountStep

\* What is outermost gives the lock up.
LEMMA LastCount ==
  ASSUME LockInv, LockInv', CountMatchesOwner, NEW t \in Thread, NEW ok \in BOOLEAN,
         stack[t] # <<>>, Len(stack[t]) = 1, Pop(t, ok), owner \in {NoThread, t},
         owner' = NoThread
  PROVE  CountMatchesOwner'
<1>1. stack'[t] = <<>> /\ ~Refreshing(t)'
  BY AtPop DEF LockInv
<1>2. Locks(t)' = 0
  BY <1>1 DEF Locks, At
<1>3. CountOf(t)'
  BY <1>2, ThreadAssumption DEF CountOf
<1>4. \A s \in Thread : s # t => stack'[s] = stack[s]
  BY PopFacts DEF LockInv
<1> QED
  BY <1>3, <1>4, CountStep

\* An exploration looks its slaves up under a lock of their own.
LEMMA ExploreSlaveCount ==
  ASSUME LockInv, LockInv', CountMatchesOwner, NEW t \in Thread, ExploreSlave(t)
  PROVE  CountMatchesOwner'
<1> DEFINE c == CallOf("create", Head(Top(t).todo), FALSE, "check", <<>>)
<1>1. /\ At(t, "explore") /\ Top(t).todo # <<>> /\ Push(t, c)
      /\ owner \in {NoThread, t} /\ owner' = t /\ count' = count + 1
  BY DEF ExploreSlave, Lock, CanLock
<1>2. /\ TypeOK /\ stack[t] # <<>> /\ Top(t) \in Call /\ Top(t).pc = "explore"
  BY <1>1, InCall
<1>3. Head(Top(t).todo) \in Name
  BY <1>1, <1>2, HeadTailProperties DEF Call
<1>4. c \in Call /\ c.pc = "check"
  BY <1>3, CallTypes, EmptySeq DEF Kinds, Steps, CallOf
<1> HIDE DEF c
<1>5. (\A x : At(t, x)' <=> x = "check") /\ (Refreshing(t)' <=> Refreshing(t))
      /\ stack'[t] # <<>> /\ \A s \in Thread : s # t => stack'[s] = stack[s]
  <2>1. (\A x : At(t, x)' <=> x = "check") /\ (Refreshing(t)' <=> Refreshing(t))
    BY <1>1, <1>2, <1>4, AtPush
  <2>2. stack'[t] # <<>> /\ \A s \in Thread : s # t => stack'[s] = stack[s]
    BY <1>1, <1>2, <1>4, PushFacts
  <2> QED
    BY <2>1, <2>2
<1>6. Locks(t) = (IF Refreshing(t) THEN 1 ELSE 0) /\ Locks(t)' = Locks(t) + 1
  BY <1>2, <1>5 DEF Locks, At
<1>7. CountOf(t) /\ count \in Nat /\ (owner = NoThread => count = 0)
  BY DEF CountMatchesOwner, CountOf, LockInv, TypeOK
<1>8. CountOf(t)'
  BY <1>1, <1>5, <1>6, <1>7, ThreadAssumption DEF CountOf
<1> QED
  BY <1>1, <1>5, <1>8, CountStep

\* A parse of the mounts looks its devices up under the lock it has.
LEMMA MountLineCount ==
  ASSUME LockInv, LockInv', CountMatchesOwner, NEW t \in Thread, MountLine(t)
  PROVE  CountMatchesOwner'
<1> DEFINE c == CallOf("create", Head(Top(t).todo), TRUE, "check", <<>>)
<1>1. /\ At(t, "mounts") /\ Top(t).todo # <<>> /\ Push(t, c)
      /\ UNCHANGED <<owner, count>>
  BY DEF MountLine
<1>2. /\ TypeOK /\ stack[t] # <<>> /\ Top(t) \in Call /\ Top(t).pc = "mounts"
  BY <1>1, InCall
<1>3. Head(Top(t).todo) \in Name
  BY <1>1, <1>2, HeadTailProperties DEF Call
<1>4. c \in Call /\ c.pc = "check"
  BY <1>3, CallTypes, EmptySeq DEF Kinds, Steps, CallOf
<1>5. ~Refreshing(t)
  BY <1>1, <1>2, ParsesOutermost
<1> HIDE DEF c
<1>6. (\A x : At(t, x)' <=> x = "check") /\ ~Refreshing(t)'
      /\ stack'[t] # <<>> /\ \A s \in Thread : s # t => stack'[s] = stack[s]
  <2>1. (\A x : At(t, x)' <=> x = "check") /\ ~Refreshing(t)'
    BY <1>1, <1>2, <1>4, <1>5, AtPush
  <2>2. stack'[t] # <<>> /\ \A s \in Thread : s # t => stack'[s] = stack[s]
    BY <1>1, <1>2, <1>4, PushFacts
  <2> QED
    BY <2>1, <2>2
<1>7. Locks(t) = 1 /\ Locks(t)' = 1
  BY <1>2, <1>5, <1>6 DEF Locks, At
<1>8. CountOf(t)
  BY DEF CountMatchesOwner, CountOf
<1>9. CountOf(t)'
  BY <1>1, <1>6, <1>7, <1>8 DEF CountOf
<1> QED
  BY <1>1, <1>6, <1>9, CountStep

\* A refresh goes on to parse the mounts with the lock it has.
LEMMA PublishCount ==
  ASSUME LockInv, LockInv', CountMatchesOwner, NEW t \in Thread, RescanPublish(t)
  PROVE  CountMatchesOwner'
<1>1. At(t, "publish") /\ UNCHANGED <<owner, count>>
  BY DEF RescanPublish
<1>2. /\ TypeOK /\ stack[t] # <<>> /\ Top(t) \in Call /\ Top(t).pc = "publish"
  BY <1>1, InCall
<1>3. CASE Top(t).kind = "refresh"
  <2> DEFINE c == [Top(t) EXCEPT !.pc = "mounts", !.todo = Mounts]
  <2>1. SetTop(t, c)
    BY <1>3 DEF RescanPublish
  <2>2. Len(stack[t]) = 1 /\ Refreshing(t)
    BY <1>1, <1>3, RefreshingTop
  <2>3. c \in Call /\ c.pc = "mounts"
    BY <1>2, NameAssumption DEF Call, Steps
  <2> HIDE DEF c
  <2>4. (\A x : At(t, x)' <=> x = "mounts") /\ ~Refreshing(t)'
        /\ stack'[t] # <<>> /\ \A s \in Thread : s # t => stack'[s] = stack[s]
    <3>1. (\A x : At(t, x)' <=> x = "mounts") /\ ~Refreshing(t)'
      BY <1>2, <2>1, <2>2, <2>3, AtSetTop
    <3>2. stack'[t] # <<>> /\ \A s \in Thread : s # t => stack'[s] = stack[s]
      BY <1>2, <2>1, <2>3, SetTopFacts
    <3> QED
      BY <3>1, <3>2
  <2>5. Locks(t) = 1 /\ Locks(t)' = 1
    BY <1>2, <2>2, <2>4 DEF Locks, At
  <2>6. CountOf(t)
    BY DEF CountMatchesOwner, CountOf
  <2>7. CountOf(t)'
    BY <1>1, <2>4, <2>5, <2>6 DEF CountOf
  <2> QED
    BY <1>1, <2>4, <2>7, CountStep
<1>4. CASE Top(t).kind # "refresh"
  <2> DEFINE c == [Top(t) EXCEPT !.pc = "del", !.ok = TRUE]
  <2>1. SetTop(t, c)
    BY <1>4 DEF RescanPublish
  <2>2. c \in Call /\ c.kind = Top(t).kind /\ c.pc = "del"
    BY <1>2 DEF Call, Steps
  <2> HIDE DEF c
  <2> QED
    BY <1>1, <2>1, <2>2, MoveCount
<1> QED
  BY <1>3, <1>4

\* The steps that only move the program counter.
LEMMA GoCount ==
  ASSUME LockInv, LockInv', CountMatchesOwner, NEW t \in Thread,
         NEW at \in {"check", "bus", "explore", "fail"},
         NEW to \in {"relock", "explore", "fail", "publish", "del"},
         At(t, at), Goto(t, to),
         at # "check" => UNCHANGED <<owner, count>>,
         at = "check" => Unlock(t, 1)
  PROVE  CountMatchesOwner'
<1> DEFINE c == [Top(t) EXCEPT !.pc = to]
<1>1. Top(t) \in Call
  BY InCall
<1>2. c \in Call /\ c.kind = Top(t).kind /\ c.pc = to
  BY <1>1 DEF Call, Steps
<1>3. SetTop(t, c)
  BY DEF Goto
<1> HIDE DEF c
<1> QED
  BY <1>2, <1>3, MoveCount

LEMMA ProceedCount ==
  ASSUME LockInv, LockInv', CountMatchesOwner, NEW t \in Thread, Proceed(t)
  PROVE  CountMatchesOwner'
<1>1. CASE LookupSpin(t)
  BY <1>1 DEF LookupSpin, vars, CountMatchesOwner, Locks, At, Top, Refreshing
<1>2. CASE LookupWait(t)
  BY <1>2, GoCount DEF LookupWait
<1>3. CASE LookupRelock(t)
  BY <1>3, RelockCount
<1>4. CASE LookupHit(t)
  <2>1. At(t, "check") /\ Return(t, TRUE)
    BY <1>4 DEF LookupHit
  <2>2. owner = t /\ stack[t] # <<>>
    BY <2>1, InCall
  <2>3. CASE Len(stack[t]) = 1
    BY <2>1, <2>2, <2>3, LastCount DEF Return
  <2> QED
    BY <1>4, <2>3, HitCount
<1>5. CASE LookupMiss(t)
  <2> DEFINE c == [Top(t) EXCEPT !.pc = "bus", !.todo = Slaves[Top(t).name]]
  <2>1. At(t, "check") /\ SetTop(t, c) /\ Unlock(t, 1)
    BY <1>5 DEF LookupMiss
  <2>2. Top(t) \in Call
    BY <2>1, InCall
  <2>3. c \in Call /\ c.kind = Top(t).kind /\ c.pc = "bus"
    BY <2>2, NameAssumption DEF Call, Steps
  <2> HIDE DEF c
  <2> QED
    BY <2>1, <2>3, MoveCount
<1>6. CASE RescanBus(t) \/ RescanFails(t) \/ ExploreDone(t)
  <2>1. PICK at \in {"bus", "explore"}, to \in {"explore", "fail", "publish"} :
          At(t, at) /\ Goto(t, to)
    BY <1>6 DEF RescanBus, RescanFails, ExploreDone
  <2>2. UNCHANGED <<owner, count>>
    BY <1>6 DEF RescanBus, RescanFails, ExploreDone
  <2> QED
    BY <2>1, <2>2, GoCount
<1>7. CASE ExploreSlave(t)
  BY <1>7, ExploreSlaveCount
<1>8. CASE RescanPublish(t)
  BY <1>8, PublishCount
<1>9. CASE ClobberDevice(t)
  <2>1. At(t, "fail") /\ owner \in {NoThread, t}
    BY <1>9 DEF ClobberDevice, CanLock
  <2>2. CASE Top(t).kind = "refresh"
    <3>1. Len(stack[t]) = 1 /\ stack[t] # <<>>
      BY <2>1, <2>2, RefreshingTop, InCall
    <3>2. Pop(t, FALSE) /\ owner' = NoThread
      BY <1>9, <2>2, <3>1 DEF ClobberDevice, Return
    <3> QED
      BY <2>1, <3>1, <3>2, LastCount
  <2>3. CASE Top(t).kind # "refresh"
    BY <1>9, <2>1, <2>3, GoCount DEF ClobberDevice
  <2> QED
    BY <2>2, <2>3
<1>10. CASE FinishCreate(t)
  <2>1. At(t, "del") /\ owner \in {NoThread, t} /\ Pop(t, Top(t).ok)
        /\ (Len(stack[t]) = 1 => owner' = NoThread)
    BY <1>10 DEF FinishCreate, CanLock
  <2>2. stack[t] # <<>> /\ Top(t).ok \in BOOLEAN
    BY <2>1, InCall DEF Call
  <2>3. CASE Len(stack[t]) = 1
    BY <2>1, <2>2, <2>3, LastCount
  <2> QED
    BY <1>10, <2>3, FinishCount
<1>11. CASE MountLine(t)
  BY <1>11, MountLineCount
<1>12. CASE MountsDone(t)
  <2>1. At(t, "mounts") /\ Return(t, TRUE)
    BY <1>12 DEF MountsDone
  <2>2. owner = t /\ stack[t] # <<>>
    BY <2>1, InCall
  <2>3. Len(stack[t]) = 1
    BY <2>1, <2>2, ParsesOutermost
  <2> QED
    BY <2>1, <2>2, <2>3, LastCount DEF Return
<1> QED
  BY <1>1, <1>2, <1>3, <1>4, <1>5, <1>6, <1>7, <1>8, <1>9, <1>10, <1>11, <1>12 DEF Proceed

\* The mutex is counted: on every way through the recursion its owner has it as
\* often as its calls have locked it, and the others have not.
THEOREM MutexIsCounted == Spec => []CountMatchesOwner
<1>1. Init => LockInv /\ CountMatchesOwner
  <2> SUFFICES ASSUME Init PROVE CountMatchesOwner
    BY LockInvInductive
  <2>1. \A t \in Thread : ~At(t, "check") /\ ~At(t, "mounts") /\ ~Refreshing(t)
    BY DEF Init, At, Refreshing
  <2>2. ASSUME NEW t \in Thread PROVE Locks(t) = 0
    <3>1. Locks(t) = 0 + 0
      BY <2>1 DEF Locks
    <3> QED
      BY <3>1
  <2> QED
    BY <2>2, ThreadAssumption DEF Init, CountMatchesOwner
<1>2. LockInv /\ CountMatchesOwner /\ [Next]_vars => LockInv' /\ CountMatchesOwner'
  <2> SUFFICES ASSUME LockInv, CountMatchesOwner, [Next]_vars
               PROVE  LockInv' /\ CountMatchesOwner'
    OBVIOUS
  <2>1. LockInv'
    BY LockInvInductive
  <2>2. CASE Next
    BY <2>1, <2>2, StartCount, ProceedCount DEF Next
  <2>3. CASE UNCHANGED vars
    BY <2>1, <2>3 DEF vars, CountMatchesOwner, Locks, At, Top, Refreshing
  <2> QED
    BY <2>1, <2>2, <2>3
<1> QED
  BY <1>1, <1>2, PTL DEF Spec

-----------------------------------------------------------------------------
(***************************************************************************)
(* The nodes of a thread, as its stack changes.                            *)
(***************************************************************************)
LEMMA NodesOther ==
  ASSUME NEW s, stack'[s] = stack[s]
  PROVE  NodesOf(s)' = NodesOf(s)
BY DEF NodesOf, Frames

LEMMA NodesSetTop ==
  ASSUME TypeOK, NEW t \in Thread, stack[t] # <<>>, NEW c \in Call, SetTop(t, c),
         c.name = Top(t).name, Creating(Top(t)) => Creating(c)
  PROVE  NodesOf(t)' = IF Creating(c) THEN NodesOf(t) \cup {Node(t)} ELSE NodesOf(t)
<1> DEFINE n == Len(stack[t])
<1>1. n \in Nat \ {0} /\ n \in 1 .. n
  BY TopInStack
<1>2. /\ Len(stack'[t]) = n
      /\ \A i \in 1 .. n : stack'[t][i] = IF i = n THEN c ELSE stack[t][i]
  BY SetTopFacts
<1>3. Node(t) = <<t, n, c.name>> /\ Top(t) = stack[t][n]
  BY DEF Node, Top
<1> HIDE DEF n
<1>4. NodesOf(t) = {<<t, i, stack[t][i].name>> : i \in {j \in 1 .. n : Creating(stack[t][j])}}
  BY DEF NodesOf, Frames, n
<1>5. NodesOf(t)' = {<<t, i, stack'[t][i].name>> : i \in {j \in 1 .. n : Creating(stack'[t][j])}}
  BY <1>2 DEF NodesOf, Frames, Creating
<1>6. \A v : v \in NodesOf(t)' <=>
        \E i \in 1 .. n : Creating(stack'[t][i]) /\ v = <<t, i, stack'[t][i].name>>
  BY <1>5
<1>7. \A v : v \in NodesOf(t) <=>
        \E i \in 1 .. n : Creating(stack[t][i]) /\ v = <<t, i, stack[t][i].name>>
  BY <1>4
<1>8. \A i \in 1 .. n : i # n => stack'[t][i] = stack[t][i]
  BY <1>2
<1>9. stack'[t][n] = c
  BY <1>1, <1>2
<1>10. ASSUME NEW v, v \in NodesOf(t)'
       PROVE  v \in IF Creating(c) THEN NodesOf(t) \cup {Node(t)} ELSE NodesOf(t)
  BY <1>3, <1>6, <1>7, <1>8, <1>9, <1>10
<1>11. ASSUME NEW v, v \in IF Creating(c) THEN NodesOf(t) \cup {Node(t)} ELSE NodesOf(t)
       PROVE  v \in NodesOf(t)'
  BY <1>1, <1>3, <1>6, <1>7, <1>8, <1>9, <1>11
<1>12. QED
  BY <1>10, <1>11

LEMMA NodesPush ==
  ASSUME TypeOK, NEW t \in Thread, NEW c \in Call, Push(t, c)
  PROVE  NodesOf(t)' = IF Creating(c) THEN NodesOf(t) \cup {<<t, Len(stack[t]) + 1, c.name>>}
                                      ELSE NodesOf(t)
<1> DEFINE n == Len(stack[t])
<1>1. /\ n \in Nat
      /\ Len(stack'[t]) = n + 1
      /\ \A i \in 1 .. n : stack'[t][i] = stack[t][i]
      /\ stack'[t][n + 1] = c
  BY PushFacts
<1> HIDE DEF n
<1>2. \A v : v \in NodesOf(t)' <=>
        \E i \in 1 .. n + 1 : Creating(stack'[t][i]) /\ v = <<t, i, stack'[t][i].name>>
  BY <1>1 DEF NodesOf, Frames, Creating
<1>3. \A v : v \in NodesOf(t) <=>
        \E i \in 1 .. n : Creating(stack[t][i]) /\ v = <<t, i, stack[t][i].name>>
  BY DEF NodesOf, Frames, n
<1>4. \A i : i \in 1 .. n + 1 <=> i \in 1 .. n \/ i = n + 1
  BY <1>1
<1>5. \A v : v \in NodesOf(t)' <=>
        v \in NodesOf(t) \/ (Creating(c) /\ v = <<t, n + 1, c.name>>)
  BY <1>1, <1>2, <1>3, <1>4
<1>6. QED
  BY <1>5 DEF n

LEMMA NodesPop ==
  ASSUME TypeOK, StackShape, NEW t \in Thread, stack[t] # <<>>,
         NEW ok \in BOOLEAN, Pop(t, ok)
  PROVE  NodesOf(t)' = IF Creating(Top(t)) THEN NodesOf(t) \ {Node(t)} ELSE NodesOf(t)
<1> DEFINE n == Len(stack[t])
           r == Resume(Caller(t), ok)
<1>1. /\ n \in Nat \ {0}
      /\ n = 1 => stack'[t] = <<>>
      /\ n > 1 => /\ Len(stack'[t]) = n - 1
                  /\ Caller(t) \in Call
                  /\ Caller(t) = stack[t][n - 1]
                  /\ \A i \in 1 .. n - 1 :
                       stack'[t][i] = IF i = n - 1 THEN r ELSE stack[t][i]
  BY PopFacts
<1>2. Caller(t) \in Call => r.name = Caller(t).name /\ (Creating(r) <=> Creating(Caller(t)))
  BY DEF Resume, Call, Kinds, Steps, Creating
<1>3. Node(t) = <<t, n, stack[t][n].name>> /\ Top(t) = stack[t][n]
  BY DEF Node, Top
<1>4. \A v : v \in NodesOf(t) <=>
        \E i \in 1 .. n : Creating(stack[t][i]) /\ v = <<t, i, stack[t][i].name>>
  BY DEF NodesOf, Frames
<1> HIDE DEF n, r
<1>5. \A v : v \in NodesOf(t)' <=>
        \E i \in 1 .. n - 1 : Creating(stack[t][i]) /\ v = <<t, i, stack[t][i].name>>
  <2>1. CASE n = 1
    <3>1. Len(<<>>) = 0 /\ 1 .. 0 = {}
      OBVIOUS
    <3>2. NodesOf(t)' = {}
      BY <1>1, <2>1, <3>1 DEF NodesOf, Frames
    <3>3. QED
      BY <2>1, <3>2
  <2>2. CASE n > 1
    <3>1. \A v : v \in NodesOf(t)' <=>
            \E i \in 1 .. n - 1 : Creating(stack'[t][i]) /\ v = <<t, i, stack'[t][i].name>>
      BY <1>1, <2>2 DEF NodesOf, Frames, Creating
    <3>2. \A i \in 1 .. n - 1 : /\ stack'[t][i].name = stack[t][i].name
                                /\ Creating(stack'[t][i]) <=> Creating(stack[t][i])
      BY <1>1, <1>2, <2>2
    <3>3. QED
      BY <3>1, <3>2
  <2>3. QED
    BY <1>1, <2>1, <2>2
<1>6. \A i : i \in 1 .. n <=> i \in 1 .. n - 1 \/ i = n
  BY <1>1
<1>7. n \notin 1 .. n - 1
  BY <1>1
<1>8. \A v : v \in NodesOf(t)' <=> v \in NodesOf(t) /\ ~(Creating(Top(t)) /\ v = Node(t))
  BY <1>3, <1>4, <1>5, <1>6, <1>7
<1>9. QED
  BY <1>8

-----------------------------------------------------------------------------
(***************************************************************************)
(* discovery_active holds exactly the names of the calls creating devices. *)
(***************************************************************************)
LEMMA ActiveSame ==
  ASSUME ActiveMatchesCalls, NEW t \in Thread,
         \A s \in Thread : s # t => stack'[s] = stack[s],
         NodesOf(t)' = NodesOf(t), active' = active
  PROVE  ActiveMatchesCalls'
<1>1. \A s \in Thread : NodesOf(s)' = NodesOf(s)
  BY NodesOther
<1>2. QED
  BY <1>1 DEF ActiveMatchesCalls

LEMMA ActiveGrows ==
  ASSUME ActiveMatchesCalls, NEW t \in Thread, NEW v,
         \A s \in Thread : s # t => stack'[s] = stack[s],
         NodesOf(t)' = NodesOf(t) \cup {v}, active' = active \cup {v}
  PROVE  ActiveMatchesCalls'
<1>1. \A s \in Thread : s # t => NodesOf(s)' = NodesOf(s)
  BY NodesOther
<1>2. active = UNION {NodesOf(s) : s \in Thread}
  BY DEF ActiveMatchesCalls
<1>3. ASSUME NEW w, w \in active' PROVE w \in UNION {NodesOf(s)' : s \in Thread}
  BY <1>1, <1>2, <1>3
<1>4. ASSUME NEW w, w \in UNION {NodesOf(s)' : s \in Thread} PROVE w \in active'
  BY <1>1, <1>2, <1>4
<1>5. active' = UNION {NodesOf(s)' : s \in Thread}
  BY <1>3, <1>4
<1>6. QED
  BY <1>5 DEF ActiveMatchesCalls

LEMMA ActiveShrinks ==
  ASSUME ActiveMatchesCalls, NEW t \in Thread,
         \A s \in Thread : s # t => stack'[s] = stack[s],
         NodesOf(t)' = NodesOf(t) \ {Node(t)}, active' = active \ {Node(t)}
  PROVE  ActiveMatchesCalls'
<1>1. \A s \in Thread : s # t => NodesOf(s)' = NodesOf(s)
  BY NodesOther
<1>2. active = UNION {NodesOf(s) : s \in Thread}
  BY DEF ActiveMatchesCalls
<1>3. \A s \in Thread : s # t => Node(t) \notin NodesOf(s)
  BY DEF NodesOf, Node
<1>4. ASSUME NEW w, w \in active' PROVE w \in UNION {NodesOf(s)' : s \in Thread}
  BY <1>1, <1>2, <1>4
<1>5. ASSUME NEW w, w \in UNION {NodesOf(s)' : s \in Thread} PROVE w \in active'
  BY <1>1, <1>2, <1>3, <1>5
<1>6. active' = UNION {NodesOf(s)' : s \in Thread}
  BY <1>4, <1>5
<1>7. QED
  BY <1>6 DEF ActiveMatchesCalls

\* Every step keeps the list exact.
LEMMA ActiveInductive ==
  /\ Init => ActiveMatchesCalls
  /\ LockInv /\ ActiveMatchesCalls /\ [Next]_vars => ActiveMatchesCalls'
<1>1. ASSUME Init PROVE ActiveMatchesCalls
  <2>1. Len(<<>>) = 0 /\ 1 .. 0 = {}
    OBVIOUS
  <2>2. \A t \in Thread : NodesOf(t) = {}
    BY <1>1, <2>1 DEF Init, NodesOf, Frames
  <2>3. UNION {NodesOf(t) : t \in Thread} = {}
    BY <2>2
  <2>4. QED
    BY <1>1, <2>3 DEF Init, ActiveMatchesCalls
<1>2. ASSUME LockInv, ActiveMatchesCalls, NEW t \in Thread, Start(t)
      PROVE  ActiveMatchesCalls'
  <2>1. PICK n \in Name :
          \/ \E p \in BOOLEAN : StartLookup(t, n, p)
          \/ StartMounts(t, n)
          \/ StartRescan(t, n)
    BY <1>2 DEF Start
  <2>2. TypeOK
    BY <1>2 DEF LockInv
  <2>3. ASSUME NEW c \in Call, ~Creating(c), Push(t, c), active' = active
        PROVE  ActiveMatchesCalls'
    BY <1>2, <2>2, <2>3, NodesPush, PushFacts, ActiveSame
  <2>4. CASE \E p \in BOOLEAN : StartLookup(t, n, p)
    <3>1. PICK p \in BOOLEAN : StartLookup(t, n, p)
      BY <2>4
    <3> DEFINE c == CallOf("create", n, p, "check", <<>>)
    <3>2. c \in Call /\ ~Creating(c)
      <4>1. <<>> \in Seq(Name)
        BY EmptySeq
      <4>2. QED BY <4>1 DEF CallOf, Call, Creating, Kinds, Steps
    <3>3. QED
      BY <2>3, <3>1, <3>2 DEF StartLookup
  <2>5. CASE StartMounts(t, n)
    <3> DEFINE c == CallOf("mounts", n, TRUE, "mounts", Mounts)
    <3>1. c \in Call /\ ~Creating(c)
      BY NameAssumption DEF CallOf, Call, Creating, Kinds, Steps
    <3>2. QED
      BY <2>3, <2>5, <3>1 DEF StartMounts
  <2>6. CASE StartRescan(t, n)
    <3>1. PICK k \in {1, 2} : RescanKnown(t, n, k) \/ RescanUnknown(t, n, k)
      BY <2>6 DEF StartRescan
    <3>2. CASE RescanKnown(t, n, k)
      <4>1. PICK d \in Match(n) : Push(t, CallOf("refresh", d, FALSE, "bus", Slaves[d]))
        BY <3>2 DEF RescanKnown
      <4> DEFINE c == CallOf("refresh", d, FALSE, "bus", Slaves[d])
      <4>2. d \in Name
        BY NameAssumption DEF Match
      <4>3. c \in Call /\ ~Creating(c)
        BY <4>2, NameAssumption DEF CallOf, Call, Creating, Kinds, Steps
      <4>4. QED
        BY <2>3, <3>2, <4>1, <4>3 DEF RescanKnown
    <3>3. CASE RescanUnknown(t, n, k)
      <4> DEFINE c == CallOf("create", n, FALSE, "bus", Slaves[n])
      <4>1. c \in Call /\ Creating(c) /\ c.name = n
        BY NameAssumption DEF CallOf, Call, Creating, Kinds, Steps
      <4>2. Push(t, c) /\ stack[t] = <<>> /\ active' = active \cup {<<t, 1, n>>}
        BY <3>3 DEF RescanUnknown
      <4>3. Len(stack[t]) + 1 = 1
        BY <4>2, EmptySeq
      <4> HIDE DEF c
      <4>4. NodesOf(t)' = NodesOf(t) \cup {<<t, 1, n>>}
        BY <2>2, <4>1, <4>2, <4>3, NodesPush
      <4>5. QED
        BY <1>2, <2>2, <4>1, <4>2, <4>4, PushFacts, ActiveGrows
    <3>4. QED
      BY <3>1, <3>2, <3>3
  <2>7. QED
    BY <2>1, <2>4, <2>5, <2>6
<1>3. ASSUME LockInv, ActiveMatchesCalls, NEW t \in Thread, Proceed(t)
      PROVE  ActiveMatchesCalls'
  <2>1. TypeOK /\ StackShape
    BY <1>3 DEF LockInv
  <2>2. ASSUME NEW at, At(t, at), NEW c \in Call, SetTop(t, c), c.name = Top(t).name,
               Creating(c) <=> Creating(Top(t)), active' = active
        PROVE  ActiveMatchesCalls'
    <3>1. stack[t] # <<>> /\ Top(t) = stack[t][Len(stack[t])]
      BY <2>2 DEF At, Top
    <3>2. Creating(c) => Node(t) \in NodesOf(t)
      BY <2>1, <2>2, <3>1, TopInStack DEF NodesOf, Node, Frames
    <3>3. NodesOf(t)' = NodesOf(t)
      BY <2>1, <2>2, <3>1, <3>2, NodesSetTop
    <3>4. QED
      BY <1>3, <2>1, <2>2, <3>1, <3>3, SetTopFacts, ActiveSame
  <2>3. ASSUME NEW c \in Call, ~Creating(c), Push(t, c), active' = active
        PROVE  ActiveMatchesCalls'
    BY <1>3, <2>1, <2>3, NodesPush, PushFacts, ActiveSame
  <2>4. ASSUME NEW at, At(t, at), NEW ok \in BOOLEAN, Pop(t, ok), ~Creating(Top(t)),
               active' = active
        PROVE  ActiveMatchesCalls'
    BY <1>3, <2>1, <2>4, NodesPop, PopFacts, ActiveSame DEF At
  <2>5. CASE LookupWait(t) \/ LookupRelock(t)
    <3>1. PICK at \in {"check", "relock"}, to \in {"check", "relock"} :
            At(t, at) /\ SetTop(t, [Top(t) EXCEPT !.pc = to]) /\ active' = active
      BY <2>5 DEF LookupWait, LookupRelock, Goto
    <3>2. Top(t) \in Call /\ Top(t).pc = at
      BY <1>3, <3>1, InCall
    <3> DEFINE c == [Top(t) EXCEPT !.pc = to]
    <3>3. c \in Call /\ c.name = Top(t).name /\ (Creating(c) <=> Creating(Top(t)))
      BY <3>1, <3>2 DEF Call, Steps, Creating
    <3>4. QED
      BY <2>2, <3>1, <3>3
  <2>6. CASE RescanBus(t) \/ RescanFails(t) \/ ExploreDone(t)
    <3>1. PICK at \in {"bus", "explore"}, to \in {"explore", "fail", "publish"} :
            At(t, at) /\ SetTop(t, [Top(t) EXCEPT !.pc = to]) /\ active' = active
      BY <2>6 DEF RescanBus, RescanFails, ExploreDone, Goto
    <3>2. Top(t) \in Call /\ Top(t).pc = at
      BY <1>3, <3>1, InCall
    <3> DEFINE c == [Top(t) EXCEPT !.pc = to]
    <3>3. c \in Call /\ c.name = Top(t).name /\ (Creating(c) <=> Creating(Top(t)))
      BY <3>1, <3>2 DEF Call, Steps, Creating
    <3>4. QED
      BY <2>2, <3>1, <3>3
  <2>7. CASE LookupHit(t)
    <3>1. At(t, "check") /\ Pop(t, TRUE) /\ active' = active
      BY <2>7 DEF LookupHit, Return
    <3>2. ~Creating(Top(t))
      BY <3>1 DEF At, Creating
    <3>3. QED BY <2>4, <3>1, <3>2
  <2>8. CASE LookupMiss(t)
    <3> DEFINE c == [Top(t) EXCEPT !.pc = "bus", !.todo = Slaves[Top(t).name]]
    <3>1. At(t, "check") /\ SetTop(t, c) /\ active' = active \cup {Node(t)}
      BY <2>8 DEF LookupMiss
    <3>2. /\ Top(t) \in Call /\ Top(t).pc = "check" /\ stack[t] # <<>>
          /\ Fits(Top(t))
      BY <1>3, <3>1, InCall
    <3>3. /\ c \in Call /\ c.name = Top(t).name /\ ~Creating(Top(t)) /\ Creating(c)
      BY <3>2, NameAssumption DEF Call, Kinds, Steps, Creating, Fits
    <3> HIDE DEF c
    <3>4. NodesOf(t)' = NodesOf(t) \cup {Node(t)}
      BY <2>1, <3>1, <3>2, <3>3, NodesSetTop
    <3>5. QED
      BY <1>3, <2>1, <3>1, <3>2, <3>3, <3>4, SetTopFacts, ActiveGrows
  <2>9. CASE ExploreSlave(t)
    <3> DEFINE c == CallOf("create", Head(Top(t).todo), FALSE, "check", <<>>)
    <3>1. At(t, "explore") /\ Top(t).todo # <<>> /\ Push(t, c) /\ active' = active
      BY <2>9 DEF ExploreSlave
    <3>2. Head(Top(t).todo) \in Name
      BY <1>3, <3>1, InCall, HeadTailProperties DEF Call
    <3>3. c \in Call /\ ~Creating(c)
      <4>1. <<>> \in Seq(Name)
        BY EmptySeq
      <4>2. QED BY <3>2, <4>1 DEF CallOf, Call, Creating, Kinds, Steps
    <3>4. QED
      BY <2>3, <3>1, <3>3
  <2>10. CASE MountLine(t)
    <3> DEFINE c == CallOf("create", Head(Top(t).todo), TRUE, "check", <<>>)
    <3>1. At(t, "mounts") /\ Top(t).todo # <<>> /\ Push(t, c) /\ active' = active
      BY <2>10 DEF MountLine
    <3>2. Head(Top(t).todo) \in Name
      BY <1>3, <3>1, InCall, HeadTailProperties DEF Call
    <3>3. c \in Call /\ ~Creating(c)
      <4>1. <<>> \in Seq(Name)
        BY EmptySeq
      <4>2. QED BY <3>2, <4>1 DEF CallOf, Call, Creating, Kinds, Steps
    <3>4. QED
      BY <2>3, <3>1, <3>3
  <2>11. CASE RescanPublish(t)
    <3>1. At(t, "publish") /\ active' = active
      BY <2>11 DEF RescanPublish
    <3>2. Top(t) \in Call /\ Top(t).pc = "publish" /\ Fits(Top(t))
      BY <1>3, <3>1, InCall
    <3>3. CASE Top(t).kind = "refresh"
      <4> DEFINE c == [Top(t) EXCEPT !.pc = "mounts", !.todo = Mounts]
      <4>1. SetTop(t, c)
        BY <2>11, <3>3 DEF RescanPublish
      <4>2. c \in Call /\ c.name = Top(t).name /\ (Creating(c) <=> Creating(Top(t)))
        BY <3>2, <3>3, NameAssumption DEF Call, Steps, Creating
      <4>3. QED BY <2>2, <3>1, <4>1, <4>2
    <3>4. CASE Top(t).kind # "refresh"
      <4> DEFINE c == [Top(t) EXCEPT !.pc = "del", !.ok = TRUE]
      <4>1. SetTop(t, c)
        BY <2>11, <3>4 DEF RescanPublish
      <4>2. c \in Call /\ c.name = Top(t).name /\ (Creating(c) <=> Creating(Top(t)))
        BY <3>2, <3>4 DEF Call, Kinds, Steps, Creating, Fits
      <4>3. QED BY <2>2, <3>1, <4>1, <4>2
    <3>5. QED BY <3>3, <3>4
  <2>12. CASE ClobberDevice(t)
    <3>1. At(t, "fail") /\ active' = active
      BY <2>12 DEF ClobberDevice
    <3>2. Top(t) \in Call /\ Top(t).pc = "fail" /\ Fits(Top(t))
      BY <1>3, <3>1, InCall
    <3>3. CASE Top(t).kind = "refresh"
      <4>1. Pop(t, FALSE) /\ ~Creating(Top(t))
        BY <2>12, <3>3 DEF ClobberDevice, Return, Creating
      <4>2. QED BY <2>4, <3>1, <4>1
    <3>4. CASE Top(t).kind # "refresh"
      <4> DEFINE c == [Top(t) EXCEPT !.pc = "del"]
      <4>1. SetTop(t, c)
        BY <2>12, <3>4 DEF ClobberDevice, Goto
      <4>2. c \in Call /\ c.name = Top(t).name /\ (Creating(c) <=> Creating(Top(t)))
        BY <3>2, <3>4 DEF Call, Kinds, Steps, Creating, Fits
      <4>3. QED BY <2>2, <3>1, <4>1, <4>2
    <3>5. QED BY <3>3, <3>4
  <2>13. CASE FinishCreate(t)
    <3>1. At(t, "del") /\ Pop(t, Top(t).ok) /\ active' = active \ {Node(t)}
      BY <2>13 DEF FinishCreate
    <3>2. /\ Top(t) \in Call /\ Top(t).pc = "del" /\ Fits(Top(t)) /\ stack[t] # <<>>
      BY <1>3, <3>1, InCall
    <3>3. Creating(Top(t)) /\ Top(t).ok \in BOOLEAN
      BY <3>2 DEF Creating, Call, Kinds, Fits
    <3>4. NodesOf(t)' = NodesOf(t) \ {Node(t)}
      BY <2>1, <3>1, <3>2, <3>3, NodesPop
    <3>5. QED
      BY <1>3, <2>1, <3>1, <3>2, <3>3, <3>4, PopFacts, ActiveShrinks
  <2>14. CASE MountsDone(t)
    <3>1. At(t, "mounts") /\ Pop(t, TRUE) /\ active' = active
      BY <2>14 DEF MountsDone, Return
    <3>2. ~Creating(Top(t))
      BY <3>1 DEF At, Creating
    <3>3. QED BY <2>4, <3>1, <3>2
  <2>15. CASE LookupSpin(t)
    BY <1>3, <2>15 DEF LookupSpin, vars, ActiveMatchesCalls, NodesOf, Frames
  <2>16. QED
    BY <1>3, <2>5, <2>6, <2>7, <2>8, <2>9, <2>10, <2>11, <2>12, <2>13, <2>14, <2>15
       DEF Proceed
<1>4. ASSUME ActiveMatchesCalls, UNCHANGED vars PROVE ActiveMatchesCalls'
  BY <1>4 DEF vars, ActiveMatchesCalls, NodesOf, Frames
<1>5. QED
  BY <1>1, <1>2, <1>3, <1>4 DEF Next

\* The list of discoveries in progress never keeps a name whose discovery is
\* over, nor lacks one whose discovery is going on, whatever fails on the way.
THEOREM ActiveExact == Spec => []ActiveMatchesCalls
BY LockInvInductive, ActiveInductive, PTL DEF Spec

-----------------------------------------------------------------------------
(***************************************************************************)
(* Bare lookups only: the list serialises the discoveries of a name, so no *)
(* name gets a second record.                                              *)
(***************************************************************************)
BareOnly == \A t \in Thread : Ops[t] \subseteq {"lookup"}

Exploring(c) == c.pc \in {"bus", "explore", "publish"}

\* One call in a stack: a bare lookup, and while it explores a device the
\* table has no record of it; only whole devices get as far as a record.
BareCall(c) ==
  /\ c.kind = "create" /\ ~c.path
  /\ Exploring(c) => table[c.name] = 0
  /\ c.pc = "publish" => ~IsPartition(c.name)

BareCalls == \A t \in Thread : \A i \in Frames(t) : BareCall(stack[t][i])

Distinct == \A v, w \in active : v[3] = w[3] => v = w

OneRecord == \A n \in Name : table[n] <= 1 /\ (IsPartition(n) => table[n] = 0)

UniqueInv ==
  /\ LockInv
  /\ ActiveMatchesCalls
  /\ BareCalls
  /\ Distinct
  /\ OneRecord

LEMMA BareTop ==
  ASSUME UniqueInv, NEW t \in Thread, stack[t] # <<>>
  PROVE  BareCall(Top(t)) /\ TypeOK /\ StackShape
BY TopInStack DEF UniqueInv, LockInv, BareCalls, Frames, Top

\* A step that leaves the table alone and changes one call.
LEMMA BareSetTop ==
  ASSUME UniqueInv, NEW t \in Thread, stack[t] # <<>>, NEW c \in Call,
         SetTop(t, c), table' = table, BareCall(c)
  PROVE  BareCalls'
<1>1. TypeOK
  BY BareTop
<1>2. \A s \in Thread : \A i \in Frames(s) : BareCall(stack[s][i])
  BY DEF UniqueInv, BareCalls
<1>3. /\ \A s \in Thread : s # t => stack'[s] = stack[s]
      /\ Len(stack'[t]) = Len(stack[t])
      /\ \A i \in 1 .. Len(stack[t]) :
           stack'[t][i] = IF i = Len(stack[t]) THEN c ELSE stack[t][i]
  BY <1>1, SetTopFacts
<1>4. \A d : BareCall(d)' <=> BareCall(d)
  BY DEF BareCall, Exploring
<1>5. \A s \in Thread : \A i \in Frames(s)' : BareCall(stack'[s][i])
  BY <1>2, <1>3 DEF Frames
<1>6. QED
  BY <1>4, <1>5 DEF BareCalls

LEMMA BarePush ==
  ASSUME UniqueInv, NEW t \in Thread, NEW c \in Call,
         Push(t, c), table' = table, BareCall(c)
  PROVE  BareCalls'
<1>1. TypeOK
  BY DEF UniqueInv, LockInv
<1>2. \A s \in Thread : \A i \in Frames(s) : BareCall(stack[s][i])
  BY DEF UniqueInv, BareCalls
<1> DEFINE n == Len(stack[t])
<1>3. /\ \A s \in Thread : s # t => stack'[s] = stack[s]
      /\ n \in Nat /\ Len(stack'[t]) = n + 1
      /\ \A i \in 1 .. n : stack'[t][i] = stack[t][i]
      /\ stack'[t][n + 1] = c
  BY <1>1, PushFacts
<1>4. \A d : BareCall(d)' <=> BareCall(d)
  BY DEF BareCall, Exploring
<1>5. \A i \in 1 .. n : BareCall(stack[t][i])
  BY <1>2 DEF Frames
<1> HIDE DEF n
<1>6. \A i \in 1 .. n + 1 : BareCall(stack'[t][i])
  <2>1. \A i \in 1 .. n + 1 : i = n + 1 \/ i \in 1 .. n
    BY <1>3
  <2>2. QED BY <1>3, <1>5, <2>1
<1>7. \A s \in Thread : \A i \in Frames(s)' : BareCall(stack'[s][i])
  BY <1>2, <1>3, <1>6 DEF Frames
<1>8. QED
  BY <1>4, <1>7 DEF BareCalls

LEMMA BarePop ==
  ASSUME UniqueInv, NEW t \in Thread, stack[t] # <<>>, NEW ok \in BOOLEAN,
         Pop(t, ok), table' = table
  PROVE  BareCalls'
<1>1. TypeOK /\ StackShape
  BY BareTop
<1>2. \A s \in Thread : \A i \in Frames(s) : BareCall(stack[s][i])
  BY DEF UniqueInv, BareCalls
<1> DEFINE n == Len(stack[t])
           r == Resume(Caller(t), ok)
<1>3. /\ \A s \in Thread : s # t => stack'[s] = stack[s]
      /\ n \in Nat \ {0}
      /\ n = 1 => stack'[t] = <<>>
      /\ n > 1 => /\ Len(stack'[t]) = n - 1
                  /\ Caller(t) \in Call
                  /\ Caller(t) = stack[t][n - 1]
                  /\ \A i \in 1 .. n - 1 :
                       stack'[t][i] = IF i = n - 1 THEN r ELSE stack[t][i]
  BY <1>1, PopFacts
<1>4. \A d : BareCall(d)' <=> BareCall(d)
  BY DEF BareCall, Exploring
<1>5. Caller(t) \in Call /\ BareCall(Caller(t)) => BareCall(r)
  BY DEF BareCall, Exploring, Resume, Call
<1>6. \A i \in 1 .. n : BareCall(stack[t][i])
  BY <1>2 DEF Frames
<1> HIDE DEF n, r
<1>7. CASE n = 1
  <2>1. Len(<<>>) = 0 /\ 1 .. 0 = {}
    OBVIOUS
  <2>2. \A s \in Thread : \A i \in Frames(s)' : BareCall(stack'[s][i])
    BY <1>2, <1>3, <1>7, <2>1 DEF Frames
  <2>3. QED
    BY <1>4, <2>2 DEF BareCalls
<1>8. CASE n > 1
  <2>1. n - 1 \in 1 .. n /\ \A i \in 1 .. n - 1 : i \in 1 .. n
    BY <1>3, <1>8
  <2>2. BareCall(r)
    BY <1>3, <1>5, <1>6, <1>8, <2>1
  <2>3. \A i \in 1 .. n - 1 : BareCall(stack'[t][i])
    BY <1>3, <1>6, <1>8, <2>1, <2>2
  <2>4. \A s \in Thread : \A i \in Frames(s)' : BareCall(stack'[s][i])
    BY <1>2, <1>3, <1>8, <2>3 DEF Frames
  <2>5. QED
    BY <1>4, <2>4 DEF BareCalls
<1>9. QED
  BY <1>3, <1>7, <1>8

-----------------------------------------------------------------------------
\* A step of the list and the table that the abstract specification allows.
Promised == Promise!TableNext \/ UNCHANGED <<Discoverings, table>>

\* Steps that touch neither the list nor the table.
LEMMA QuietStep ==
  ASSUME UniqueInv, BareCalls', active' = active, table' = table
  PROVE  BareCalls' /\ Distinct' /\ OneRecord' /\ Promised
BY DEF UniqueInv, Distinct, OneRecord, Promised, Discoverings

LEMMA UniqueMiss ==
  ASSUME UniqueInv, NEW t \in Thread, LookupMiss(t)
  PROVE  BareCalls' /\ Distinct' /\ OneRecord' /\ Promised
<1> DEFINE n == Top(t).name
           c == [Top(t) EXCEPT !.pc = "bus", !.todo = Slaves[n]]
<1>1. /\ At(t, "check") /\ ~MustWait(Top(t)) /\ ~Known(n)
      /\ SetTop(t, c) /\ active' = active \cup {Node(t)} /\ table' = table
  BY DEF LookupMiss
<1>2. LockInv /\ TypeOK /\ stack[t] # <<>> /\ Top(t) \in Call
  BY <1>1, InCall DEF UniqueInv
<1>3. n \in Name /\ DiskOf[n] \in Name
  BY <1>2, NameAssumption DEF Call
<1>4. BareCall(Top(t))
  BY <1>2, BareTop
<1>5. ~Discovering(n)
  BY <1>1, <1>4 DEF MustWait, BareCall
<1>6. table[n] = 0
  <2>1. table[n] \in Nat /\ table[DiskOf[n]] \in Nat /\ ~(table[DiskOf[n]] > 0)
    BY <1>1, <1>2, <1>3 DEF TypeOK, Known
  <2>2. IsPartition(n) => table[n] = 0
    BY <1>3 DEF UniqueInv, OneRecord
  <2>3. QED
    BY <2>1, <2>2 DEF IsPartition
<1>7. c \in Call /\ BareCall(c)
  <2>1. c \in Call
    BY <1>2, <1>3, NameAssumption DEF Call, Steps
  <2>2. c.kind = "create" /\ ~c.path /\ c.name = n /\ c.pc = "bus"
    BY <1>2, <1>4 DEF BareCall, Call
  <2>3. QED
    BY <1>6, <2>1, <2>2 DEF BareCall
<1>8. Node(t)[3] = n
  BY DEF Node
<1> HIDE DEF n, c
<1>9. BareCalls'
  BY <1>1, <1>2, <1>7, BareSetTop
<1>10. Distinct'
  BY <1>1, <1>5, <1>8 DEF UniqueInv, Distinct, Discovering
<1>11. OneRecord'
  BY <1>1 DEF UniqueInv, OneRecord
<1>12. Promised
  <2>1. Discoverings' = Discoverings \cup {n}
    BY <1>1, <1>8 DEF Discoverings
  <2>2. n \notin Discoverings
    BY <1>5 DEF Discovering, Discoverings
  <2>3. Promise!Begin(n)
    BY <1>1, <1>6, <2>1, <2>2 DEF Promise!Begin
  <2>4. QED
    BY <1>3, <2>3 DEF Promised, Promise!TableNext
<1>13. QED
  BY <1>9, <1>10, <1>11, <1>12

LEMMA UniquePublish ==
  ASSUME UniqueInv, NEW t \in Thread, RescanPublish(t)
  PROVE  BareCalls' /\ Distinct' /\ OneRecord' /\ Promised
<1> DEFINE n == Top(t).name
           m == Len(stack[t])
           c == [Top(t) EXCEPT !.pc = "del", !.ok = TRUE]
<1>1. /\ At(t, "publish") /\ table' = [table EXCEPT ![n] = @ + 1] /\ active' = active
  BY DEF RescanPublish
<1>2. LockInv /\ TypeOK /\ stack[t] # <<>> /\ Top(t) \in Call /\ Top(t).pc = "publish"
  BY <1>1, InCall DEF UniqueInv
<1>3. BareCall(Top(t)) /\ n \in Name
  BY <1>2, BareTop DEF Call
<1>4. /\ Top(t).kind = "create" /\ ~Top(t).path /\ table[n] = 0 /\ ~IsPartition(n)
      /\ Creating(Top(t))
  BY <1>2, <1>3 DEF BareCall, Exploring, Creating
<1>5. SetTop(t, c)
  BY <1>4 DEF RescanPublish
<1>6. c \in Call /\ c.kind = "create" /\ ~c.path /\ c.pc = "del" /\ c.name = n
  BY <1>2, <1>4 DEF Call, Steps
<1>7. m \in 1 .. m /\ Top(t) = stack[t][m]
  BY <1>2, TopInStack DEF Top
<1>8. table' \in [Name -> Nat] /\ table'[n] = 1 /\ \A k \in Name : k # n => table'[k] = table[k]
  BY <1>1, <1>2, <1>3, <1>4 DEF TypeOK
<1>9. <<t, m, n>> \in active
  BY <1>4, <1>7 DEF UniqueInv, ActiveMatchesCalls, NodesOf, Frames
<1>10. /\ \A s \in Thread : s # t => stack'[s] = stack[s]
       /\ Len(stack'[t]) = m
       /\ \A i \in 1 .. m : stack'[t][i] = IF i = m THEN c ELSE stack[t][i]
  BY <1>2, <1>5, <1>6, SetTopFacts
<1> HIDE DEF n, m, c
<1>11. ASSUME NEW s \in Thread, NEW i \in 1 .. Len(stack[s]), <<s, i>> # <<t, m>>
       PROVE  BareCall(stack[s][i])'
  <2>1. stack'[s][i] = stack[s][i]
    BY <1>10, <1>11 DEF m
  <2>2. BareCall(stack[s][i]) /\ stack[s][i] \in Call
    BY <1>2, ElementOfSeq DEF UniqueInv, BareCalls, Frames, TypeOK
  <2>3. CASE Exploring(stack[s][i])
    <3>1. Creating(stack[s][i])
      BY <2>2, <2>3 DEF Exploring, Creating, BareCall
    <3>2. <<s, i, stack[s][i].name>> \in active
      BY <3>1 DEF UniqueInv, ActiveMatchesCalls, NodesOf, Frames
    <3>3. stack[s][i].name # n
      BY <1>9, <1>11, <3>2 DEF UniqueInv, Distinct
    <3>4. stack[s][i].name \in Name
      BY <2>2 DEF Call
    <3>5. QED
      BY <1>8, <2>1, <2>2, <3>3, <3>4 DEF BareCall, Exploring
  <2>4. CASE ~Exploring(stack[s][i])
    BY <2>1, <2>2, <2>4 DEF BareCall, Exploring
  <2>5. QED
    BY <2>3, <2>4
<1>12. BareCalls'
  <2>1. /\ c.kind = "create" /\ ~c.path /\ ~Exploring(c) /\ c.pc # "publish"
    BY <1>6 DEF Exploring
  <2>2. \A s \in Thread : \A i \in 1 .. Len(stack[s]) :
          LET d == stack'[s][i] IN
            /\ d.kind = "create" /\ ~d.path
            /\ Exploring(d) => table'[d.name] = 0
            /\ d.pc = "publish" => ~IsPartition(d.name)
    <3> SUFFICES ASSUME NEW s \in Thread, NEW i \in 1 .. Len(stack[s])
                 PROVE  LET d == stack'[s][i] IN
                          /\ d.kind = "create" /\ ~d.path
                          /\ Exploring(d) => table'[d.name] = 0
                          /\ d.pc = "publish" => ~IsPartition(d.name)
      OBVIOUS
    <3>1. CASE <<s, i>> = <<t, m>>
      <4>1. stack'[s][i] = c
        BY <1>7, <1>10, <3>1
      <4>2. QED BY <2>1, <4>1
    <3>2. CASE <<s, i>> # <<t, m>>
      BY <1>11, <3>2 DEF BareCall, Exploring
    <3>3. QED BY <3>1, <3>2
  <2>3. \A s \in Thread : Frames(s)' = 1 .. Len(stack[s])
    BY <1>10 DEF Frames, m
  <2>4. \A s \in Thread : \A i \in Frames(s)' :
          LET d == stack'[s][i] IN
            /\ d.kind = "create" /\ ~d.path
            /\ Exploring(d) => table'[d.name] = 0
            /\ d.pc = "publish" => ~IsPartition(d.name)
    BY <2>2, <2>3
  <2>5. QED
    BY <2>4 DEF BareCalls, BareCall, Exploring
<1>13. Distinct'
  BY <1>1 DEF UniqueInv, Distinct
<1>14. OneRecord'
  BY <1>4, <1>8 DEF UniqueInv, OneRecord, IsPartition
<1>15. Promised
  <2>1. n \in Discoverings /\ Discoverings' = Discoverings
    BY <1>1, <1>9 DEF Discoverings
  <2>2. table' = [table EXCEPT ![n] = 1]
    BY <1>1, <1>2, <1>3, <1>4 DEF TypeOK
  <2>3. Promise!Publish(n)
    BY <1>4, <2>1, <2>2 DEF Promise!Publish
  <2>4. QED
    BY <1>3, <2>3 DEF Promised, Promise!TableNext, n
<1>16. QED
  BY <1>12, <1>13, <1>14, <1>15

LEMMA UniqueFinish ==
  ASSUME UniqueInv, NEW t \in Thread, FinishCreate(t)
  PROVE  BareCalls' /\ Distinct' /\ OneRecord' /\ Promised
<1> DEFINE n == Top(t).name
<1>1. /\ At(t, "del") /\ Pop(t, Top(t).ok) /\ active' = active \ {Node(t)}
      /\ table' = table
  BY DEF FinishCreate
<1>2. LockInv /\ TypeOK /\ stack[t] # <<>> /\ Top(t) \in Call /\ Top(t).pc = "del"
  BY <1>1, InCall DEF UniqueInv
<1>3. n \in Name /\ Top(t).ok \in BOOLEAN /\ BareCall(Top(t))
  BY <1>2, BareTop DEF Call
<1>4. Node(t) \in active /\ Node(t)[3] = n
  <2>1. Creating(Top(t))
    BY <1>2, <1>3 DEF BareCall, Creating
  <2>2. QED
    BY <1>2, <2>1, TopInStack DEF UniqueInv, ActiveMatchesCalls, NodesOf, Frames, Node, Top
<1>5. BareCalls'
  BY <1>1, <1>2, <1>3, BarePop
<1> HIDE DEF n
<1>6. Distinct'
  BY <1>1 DEF UniqueInv, Distinct
<1>7. OneRecord'
  BY <1>1 DEF UniqueInv, OneRecord
<1>8. Promised
  <2>1. Discoverings' = Discoverings \ {n}
    BY <1>1, <1>4 DEF Discoverings, UniqueInv, Distinct
  <2>2. n \in Discoverings
    BY <1>4 DEF Discoverings
  <2>3. Promise!Finish(n)
    BY <1>1, <2>1, <2>2 DEF Promise!Finish
  <2>4. QED
    BY <1>3, <2>3 DEF Promised, Promise!TableNext
<1>9. QED
  BY <1>5, <1>6, <1>7, <1>8

\* With bare lookups only, every step keeps the table unique and is a step of
\* the abstract specification, or none.
LEMMA UniqueStep ==
  ASSUME BareOnly, UniqueInv, Next
  PROVE  BareCalls' /\ Distinct' /\ OneRecord' /\ Promised
<1>1. PICK t \in Thread : Start(t) \/ Proceed(t)
  BY DEF Next
<1>2. LockInv /\ TypeOK
  BY DEF UniqueInv, LockInv
<1>3. CASE Start(t)
  <2>1. Ops[t] \subseteq {"lookup"}
    BY DEF BareOnly
  <2>2. PICK n \in Name, p \in BOOLEAN : StartLookup(t, n, p)
    BY <1>3, <2>1 DEF Start, StartMounts, StartRescan
  <2> DEFINE c == CallOf("create", n, p, "check", <<>>)
  <2>3. ~p /\ Push(t, c) /\ active' = active /\ table' = table
    BY <2>1, <2>2 DEF StartLookup
  <2>4. c \in Call
    BY CallTypes, EmptySeq DEF Kinds, Steps
  <2>5. BareCall(c)
    BY <2>3 DEF BareCall, CallOf, Exploring
  <2> HIDE DEF c
  <2>6. BareCalls'
    BY <2>3, <2>4, <2>5, BarePush
  <2>7. QED
    BY <2>3, <2>6, QuietStep
<1>4. CASE Proceed(t)
  <2>1. ASSUME NEW at, At(t, at)
        PROVE  /\ stack[t] # <<>> /\ Top(t) \in Call /\ Top(t).pc = at
               /\ BareCall(Top(t))
    BY <1>2, <2>1, InCall, BareTop
  <2>2. ASSUME NEW at, At(t, at), NEW c \in Call, SetTop(t, c), BareCall(c),
               active' = active, table' = table
        PROVE  BareCalls' /\ Distinct' /\ OneRecord' /\ Promised
    BY <2>1, <2>2, BareSetTop, QuietStep
  <2>3. CASE LookupWait(t) \/ LookupRelock(t) \/ RescanBus(t) \/ RescanFails(t) \/ ExploreDone(t)
    <3>1. PICK at \in {"check", "relock", "bus", "explore"},
               to \in {"check", "relock", "explore", "fail", "publish"} :
            /\ At(t, at) /\ SetTop(t, [Top(t) EXCEPT !.pc = to])
            /\ active' = active /\ table' = table
            /\ to \in {"explore", "publish"} => at \in {"bus", "explore"}
            /\ to = "publish" => ~IsPartition(Top(t).name)
      BY <2>3 DEF LookupWait, LookupRelock, RescanBus, RescanFails, ExploreDone, Goto
    <3> DEFINE c == [Top(t) EXCEPT !.pc = to]
    <3>2. c \in Call /\ BareCall(c)
      BY <2>1, <3>1 DEF BareCall, Exploring, Call, Steps
    <3>3. QED
      BY <2>2, <3>1, <3>2
  <2>4. CASE LookupSpin(t)
    <3>1. BareCalls'
      BY <2>4 DEF UniqueInv, LookupSpin, vars, BareCalls, BareCall, Exploring, Frames
    <3>2. QED
      BY <2>4, <3>1, QuietStep DEF LookupSpin, vars
  <2>5. CASE LookupHit(t)
    <3>1. At(t, "check") /\ Pop(t, TRUE) /\ active' = active /\ table' = table
      BY <2>5 DEF LookupHit, Return
    <3>2. QED
      BY <2>1, <3>1, BarePop, QuietStep
  <2>6. CASE ExploreSlave(t)
    <3> DEFINE c == CallOf("create", Head(Top(t).todo), FALSE, "check", <<>>)
    <3>1. /\ At(t, "explore") /\ Top(t).todo # <<>> /\ Push(t, c)
          /\ active' = active /\ table' = table
      BY <2>6 DEF ExploreSlave
    <3>2. Head(Top(t).todo) \in Name
      BY <2>1, <3>1, HeadTailProperties DEF Call
    <3>3. c \in Call
      BY <3>2, CallTypes, EmptySeq DEF Kinds, Steps
    <3>4. BareCall(c)
      BY DEF BareCall, CallOf, Exploring
    <3> HIDE DEF c
    <3>5. BareCalls'
      BY <3>1, <3>3, <3>4, BarePush
    <3>6. QED
      BY <3>1, <3>5, QuietStep
  <2>7. CASE ClobberDevice(t)
    <3>1. At(t, "fail") /\ active' = active /\ table' = table
      BY <2>7 DEF ClobberDevice
    <3>2. Top(t).kind # "refresh"
      BY <2>1, <3>1 DEF BareCall
    <3> DEFINE c == [Top(t) EXCEPT !.pc = "del"]
    <3>3. SetTop(t, c)
      BY <2>7, <3>2 DEF ClobberDevice, Goto
    <3>4. c \in Call /\ BareCall(c)
      BY <2>1, <3>1 DEF BareCall, Exploring, Call, Steps
    <3>5. QED
      BY <2>2, <3>1, <3>3, <3>4
  <2>8. CASE MountLine(t) \/ MountsDone(t)
    <3>1. At(t, "mounts")
      BY <2>8 DEF MountLine, MountsDone
    <3>2. Fits(Top(t))
      BY <1>2, <3>1, InCall
    <3>3. QED
      BY <2>1, <3>1, <3>2 DEF BareCall, Fits
  <2>9. QED
    BY <1>4, <2>3, <2>4, <2>5, <2>6, <2>7, <2>8, UniqueMiss, UniquePublish, UniqueFinish
       DEF Proceed
<1>5. QED
  BY <1>1, <1>3, <1>4

LEMMA UniqueInductive ==
  ASSUME BareOnly
  PROVE  /\ Init => BareCalls /\ Distinct /\ OneRecord
         /\ UniqueInv /\ LockInv' /\ ActiveMatchesCalls' /\ [Next]_vars => UniqueInv'
<1>1. Init => BareCalls /\ Distinct /\ OneRecord
  <2> SUFFICES ASSUME Init PROVE BareCalls /\ Distinct /\ OneRecord
    OBVIOUS
  <2>1. Len(<<>>) = 0 /\ 1 .. 0 = {}
    OBVIOUS
  <2>2. \A t \in Thread : Frames(t) = {}
    BY <2>1 DEF Init, Frames
  <2>3. BareCalls
    BY <2>2 DEF BareCalls
  <2>4. Distinct /\ OneRecord
    BY DEF Init, Distinct, OneRecord
  <2>5. QED
    BY <2>3, <2>4
<1>2. ASSUME UniqueInv, LockInv', ActiveMatchesCalls', [Next]_vars
      PROVE  UniqueInv'
  <2>1. CASE Next
    BY <1>2, <2>1, UniqueStep DEF UniqueInv
  <2>2. CASE UNCHANGED vars
    <3>1. BareCalls' /\ Distinct' /\ OneRecord'
      BY <1>2, <2>2
         DEF UniqueInv, vars, BareCalls, BareCall, Exploring, Frames, Distinct, OneRecord
    <3>2. QED
      BY <1>2, <3>1 DEF UniqueInv
  <2>3. QED
    BY <1>2, <2>1, <2>2
<1>3. QED
  BY <1>1, <1>2

LEMMA UniqueAlways == ASSUME BareOnly PROVE Spec => []UniqueInv
<1>1. Spec => []LockInv /\ []ActiveMatchesCalls
  BY LockInvInductive, ActiveInductive, PTL DEF Spec
<1>2. Init /\ LockInv /\ ActiveMatchesCalls => UniqueInv
  BY UniqueInductive DEF UniqueInv
<1>3. UniqueInv /\ LockInv' /\ ActiveMatchesCalls' /\ [Next]_vars => UniqueInv'
  BY UniqueInductive
<1>4. QED
  BY <1>1, <1>2, <1>3, PTL DEF Spec

\* Bare lookups never build two records of one name, nor explore it twice at
\* the same time, for any threads, names, slaves and failures.
THEOREM UniqueDiscovery == ASSUME BareOnly PROVE Spec => []UniqueRecords
<1>1. UniqueInv => UniqueRecords
  BY DEF UniqueInv, Distinct, OneRecord, UniqueRecords
<1>2. QED
  BY <1>1, UniqueAlways, PTL

\* Bare lookups implement the abstract specification: a name is discovered by
\* one thread at a time, only while unknown, and gets one record.
THEOREM DiscoveryImplementsTable == ASSUME BareOnly PROVE Spec => KeepsPromise
<1>1. Init => Promise!TableInit
  BY DEF Init, Promise!TableInit, Discoverings
<1>2. UniqueInv /\ [Next]_vars => [Promise!TableNext]_(Promise!tableVars)
  <2> SUFFICES ASSUME UniqueInv, [Next]_vars
               PROVE  Promise!TableNext \/ UNCHANGED <<Discoverings, table>>
    BY DEF Promise!tableVars
  <2>1. CASE Next
    BY <2>1, UniqueStep DEF Promised
  <2>2. CASE UNCHANGED vars
    BY <2>2 DEF vars, Discoverings
  <2>3. QED
    BY <2>1, <2>2
<1>3. QED
  BY <1>1, <1>2, UniqueAlways, PTL DEF Spec, KeepsPromise, Promise!TableSpec

-----------------------------------------------------------------------------
(***************************************************************************)
(* Only lookups and rescans of its own thread begin a discovery while a    *)
(* known device is off its list.                                           *)
(***************************************************************************)
LEMMA CreateStep ==
  ASSUME LockInv, Next, NEW t \in Thread, Refreshing(t),
         NEW node \in active' \ active
  PROVE  node[1] = t
<1>1. owner = t /\ t # NoThread
  BY ThreadAssumption DEF LockInv, RefreshHoldsLock
<1>2. PICK s \in Thread : Start(s) \/ Proceed(s)
  BY DEF Next
<1>3. CASE \E n \in Name, k \in {1, 2} : RescanUnknown(s, n, k)
  BY <1>1, <1>3 DEF RescanUnknown, CanLock
<1>4. CASE LookupMiss(s)
  <2>1. owner = s
    BY <1>4 DEF LookupMiss, LockInv, LookupLocked
  <2>2. QED
    BY <1>1, <1>4, <2>1 DEF LookupMiss, Node
<1>5. CASE active' \subseteq active
  BY <1>5
<1>6. QED
  BY <1>2, <1>3, <1>4, <1>5
     DEF Start, Proceed, StartLookup, StartMounts, StartRescan, RescanKnown, LookupWait,
         LookupSpin, LookupRelock, LookupHit, RescanBus, RescanFails, ExploreSlave,
         ExploreDone, RescanPublish, ClobberDevice, FinishCreate, MountLine, MountsDone, vars

\* While rescan_device has a device off its list no other thread begins a
\* discovery, for any threads, names, slaves and failures.
THEOREM RefreshExcludesOthers == Spec => NoCreateDuringRefresh
<1>1. LockInv /\ [Next]_vars =>
        [\A t \in Thread : Refreshing(t) =>
           \A node \in active' \ active : node[1] = t]_vars
  BY CreateStep
<1>2. QED
  BY <1>1, LockInvInductive, PTL DEF Spec, NoCreateDuringRefresh
=============================================================================
