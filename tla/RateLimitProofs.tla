-------------------------- MODULE RateLimitProofs --------------------------
\* The limiter's bounds, for every Max, Window and run of the clock.
EXTENDS RateLimit, TLAPS

\* What goes through is the last element of the new sequence, and the others
\* stay where they were.
LEMMA AppendFacts ==
  ASSUME NEW s \in Seq(Nat), NEW x \in Nat
  PROVE  /\ Append(s, x) \in Seq(Nat)
         /\ Len(Append(s, x)) = Len(s) + 1
         /\ Append(s, x)[Len(s) + 1] = x
         /\ \A i \in DOMAIN s : Append(s, x)[i] = s[i]
         /\ DOMAIN Append(s, x) = 1..(Len(s) + 1)
         /\ DOMAIN s = 1..Len(s)
OBVIOUS

\* The variables keep their types, and the window never starts in the future.
THEOREM TypeCorrect == Spec => []TypeOK
<1>1. Init => TypeOK
  BY DEF Init, TypeOK
<1>2. TypeOK /\ [Next]_vars => TypeOK'
  <2>0. SUFFICES ASSUME TypeOK, [Next]_vars PROVE TypeOK'
    OBVIOUS
  <2>1. CASE Tick
    BY <2>0, <2>1 DEF TypeOK, Tick
  <2>2. CASE OnMessage
    <3>1. NewStart \in 0..now /\ NewCount \in Nat
      BY <2>0, LimitsAssumption DEF TypeOK, NewStart, NewCount
    <3>2. CASE passed' = Append(passed, now) /\ dropped' = dropped
      BY <2>0, <2>2, <3>1, <3>2, AppendFacts DEF TypeOK, OnMessage
    <3>3. CASE passed' = passed /\ dropped' = dropped + 1
      BY <2>0, <2>2, <3>1, <3>3 DEF TypeOK, OnMessage
    <3> QED
      BY <2>2, <3>2, <3>3 DEF OnMessage
  <2>3. CASE UNCHANGED vars
    BY <2>0, <2>3 DEF TypeOK, vars
  <2> QED
    BY <2>0, <2>1, <2>2, <2>3 DEF Next
<1> QED
  BY <1>1, <1>2, PTL DEF Spec

-----------------------------------------------------------------------------
\* A message that goes through keeps the invariant.  In a new window all
\* earlier ones fall before it, and those before the last Max, which came before
\* the old start, fall Window before it.
LEMMA PassStep ==
  ASSUME TypeOK, WindowInv, OnMessage, NewCount <= Max
  PROVE  WindowInv'
<1> DEFINE n == Len(passed)
           c == IF rateCount < Max THEN rateCount ELSE Max
<1>0. /\ now \in Nat /\ rateStart \in Nat /\ rateStart <= now /\ rateCount \in Nat
      /\ passed \in Seq(Nat) /\ n \in Nat /\ c \in Nat
      /\ Max \in Nat /\ Max > 0 /\ Window \in Nat /\ Window > 0
  BY LimitsAssumption DEF TypeOK
<1>1. NewCount \in Nat /\ NewCount >= 1 /\ NewStart \in Nat
  BY <1>0 DEF NewCount, NewStart
<1>2. /\ passed' = Append(passed, now) /\ now' = now
      /\ rateStart' = NewStart /\ rateCount' = NewCount
  BY <1>0, <1>1 DEF OnMessage
<1>3. /\ Len(passed') = n + 1 /\ passed'[n + 1] = now
      /\ DOMAIN passed' = 1..(n + 1)
      /\ \A i \in 1..n : passed'[i] = passed[i] /\ passed[i] \in Nat
  BY <1>0, <1>2, AppendFacts
<1>4. /\ c <= n
      /\ \A i \in 1..n :
           /\ passed[i] <= now
           /\ i > n - c => passed[i] >= rateStart
           /\ passed[i] < rateStart + Window
           /\ i <= n - c => passed[i] < rateStart
           /\ i + Max <= n - c => passed[i] + Window < rateStart
  <2>1. c = Current /\ DOMAIN passed = 1..n
    BY <1>0 DEF Current
  <2> QED
    BY <2>1 DEF WindowInv, Sorted, InWindow, BeforeWindow
<1>5. \A i, j \in 1..n : j >= i + 2 * Max => passed[j] - passed[i] >= Window
  BY <1>0 DEF WindowInv, AtMostTwiceTheRate
<1>6. Current' = NewCount
  BY <1>0, <1>2 DEF Current, NewCount
<1>7. ASSUME \A i \in 1..n : n + 1 >= i + 2 * Max => now - passed[i] >= Window
      PROVE  AtMostTwiceTheRate'
  <2>1. SUFFICES ASSUME NEW i \in 1..(n + 1), NEW j \in 1..(n + 1), j >= i + 2 * Max
                 PROVE  passed'[j] - passed'[i] >= Window
    BY <1>3 DEF AtMostTwiceTheRate
  <2>2. i \in 1..n
    BY <1>0, <2>1
  <2>3. CASE j \in 1..n
    BY <1>3, <1>5, <2>1, <2>2, <2>3
  <2>4. CASE j = n + 1
    BY <1>3, <1>7, <2>1, <2>2, <2>4
  <2> QED
    BY <1>0, <2>3, <2>4
<1>8. CASE WindowOver
  <2>1. NewStart = now /\ NewCount = 1 /\ now >= rateStart + Window
    BY <1>0, <1>8 DEF NewStart, NewCount, WindowOver
  <2>2. \A i \in 1..n : passed[i] < now /\ (i + Max <= n => passed[i] + Window < now)
    <3>1. TAKE i \in 1..n
    <3>2. i + Max <= n => i <= n - c
      BY <1>0
    <3> QED
      BY <1>0, <1>3, <1>4, <2>1, <3>2
  <2>3. Sorted'
    BY <1>0, <1>2, <1>3, <1>4 DEF Sorted
  <2>4. InWindow'
    BY <1>0, <1>2, <1>3, <1>6, <2>1 DEF InWindow
  <2>5. BeforeWindow'
    BY <1>0, <1>2, <1>3, <1>6, <2>1, <2>2 DEF BeforeWindow
  <2>6. \A i \in 1..n : n + 1 >= i + 2 * Max => now - passed[i] >= Window
    BY <1>0, <1>3, <2>2
  <2>7. AtMostTwiceTheRate'
    BY <2>6, <1>7 DEF AtMostTwiceTheRate
  <2> QED
    BY <2>3, <2>4, <2>5, <2>7 DEF WindowInv
<1>9. CASE ~WindowOver
  <2>1. /\ NewStart = rateStart /\ NewCount = rateCount + 1 /\ c = rateCount
        /\ now < rateStart + Window
    BY <1>0, <1>9 DEF NewStart, NewCount, WindowOver
  <2>3. Sorted'
    BY <1>0, <1>2, <1>3, <1>4 DEF Sorted
  <2>4. InWindow'
    BY <1>0, <1>2, <1>3, <1>4, <1>6, <2>1 DEF InWindow
  <2>5. BeforeWindow'
    BY <1>0, <1>2, <1>3, <1>4, <1>6, <2>1 DEF BeforeWindow
  <2>6. \A i \in 1..n : n + 1 >= i + 2 * Max => now - passed[i] >= Window
    <3>1. TAKE i \in 1..n
    <3>2. n + 1 >= i + 2 * Max => i + Max <= n - c
      BY <1>0, <2>1
    <3> QED
      BY <1>0, <1>3, <1>4, <3>2
  <2>7. AtMostTwiceTheRate'
    BY <2>6, <1>7 DEF AtMostTwiceTheRate
  <2> QED
    BY <2>3, <2>4, <2>5, <2>7 DEF WindowInv
<1> QED
  BY <1>8, <1>9

\* A message that is dropped finds Max of the running window passed before it.
LEMMA DropStep ==
  ASSUME TypeOK, WindowInv, OnMessage, NewCount > Max
  PROVE  /\ WindowInv'
         /\ Len(passed) >= Max
         /\ now - passed[Len(passed) - Max + 1] < Window
<1>0. /\ now \in Nat /\ rateStart \in Nat /\ rateStart <= now /\ rateCount \in Nat
      /\ passed \in Seq(Nat) /\ Len(passed) \in Nat /\ DOMAIN passed = 1..Len(passed)
      /\ Max \in Nat /\ Max > 0 /\ Window \in Nat /\ Window > 0
  BY LimitsAssumption DEF TypeOK
<1>1. /\ ~WindowOver /\ NewStart = rateStart /\ NewCount = rateCount + 1
  BY <1>0 DEF NewCount, NewStart
<1>2. Current = Max /\ rateCount + 1 > Max
  BY <1>0, <1>1 DEF Current
<1>3. /\ passed' = passed /\ now' = now
      /\ rateStart' = rateStart /\ rateCount' = rateCount + 1
  BY <1>0, <1>1 DEF OnMessage
<1>4. Current' = Current
  BY <1>0, <1>2, <1>3 DEF Current
<1>5. WindowInv'
  BY <1>3, <1>4 DEF WindowInv, Sorted, InWindow, BeforeWindow, AtMostTwiceTheRate
<1>6. Len(passed) >= Max
  BY <1>0, <1>2 DEF WindowInv, InWindow
<1>7. passed[Len(passed) - Max + 1] >= rateStart /\ passed[Len(passed) - Max + 1] \in Nat
  BY <1>0, <1>2, <1>6 DEF WindowInv, InWindow
<1>8. now - rateStart < Window
  BY <1>0, <1>1 DEF WindowOver
<1> QED
  BY <1>0, <1>5, <1>6, <1>7, <1>8

LEMMA TickStep ==
  ASSUME TypeOK, WindowInv, Tick
  PROVE  WindowInv'
<1>1. /\ passed' = passed /\ rateStart' = rateStart /\ rateCount' = rateCount
      /\ now' = now + 1
  BY DEF Tick
<1>2. Sorted'
  <2>1. \A i \in DOMAIN passed : passed[i] \in Nat
    BY DEF TypeOK
  <2> QED
    BY <1>1, <2>1 DEF WindowInv, Sorted, TypeOK
<1>3. Current' = Current
  BY <1>1 DEF Current
<1> QED
  BY <1>1, <1>2, <1>3 DEF WindowInv, InWindow, BeforeWindow, AtMostTwiceTheRate

-----------------------------------------------------------------------------
\* The accounting of the windows holds throughout.
THEOREM WindowCorrect == Spec => []WindowInv
<1>1. Init => WindowInv
  <2>1. Init => passed = <<>> /\ rateCount = 0 /\ DOMAIN passed = {} /\ Len(passed) = 0
    BY DEF Init
  <2>2. Init => Current = 0
    BY <2>1, LimitsAssumption DEF Current
  <2> QED
    BY <2>1, <2>2 DEF WindowInv, Sorted, InWindow, BeforeWindow, AtMostTwiceTheRate
<1>2. TypeOK /\ WindowInv /\ [Next]_vars => WindowInv'
  <2>0. SUFFICES ASSUME TypeOK, WindowInv, [Next]_vars PROVE WindowInv'
    OBVIOUS
  <2>1. CASE Tick
    BY <2>0, <2>1, TickStep
  <2>2. CASE OnMessage
    <3>1. NewCount <= Max \/ NewCount > Max
      BY <2>2 DEF OnMessage
    <3> QED
      BY <2>0, <2>2, <3>1, PassStep, DropStep
  <2>3. CASE UNCHANGED vars
    BY <2>0, <2>3
    DEF vars, WindowInv, Sorted, InWindow, BeforeWindow, AtMostTwiceTheRate, Current
  <2> QED
    BY <2>0, <2>1, <2>2, <2>3 DEF Next
<1> QED
  BY <1>1, <1>2, TypeCorrect, PTL DEF Spec

\* No stretch of Window ticks lets more than 2 * Max messages through to the
\* session manager.
THEOREM TwiceTheRate == Spec => []AtMostTwiceTheRate
<1>1. WindowInv => AtMostTwiceTheRate
  BY DEF WindowInv
<1> QED
  BY <1>1, WindowCorrect, PTL

\* _setupDataChannel drops a message only when its sender exceeded the rate.
THEOREM DropsAreDue == Spec => NoUndueDrop
<1> DEFINE Due == dropped' # dropped =>
                    /\ Len(passed) >= Max
                    /\ now - passed[Len(passed) - Max + 1] < Window
<1>1. TypeOK /\ WindowInv /\ [Next]_vars => [Due]_vars
  <2>0. SUFFICES ASSUME TypeOK, WindowInv, Next, dropped' # dropped PROVE Due
    BY DEF vars
  <2>1. OnMessage /\ NewCount > Max
    BY <2>0 DEF Next, Tick, OnMessage
  <2> QED
    BY <2>0, <2>1, DropStep
<1> QED
  BY <1>1, TypeCorrect, WindowCorrect, PTL DEF Spec, NoUndueDrop
=============================================================================
