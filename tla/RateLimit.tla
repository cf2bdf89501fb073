----------------------------- MODULE RateLimit -----------------------------
(***************************************************************************)
(* The limiter in front of the message callbacks of one data channel, from *)
(* WebRtcTransportAdapter._setupDataChannel: a counter that starts again   *)
(* with the first message that comes Window or more after the start of the *)
(* previous count.  Oversized messages return before it and change nothing.*)
(***************************************************************************)
EXTENDS Naturals, Sequences

CONSTANTS
  Max,      \* RATE_LIMIT_MAX (30)
  Window,   \* RATE_LIMIT_WINDOW (1000), in ticks of Date.now()
  MaxTime,  \* bounds: the clock,
  MaxSent   \* and the messages that arrive

ASSUME LimitsAssumption ==
  /\ Max \in Nat \ {0}
  /\ Window \in Nat \ {0}
  /\ MaxTime \in Nat
  /\ MaxSent \in Nat

VARIABLES
  now,        \* Date.now(), which only moves forward here
  rateStart,  \* _rateWindowStart
  rateCount,  \* _rateCount
  passed,     \* times of the messages handed to the callbacks
  dropped     \* messages dropped so far

vars == <<now, rateStart, rateCount, passed, dropped>>

Init ==
  /\ now = 0
  /\ rateStart = 0
  /\ rateCount = 0
  /\ passed = <<>>
  /\ dropped = 0

Tick ==
  /\ now < MaxTime
  /\ now' = now + 1
  /\ UNCHANGED <<rateStart, rateCount, passed, dropped>>

\* Mutated: a window lasts one tick more.
WindowLater == now - rateStart > Window

\* The start and the count after the message that arrives now.
WindowOver == now - rateStart >= Window

\* Mutated: the end of the new window instead of its start.
NewStartAtEnd == IF WindowOver THEN now + Window ELSE rateStart

NewStart == IF WindowOver THEN now ELSE rateStart

\* Mutated: the message that opens a window is not counted.
NewCountFromZero == IF WindowOver THEN 0 ELSE rateCount + 1

NewCount == IF WindowOver THEN 1 ELSE rateCount + 1

OnMessage ==
  /\ Len(passed) + dropped < MaxSent
  /\ rateStart' = NewStart
  /\ rateCount' = NewCount
  /\ \/ /\ NewCount <= Max
        /\ passed' = Append(passed, now)
        /\ UNCHANGED dropped
     \/ /\ NewCount > Max
        /\ dropped' = dropped + 1
        /\ UNCHANGED passed
  /\ UNCHANGED now

Next == Tick \/ OnMessage

Spec == Init /\ [][Next]_vars

-----------------------------------------------------------------------------
TypeOK ==
  /\ now \in Nat
  /\ rateStart \in 0..now
  /\ rateCount \in Nat
  /\ passed \in Seq(Nat)
  /\ dropped \in Nat

\* What any stretch of Window ticks lets through is at most 2 * Max: the last
\* Max of one count and the first Max of the next.
AtMostTwiceTheRate ==
  \A i, j \in DOMAIN passed : j >= i + 2 * Max => passed[j] - passed[i] >= Window

\* A message is dropped only if Max messages went through less than Window ago:
\* a peer that keeps to the rate loses nothing.
NoUndueDrop ==
  [][dropped' # dropped =>
       /\ Len(passed) >= Max
       /\ now - passed[Len(passed) - Max + 1] < Window]_vars

-----------------------------------------------------------------------------
\* Why both hold.  Current is how many messages of the running count passed;
\* they are the last of passed, none older than rateStart.  Those before them
\* came before rateStart, and those before the previous Max more than Window
\* before it.
Current == IF rateCount < Max THEN rateCount ELSE Max

Sorted == \A i \in DOMAIN passed : passed[i] <= now

InWindow ==
  /\ Current <= Len(passed)
  /\ \A i \in DOMAIN passed : i > Len(passed) - Current => passed[i] >= rateStart

BeforeWindow ==
  \A i \in DOMAIN passed :
    /\ passed[i] < rateStart + Window
    /\ i <= Len(passed) - Current => passed[i] < rateStart
    /\ i + Max <= Len(passed) - Current => passed[i] + Window < rateStart

WindowInv ==
  /\ Sorted
  /\ InWindow
  /\ BeforeWindow
  /\ AtMostTwiceTheRate
=============================================================================
