--------------------------- MODULE SequenceFacts ---------------------------
(***************************************************************************)
(* What the proofs need of the operations on message queues and lists of   *)
(* tasks: appending, taking the head, removing an element, and losing a    *)
(* tail.                                                                   *)
(***************************************************************************)
EXTENDS SequencesExt, SequenceTheorems, TLAPS

\* The elements of a sequence, by their places.
LEMMA ToSetDef ==
  ASSUME NEW S, NEW s \in Seq(S)
  PROVE  /\ ToSet(s) = {s[i] : i \in 1..Len(s)}
         /\ ToSet(s) \subseteq S
BY LenProperties, ElementOfSeq DEF ToSet

\* An element more.
LEMMA AppendFacts ==
  ASSUME NEW S, NEW s \in Seq(S), NEW e \in S
  PROVE  /\ Append(s, e) \in Seq(S)
         /\ Len(Append(s, e)) = Len(s) + 1
         /\ \A j \in 1..Len(s) : Append(s, e)[j] = s[j]
         /\ Append(s, e)[Len(s) + 1] = e
         /\ ToSet(Append(s, e)) = ToSet(s) \cup {e}
<1>1. /\ Append(s, e) \in Seq(S)
      /\ Len(Append(s, e)) = Len(s) + 1
      /\ \A j \in 1..Len(s) : Append(s, e)[j] = s[j]
      /\ Append(s, e)[Len(s) + 1] = e
      /\ Len(s) \in Nat
  BY AppendProperties, LenProperties
<1>2. /\ ToSet(s) = {s[i] : i \in 1..Len(s)}
      /\ ToSet(Append(s, e)) = {Append(s, e)[i] : i \in 1..Len(s) + 1}
  BY <1>1, ToSetDef
<1>3. ToSet(Append(s, e)) \subseteq ToSet(s) \cup {e}
  BY <1>1, <1>2
<1>4. ToSet(s) \cup {e} \subseteq ToSet(Append(s, e))
  <2>1. 1..Len(s) \subseteq 1..Len(s) + 1 /\ Len(s) + 1 \in 1..Len(s) + 1
    BY <1>1
  <2> QED BY <1>1, <1>2, <2>1
<1> QED BY <1>1, <1>3, <1>4

\* The first element, and the rest.
LEMMA HeadTailFacts ==
  ASSUME NEW S, NEW s \in Seq(S), s # <<>>
  PROVE  /\ Head(s) \in S /\ Tail(s) \in Seq(S)
         /\ Head(s) = s[1] /\ 1 \in 1..Len(s)
         /\ Len(Tail(s)) = Len(s) - 1
         /\ \A j \in 1..Len(s) - 1 : Tail(s)[j] = s[j + 1]
         /\ Head(s) \in ToSet(s)
         /\ ToSet(Tail(s)) \subseteq ToSet(s)
<1>1. Len(s) \in Nat \ {0} /\ Head(s) = s[1]
  BY EmptySeq, LenProperties
<1>2. /\ Head(s) \in S /\ Tail(s) \in Seq(S)
      /\ Len(Tail(s)) = Len(s) - 1
      /\ \A j \in 1..Len(s) - 1 : Tail(s)[j] = s[j + 1]
  BY HeadTailProperties
<1>3. /\ ToSet(s) = {s[i] : i \in 1..Len(s)}
      /\ ToSet(Tail(s)) = {Tail(s)[i] : i \in 1..Len(s) - 1}
  BY <1>2, ToSetDef
<1>4. \A j \in 1..Len(s) - 1 : j + 1 \in 1..Len(s)
  BY <1>1
<1> QED BY <1>1, <1>2, <1>3, <1>4

\* One element less.
LEMMA RemoveAtFacts ==
  ASSUME NEW S, NEW s \in Seq(S), NEW i \in DOMAIN s
  PROVE  /\ RemoveAt(s, i) \in Seq(S)
         /\ Len(RemoveAt(s, i)) = Len(s) - 1
         /\ \A j \in 1..Len(s) - 1 :
              RemoveAt(s, i)[j] = IF j < i THEN s[j] ELSE s[j + 1]
         /\ s[i] \in ToSet(s)
         /\ ToSet(RemoveAt(s, i)) \subseteq ToSet(s)
<1> DEFINE a == SubSeq(s, 1, i - 1)
           b == SubSeq(s, i + 1, Len(s))
<1>1. Len(s) \in Nat /\ i \in 1..Len(s) /\ \A j \in 1..Len(s) : s[j] \in S
  BY LenProperties, ElementOfSeq
<1>2. /\ a \in Seq(S) /\ Len(a) = i - 1
      /\ \A j \in 1..i - 1 : a[j] = s[j]
  BY <1>1, SubSeqProperties
<1>3. /\ b \in Seq(S) /\ Len(b) = Len(s) - i
      /\ \A j \in 1..Len(s) - i : b[j] = s[j + i]
  BY <1>1, SubSeqProperties
<1>4. RemoveAt(s, i) = a \o b
  BY DEF RemoveAt
<1>5. /\ RemoveAt(s, i) \in Seq(S)
      /\ Len(RemoveAt(s, i)) = Len(s) - 1
      /\ \A j \in 1..Len(s) - 1 :
           RemoveAt(s, i)[j] = IF j <= i - 1 THEN a[j] ELSE b[j - (i - 1)]
  <2> HIDE DEF a, b
  <2>1. /\ a \o b \in Seq(S)
        /\ Len(a \o b) = Len(a) + Len(b)
        /\ \A j \in 1..Len(a) + Len(b) :
             (a \o b)[j] = IF j <= Len(a) THEN a[j] ELSE b[j - Len(a)]
    BY <1>2, <1>3, ConcatProperties
  <2>2. Len(a) + Len(b) = Len(s) - 1
    BY <1>1, <1>2, <1>3
  <2> QED BY <1>2, <1>4, <2>1, <2>2
<1>6. \A j \in 1..Len(s) - 1 :
        RemoveAt(s, i)[j] = IF j < i THEN s[j] ELSE s[j + 1]
  <2> HIDE DEF a, b
  <2> TAKE j \in 1..Len(s) - 1
  <2>1. CASE j < i
    BY <1>1, <1>2, <1>5, <2>1
  <2>2. CASE ~(j < i)
    <3>1. /\ j - (i - 1) \in 1..Len(s) - i /\ (j - (i - 1)) + i = j + 1
          /\ ~(j <= i - 1)
      BY <1>1, <2>2
    <3>2. b[j - (i - 1)] = s[j + 1]
      BY <1>3, <3>1
    <3>3. RemoveAt(s, i)[j] = b[j - (i - 1)]
      BY <1>5, <3>1
    <3> QED BY <2>2, <3>2, <3>3
  <2> QED BY <2>1, <2>2
<1>7. /\ ToSet(s) = {s[k] : k \in 1..Len(s)}
      /\ ToSet(RemoveAt(s, i)) = {RemoveAt(s, i)[k] : k \in 1..Len(s) - 1}
  BY <1>5, ToSetDef
<1>8. \A j \in 1..Len(s) - 1 : j \in 1..Len(s) /\ j + 1 \in 1..Len(s)
  BY <1>1
<1> QED BY <1>1, <1>5, <1>6, <1>7, <1>8

\* A tail less.
LEMMA PrefixFacts ==
  ASSUME NEW S, NEW s \in Seq(S), NEW n \in 0..Len(s)
  PROVE  /\ SubSeq(s, 1, n) \in Seq(S)
         /\ Len(SubSeq(s, 1, n)) = n
         /\ \A j \in 1..n : SubSeq(s, 1, n)[j] = s[j]
         /\ ToSet(SubSeq(s, 1, n)) \subseteq ToSet(s)
         /\ s = <<>> => SubSeq(s, 1, n) = <<>>
<1>1. Len(s) \in Nat /\ \A j \in 1..Len(s) : s[j] \in S
  BY LenProperties, ElementOfSeq
<1>2. /\ SubSeq(s, 1, n) \in Seq(S)
      /\ Len(SubSeq(s, 1, n)) = n
      /\ \A j \in 1..n : SubSeq(s, 1, n)[j] = s[j]
  BY <1>1, SubSeqProperties
<1>3. /\ ToSet(s) = {s[k] : k \in 1..Len(s)}
      /\ ToSet(SubSeq(s, 1, n)) = {SubSeq(s, 1, n)[k] : k \in 1..n}
  BY <1>2, ToSetDef
<1>4. s = <<>> => SubSeq(s, 1, n) = <<>>
  BY <1>1, <1>2, EmptySeq
<1> QED BY <1>1, <1>2, <1>3, <1>4

\* Two sequences, one after the other.
LEMMA ConcatFacts ==
  ASSUME NEW S, NEW a \in Seq(S), NEW b \in Seq(S)
  PROVE  /\ a \o b \in Seq(S)
         /\ ToSet(a \o b) = ToSet(a) \cup ToSet(b)
<1>1. /\ Len(a) \in Nat /\ Len(b) \in Nat
      /\ a \o b \in Seq(S)
      /\ Len(a \o b) = Len(a) + Len(b)
      /\ \A i \in 1..Len(a) + Len(b) :
           (a \o b)[i] = IF i <= Len(a) THEN a[i] ELSE b[i - Len(a)]
  BY ConcatProperties, LenProperties
<1>2. /\ ToSet(a) = {a[i] : i \in 1..Len(a)} /\ ToSet(b) = {b[i] : i \in 1..Len(b)}
      /\ ToSet(a \o b) = {(a \o b)[i] : i \in 1..Len(a) + Len(b)}
  BY <1>1, ToSetDef
<1>3. \A i \in 1..Len(a) : i \in 1..Len(a) + Len(b) /\ (a \o b)[i] = a[i]
  BY <1>1
<1>4. \A i \in 1..Len(b) : /\ i + Len(a) \in 1..Len(a) + Len(b)
                           /\ (a \o b)[i + Len(a)] = b[i]
  <2> TAKE i \in 1..Len(b)
  <2>1. i + Len(a) \in 1..Len(a) + Len(b) /\ ~(i + Len(a) <= Len(a))
        /\ (i + Len(a)) - Len(a) = i
    BY <1>1
  <2> QED BY <1>1, <2>1
<1>5. ToSet(a) \cup ToSet(b) \subseteq ToSet(a \o b)
  BY <1>2, <1>3, <1>4
<1>6. ToSet(a \o b) \subseteq ToSet(a) \cup ToSet(b)
  <2> SUFFICES ASSUME NEW i \in 1..Len(a) + Len(b)
               PROVE  (a \o b)[i] \in ToSet(a) \cup ToSet(b)
    BY <1>2
  <2>1. CASE i <= Len(a)
    <3>1. i \in 1..Len(a)
      BY <1>1, <2>1
    <3> QED BY <1>2, <1>3, <3>1
  <2>2. CASE ~(i <= Len(a))
    <3>1. i - Len(a) \in 1..Len(b)
      BY <1>1, <2>2
    <3> QED BY <1>1, <1>2, <2>2, <3>1
  <2> QED BY <2>1, <2>2
<1> QED BY <1>1, <1>5, <1>6

\* A list of two, from its parts.
LEMMA PairFacts ==
  ASSUME NEW x, NEW y
  PROVE  <<x>> \o <<y>> = <<x, y>> /\ <<>> \o <<y>> = <<y>>
<1> DEFINE S == {x, y}
<1>1. <<x, y>> \in Seq(S) /\ Len(<<x, y>>) = 2
  OBVIOUS
<1>2. /\ <<x>> \o <<y>> \in Seq(S) /\ Len(<<x>> \o <<y>>) = 2
      /\ (<<x>> \o <<y>>)[1] = x /\ (<<x>> \o <<y>>)[2] = y
  OBVIOUS
<1>3. \A i \in 1..2 : (<<x>> \o <<y>>)[i] = <<x, y>>[i]
  BY <1>2
<1> HIDE DEF S
<1>4. <<x>> \o <<y>> = <<x, y>>
  BY <1>1, <1>2, <1>3, SeqEqual
<1>5. <<>> \o <<y>> = <<y>>
  OBVIOUS
<1> QED BY <1>4, <1>5

=============================================================================
