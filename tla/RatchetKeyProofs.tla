-------------------------- MODULE RatchetKeyProofs --------------------------
(***************************************************************************)
(* Proofs about Ratchet with one handler at a time at each end: no message *)
(* key is used twice or kept after its use, and every message on a chain   *)
(* that a DH step or the first handshake made is delivered.                *)
(***************************************************************************)
EXTENDS RatchetProofs

USE DEF Host, Guest, Peer, Other

-----------------------------------------------------------------------------
(* With one handler at a time at each end: message keys *)

SameChain(a, b) == a.shared = b.shared /\ a.dhs = b.dhs /\ a.dir = b.dir

\* The chains of an end's messages: those of a secret are known by their direction, those
\* of a step by the length of their root.
Parity(p) == IF p = Host THEN 1 ELSE 0
OwnChain(p, ck) ==
  \/ ck.dir = DirFrom(p) /\ (ck.dhs = <<>> \/ ck.dhs = InitRoot.dhs)
  \/ ck.dir = Stepped /\ ck.shared = 1 /\ Len(ck.dhs) % 2 = Parity(p) /\ Len(ck.dhs) >= 2

\* An end sends on a chain of its own, no newer than the link and the root, and has it
\* before the link is up; a send has the chain key of the moment in hand.
SendAt(p) ==
  LET s == st[p].send IN
  /\ Rooted(p) => Len(st[p].root.dhs) % 2 = Parity(p)
  /\ s.dir # "none" => OwnChain(p, s) /\ (s.dhs = <<>> => s.shared <= links)
  /\ s.dir = "none" => link # "up" /\ (link = "answered" => p = Host)
  /\ s.dir = Stepped => Rooted(p) /\ Len(s.dhs) <= Len(st[p].root.dhs)
  /\ T(p).at = "advance" => T(p).ck = s /\ s.dir # "none"
  /\ T(p).at = "encrypt" => s = NextChain(T(p).m.ck) /\ s.dir # "none"

\* What left an end was on a chain of its own, that it has left or is beyond.
WireAt(w) ==
  LET p == Other(w.to)
      ck == w.m.ck
  IN
  /\ OwnChain(p, ck)
  /\ ck.dir = Stepped /\ Rooted(p) => Len(ck.dhs) <= Len(st[p].root.dhs)
  /\ ck.dhs = <<>> => ck.shared <= links /\ (link = "answered" => ck.shared < links)
  /\ SameChain(ck, st[p].send) =>
       ck.n < st[p].send.n /\ (T(p).at = "encrypt" => ck.n < T(p).m.ck.n)

KeysInv ==
  /\ \A p \in Peer : SendAt(p)
  /\ \A w \in wire : WireAt(w)
  /\ FreshMessageKeys

LEMMA Chains ==
  ASSUME TypeOK
  PROVE  /\ \A p \in Peer : /\ st[p].send \in ChainKey /\ st[p].recv \in ChainKey
                            /\ st[p].root \in RootKey
         /\ \A p \in Peer, i \in 1..Handlers :
              task[p][i].ck \in ChainKey /\ task[p][i].m.ck \in ChainKey
         /\ \A w \in wire : /\ w.to \in Peer /\ Other(w.to) \in Peer /\ Other(Other(w.to)) = w.to
                            /\ w.m \in Message /\ w.m.ck \in ChainKey
                            /\ w = [to |-> w.to, m |-> w.m]
<1>1. \A p \in Peer : /\ st[p].send \in ChainKey /\ st[p].recv \in ChainKey
                      /\ st[p].root \in RootKey
  BY Typed DEF Session
<1>2. \A p \in Peer, i \in 1..Handlers :
        task[p][i].ck \in ChainKey /\ task[p][i].m.ck \in ChainKey
  BY Typed DEF Task, Message
<1>3. \A w \in wire : /\ w.to \in Peer /\ w.m \in Message /\ w.m.ck \in ChainKey
                      /\ w = [to |-> w.to, m |-> w.m]
  <2> TAKE w \in wire
  <2>1. w \in [to : Peer, m : Message]
    BY DEF TypeOK
  <2>2. w.to \in Peer /\ w.m \in Message /\ w = [to |-> w.to, m |-> w.m]
    BY <2>1
  <2>3. w.m.ck \in ChainKey
    BY <2>2 DEF Message
  <2> QED BY <2>2, <2>3
<1> QED BY <1>1, <1>2, <1>3, Typed

LEMMA ChainFacts ==
  ASSUME NEW a \in ChainKey, NEW b \in ChainKey
  PROVE  /\ a.n \in Nat /\ Len(a.dhs) \in Nat
         /\ a = b => SameChain(a, b) /\ a.n = b.n
         /\ SameChain(a, b) /\ a.n = b.n => a = b
         /\ SameChain(NextChain(a), b) <=> SameChain(a, b)
         /\ NextChain(a).n = a.n + 1 /\ NextChain(a).dir = a.dir /\ NextChain(a).dhs = a.dhs
         /\ NextChain(a).shared = a.shared
<1>1. a.n \in Nat /\ a.dhs \in Seq(SUBSET Key)
  BY DEF ChainKey, Dhs
<1>2. Len(a.dhs) \in Nat
  BY <1>1, LenProperties
<1>3. /\ NextChain(a).n = a.n + 1 /\ NextChain(a).dir = a.dir /\ NextChain(a).dhs = a.dhs
      /\ NextChain(a).shared = a.shared
  BY DEF NextChain, ChainKey
<1>4. /\ a = [shared |-> a.shared, dhs |-> a.dhs, dir |-> a.dir, n |-> a.n]
      /\ b = [shared |-> b.shared, dhs |-> b.dhs, dir |-> b.dir, n |-> b.n]
  BY DEF ChainKey
<1>5. SameChain(a, b) /\ a.n = b.n => a = b
  BY <1>4 DEF SameChain
<1> QED BY <1>1, <1>2, <1>3, <1>5 DEF SameChain

\* The two ends' messages are on different chains.
LEMMA OwnApart ==
  ASSUME NEW p \in Peer, NEW a, NEW b, OwnChain(p, a), OwnChain(Other(p), b)
  PROVE  ~SameChain(a, b) /\ a # b
<1>1. DirFrom(Host) # DirFrom(Guest) /\ \A q \in Peer : DirFrom(q) # Stepped
  BY DEF DirFrom, HostToGuest, GuestToHost, Stepped
<1>2. Parity(p) # Parity(Other(p)) /\ Other(p) \in Peer /\ DirFrom(p) # DirFrom(Other(p))
  BY <1>1 DEF Parity
<1>3. a.dir = b.dir => a.dir = Stepped /\ b.dir = Stepped
  BY <1>1, <1>2 DEF OwnChain
<1>4. a.dir = Stepped /\ b.dir = Stepped => a.dhs # b.dhs
  BY <1>1, <1>2 DEF OwnChain
<1> QED BY <1>3, <1>4 DEF SameChain

LEMMA KemFacts ==
  ASSUME NEW k, NEW p \in Peer
  PROVE  LET c == KemChain(k, DirFrom(p)) IN
         /\ c.shared = k /\ c.dhs = <<>> /\ c.dir = DirFrom(p) /\ c.n = 0
         /\ OwnChain(p, c) /\ c.dir # "none" /\ c.dir # Stepped
BY DEF KemChain, Chain, OwnChain, DirFrom, HostToGuest, GuestToHost, Stepped

LEMMA NotNone == \A p \in Peer : \A c : OwnChain(p, c) => c.dir # "none"
BY DEF OwnChain, DirFrom, HostToGuest, GuestToHost, Stepped

\* The sending side of an end is as it was.
SendSame(p) ==
  /\ st'[p].root = st[p].root /\ st'[p].send = st[p].send
  /\ T(p)' = T(p) \/ T(p)'.at \notin Sending

LEMMA SendKept ==
  ASSUME NEW p \in Peer, SendAt(p), SendSame(p), links' = links, link' \in {link, "down"}
  PROVE  SendAt(p)'
BY DEF SendAt, SendSame, Sending, Rooted

LEMMA WireKept ==
  ASSUME NEW w, WireAt(w), SendSame(Other(w.to)), links' = links, link' \in {link, "down"}
  PROVE  WireAt(w)'
BY DEF WireAt, SendSame, Sending, Rooted

LEMMA KeysKept ==
  ASSUME TypeOK, KeysInv, \A p \in Peer : SendSame(p), links' = links, link' \in {link, "down"},
         wire' = wire
  PROVE  KeysInv'
<1>1. \A p \in Peer : SendAt(p)'
  BY SendKept DEF KeysInv
<1>2. \A w \in wire' : WireAt(w)'
  BY WireKept, Chains DEF KeysInv
<1> QED BY <1>1, <1>2 DEF KeysInv, FreshMessageKeys

LEMMA KeysAside ==
  ASSUME Handlers = 1, TypeOK, KeysInv, NEW p \in Peer, NEW i \in 1..Handlers, NEW t,
         Now(p, i, t), t.at \notin Sending, st'[p].root = st[p].root, st'[p].send = st[p].send,
         UNCHANGED <<links, link, wire>>
  PROVE  KeysInv'
<1>1. T(p)' = t /\ \A q \in Peer : q # p => T(q)' = T(q) /\ st'[q] = st[q]
  BY OneNow
<1>2. \A q \in Peer : SendSame(q)
  BY <1>1 DEF SendSame
<1> QED BY <1>2, KeysKept

LEMMA KeysSend ==
  ASSUME Handlers = 1, TypeOK, KeysInv, NEW p \in Peer, NEW i \in 1..Handlers,
         SendMessage(p, i)
  PROVE  KeysInv'
<1>1. PICK t : Now(p, i, t) /\ t.at = "advance" /\ t.ck = st[p].send
  BY SendFacts
<1>2. /\ link = "up" /\ KeysSame(p) /\ UNCHANGED <<link, links, wire>>
  BY SendFacts
<1>3. T(p)' = t /\ \A q \in Peer : q # p => T(q)' = T(q) /\ st'[q] = st[q]
  BY <1>1, OneNow
<1>4. \A q \in Peer : q # p => SendSame(q)
  BY <1>3 DEF SendSame
<1>5. SendAt(p)'
  BY <1>1, <1>2, <1>3 DEF KeysInv, SendAt, KeysSame, Rooted
<1>6. \A q \in Peer : SendAt(q)'
  BY <1>2, <1>4, <1>5, SendKept DEF KeysInv
<1>7. \A w \in wire' : WireAt(w)'
  <2> TAKE w \in wire'
  <2>1. w \in wire /\ WireAt(w) /\ Other(w.to) \in Peer
    BY <1>2, Chains DEF KeysInv
  <2>2. CASE Other(w.to) = p
    BY <1>1, <1>2, <1>3, <2>1, <2>2 DEF WireAt, KeysSame, Rooted
  <2>3. CASE Other(w.to) # p
    BY <1>2, <1>4, <2>1, <2>3, WireKept
  <2> QED BY <2>2, <2>3
<1> QED BY <1>2, <1>6, <1>7 DEF KeysInv, FreshMessageKeys

LEMMA KeysAdvance ==
  ASSUME Handlers = 1, TypeOK, KeysInv, NEW p \in Peer, NEW i \in 1..Handlers,
         ChainAdvanced(p, i)
  PROVE  KeysInv'
<1> DEFINE s == st[p].send
           n == NextChain(s)
<1>1. PICK t : Now(p, i, t) /\ t.at = "encrypt" /\ t.m.ck = task[p][i].ck
  BY AdvanceFacts
<1>2. /\ task[p][i].at = "advance" /\ st'[p].send = NextChain(task[p][i].ck)
      /\ st'[p].root = st[p].root /\ UNCHANGED <<link, links, wire>>
  BY AdvanceFacts
<1>3. /\ T(p) = task[p][i] /\ T(p)' = t
      /\ \A q \in Peer : q # p => T(q)' = T(q) /\ st'[q] = st[q]
  BY <1>1, OneNow
<1>4. T(p).ck = s /\ s.dir # "none" /\ SendAt(p)
  BY <1>2, <1>3 DEF KeysInv, SendAt
<1>5. st'[p].send = n /\ t.m.ck = s
  BY <1>1, <1>2, <1>3, <1>4
<1>6. /\ n.dir = s.dir /\ n.dhs = s.dhs /\ n.shared = s.shared /\ n.n = s.n + 1 /\ s.n \in Nat
      /\ \A ck \in ChainKey : SameChain(ck, n) => SameChain(ck, s)
  BY Chains, ChainFacts DEF SameChain
<1> HIDE DEF s, n
<1>7. \A q \in Peer : q # p => SendSame(q)
  BY <1>3 DEF SendSame
<1>8. SendAt(p)'
  <2>1. /\ Rooted(p) => Len(st[p].root.dhs) % 2 = Parity(p)
        /\ s.dir # "none" => OwnChain(p, s) /\ (s.dhs = <<>> => s.shared <= links)
        /\ s.dir = "none" => link # "up" /\ (link = "answered" => p = Host)
        /\ s.dir = Stepped => Rooted(p) /\ Len(s.dhs) <= Len(st[p].root.dhs)
    BY <1>4 DEF SendAt, s
  <2>2. OwnChain(p, n)
    BY <1>4, <1>6, <2>1 DEF OwnChain
  <2>3. t.at = "encrypt" /\ n = NextChain(t.m.ck)
    BY <1>1, <1>5 DEF n
  <2> QED BY <1>2, <1>3, <1>4, <1>5, <1>6, <2>1, <2>2, <2>3 DEF SendAt, Rooted
<1>9. \A q \in Peer : SendAt(q)'
  BY <1>2, <1>7, <1>8, SendKept DEF KeysInv
<1>10. \A w \in wire' : WireAt(w)'
  <2> TAKE w \in wire'
  <2>1. w \in wire /\ WireAt(w) /\ Other(w.to) \in Peer /\ w.m.ck \in ChainKey
    BY <1>2, Chains DEF KeysInv
  <2>2. CASE Other(w.to) = p
    <3>1. SameChain(w.m.ck, n) => w.m.ck.n < n.n /\ w.m.ck.n < s.n
      <4>1. SameChain(w.m.ck, n) => w.m.ck.n < s.n
        BY <1>6, <2>1, <2>2 DEF WireAt, s
      <4>2. w.m.ck.n \in Nat
        BY <2>1, ChainFacts
      <4> QED BY <1>6, <4>1, <4>2
    <3> QED BY <1>1, <1>2, <1>3, <1>5, <2>1, <2>2, <3>1 DEF WireAt, Rooted
  <2>3. CASE Other(w.to) # p
    BY <1>2, <1>7, <2>1, <2>3, WireKept
  <2> QED BY <2>2, <2>3
<1> QED BY <1>2, <1>9, <1>10 DEF KeysInv, FreshMessageKeys

\* The chain key that a send has in hand is one that nothing that left had.
LEMMA KeysEncrypt ==
  ASSUME Handlers = 1, TypeOK, KeysInv, NEW p \in Peer, NEW i \in 1..Handlers,
         Encrypted(p, i)
  PROVE  KeysInv'
<1>1. /\ task[p][i].at = "encrypt" /\ Now(p, i, Idle)
      /\ UNCHANGED <<st, link, links>>
  BY EncryptFacts
<1>2. T(p) = task[p][i] /\ T(p)' = Idle /\ \A q \in Peer : q # p => T(q)' = T(q)
  BY <1>1, OneNow
<1>3. \A q \in Peer : SendSame(q)
  BY <1>1, <1>2, IdleFacts DEF SendSame, Sending
<1>4. \A q \in Peer : SendAt(q)'
  BY <1>1, <1>3, SendKept DEF KeysInv
<1>5. \A w \in wire : WireAt(w)'
  BY <1>1, <1>3, Chains, WireKept DEF KeysInv
<1>6. CASE wire' = wire
  BY <1>4, <1>5, <1>6 DEF KeysInv, FreshMessageKeys
<1>7. ASSUME NEW m \in Message, link = "up", m.ck = task[p][i].m.ck,
             wire' = wire \cup {[to |-> Other(p), m |-> m]}
      PROVE  KeysInv'
  <2> DEFINE c == T(p).m.ck
             x == [to |-> Other(p), m |-> m]
  <2>1. /\ st[p].send = NextChain(c) /\ st[p].send.dir # "none" /\ SendAt(p) /\ c \in ChainKey
        /\ st[p].send \in ChainKey
    BY <1>1, <1>2, Chains DEF KeysInv, SendAt, T
  <2>2. /\ c.dir = st[p].send.dir /\ c.dhs = st[p].send.dhs /\ c.shared = st[p].send.shared
        /\ st[p].send.n = c.n + 1 /\ c.n \in Nat /\ SameChain(c, st[p].send)
    BY <2>1, ChainFacts DEF SameChain
  <2>3. OwnChain(p, c)
    BY <2>1, <2>2 DEF SendAt, OwnChain
  <2>4. x.to = Other(p) /\ x.m.ck = c /\ Other(Other(p)) = p
    BY <1>2, <1>7, Typed
  <2>5. WireAt(x)'
    <3>1. /\ c.dir = Stepped /\ Rooted(p) => Len(c.dhs) <= Len(st[p].root.dhs)
          /\ c.dhs = <<>> => c.shared <= links
          /\ c.n < st[p].send.n
      BY <2>1, <2>2 DEF SendAt
    <3> HIDE DEF x, c
    <3> QED BY <1>1, <1>2, <1>7, <2>3, <2>4, <3>1, IdleFacts DEF WireAt, Rooted
  <2>6. \A w \in wire : w.m.ck # c
    <3> SUFFICES ASSUME NEW w \in wire, w.m.ck = c PROVE FALSE
      OBVIOUS
    <3>1. WireAt(w) /\ Other(w.to) \in Peer /\ w.to \in Peer
      BY Chains DEF KeysInv
    <3>2. CASE Other(w.to) = p
      <4>1. c.n < c.n
        BY <1>1, <1>2, <2>2, <3>1, <3>2 DEF WireAt
      <4> QED BY <2>2, <4>1
    <3>3. CASE Other(w.to) # p
      <4>1. OwnChain(Other(p), c)
        BY <3>1, <3>3 DEF WireAt
      <4> QED BY <2>3, <4>1, OwnApart
    <3> QED BY <3>2, <3>3
  <2> HIDE DEF c
  <2>7. FreshMessageKeys'
    BY <1>7, <2>4, <2>6 DEF KeysInv, FreshMessageKeys
  <2> HIDE DEF x
  <2>8. \A w \in wire' : WireAt(w)'
    BY <1>5, <1>7, <2>5 DEF x
  <2> QED BY <1>4, <2>7, <2>8 DEF KeysInv
<1> QED BY <1>6, <1>7, EncryptFacts

LEMMA Parities ==
  /\ \A n \in Nat : (n + 2) % 2 = n % 2 /\ n + 2 >= 2 /\ n + 2 <= n + 2 /\ n + 2 # 0
  /\ 1 % 2 = 1 /\ 2 % 2 = 0
OBVIOUS

LEMMA ChainFields ==
  ASSUME NEW root, NEW dir
  PROVE  /\ Chain(root, dir).shared = root.shared /\ Chain(root, dir).dhs = root.dhs
         /\ Chain(root, dir).dir = dir /\ Chain(root, dir).n = 0
BY DEF Chain

\* What a step leaves: its chain to read on is one longer than the root was, its chain to
\* send on two longer.
LEMMA CommitRoots ==
  ASSUME Handlers = 1, TypeOK, LadderInv, NEW p \in Peer, NEW i \in 1..Handlers,
         DhCommit(p, i)
  PROVE  /\ T(p)'.at = "seek" /\ \A q \in Peer : q # p => T(q)' = T(q) /\ st'[q] = st[q]
         /\ Rooted(p) /\ Rooted(p)' /\ Len(st[p].root.dhs) \in Nat /\ Len(st[p].root.dhs) >= 1
         /\ Len(st'[p].root.dhs) = Len(st[p].root.dhs) + 2
         /\ st'[p].send.shared = 1 /\ st'[p].send.dhs = st'[p].root.dhs
         /\ st'[p].send.dir = Stepped
         /\ st'[p].recv.shared = 1 /\ Len(st'[p].recv.dhs) = Len(st[p].root.dhs) + 1
         /\ st'[p].recv.dir = Stepped
         /\ st'[p].skipped = <<>>
         /\ UNCHANGED <<link, links, wire, fate>>
<1> DEFINE r == st[p].root
           root == st'[p].root
           to == AdvanceRoot(task[p][i].root, {KeyPair(p, made[p] + 1), task[p][i].m.pk})
<1>1. PICK t : Now(p, i, t) /\ t.at = "seek"
  BY CommitFacts
<1>2. /\ T(p) = task[p][i] /\ T(p)' = t
      /\ \A q \in Peer : q # p => T(q)' = T(q) /\ st'[q] = st[q]
  BY <1>1, OneNow
<1>3. /\ task[p][i].at = "commit" /\ UNCHANGED <<link, links, wire, fate>>
      /\ st'[p].send = Chain(to, Stepped) /\ root = to
      /\ st'[p].recv = Chain(task[p][i].root, Stepped) /\ st'[p].skipped = <<>>
  BY CommitFacts
<1> HIDE DEF to
<1>4. /\ Rooted(p) /\ r.shared = 1 /\ Len(r.dhs) >= 1 /\ T(p).m.pk \in Key
      /\ T(p).root = AdvanceRoot(r, {st[p].priv, T(p).m.pk})
  <2>1. Stepping(p) /\ RootAt(p) /\ StepAt(p)
    BY <1>2, <1>3 DEF LadderInv, Stepping
  <2>2. T(p).m.pk \in Key
    BY <1>2, Typed DEF Message
  <2> QED BY <1>2, <1>3, <2>1, <2>2 DEF RootAt, StepAt
<1>5. /\ T(p).root.shared = 1 /\ Len(T(p).root.dhs) = Len(r.dhs) + 1
      /\ root.shared = 1 /\ Len(root.dhs) = Len(r.dhs) + 2 /\ Len(r.dhs) \in Nat
  <2> DEFINE d == {st[p].priv, T(p).m.pk}
             e == {KeyPair(p, made[p] + 1), T(p).m.pk}
  <2>1. d \in SUBSET Key /\ e \in SUBSET Key /\ r \in RootKey
    <3>1. st[p].priv \in Key /\ r \in RootKey
      BY Typed DEF Session
    <3>2. KeyPair(p, made[p] + 1) \in Key
      BY Typed, ConstantTypes
    <3> QED BY <1>4, <3>1, <3>2
  <2> HIDE DEF d, e
  <2>2. T(p).root = AdvanceRoot(r, d) /\ root = AdvanceRoot(T(p).root, e)
    BY <1>2, <1>3, <1>4 DEF d, e, to
  <2> HIDE DEF r, root
  <2>3. /\ r.dhs \in Seq(SUBSET Key) /\ T(p).root.dhs = Append(r.dhs, d)
        /\ T(p).root.shared = r.shared /\ T(p).root \in RootKey
    BY <2>1, <2>2, AdvanceRootType DEF AdvanceRoot, RootKey, Dhs
  <2>4. root.dhs = Append(T(p).root.dhs, e) /\ root.shared = T(p).root.shared
        /\ T(p).root.dhs \in Seq(SUBSET Key)
    BY <2>1, <2>2, <2>3 DEF AdvanceRoot, RootKey, Dhs
  <2>5. /\ Len(T(p).root.dhs) = Len(r.dhs) + 1 /\ Len(r.dhs) \in Nat
        /\ Len(root.dhs) = Len(T(p).root.dhs) + 1
    BY <2>1, <2>3, <2>4, AppendProperties, LenProperties
  <2> QED BY <1>4, <2>3, <2>4, <2>5 DEF r
<1>6. /\ st'[p].send.shared = 1 /\ st'[p].send.dhs = root.dhs /\ st'[p].send.dir = Stepped
      /\ st'[p].recv.shared = 1 /\ st'[p].recv.dhs = T(p).root.dhs
      /\ st'[p].recv.dir = Stepped
  BY <1>2, <1>3, <1>5, ChainFields
<1>7. NoRoot.shared = 0
  BY DEF NoRoot
<1>8. Rooted(p)'
  BY <1>5, <1>7 DEF Rooted
<1> QED BY <1>1, <1>2, <1>3, <1>4, <1>5, <1>6, <1>8

\* The new send chain is longer than any of the end's before.
LEMMA KeysCommit ==
  ASSUME Handlers = 1, TypeOK, LadderInv, KeysInv, NEW p \in Peer, NEW i \in 1..Handlers,
         DhCommit(p, i)
  PROVE  KeysInv'
<1> DEFINE r == st[p].root
           root == st'[p].root
           send == st'[p].send
<1>1. /\ T(p)'.at = "seek" /\ Rooted(p) /\ Rooted(p)' /\ UNCHANGED <<link, links, wire>>
      /\ \A q \in Peer : q # p => SendSame(q)
  BY CommitRoots DEF SendSame
<1>2. /\ send.shared = 1 /\ send.dhs = root.dhs /\ send.dir = Stepped
      /\ Len(root.dhs) = Len(r.dhs) + 2 /\ Len(r.dhs) \in Nat
  BY CommitRoots
<1>3. Stepped # "none" /\ Len(<<>>) = 0
  BY EmptySeq DEF Stepped
<1> HIDE DEF r, root, send
<1>4. SendAt(p)'
  <2>1. Len(r.dhs) % 2 = Parity(p)
    BY <1>1 DEF KeysInv, SendAt, r
  <2>2. /\ Len(root.dhs) % 2 = Parity(p) /\ Len(root.dhs) >= 2 /\ root.dhs # <<>>
        /\ Len(root.dhs) <= Len(root.dhs)
    BY <1>2, <1>3, <2>1, Parities
  <2>3. OwnChain(p, send)
    BY <1>2, <2>2 DEF OwnChain
  <2> QED BY <1>1, <1>2, <1>3, <2>2, <2>3 DEF SendAt, root, send
<1>5. \A q \in Peer : SendAt(q)'
  BY <1>1, <1>4, SendKept DEF KeysInv
<1>6. \A w \in wire' : WireAt(w)'
  <2> TAKE w \in wire'
  <2>1. w \in wire /\ WireAt(w) /\ Other(w.to) \in Peer /\ w.m.ck \in ChainKey
    BY <1>1, Chains DEF KeysInv
  <2>2. CASE Other(w.to) = p
    <3>1. OwnChain(p, w.m.ck) /\ (w.m.ck.dir = Stepped => Len(w.m.ck.dhs) <= Len(r.dhs))
      BY <1>1, <2>1, <2>2 DEF WireAt, r
    <3>2. Len(w.m.ck.dhs) \in Nat
      BY <2>1, ChainFacts
    <3>3. w.m.ck.dir = Stepped => Len(w.m.ck.dhs) <= Len(root.dhs) /\ w.m.ck.dhs # root.dhs
      BY <1>2, <3>1, <3>2
    <3>4. ~SameChain(w.m.ck, send)
      BY <1>2, <3>3 DEF SameChain
    <3>5. /\ w.m.ck.dhs = <<>> => w.m.ck.shared <= links
          /\ w.m.ck.dhs = <<>> /\ link = "answered" => w.m.ck.shared < links
      BY <2>1 DEF WireAt
    <3> QED BY <1>1, <2>2, <3>1, <3>3, <3>4, <3>5 DEF WireAt, root, send
  <2>3. CASE Other(w.to) # p
    BY <1>1, <2>1, <2>3, WireKept
  <2> QED BY <2>2, <2>3
<1> QED BY <1>1, <1>5, <1>6 DEF KeysInv, FreshMessageKeys

LEMMA KeysAnswer ==
  ASSUME Handlers = 1, TypeOK, KeysInv, ReconnectAsGuest PROVE KeysInv'
<1> DEFINE send == st'[Guest].send
<1>1. /\ link = "down" /\ link' = "answered" /\ links' = links + 1 /\ links \in Nat
      /\ T(Guest) = Idle /\ RekeyedAt(Guest, links + 1) /\ UNCHANGED <<task, wire>>
  BY AnswerFacts, Typed DEF T
<1>2. /\ send.shared = links + 1 /\ send.dhs = <<>> /\ OwnChain(Guest, send)
      /\ send.dir # "none" /\ send.dir # Stepped /\ send = KemChain(links + 1, DirFrom(Guest))
  BY <1>1, KemFacts DEF RekeyedAt
<1>3. st'[Guest].root = st[Guest].root /\ st'[Host] = st[Host]
  BY <1>1 DEF RekeyedAt
<1> HIDE DEF send
<1>4. SendAt(Guest)'
  <2>1. Rooted(Guest) => Len(st[Guest].root.dhs) % 2 = Parity(Guest)
    BY DEF KeysInv, SendAt
  <2>2. links + 1 <= links + 1
    BY <1>1
  <2>3. T(Guest)'.at = "idle"
    BY <1>1, IdleFacts DEF T
  <2> QED BY <1>1, <1>2, <1>3, <2>1, <2>2, <2>3 DEF SendAt, Rooted, send
<1>5. SendAt(Host)'
  <2>1. SendAt(Host) /\ st[Host].send.shared \in Nat
    BY Chains DEF KeysInv, ChainKey
  <2>2. st[Host].send.shared <= links => st[Host].send.shared <= links + 1
    BY <1>1, <2>1
  <2> QED BY <1>1, <1>3, <2>1, <2>2 DEF SendAt, Rooted, T
<1>6. \A w \in wire' : WireAt(w)'
  <2> TAKE w \in wire'
  <2> DEFINE ck == w.m.ck
  <2>1. w \in wire /\ WireAt(w) /\ Other(w.to) \in Peer /\ ck.shared \in Nat
    BY <1>1, Chains DEF KeysInv, ChainKey
  <2>2. ck.dhs = <<>> => ck.shared <= links + 1 /\ ck.shared < links + 1 /\ ck.shared # links + 1
    BY <1>1, <2>1 DEF WireAt
  <2>3. CASE Other(w.to) = Guest
    <3>1. ~SameChain(ck, send)
      BY <1>2, <2>2 DEF SameChain
    <3> QED BY <1>1, <1>3, <2>1, <2>2, <2>3, <3>1 DEF WireAt, Rooted, send
  <2>4. CASE Other(w.to) = Host
    BY <1>1, <1>3, <2>1, <2>2, <2>4 DEF WireAt, Rooted, T
  <2> QED BY <2>1, <2>3, <2>4
<1> QED BY <1>1, <1>4, <1>5, <1>6 DEF KeysInv, FreshMessageKeys

LEMMA KeysFinalize ==
  ASSUME Handlers = 1, TypeOK, KeysInv, FinalizeReconnect PROVE KeysInv'
<1> DEFINE send == st'[Host].send
<1>1. /\ link = "answered" /\ link' = "up" /\ links' = links /\ links \in Nat
      /\ T(Host) = Idle /\ RekeyedAt(Host, links) /\ UNCHANGED <<task, wire>>
  BY FinalizeFacts, Typed DEF T
<1>2. /\ send.shared = links /\ send.dhs = <<>> /\ OwnChain(Host, send)
      /\ send.dir # "none" /\ send.dir # Stepped
  BY <1>1, KemFacts DEF RekeyedAt
<1>3. st'[Host].root = st[Host].root /\ st'[Guest] = st[Guest]
  BY <1>1 DEF RekeyedAt
<1> HIDE DEF send
<1>4. SendAt(Host)'
  <2>1. Rooted(Host) => Len(st[Host].root.dhs) % 2 = Parity(Host)
    BY DEF KeysInv, SendAt
  <2>2. links <= links
    BY <1>1
  <2>3. T(Host)'.at = "idle"
    BY <1>1, IdleFacts DEF T
  <2> QED BY <1>1, <1>2, <1>3, <2>1, <2>2, <2>3 DEF SendAt, Rooted, send
<1>5. SendAt(Guest)'
  <2>1. SendAt(Guest)
    BY DEF KeysInv
  <2>2. st[Guest].send.dir # "none"
    BY <1>1, <2>1 DEF SendAt
  <2> QED BY <1>1, <1>3, <2>1, <2>2 DEF SendAt, Rooted, T
<1>6. \A w \in wire' : WireAt(w)'
  <2> TAKE w \in wire'
  <2> DEFINE ck == w.m.ck
  <2>1. w \in wire /\ WireAt(w) /\ Other(w.to) \in Peer /\ ck.shared \in Nat
    BY <1>1, Chains DEF KeysInv, ChainKey
  <2>2. ck.dhs = <<>> => ck.shared <= links /\ ck.shared # links
    BY <1>1, <2>1 DEF WireAt
  <2>3. CASE Other(w.to) = Host
    <3>1. ~SameChain(ck, send)
      BY <1>2, <2>2 DEF SameChain
    <3> QED BY <1>1, <1>3, <2>1, <2>2, <2>3, <3>1 DEF WireAt, Rooted, send
  <2>4. CASE Other(w.to) = Guest
    BY <1>1, <1>3, <2>1, <2>2, <2>4 DEF WireAt, Rooted, T
  <2> QED BY <2>1, <2>3, <2>4
<1> QED BY <1>1, <1>4, <1>5, <1>6 DEF KeysInv, FreshMessageKeys

LEMMA KeysReload ==
  ASSUME Handlers = 1, TypeOK, KeysInv, NEW p \in Peer, Reload(p) PROVE KeysInv'
<1>1. /\ link' = "down" /\ st'[p].root = NoRoot /\ st'[p].send = NoChain /\ T(p)' = Idle
      /\ \A q \in Peer : q # p => st'[q] = st[q] /\ T(q)' = T(q)
      /\ UNCHANGED <<links, wire>>
  BY ReloadFacts DEF T
<1>2. NoChain.dir = "none" /\ Stepped # "none"
  BY DEF NoChain, Chain, Stepped
<1>3. \A q \in Peer : q # p => SendSame(q)
  BY <1>1 DEF SendSame
<1>4. SendAt(p)'
  BY <1>1, <1>2, IdleFacts DEF SendAt, Rooted
<1>5. \A q \in Peer : SendAt(q)'
  BY <1>1, <1>3, <1>4, SendKept DEF KeysInv
<1>6. \A w \in wire' : WireAt(w)'
  <2> TAKE w \in wire'
  <2>1. w \in wire /\ WireAt(w) /\ Other(w.to) \in Peer
    BY <1>1, Chains DEF KeysInv
  <2>2. CASE Other(w.to) = p
    <3>1. OwnChain(p, w.m.ck) /\ ~SameChain(w.m.ck, NoChain)
      BY <1>2, <2>1, <2>2, NotNone DEF WireAt, SameChain
    <3> QED BY <1>1, <2>1, <2>2, <3>1 DEF WireAt, Rooted
  <2>3. CASE Other(w.to) # p
    BY <1>1, <1>3, <2>1, <2>3, WireKept
  <2> QED BY <2>2, <2>3
<1> QED BY <1>1, <1>5, <1>6 DEF KeysInv, FreshMessageKeys

\* Handling what came touches no root and no send chain but in a step.
LEMMA KeysReceive ==
  ASSUME Handlers = 1, TypeOK, KeysInv, NEW p \in Peer, NEW i \in 1..Handlers,
         \/ OnMessage(p, i) \/ RootRead(p, i) \/ Sought(p, i)
         \/ SkipOne(p, i) \/ TakeKey(p, i) \/ Open(p, i)
  PROVE  KeysInv'
<1>1. ASSUME NEW m \in Message, Found(p, i, m) \/ Refused(p, i, m) \/ Chained(p, i, m),
             UNCHANGED <<links, link, wire>>
      PROVE  KeysInv'
  <2>1. PICK t \in Task : Now(p, i, t) /\ t.at \in {"idle", "open", "skip", "take"}
    BY <1>1, SeekAside
  <2>2. st'[p].root = st[p].root /\ st'[p].send = st[p].send
    BY <1>1 DEF Found, Refused, Chained
  <2> QED BY <1>1, <2>1, <2>2, KeysAside DEF Sending
<1>2. CASE OnMessage(p, i)
  <2>1. UNCHANGED <<links, link, wire>>
    BY <1>2, MessageFacts
  <2>2. \/ \E m \in Message : Found(p, i, m) \/ Refused(p, i, m) \/ Chained(p, i, m)
        \/ st' = st /\ \E t \in Task : Now(p, i, t) /\ t.at \in {"root", "bare"}
    BY <1>2, MessageFacts
  <2>3. CASE st' = st /\ \E t \in Task : Now(p, i, t) /\ t.at \in {"root", "bare"}
    BY <2>1, <2>3, KeysAside DEF Sending
  <2> QED BY <1>1, <2>1, <2>2, <2>3
<1>3. CASE RootRead(p, i)
  <2>1. \E t \in Task : Now(p, i, t) /\ t.at = "commit"
    BY <1>3, RootFacts
  <2>2. st' = st /\ UNCHANGED <<links, link, wire>>
    BY <1>3, RootFacts DEF Still
  <2> QED BY <2>1, <2>2, KeysAside DEF Sending
<1>4. CASE Sought(p, i)
  BY <1>1, <1>4, SoughtFacts DEF Still
<1>5. CASE SkipOne(p, i)
  <2>1. PICK t \in Task :
           /\ Now(p, i, t)
           /\ t.at = IF st[p].recvIdx + 1 < task[p][i].m.n THEN "skip" ELSE "take"
    BY <1>5, SkipFacts
  <2>2. st'[p].root = st[p].root /\ st'[p].send = st[p].send /\ UNCHANGED <<links, link, wire>>
    BY <1>5, SkipFacts DEF Still
  <2>3. t.at \notin Sending
    BY <2>1 DEF Sending
  <2> QED BY <2>1, <2>2, <2>3, KeysAside
<1>6. CASE TakeKey(p, i)
  <2>1. PICK t \in Task : Now(p, i, t) /\ t.at = "open"
    BY <1>6, TakeFacts
  <2>2. st'[p].root = st[p].root /\ st'[p].send = st[p].send /\ UNCHANGED <<links, link, wire>>
    BY <1>6, TakeFacts DEF Still
  <2> QED BY <2>1, <2>2, KeysAside DEF Sending
<1>7. CASE Open(p, i)
  <2>1. Now(p, i, Idle) /\ KeysSame(p) /\ Still
    BY <1>7, OpenFacts
  <2> QED BY <2>1, IdleFacts, KeysAside DEF Sending, Still, KeysSame
<1> QED BY <1>2, <1>3, <1>4, <1>5, <1>6, <1>7

LEMMA KeysInit == ASSUME Handlers = 1 PROVE Init => KeysInv
<1> SUFFICES ASSUME Init PROVE KeysInv
  OBVIOUS
<1>1. /\ st[Host].root = InitRoot /\ st[Guest].root = GuestRoot
      /\ st[Host].send = Chain(InitRoot, HostToGuest)
      /\ st[Guest].send = Chain(GuestRoot, Stepped)
      /\ link = "up" /\ wire = {} /\ \A p \in Peer : T(p) = Idle
  BY DEF Init, InitSession, T
<1>2. /\ InitRoot.shared = 1 /\ Len(InitRoot.dhs) = 1
      /\ GuestRoot.shared = 1 /\ Len(GuestRoot.dhs) = 2
  <2> DEFINE d == {KeyPair(Host, 1), KeyPair(Guest, 1)}
             e == {KeyPair(Host, 1), KeyPair(Guest, 2)}
  <2>1. InitRoot = [shared |-> 1, dhs |-> <<d>>]
    BY DEF InitRoot
  <2> HIDE DEF d, e
  <2>2. InitRoot.shared = 1 /\ InitRoot.dhs = <<d>> /\ Len(<<d>>) = 1
    BY <2>1
  <2>3. GuestRoot = [shared |-> 1, dhs |-> Append(<<d>>, e)]
    BY <2>1 DEF GuestRoot, AdvanceRoot, e
  <2>4. Len(Append(<<d>>, e)) = 2
    <3>1. <<d>> \in Seq({d, e}) /\ e \in {d, e} /\ Len(<<d>>) = 1
      OBVIOUS
    <3> QED BY <3>1, AppendProperties
  <2> QED BY <2>2, <2>3, <2>4
<1>3. InitRoot.dhs # <<>> /\ GuestRoot.dhs # <<>>
  <2>1. Len(<<>>) = 0 /\ 1 # 0 /\ 2 # 0
    BY EmptySeq
  <2> QED BY <1>2, <2>1
<1>4. SendAt(Host)
  <2>1. /\ st[Host].send.dhs = InitRoot.dhs /\ st[Host].send.dir = HostToGuest
    BY <1>1, ChainFields
  <2>2. OwnChain(Host, st[Host].send) /\ HostToGuest # "none" /\ HostToGuest # Stepped
    BY <2>1 DEF OwnChain, DirFrom, HostToGuest, Stepped
  <2>3. Len(st[Host].root.dhs) % 2 = Parity(Host)
    BY <1>1, <1>2, Parities DEF Parity
  <2> QED BY <1>1, <1>3, <2>1, <2>2, <2>3, IdleFacts DEF SendAt
<1>5. SendAt(Guest)
  <2>1. /\ st[Guest].send.dhs = GuestRoot.dhs /\ st[Guest].send.dir = Stepped
        /\ st[Guest].send.shared = 1
    BY <1>1, <1>2, ChainFields
  <2>2. Len(GuestRoot.dhs) % 2 = Parity(Guest) /\ Len(GuestRoot.dhs) >= 2
    BY <1>2, Parities DEF Parity
  <2>3. OwnChain(Guest, st[Guest].send) /\ Stepped # "none"
    BY <2>1, <2>2 DEF OwnChain, Stepped
  <2>4. Rooted(Guest)
    BY <1>1, <1>2 DEF Rooted, NoRoot
  <2>5. Len(st[Guest].send.dhs) <= Len(st[Guest].root.dhs)
    <3>1. 2 <= 2
      OBVIOUS
    <3> QED BY <1>1, <1>2, <2>1, <3>1
  <2> QED BY <1>1, <1>3, <2>1, <2>2, <2>3, <2>4, <2>5, IdleFacts DEF SendAt
<1> QED BY <1>1, <1>4, <1>5 DEF KeysInv, FreshMessageKeys

LEMMA KeysNext ==
  ASSUME Handlers = 1, TypeOK, LadderInv, KeysInv, [Next]_vars PROVE KeysInv'
<1>1. ASSUME NEW p \in Peer, NEW i \in 1..Handlers, Step(p, i) PROVE KeysInv'
  BY <1>1, KeysSend, KeysAdvance, KeysEncrypt, KeysCommit, KeysReceive DEF Step
<1>2. ASSUME \A q \in Peer : SendSame(q), links' = links, link' \in {link, "down"},
             wire' = wire
      PROVE  KeysInv'
  BY <1>2, KeysKept
<1>3. ASSUME NEW p \in Peer, DropExcess(p) \/ Reload(p) PROVE KeysInv'
  <2>1. CASE DropExcess(p)
    BY <1>2, <2>1, DropFacts DEF SendSame, T
  <2> QED BY <1>3, <2>1, KeysReload
<1>4. CASE Disconnect
  BY <1>2, <1>4, DownFacts DEF SendSame, T
<1>5. CASE UNCHANGED vars
  BY <1>2, <1>5 DEF SendSame, T, vars
<1> QED BY <1>1, <1>3, <1>4, <1>5, KeysAnswer, KeysFinalize DEF Next

\* With one handler at a time at each end, whatever bounds, no two messages that leave,
\* of either end and on any connection, are encrypted with one message key of
\* _ratchetEncrypt: an end's chains are told from the other's by direction or by the
\* length of their root, its next one is new, and on each the chain key moves on before
\* the message leaves.
THEOREM KeysAreFresh == ASSUME Handlers = 1 PROVE Spec => []FreshMessageKeys
<1>1. Init => KeysInv
  BY KeysInit
<1>2. TypeOK /\ LadderInv /\ KeysInv /\ [Next]_vars => KeysInv'
  BY KeysNext
<1>3. KeysInv => FreshMessageKeys
  BY DEF KeysInv
<1> QED BY <1>1, <1>2, <1>3, TypeCorrect, LadderHolds, PTL DEF Spec

-----------------------------------------------------------------------------
(* With one handler at a time at each end: keys that have been used *)

\* No chain key, and no place in a chain, is kept twice.
Apart(sk) ==
  \A j, k \in 1..Len(sk) : sk[j].ck = sk[k].ck \/ KeyOf(sk[j], sk[k]) => j = k

LEMMA WithoutFacts ==
  ASSUME NEW sk \in Seq(SkippedKey), NEW k \in 1..Len(sk), Apart(sk)
  PROVE  /\ Apart(Without(sk, k))
         /\ \A j \in 1..Len(Without(sk, k)) :
              /\ \E l \in 1..Len(sk) : Without(sk, k)[j] = sk[l]
              /\ Without(sk, k)[j].ck # sk[k].ck
<1> DEFINE less == Without(sk, k)
           at(j) == IF j < k THEN j ELSE j + 1
<1>1. Len(sk) \in Nat /\ k \in DOMAIN sk /\ less = RemoveAt(sk, k)
  BY LenProperties DEF Without, RemoveAt
<1>2. /\ Len(less) = Len(sk) - 1
      /\ \A j \in 1..Len(sk) - 1 : less[j] = IF j < k THEN sk[j] ELSE sk[j + 1]
  BY <1>1, RemoveAtFacts
<1> HIDE DEF less
<1>3. \A j \in 1..Len(less) : at(j) \in 1..Len(sk) /\ less[j] = sk[at(j)] /\ at(j) # k
  BY <1>1, <1>2
<1>4. \A j, l \in 1..Len(less) : at(j) = at(l) => j = l
  BY <1>1, <1>2
<1> HIDE DEF at
<1>5. Apart(less)
  BY <1>3, <1>4 DEF Apart
<1>6. \A j \in 1..Len(less) : less[j].ck # sk[k].ck
  BY <1>3 DEF Apart
<1> QED BY <1>3, <1>5, <1>6 DEF less

LEMMA TailFacts ==
  ASSUME NEW sk \in Seq(SkippedKey), sk # <<>>, Apart(sk)
  PROVE  /\ Apart(Tail(sk))
         /\ \A j \in 1..Len(Tail(sk)) : \E l \in 1..Len(sk) : Tail(sk)[j] = sk[l]
<1> DEFINE less == Tail(sk)
<1>1. /\ Len(less) = Len(sk) - 1 /\ Len(sk) \in Nat
      /\ \A j \in 1..Len(sk) - 1 : less[j] = sk[j + 1]
  BY HeadTailFacts, LenProperties
<1> HIDE DEF less
<1>2. \A j \in 1..Len(less) : j + 1 \in 1..Len(sk) /\ less[j] = sk[j + 1]
  BY <1>1
<1>3. \A j, k \in 1..Len(less) : j + 1 = k + 1 => j = k
  BY <1>1
<1>4. Apart(less)
  BY <1>2, <1>3 DEF Apart
<1> QED BY <1>2, <1>4 DEF less

LEMMA PutFacts ==
  ASSUME NEW sk \in Seq(SkippedKey), NEW e \in SkippedKey, Apart(sk),
         \A k \in 1..Len(sk) : sk[k].ck # e.ck
  PROVE  /\ Apart(Put(sk, e))
         /\ \A j \in 1..Len(Put(sk, e)) :
              \/ Put(sk, e)[j] = e
              \/ \E l \in 1..Len(sk) : Put(sk, e)[j] = sk[l]
<1> DEFINE put == Put(sk, e)
<1>1. DOMAIN sk = 1..Len(sk) /\ Len(sk) \in Nat
  BY LenProperties
<1>2. CASE \E k \in 1..Len(sk) : KeyOf(sk[k], e)
  <2>1. put = [k \in 1..Len(sk) |-> IF KeyOf(sk[k], e) THEN e ELSE sk[k]]
    BY <1>1, <1>2 DEF Put
  <2>2. Len(put) = Len(sk)
    BY <1>1, <2>1
  <2>3. \A k \in 1..Len(sk) : \/ KeyOf(sk[k], e) /\ put[k] = e
                              \/ ~KeyOf(sk[k], e) /\ put[k] = sk[k]
    BY <2>1
  <2> HIDE DEF put
  <2>4. \A j, k \in 1..Len(sk) : KeyOf(sk[j], e) /\ KeyOf(sk[k], e) => j = k
    BY DEF Apart, KeyOf
  <2>5. Apart(put)
    <3> SUFFICES ASSUME NEW j \in 1..Len(sk), NEW k \in 1..Len(sk),
                        put[j].ck = put[k].ck \/ KeyOf(put[j], put[k])
                 PROVE  j = k
      BY <2>2 DEF Apart
    <3>1. CASE KeyOf(sk[j], e) /\ KeyOf(sk[k], e)
      BY <2>4, <3>1
    <3>2. CASE KeyOf(sk[j], e) /\ ~KeyOf(sk[k], e)
      BY <2>3, <3>2 DEF KeyOf
    <3>3. CASE ~KeyOf(sk[j], e) /\ KeyOf(sk[k], e)
      BY <2>3, <3>3 DEF KeyOf
    <3>4. CASE ~KeyOf(sk[j], e) /\ ~KeyOf(sk[k], e)
      BY <2>3, <3>4 DEF Apart
    <3> QED BY <3>1, <3>2, <3>3, <3>4
  <2> QED BY <2>2, <2>3, <2>5 DEF put
<1>3. CASE \A k \in 1..Len(sk) : ~KeyOf(sk[k], e)
  <2>1. put = Append(sk, e)
    BY <1>1, <1>3 DEF Put
  <2>2. /\ Len(put) = Len(sk) + 1 /\ put[Len(sk) + 1] = e
        /\ \A k \in 1..Len(sk) : put[k] = sk[k]
    BY <2>1, AppendFacts
  <2> HIDE DEF put
  <2>3. \A k \in 1..Len(put) : \/ k \in 1..Len(sk) /\ put[k] = sk[k]
                               \/ k = Len(sk) + 1 /\ put[k] = e
    BY <1>1, <2>2
  <2>4. Apart(put)
    <3> SUFFICES ASSUME NEW j \in 1..Len(put), NEW k \in 1..Len(put),
                        put[j].ck = put[k].ck \/ KeyOf(put[j], put[k])
                 PROVE  j = k
      BY DEF Apart
    <3>1. CASE j \in 1..Len(sk) /\ put[j] = sk[j] /\ k \in 1..Len(sk) /\ put[k] = sk[k]
      BY <3>1 DEF Apart
    <3>2. CASE j \in 1..Len(sk) /\ put[j] = sk[j] /\ k = Len(sk) + 1 /\ put[k] = e
      BY <1>3, <3>2
    <3>3. CASE j = Len(sk) + 1 /\ put[j] = e /\ k \in 1..Len(sk) /\ put[k] = sk[k]
      BY <1>3, <3>3 DEF KeyOf
    <3> QED BY <2>3, <3>1, <3>2, <3>3
  <2> QED BY <2>3, <2>4 DEF put
<1> QED BY <1>2, <1>3

LEMMA StoreFacts ==
  ASSUME NEW sk \in Seq(SkippedKey), NEW e \in SkippedKey, Apart(sk),
         \A k \in 1..Len(sk) : sk[k].ck # e.ck
  PROVE  /\ Apart(Store(sk, e))
         /\ \A j \in 1..Len(Store(sk, e)) :
              \/ Store(sk, e)[j] = e
              \/ \E l \in 1..Len(sk) : Store(sk, e)[j] = sk[l]
<1> DEFINE put == Put(sk, e)
<1>1. /\ put \in Seq(SkippedKey) /\ Len(put) \in Nat /\ Apart(put)
      /\ \A j \in 1..Len(put) : put[j] = e \/ \E l \in 1..Len(sk) : put[j] = sk[l]
  BY PutType, PutFacts, LenProperties
<1> HIDE DEF put
<1>2. CASE Len(put) > 2 * MaxSkip
  <2>1. Store(sk, e) = Tail(put)
    BY <1>2 DEF Store, put
  <2>2. put # <<>>
    <3>1. Len(<<>>) = 0 /\ 2 * MaxSkip \in Nat
      BY EmptySeq, BoundsAssumption
    <3> QED BY <1>2, <3>1
  <2>3. /\ Apart(Tail(put))
        /\ \A j \in 1..Len(Tail(put)) : \E l \in 1..Len(put) : Tail(put)[j] = put[l]
    BY <1>1, <2>2, TailFacts
  <2> QED BY <1>1, <2>1, <2>3
<1>3. CASE ~(Len(put) > 2 * MaxSkip)
  <2>1. Store(sk, e) = put
    BY <1>3 DEF Store, put
  <2> QED BY <1>1, <2>1
<1> QED BY <1>2, <1>3

\* A chain of a secret is no newer than the link, and one the host still reads on is of a
\* link it has finalized.
Dated(p, ck) ==
  ck.dhs = <<>> => ck.shared <= links /\ (link = "answered" /\ p = Host => ck.shared < links)

\* A key that p has no chain key for: the chain it reads on is another or beyond it, and so
\* are the ones it will read on.
Spent(p, ck) ==
  /\ OwnChain(Other(p), ck)
  /\ ck.dir = Stepped /\ Rooted(p) => Len(ck.dhs) < Len(st[p].root.dhs)
  /\ Dated(p, ck)
  /\ SameChain(ck, st[p].recv) => ck.n < st[p].recv.n

\* The chain an end reads on is one of the other's.
RecvAt(p) ==
  LET r == st[p].recv IN
  /\ r.dir # "none" => OwnChain(Other(p), r) /\ Dated(p, r)
  /\ r.dir = Stepped => Rooted(p) /\ Len(r.dhs) < Len(st[p].root.dhs)
  /\ r.dir = "none" => link # "up" /\ (link = "answered" => p = Host)
  /\ T(p).at \in {"seek", "skip", "take", "bare"} => r.dir # "none"
  /\ T(p).at \in {"skip", "take", "bare"} => T(p).ck = r

\* The keys it keeps of skipped messages, and the one it is about to try.
SkippedAt(p) ==
  LET sk == st[p].skipped IN
  /\ Apart(sk)
  /\ \A k \in 1..Len(sk) : Spent(p, sk[k].ck)
  /\ T(p).at = "open" =>
       Spent(p, T(p).ck) /\ \A k \in 1..Len(sk) : sk[k].ck # T(p).ck

\* The key of a message that has been shown.
GoneAt(f) ==
  /\ Spent(f.to, f.m.ck)
  /\ \A k \in 1..Len(st[f.to].skipped) : st[f.to].skipped[k].ck # f.m.ck
  /\ T(f.to).at = "open" => T(f.to).ck # f.m.ck

ReadInv ==
  /\ \A p \in Peer : RecvAt(p) /\ SkippedAt(p)
  /\ \A f \in fate : f.why = "shown" => GoneAt(f)

LEMMA Kept ==
  ASSUME TypeOK
  PROVE  /\ \A p \in Peer : /\ st[p].skipped \in Seq(SkippedKey) /\ Len(st[p].skipped) \in Nat
                            /\ \A k \in 1..Len(st[p].skipped) :
                                 /\ st[p].skipped[k] \in SkippedKey
                                 /\ st[p].skipped[k].ck \in ChainKey
         /\ \A f \in fate : /\ f.to \in Peer /\ f.m \in Message /\ f.m.ck \in ChainKey
                            /\ f = [to |-> f.to, m |-> f.m, why |-> f.why]
<1>1. ASSUME NEW p \in Peer
      PROVE  /\ st[p].skipped \in Seq(SkippedKey) /\ Len(st[p].skipped) \in Nat
             /\ \A k \in 1..Len(st[p].skipped) :
                  st[p].skipped[k] \in SkippedKey /\ st[p].skipped[k].ck \in ChainKey
  <2>1. st[p].skipped \in Seq(SkippedKey)
    BY Typed DEF Session
  <2>2. /\ Len(st[p].skipped) \in Nat
        /\ \A k \in 1..Len(st[p].skipped) : st[p].skipped[k] \in SkippedKey
    BY <2>1, LenProperties, ElementOfSeq
  <2> QED BY <2>1, <2>2 DEF SkippedKey
<1>2. ASSUME NEW f \in fate
      PROVE  /\ f.to \in Peer /\ f.m \in Message /\ f.m.ck \in ChainKey
             /\ f = [to |-> f.to, m |-> f.m, why |-> f.why]
  <2>1. f \in Fate
    BY DEF TypeOK
  <2>2. /\ f.to \in Peer /\ f.m \in Message
        /\ f = [to |-> f.to, m |-> f.m, why |-> f.why]
    BY <2>1 DEF Fate
  <2>3. f.m.ck \in ChainKey
    BY <2>2 DEF Message
  <2> QED BY <2>2, <2>3
<1> QED BY <1>1, <1>2

\* What an end has spent it does not get again while it reads on, or on a chain advanced.
LEMMA SpentStays ==
  ASSUME TypeOK, NEW p \in Peer, NEW ck \in ChainKey, Spent(p, ck),
         st'[p].root = st[p].root, links' = links, link' \in {link, "down"},
         st'[p].recv \in {st[p].recv, NextChain(st[p].recv)}
  PROVE  Spent(p, ck)'
<1> DEFINE r == st[p].recv
           s == st'[p].recv
<1>1. r \in ChainKey
  BY Chains
<1>2. SameChain(ck, s) => SameChain(ck, r) /\ (ck.n < r.n => ck.n < s.n)
  <2>1. CASE s = r
    BY <2>1
  <2>2. CASE s = NextChain(r)
    <3>1. s.dir = r.dir /\ s.dhs = r.dhs /\ s.shared = r.shared /\ s.n = r.n + 1
      BY <1>1, <2>2, ChainFacts
    <3>2. ck.n \in Nat /\ r.n \in Nat
      BY <1>1, ChainFacts
    <3> HIDE DEF r, s
    <3> QED BY <3>1, <3>2 DEF SameChain
  <2> QED BY <2>1, <2>2
<1>3. SameChain(ck, s) => ck.n < s.n
  BY <1>2 DEF Spent
<1>4. Dated(p, ck)'
  BY DEF Spent, Dated
<1> QED BY <1>3, <1>4 DEF Spent, Rooted

\* The chain key an end reads on is none it has spent, and is spent as the chain advances.
LEMMA RecvNotSpent ==
  ASSUME TypeOK, NEW p \in Peer, NEW ck, Spent(p, ck)
  PROVE  ck # st[p].recv
<1>1. st[p].recv.n \in Nat
  BY Chains, ChainFacts
<1>2. ck = st[p].recv => SameChain(ck, st[p].recv) /\ ck.n = st[p].recv.n
  BY DEF SameChain
<1> QED BY <1>1, <1>2 DEF Spent

LEMMA RecvIsSpent ==
  ASSUME TypeOK, NEW p \in Peer, NEW r \in ChainKey, r = st[p].recv, RecvAt(p), r.dir # "none",
         st'[p].root = st[p].root, links' = links, link' \in {link, "down"},
         st'[p].recv = NextChain(r)
  PROVE  Spent(p, r)'
<1>1. r.n \in Nat /\ r.n < r.n + 1
  BY ChainFacts
<1>2. st'[p].recv.n = r.n + 1
  BY ChainFacts
<1>3. OwnChain(Other(p), r) /\ (r.dir = Stepped => Len(r.dhs) < Len(st[p].root.dhs))
  BY DEF RecvAt
<1>4. Dated(p, r)'
  BY DEF RecvAt, Dated
<1> QED BY <1>1, <1>2, <1>3, <1>4 DEF Spent

\* What a handler's step must do for the keys used to stay gone.
ReadStep(p, t) ==
  /\ t.at \in {"seek", "skip", "take", "bare"} => st[p].recv.dir # "none"
  /\ t.at \in {"skip", "take", "bare"} => t.ck = st'[p].recv
  /\ Apart(st'[p].skipped)
  /\ \A k \in 1..Len(st'[p].skipped) : Spent(p, st[p].skipped[k].ck)'
  /\ t.at = "open" =>
       Spent(p, t.ck)' /\ \A k \in 1..Len(st'[p].skipped) : st'[p].skipped[k].ck # t.ck
  /\ \A f \in fate : f.to = p /\ f.why = "shown" =>
       /\ \A k \in 1..Len(st'[p].skipped) : st'[p].skipped[k].ck # f.m.ck
       /\ t.at = "open" => t.ck # f.m.ck

LEMMA RecvStays ==
  ASSUME TypeOK, NEW p \in Peer, RecvAt(p),
         st'[p].root = st[p].root, links' = links, link' \in {link, "down"},
         st'[p].recv \in {st[p].recv, NextChain(st[p].recv)},
         T(p)'.at \in {"seek", "skip", "take", "bare"} => st[p].recv.dir # "none",
         T(p)'.at \in {"skip", "take", "bare"} => T(p)'.ck = st'[p].recv
  PROVE  RecvAt(p)'
<1> DEFINE r == st[p].recv
           s == st'[p].recv
<1>1. s.dir = r.dir /\ s.dhs = r.dhs /\ s.shared = r.shared
  <2>1. r \in ChainKey
    BY Chains
  <2> QED BY <2>1, ChainFacts
<1>2. r.dir # "none" => OwnChain(Other(p), s)
  BY <1>1 DEF RecvAt, OwnChain
<1>3. r.dir # "none" =>
        (s.dhs = <<>> => s.shared <= links'
                         /\ (link' = "answered" /\ p = Host => s.shared < links'))
  BY <1>1 DEF RecvAt, Dated
<1> QED BY <1>1, <1>2, <1>3 DEF RecvAt, Dated, Rooted

LEMMA ReadLocal ==
  ASSUME Handlers = 1, TypeOK, ReadInv, NEW p \in Peer, NEW i \in 1..Handlers, NEW t,
         Now(p, i, t), st'[p].root = st[p].root, UNCHANGED <<links, link>>,
         st'[p].recv \in {st[p].recv, NextChain(st[p].recv)},
         ReadStep(p, t), \A f \in fate' : f.why = "shown" => f \in fate \/ GoneAt(f)'
  PROVE  ReadInv'
<1>1. T(p)' = t /\ \A q \in Peer : q # p => T(q)' = T(q) /\ st'[q] = st[q]
  BY OneNow
<1>2. RecvAt(p)'
  BY <1>1, RecvStays DEF ReadInv, ReadStep
<1>3. SkippedAt(p)'
  BY <1>1 DEF ReadStep, SkippedAt
<1>4. ASSUME NEW q \in Peer, q # p PROVE RecvAt(q)' /\ SkippedAt(q)'
  <2>1. RecvAt(q) /\ SkippedAt(q) /\ T(q)' = T(q) /\ st'[q] = st[q]
    BY <1>1, <1>4 DEF ReadInv
  <2>2. RecvAt(q)'
    BY <2>1 DEF RecvAt, Dated, Rooted
  <2>3. SkippedAt(q)'
    BY <2>1 DEF SkippedAt, Spent, Dated, Rooted
  <2> QED BY <2>2, <2>3
<1>5. ASSUME NEW f \in fate, f.why = "shown" PROVE GoneAt(f)'
  <2>1. GoneAt(f) /\ f.to \in Peer /\ f.m.ck \in ChainKey
    BY <1>5, Kept DEF ReadInv
  <2>2. CASE f.to = p
    <3>1. Spent(p, f.m.ck)'
      BY <2>1, <2>2, SpentStays DEF GoneAt
    <3> QED BY <1>1, <1>5, <2>2, <3>1 DEF ReadStep, GoneAt
  <2>3. CASE f.to # p
    <3>1. T(f.to)' = T(f.to) /\ st'[f.to] = st[f.to]
      BY <1>1, <2>1, <2>3
    <3> QED BY <2>1, <3>1 DEF GoneAt, Spent, Dated, Rooted
  <2> QED BY <2>2, <2>3
<1> QED BY <1>2, <1>3, <1>4, <1>5 DEF ReadInv

\* A step that leaves the chain and the skipped keys alone.
LEMMA ReadQuiet ==
  ASSUME Handlers = 1, TypeOK, ReadInv, NEW p \in Peer, NEW i \in 1..Handlers, NEW t,
         Now(p, i, t), t.at \in Sending \cup {"idle", "root", "commit"},
         st'[p].root = st[p].root, st'[p].recv = st[p].recv,
         st'[p].skipped = st[p].skipped, UNCHANGED <<links, link>>,
         \A f \in fate' : f.why = "shown" => f \in fate \/ GoneAt(f)'
  PROVE  ReadInv'
<1>1. \A k \in 1..Len(st[p].skipped) : Spent(p, st[p].skipped[k].ck)'
  <2> TAKE k \in 1..Len(st[p].skipped)
  <2>1. Spent(p, st[p].skipped[k].ck)
    BY DEF ReadInv, SkippedAt
  <2> QED BY <2>1 DEF Spent, Dated, Rooted
<1>2. ReadStep(p, t)
  <2>1. t.at \notin {"seek", "skip", "take", "bare", "open"}
    BY DEF Sending
  <2>2. \A f \in fate : f.to = p /\ f.why = "shown" =>
          \A k \in 1..Len(st[p].skipped) : st[p].skipped[k].ck # f.m.ck
    BY DEF ReadInv, GoneAt
  <2>3. Apart(st[p].skipped)
    BY DEF ReadInv, SkippedAt
  <2> QED BY <1>1, <2>1, <2>2, <2>3 DEF ReadStep
<1> QED BY <1>2, ReadLocal

LEMMA ReadFound ==
  ASSUME Handlers = 1, TypeOK, ReadInv, NEW p \in Peer, NEW i \in 1..Handlers,
         NEW m \in Message, Found(p, i, m), UNCHANGED <<links, link>>
  PROVE  ReadInv'
<1> DEFINE sk == st[p].skipped
<1>1. PICK k \in 1..Len(sk), t \in Task :
        /\ Now(p, i, t) /\ t.at = "open" /\ t.ck = sk[k].ck
        /\ st'[p].root = st[p].root /\ st'[p].recv = st[p].recv
        /\ st'[p].skipped = Without(sk, k) /\ fate' = fate
  BY DEF Found
<1>2. /\ sk \in Seq(SkippedKey) /\ \A j \in 1..Len(sk) : sk[j].ck \in ChainKey
      /\ Apart(sk) /\ \A j \in 1..Len(sk) : Spent(p, sk[j].ck)
  BY Kept DEF ReadInv, SkippedAt
<1>3. /\ Apart(st'[p].skipped)
      /\ \A j \in 1..Len(st'[p].skipped) : /\ \E l \in 1..Len(sk) : st'[p].skipped[j] = sk[l]
                                           /\ st'[p].skipped[j].ck # t.ck
  BY <1>1, <1>2, WithoutFacts
<1>4. \A ck \in ChainKey : Spent(p, ck) => Spent(p, ck)'
  BY <1>1, SpentStays
<1>5. Spent(p, t.ck)'
  BY <1>1, <1>2, <1>4
<1>6. \A j \in 1..Len(st'[p].skipped) : Spent(p, st[p].skipped[j].ck)'
  BY <1>2, <1>3, <1>4
<1>7. \A f \in fate : f.to = p /\ f.why = "shown" =>
        /\ \A j \in 1..Len(st'[p].skipped) : st'[p].skipped[j].ck # f.m.ck
        /\ t.ck # f.m.ck
  BY <1>1, <1>3 DEF ReadInv, GoneAt
<1>8. ReadStep(p, t)
  BY <1>1, <1>3, <1>5, <1>6, <1>7 DEF ReadStep
<1> QED BY <1>1, <1>8, ReadLocal

LEMMA ReadSeek ==
  ASSUME Handlers = 1, TypeOK, ReadInv, NEW p \in Peer, NEW i \in 1..Handlers,
         NEW m \in Message, Found(p, i, m) \/ Refused(p, i, m) \/ Chained(p, i, m),
         UNCHANGED <<links, link>>, st[p].recv.dir # "none"
  PROVE  ReadInv'
<1>1. CASE Refused(p, i, m)
  <2>1. /\ Now(p, i, Idle) /\ st' = st
        /\ \E why \in {"missing", "skip"} : fate' = fate \cup {[to |-> p, m |-> m, why |-> why]}
    BY <1>1 DEF Refused
  <2>2. \A f \in fate' : f.why = "shown" => f \in fate
    BY <2>1
  <2> QED BY <2>1, <2>2, IdleFacts, ReadQuiet
<1>2. CASE Chained(p, i, m)
  <2>1. PICK t \in Task :
          /\ Now(p, i, t) /\ t.at = IF st[p].recvIdx < m.n THEN "skip" ELSE "take"
          /\ t.ck = st[p].recv /\ st' = st /\ fate' = fate
    BY <1>2 DEF Chained
  <2>2. t.at # "open"
    BY <2>1
  <2>3. \A k \in 1..Len(st'[p].skipped) : Spent(p, st[p].skipped[k].ck)'
    <3> TAKE k \in 1..Len(st'[p].skipped)
    <3>1. Spent(p, st[p].skipped[k].ck)
      BY <2>1 DEF ReadInv, SkippedAt
    <3> QED BY <2>1, <3>1 DEF Spent, Dated, Rooted
  <2>4. /\ Apart(st'[p].skipped)
        /\ \A f \in fate : f.to = p /\ f.why = "shown" =>
             \A k \in 1..Len(st'[p].skipped) : st'[p].skipped[k].ck # f.m.ck
    BY <2>1 DEF ReadInv, SkippedAt, GoneAt
  <2>5. ReadStep(p, t)
    BY <2>1, <2>2, <2>3, <2>4 DEF ReadStep
  <2> QED BY <2>1, <2>5, ReadLocal
<1> QED BY <1>1, <1>2, ReadFound

LEMMA ReadMessage ==
  ASSUME Handlers = 1, TypeOK, ReadInv, NEW p \in Peer, NEW i \in 1..Handlers,
         OnMessage(p, i)
  PROVE  ReadInv'
<1>1. link = "up" /\ UNCHANGED <<links, link>>
  BY MessageFacts
<1>2. st[p].recv.dir # "none"
  BY <1>1 DEF ReadInv, RecvAt
<1>3. \/ \E m \in Message : Found(p, i, m) \/ Refused(p, i, m) \/ Chained(p, i, m)
      \/ /\ st' = st /\ fate' = fate
         /\ \E t \in Task : Now(p, i, t) /\ t.at = "root"
      \/ /\ st' = st /\ fate' = fate
         /\ \E t \in Task : Now(p, i, t) /\ t.at = "bare" /\ t.ck = st[p].recv
  BY MessageFacts
<1>4. CASE \E m \in Message : Found(p, i, m) \/ Refused(p, i, m) \/ Chained(p, i, m)
  BY <1>1, <1>2, <1>4, ReadSeek
<1>5. ASSUME st' = st, fate' = fate, NEW t \in Task, Now(p, i, t), t.at = "root"
      PROVE  ReadInv'
  BY <1>1, <1>5, ReadQuiet
<1>6. ASSUME st' = st, fate' = fate, NEW t \in Task, Now(p, i, t), t.at = "bare",
             t.ck = st[p].recv
      PROVE  ReadInv'
  <2>1. \A k \in 1..Len(st'[p].skipped) : Spent(p, st[p].skipped[k].ck)'
    <3> TAKE k \in 1..Len(st'[p].skipped)
    <3>1. Spent(p, st[p].skipped[k].ck)
      BY <1>6 DEF ReadInv, SkippedAt
    <3> QED BY <1>1, <1>6, <3>1 DEF Spent, Dated, Rooted
  <2>2. /\ Apart(st'[p].skipped)
        /\ \A f \in fate : f.to = p /\ f.why = "shown" =>
             \A k \in 1..Len(st'[p].skipped) : st'[p].skipped[k].ck # f.m.ck
    BY <1>6 DEF ReadInv, SkippedAt, GoneAt
  <2>3. ReadStep(p, t)
    BY <1>2, <1>6, <2>1, <2>2 DEF ReadStep
  <2> QED BY <1>1, <1>6, <2>3, ReadLocal
<1> QED BY <1>3, <1>4, <1>5, <1>6

LEMMA ReadSought ==
  ASSUME Handlers = 1, TypeOK, ReadInv, NEW p \in Peer, NEW i \in 1..Handlers, Sought(p, i)
  PROVE  ReadInv'
<1>1. /\ task[p][i].at = "seek" /\ task[p][i].m \in Message /\ UNCHANGED <<links, link>>
      /\ \/ Found(p, i, task[p][i].m) \/ Refused(p, i, task[p][i].m)
         \/ Chained(p, i, task[p][i].m)
  BY SoughtFacts DEF Still
<1>2. task[p][i] = T(p)
  BY <1>1, SeekAside, OneNow
<1>3. st[p].recv.dir # "none"
  BY <1>1, <1>2 DEF ReadInv, RecvAt
<1> QED BY <1>1, <1>3, ReadSeek

\* A skipped key is the chain's, which moves on.
LEMMA ReadSkip ==
  ASSUME Handlers = 1, TypeOK, ReadInv, NEW p \in Peer, NEW i \in 1..Handlers, SkipOne(p, i)
  PROVE  ReadInv'
<1> DEFINE sk == st[p].skipped
           e == [pk |-> task[p][i].m.pk, n |-> st[p].recvIdx, ck |-> task[p][i].ck]
<1>1. PICK t \in Task :
        /\ Now(p, i, t)
        /\ t.at = IF st[p].recvIdx + 1 < task[p][i].m.n THEN "skip" ELSE "take"
        /\ t.ck = NextChain(task[p][i].ck)
  BY SkipFacts
<1>2. /\ task[p][i].at = "skip" /\ task[p][i] = T(p) /\ st'[p].root = st[p].root
      /\ st'[p].skipped = Store(sk, e) /\ st'[p].recv = NextChain(task[p][i].ck)
      /\ UNCHANGED <<links, link>> /\ fate' = fate
  <2>1. task[p][i] = T(p)
    BY <1>1, OneNow
  <2> QED BY <2>1, SkipFacts DEF Still
<1>3. PICK r \in ChainKey : r = st[p].recv
  BY Chains
<1>4. task[p][i].ck = r /\ r.dir # "none" /\ t.at \in {"skip", "take"} /\ e.ck = r
  BY <1>1, <1>2, <1>3 DEF ReadInv, RecvAt
<1>5. /\ sk \in Seq(SkippedKey) /\ \A j \in 1..Len(sk) : sk[j].ck \in ChainKey
      /\ Apart(sk) /\ \A j \in 1..Len(sk) : Spent(p, sk[j].ck)
  BY Kept DEF ReadInv, SkippedAt
<1>6. e \in SkippedKey
  <2>1. task[p][i].m.pk \in Key /\ st[p].recvIdx \in Nat /\ task[p][i].ck \in ChainKey
    BY <1>3, <1>4, Typed DEF Message, Session
  <2> QED BY <2>1 DEF SkippedKey
<1>7. \A j \in 1..Len(sk) : sk[j].ck # e.ck
  BY <1>3, <1>4, <1>5, RecvNotSpent
<1> HIDE DEF e
<1>8. /\ Apart(st'[p].skipped)
      /\ \A j \in 1..Len(st'[p].skipped) :
           \/ st'[p].skipped[j] = e
           \/ \E l \in 1..Len(sk) : st'[p].skipped[j] = sk[l]
  BY <1>2, <1>5, <1>6, <1>7, StoreFacts
<1>9. \A ck \in ChainKey : Spent(p, ck) => Spent(p, ck)'
  BY <1>2, <1>3, <1>4, SpentStays
<1>10. Spent(p, r)'
  BY <1>2, <1>3, <1>4, RecvIsSpent DEF ReadInv
<1>11. \A j \in 1..Len(st'[p].skipped) : Spent(p, st[p].skipped[j].ck)'
  BY <1>4, <1>5, <1>8, <1>9, <1>10
<1>12. ASSUME NEW f \in fate, f.to = p, f.why = "shown", NEW j \in 1..Len(st'[p].skipped)
       PROVE  st'[p].skipped[j].ck # f.m.ck
  <2>1. Spent(p, f.m.ck) /\ \A l \in 1..Len(sk) : sk[l].ck # f.m.ck
    BY <1>12 DEF ReadInv, GoneAt
  <2>2. f.m.ck # r
    BY <1>3, <2>1, RecvNotSpent
  <2> QED BY <1>4, <1>8, <2>1, <2>2
<1>13. ReadStep(p, t)
  BY <1>1, <1>2, <1>3, <1>4, <1>8, <1>11, <1>12 DEF ReadStep
<1> QED BY <1>1, <1>2, <1>3, <1>4, <1>13, ReadLocal

\* So is the key of a message in its turn.
LEMMA ReadTake ==
  ASSUME Handlers = 1, TypeOK, ReadInv, NEW p \in Peer, NEW i \in 1..Handlers, TakeKey(p, i)
  PROVE  ReadInv'
<1> DEFINE sk == st[p].skipped
<1>1. PICK t \in Task : Now(p, i, t) /\ t.at = "open" /\ t.ck = task[p][i].ck
  BY TakeFacts
<1>2. /\ task[p][i].at \in {"take", "bare"} /\ task[p][i] = T(p) /\ st'[p].root = st[p].root
      /\ st'[p].skipped = sk /\ st'[p].recv = NextChain(task[p][i].ck)
      /\ UNCHANGED <<links, link>> /\ fate' = fate
  <2>1. task[p][i] = T(p)
    BY <1>1, OneNow
  <2> QED BY <2>1, TakeFacts DEF Still
<1>3. PICK r \in ChainKey : r = st[p].recv
  BY Chains
<1>4. task[p][i].ck = r /\ r.dir # "none" /\ t.ck = r
  BY <1>1, <1>2, <1>3 DEF ReadInv, RecvAt
<1>5. /\ \A j \in 1..Len(sk) : sk[j].ck \in ChainKey
      /\ Apart(sk) /\ \A j \in 1..Len(sk) : Spent(p, sk[j].ck)
  BY Kept DEF ReadInv, SkippedAt
<1>6. \A ck \in ChainKey : Spent(p, ck) => Spent(p, ck)' /\ ck # r
  BY <1>2, <1>3, <1>4, SpentStays, RecvNotSpent
<1>7. Spent(p, r)'
  BY <1>2, <1>3, <1>4, RecvIsSpent DEF ReadInv
<1>8. \A j \in 1..Len(st'[p].skipped) : Spent(p, st[p].skipped[j].ck)'
  BY <1>2, <1>5, <1>6
<1>9. \A f \in fate : f.to = p /\ f.why = "shown" =>
        f.m.ck # r /\ \A j \in 1..Len(sk) : sk[j].ck # f.m.ck
  BY <1>3, <1>6, Kept DEF ReadInv, GoneAt
<1>10. Spent(p, t.ck)' /\ \A j \in 1..Len(sk) : sk[j].ck # t.ck
  BY <1>4, <1>5, <1>6, <1>7
<1>11. ReadStep(p, t)
  BY <1>1, <1>2, <1>4, <1>5, <1>8, <1>9, <1>10 DEF ReadStep
<1> QED BY <1>1, <1>2, <1>3, <1>4, <1>11, ReadLocal

\* What is shown was opened with a key that is gone.
LEMMA ReadOpen ==
  ASSUME Handlers = 1, TypeOK, ReadInv, NEW p \in Peer, NEW i \in 1..Handlers, Open(p, i)
  PROVE  ReadInv'
<1> DEFINE b == task[p][i]
<1>1. /\ b.at = "open" /\ b.m \in Message /\ b.ck \in ChainKey /\ Now(p, i, Idle)
      /\ KeysSame(p) /\ UNCHANGED <<links, link>>
  BY OpenFacts DEF Still
<1>2. b = T(p) /\ T(p)' = Idle
  BY <1>1, OneNow
<1>3. /\ Spent(p, b.ck) /\ \A k \in 1..Len(st[p].skipped) : st[p].skipped[k].ck # b.ck
  BY <1>1, <1>2 DEF ReadInv, SkippedAt
<1>4. /\ \A ck \in ChainKey : Spent(p, ck) => Spent(p, ck)'
      /\ st'[p].skipped = st[p].skipped
  BY <1>1, SpentStays DEF KeysSame
<1>5. \E why : /\ fate' = fate \cup {[to |-> p, m |-> b.m, why |-> why]}
               /\ why = "shown" => b.ck = b.m.ck
  <2> DEFINE with(why) == fate' = fate \cup {[to |-> p, m |-> b.m, why |-> why]}
  <2>1. (b.ck = b.m.ck /\ with("shown")) \/ with("stale") \/ with("unreadable")
    BY OpenFacts
  <2> HIDE DEF with
  <2>2. \E why : with(why) /\ (why = "shown" => b.ck = b.m.ck)
    BY <2>1
  <2> QED BY <2>2 DEF with
<1>6. ASSUME NEW f \in fate', f.why = "shown", f \notin fate PROVE GoneAt(f)'
  <2>1. f.to = p /\ f.m = b.m /\ b.m.ck = b.ck
    BY <1>5, <1>6
  <2>2. PICK ck \in ChainKey : ck = b.ck
    BY <1>1
  <2>3. Spent(p, ck)' /\ \A k \in 1..Len(st'[p].skipped) : st'[p].skipped[k].ck # ck
    BY <1>3, <1>4, <2>2
  <2> HIDE DEF b
  <2> QED BY <1>2, <2>1, <2>2, <2>3, IdleFacts DEF GoneAt
<1> QED BY <1>1, <1>6, IdleFacts, ReadQuiet DEF KeysSame

\* An end that neither reads nor loses its keys, whatever the other does with its.
ReadSame(p) ==
  /\ st'[p].root = st[p].root /\ st'[p].recv = st[p].recv /\ st'[p].skipped = st[p].skipped
  /\ T(p)' = T(p)

LEMMA SameRead ==
  ASSUME NEW p \in Peer, RecvAt(p), SkippedAt(p), ReadSame(p), links' = links,
         link' \in {link, "down"}
  PROVE  /\ RecvAt(p)' /\ SkippedAt(p)'
         /\ \A f : f.to = p /\ GoneAt(f) => GoneAt(f)'
<1>1. RecvAt(p)'
  BY DEF ReadSame, RecvAt, Dated, Rooted
<1>2. SkippedAt(p)'
  BY DEF ReadSame, SkippedAt, Spent, Dated, Rooted
<1>3. \A f : f.to = p /\ GoneAt(f) => GoneAt(f)'
  BY DEF ReadSame, GoneAt, Spent, Dated, Rooted
<1> QED BY <1>1, <1>2, <1>3

\* An end that starts anew on a chain, with no handler at work, and keeps its skipped keys.
LEMMA ReadAnew ==
  ASSUME TypeOK, ReadInv, NEW p \in Peer, T(p)' = Idle,
         \A ck \in ChainKey : Spent(p, ck) => Spent(p, ck)',
         st'[p].skipped = st[p].skipped \/ st'[p].skipped = <<>>
  PROVE  /\ SkippedAt(p)'
         /\ \A f \in fate : f.to = p /\ f.why = "shown" => GoneAt(f)'
<1>1. T(p)'.at # "open"
  BY IdleFacts
<1>2. /\ Apart(st[p].skipped)
      /\ \A k \in 1..Len(st[p].skipped) :
           /\ Spent(p, st[p].skipped[k].ck) /\ st[p].skipped[k].ck \in ChainKey
  BY Kept DEF ReadInv, SkippedAt
<1>3. Apart(<<>>) /\ Len(<<>>) = 0
  BY EmptySeq DEF Apart
<1>4. Apart(st'[p].skipped)
  BY <1>2, <1>3
<1>5. \A k \in 1..Len(st'[p].skipped) : Spent(p, st[p].skipped[k].ck)'
  <2>1. CASE st'[p].skipped = st[p].skipped
    BY <1>2, <2>1
  <2>2. CASE st'[p].skipped = <<>>
    BY <1>3, <2>2
  <2> QED BY <2>1, <2>2
<1>6. ASSUME NEW f \in fate, f.to = p, f.why = "shown" PROVE GoneAt(f)'
  <2>1. /\ Spent(p, f.m.ck) /\ \A k \in 1..Len(st[p].skipped) : st[p].skipped[k].ck # f.m.ck
        /\ f.m.ck \in ChainKey
    BY <1>6, Kept DEF ReadInv, GoneAt
  <2>2. \A k \in 1..Len(st'[p].skipped) : st'[p].skipped[k].ck # f.m.ck
    BY <1>3, <2>1
  <2> QED BY <1>1, <1>6, <2>1, <2>2 DEF GoneAt
<1> QED BY <1>1, <1>4, <1>5, <1>6 DEF SkippedAt

\* A step goes to a chain longer than any the end has read on.
LEMMA ReadCommit ==
  ASSUME Handlers = 1, TypeOK, LadderInv, KeysInv, ReadInv, NEW p \in Peer,
         NEW i \in 1..Handlers, DhCommit(p, i)
  PROVE  ReadInv'
<1> DEFINE r == st[p].root
           root == st'[p].root
           recv == st'[p].recv
<1>1. /\ T(p)'.at = "seek" /\ Rooted(p) /\ Rooted(p)' /\ UNCHANGED <<link, links, fate>>
      /\ st'[p].skipped = <<>> /\ \A q \in Peer : q # p => ReadSame(q)
  BY CommitRoots DEF ReadSame
<1>2. /\ recv.shared = 1 /\ Len(recv.dhs) = Len(r.dhs) + 1 /\ recv.dir = Stepped
      /\ Len(root.dhs) = Len(r.dhs) + 2 /\ Len(r.dhs) \in Nat /\ Len(r.dhs) >= 1
  BY CommitRoots
<1>3. Stepped # "none" /\ Len(<<>>) = 0 /\ Apart(<<>>)
  BY EmptySeq DEF Stepped, Apart
<1> HIDE DEF r, root, recv
<1>4. OwnChain(Other(p), recv) /\ recv.dhs # <<>> /\ Len(recv.dhs) < Len(root.dhs)
  <2>1. Len(r.dhs) % 2 = Parity(p)
    BY <1>1 DEF KeysInv, SendAt, r
  <2>2. \A n \in Nat : n >= 1 => (n + 1) % 2 # n % 2 /\ n + 1 >= 2 /\ n + 1 # 0
                                 /\ n + 1 < n + 2 /\ (n + 1) % 2 \in {0, 1}
    OBVIOUS
  <2>3. /\ Len(recv.dhs) % 2 # Parity(p) /\ Len(recv.dhs) % 2 \in {0, 1}
        /\ Len(recv.dhs) >= 2 /\ recv.dhs # <<>> /\ Len(recv.dhs) < Len(root.dhs)
    BY <1>2, <1>3, <2>1, <2>2
  <2>4. Len(recv.dhs) % 2 = Parity(Other(p))
    BY <2>3 DEF Parity
  <2> QED BY <1>2, <2>3, <2>4 DEF OwnChain
<1>5. RecvAt(p)'
  BY <1>1, <1>2, <1>3, <1>4 DEF RecvAt, Dated, root, recv
<1>6. ASSUME NEW ck \in ChainKey, Spent(p, ck) PROVE Spent(p, ck)'
  <2>1. /\ OwnChain(Other(p), ck) /\ Dated(p, ck) /\ Len(ck.dhs) \in Nat
        /\ ck.dir = Stepped => Len(ck.dhs) < Len(r.dhs)
    BY <1>1, <1>6, ChainFacts DEF Spent, r
  <2>2. \A n, l \in Nat : l < n => l < n + 2 /\ l # n + 1
    OBVIOUS
  <2>3. ck.dir = Stepped => Len(ck.dhs) < Len(root.dhs) /\ Len(ck.dhs) # Len(recv.dhs)
    BY <1>2, <2>1, <2>2
  <2>4. ~SameChain(ck, recv)
    BY <1>2, <2>3 DEF SameChain
  <2>5. Dated(p, ck)'
    BY <1>1, <2>1 DEF Dated
  <2> QED BY <2>1, <2>3, <2>4, <2>5 DEF Spent, root, recv
<1>7. SkippedAt(p)'
  BY <1>1, <1>3 DEF SkippedAt
<1>8. ASSUME NEW f \in fate, f.to = p, f.why = "shown" PROVE GoneAt(f)'
  <2>1. Spent(p, f.m.ck) /\ f.m.ck \in ChainKey
    BY <1>8, Kept DEF ReadInv, GoneAt
  <2>2. Spent(p, f.m.ck)'
    BY <1>6, <2>1
  <2> QED BY <1>1, <1>3, <1>8, <2>2 DEF GoneAt
<1>9. \A q \in Peer : q # p =>
         RecvAt(q)' /\ SkippedAt(q)' /\ \A f : f.to = q /\ GoneAt(f) => GoneAt(f)'
  BY <1>1, SameRead DEF ReadInv
<1> QED BY <1>1, <1>5, <1>7, <1>8, <1>9, Kept DEF ReadInv

LEMMA ReadAnswer ==
  ASSUME Handlers = 1, TypeOK, ReadInv, ReconnectAsGuest PROVE ReadInv'
<1> DEFINE recv == st'[Guest].recv
<1>1. /\ link = "down" /\ link' = "answered" /\ links' = links + 1 /\ links \in Nat
      /\ T(Guest) = Idle /\ RekeyedAt(Guest, links + 1) /\ UNCHANGED <<task, fate>>
  BY AnswerFacts, Typed DEF T
<1>2. /\ recv.shared = links + 1 /\ recv.dhs = <<>> /\ OwnChain(Host, recv)
      /\ recv.dir # "none" /\ recv.dir # Stepped
  BY <1>1, KemFacts DEF RekeyedAt
<1>3. /\ st'[Guest].root = st[Guest].root /\ st'[Guest].skipped = st[Guest].skipped
      /\ st'[Host] = st[Host] /\ T(Guest)' = Idle /\ T(Host)' = T(Host)
  BY <1>1 DEF RekeyedAt, T
<1> HIDE DEF recv
<1>4. RecvAt(Guest)'
  <2>1. links + 1 <= links + 1 /\ Guest # Host
    BY <1>1
  <2> QED BY <1>1, <1>2, <1>3, <2>1, IdleFacts DEF RecvAt, Dated, recv
<1>5. \A p \in Peer : \A ck \in ChainKey :
        Dated(p, ck) => /\ ck.dhs = <<>> => ck.shared # links + 1
                        /\ Dated(p, ck)'
  <2> TAKE p \in Peer
  <2> TAKE ck \in ChainKey
  <2>1. ck.shared \in Nat
    BY DEF ChainKey
  <2>2. ck.shared <= links => ck.shared <= links + 1 /\ ck.shared < links + 1
                              /\ ck.shared # links + 1
    BY <1>1, <2>1
  <2> QED BY <1>1, <2>2 DEF Dated
<1>6. \A ck \in ChainKey : Spent(Guest, ck) => Spent(Guest, ck)'
  <2> TAKE ck \in ChainKey
  <2>1. Spent(Guest, ck) => ~SameChain(ck, recv)
    BY <1>2, <1>5 DEF Spent, SameChain
  <2> QED BY <1>3, <1>5, <2>1 DEF Spent, Rooted, recv
<1>7. \A ck \in ChainKey : Spent(Host, ck) => Spent(Host, ck)'
  BY <1>3, <1>5 DEF Spent, Rooted
<1>8. /\ SkippedAt(Guest)'
      /\ \A f \in fate : f.to = Guest /\ f.why = "shown" => GoneAt(f)'
  BY <1>3, <1>6, ReadAnew
<1>9. RecvAt(Host)'
  <2>1. RecvAt(Host) /\ st[Host].recv \in ChainKey
    BY Chains DEF ReadInv
  <2>2. st[Host].recv.dir # "none" =>
          (st[Host].recv.dhs = <<>> =>
             st[Host].recv.shared <= links + 1 /\ st[Host].recv.shared < links + 1)
    <3>1. st[Host].recv.shared \in Nat
      BY <2>1 DEF ChainKey
    <3>2. st[Host].recv.shared <= links =>
            st[Host].recv.shared <= links + 1 /\ st[Host].recv.shared < links + 1
      BY <1>1, <3>1
    <3> QED BY <2>1, <3>2 DEF RecvAt, Dated
  <2> QED BY <1>1, <1>3, <2>1, <2>2 DEF RecvAt, Dated, Rooted
<1>10. SkippedAt(Host)'
  <2>1. /\ SkippedAt(Host) /\ \A k \in 1..Len(st[Host].skipped) : st[Host].skipped[k].ck \in ChainKey
        /\ T(Host).ck \in ChainKey
    BY Kept, Chains DEF ReadInv, T
  <2>2. \A k \in 1..Len(st'[Host].skipped) : Spent(Host, st[Host].skipped[k].ck)'
    BY <1>3, <1>7, <2>1 DEF SkippedAt
  <2>3. T(Host).at = "open" => Spent(Host, T(Host).ck)'
    BY <1>3, <1>7, <2>1 DEF SkippedAt
  <2> QED BY <1>3, <2>1, <2>2, <2>3 DEF SkippedAt
<1>11. ASSUME NEW f \in fate, f.to = Host, f.why = "shown" PROVE GoneAt(f)'
  <2>1. GoneAt(f) /\ f.m.ck \in ChainKey
    BY <1>11, Kept DEF ReadInv
  <2>2. Spent(Host, f.m.ck)'
    BY <1>7, <1>11, <2>1 DEF GoneAt
  <2> QED BY <1>3, <1>11, <2>1, <2>2 DEF GoneAt
<1> QED BY <1>1, <1>4, <1>8, <1>9, <1>10, <1>11, Kept DEF ReadInv

LEMMA ReadFinalize ==
  ASSUME Handlers = 1, TypeOK, ReadInv, FinalizeReconnect PROVE ReadInv'
<1> DEFINE recv == st'[Host].recv
<1>1. /\ link = "answered" /\ link' = "up" /\ links' = links /\ links \in Nat
      /\ T(Host) = Idle /\ RekeyedAt(Host, links) /\ UNCHANGED <<task, fate>>
  BY FinalizeFacts, Typed DEF T
<1>2. /\ recv.shared = links /\ recv.dhs = <<>> /\ OwnChain(Guest, recv)
      /\ recv.dir # "none" /\ recv.dir # Stepped
  BY <1>1, KemFacts DEF RekeyedAt
<1>3. /\ st'[Host].root = st[Host].root /\ st'[Host].skipped = st[Host].skipped
      /\ st'[Guest] = st[Guest] /\ T(Host)' = Idle /\ T(Guest)' = T(Guest)
  BY <1>1 DEF RekeyedAt, T
<1> HIDE DEF recv
<1>4. RecvAt(Host)'
  <2>1. links <= links
    BY <1>1
  <2> QED BY <1>1, <1>2, <1>3, <2>1, IdleFacts DEF RecvAt, Dated, recv
<1>5. \A ck \in ChainKey : Spent(Host, ck) => Spent(Host, ck)'
  <2> TAKE ck \in ChainKey
  <2>1. ck.shared \in Nat
    BY DEF ChainKey
  <2>2. ck.shared < links => ck.shared # links
    BY <1>1, <2>1
  <2>3. Spent(Host, ck) => ~SameChain(ck, recv)
    BY <1>1, <1>2, <2>2 DEF Spent, Dated, SameChain
  <2> QED BY <1>1, <1>3, <2>3 DEF Spent, Dated, Rooted, recv
<1>6. /\ SkippedAt(Host)'
      /\ \A f \in fate : f.to = Host /\ f.why = "shown" => GoneAt(f)'
  BY <1>3, <1>5, ReadAnew
<1>7. RecvAt(Guest)'
  <2>1. RecvAt(Guest) /\ Guest # Host
    BY DEF ReadInv
  <2>2. st[Guest].recv.dir # "none"
    BY <1>1, <2>1 DEF RecvAt
  <2> QED BY <1>1, <1>3, <2>1, <2>2 DEF RecvAt, Dated, Rooted
<1>8. /\ SkippedAt(Guest)'
      /\ \A f \in fate : f.to = Guest /\ f.why = "shown" => GoneAt(f)'
  <2>1. /\ SkippedAt(Guest) /\ Guest # Host
        /\ \A f \in fate : f.to = Guest /\ f.why = "shown" => GoneAt(f)
    BY DEF ReadInv
  <2>2. SkippedAt(Guest)'
    BY <1>1, <1>3, <2>1 DEF SkippedAt, Spent, Dated, Rooted
  <2>3. \A f \in fate : f.to = Guest /\ f.why = "shown" => GoneAt(f)'
    BY <1>1, <1>3, <2>1 DEF GoneAt, Spent, Dated, Rooted
  <2> QED BY <2>2, <2>3
<1> QED BY <1>1, <1>4, <1>6, <1>7, <1>8, Kept DEF ReadInv

LEMMA ReadReload ==
  ASSUME Handlers = 1, TypeOK, ReadInv, NEW p \in Peer, Reload(p) PROVE ReadInv'
<1>1. /\ link' = "down" /\ st'[p].root = NoRoot /\ st'[p].recv = NoChain /\ T(p)' = Idle
      /\ st'[p].skipped = <<>>
      /\ \A q \in Peer : q # p => st'[q] = st[q] /\ T(q)' = T(q)
      /\ UNCHANGED <<links, fate>>
  BY ReloadFacts DEF T
<1>2. NoChain.dir = "none" /\ Stepped # "none"
  BY DEF NoChain, Chain, Stepped
<1>3. RecvAt(p)'
  BY <1>1, <1>2, IdleFacts DEF RecvAt
<1>4. \A ck \in ChainKey : Spent(p, ck) => Spent(p, ck)'
  <2> TAKE ck \in ChainKey
  <2>1. Spent(p, ck) => ~SameChain(ck, NoChain)
    BY <1>2, Typed, NotNone DEF Spent, SameChain
  <2> QED BY <1>1, <2>1 DEF Spent, Dated, Rooted
<1>5. /\ SkippedAt(p)'
      /\ \A f \in fate : f.to = p /\ f.why = "shown" => GoneAt(f)'
  BY <1>1, <1>4, ReadAnew
<1>6. \A q \in Peer : q # p =>
        RecvAt(q)' /\ SkippedAt(q)' /\ \A f : f.to = q /\ GoneAt(f) => GoneAt(f)'
  <2>1. \A q \in Peer : q # p => ReadSame(q)
    BY <1>1 DEF ReadSame
  <2> QED BY <1>1, <2>1, SameRead DEF ReadInv
<1> QED BY <1>1, <1>3, <1>5, <1>6, Kept DEF ReadInv

\* What reads nothing.
LEMMA ReadOthers ==
  ASSUME Handlers = 1, TypeOK, ReadInv, NEW p \in Peer, NEW i \in 1..Handlers,
         \/ SendMessage(p, i) \/ ChainAdvanced(p, i) \/ Encrypted(p, i) \/ RootRead(p, i)
  PROVE  ReadInv'
<1>1. ASSUME NEW t, Now(p, i, t), t.at \in Sending \cup {"idle", "commit"},
             st'[p].root = st[p].root, st'[p].recv = st[p].recv,
             st'[p].skipped = st[p].skipped, UNCHANGED <<links, link, fate>>
      PROVE  ReadInv'
  BY <1>1, ReadQuiet
<1>2. CASE SendMessage(p, i)
  <2>1. PICK t : Now(p, i, t) /\ t.at = "advance"
    BY <1>2, SendFacts
  <2>2. KeysSame(p) /\ UNCHANGED <<links, link, fate>>
    BY <1>2, SendFacts
  <2> QED BY <1>1, <2>1, <2>2 DEF KeysSame, Sending
<1>3. CASE ChainAdvanced(p, i)
  <2>1. PICK t : Now(p, i, t) /\ t.at = "encrypt"
    BY <1>3, AdvanceFacts
  <2>2. /\ st'[p].root = st[p].root /\ st'[p].recv = st[p].recv
        /\ st'[p].skipped = st[p].skipped /\ UNCHANGED <<links, link, fate>>
    BY <1>3, AdvanceFacts
  <2> QED BY <1>1, <2>1, <2>2 DEF Sending
<1>4. CASE Encrypted(p, i)
  <2>1. Now(p, i, Idle) /\ UNCHANGED <<st, links, link, fate>>
    BY <1>4, EncryptFacts
  <2> QED BY <1>1, <2>1, IdleFacts
<1>5. CASE RootRead(p, i)
  <2>1. PICK t \in Task : Now(p, i, t) /\ t.at = "commit"
    BY <1>5, RootFacts
  <2>2. st' = st /\ UNCHANGED <<links, link, fate>>
    BY <1>5, RootFacts DEF Still
  <2> QED BY <1>1, <2>1, <2>2
<1> QED BY <1>2, <1>3, <1>4, <1>5

LEMMA ReadRest ==
  ASSUME TypeOK, ReadInv, (\E p \in Peer : DropExcess(p)) \/ Disconnect \/ UNCHANGED vars
  PROVE  ReadInv'
<1>1. ASSUME UNCHANGED <<st, task, links, fate>>, link' \in {link, "down"} PROVE ReadInv'
  <2>1. \A q \in Peer : ReadSame(q)
    BY <1>1 DEF ReadSame, T
  <2>2. \A q \in Peer :
          RecvAt(q)' /\ SkippedAt(q)' /\ \A f : f.to = q /\ GoneAt(f) => GoneAt(f)'
    BY <1>1, <2>1, SameRead DEF ReadInv
  <2> QED BY <1>1, <2>2, Kept DEF ReadInv
<1> QED BY <1>1, DropFacts, DownFacts DEF vars

LEMMA ReadInit == ASSUME Handlers = 1 PROVE Init => ReadInv
<1> SUFFICES ASSUME Init PROVE ReadInv
  OBVIOUS
<1>1. /\ st[Host].recv = Chain(InitRoot, GuestToHost)
      /\ st[Guest].recv = Chain(InitRoot, HostToGuest)
      /\ link = "up" /\ fate = {}
      /\ \A p \in Peer : T(p) = Idle /\ st[p].skipped = <<>>
  BY DEF Init, InitSession, T
<1>2. InitRoot.dhs # <<>>
  <2> DEFINE d == {KeyPair(Host, 1), KeyPair(Guest, 1)}
  <2>1. InitRoot.dhs = <<d>>
    BY DEF InitRoot
  <2> HIDE DEF d
  <2>2. <<d>> # <<>>
    OBVIOUS
  <2> QED BY <2>1, <2>2
<1>3. \A p \in Peer : /\ st[p].recv.dhs = InitRoot.dhs /\ st[p].recv.dir = DirFrom(Other(p))
                      /\ DirFrom(Other(p)) # "none" /\ DirFrom(Other(p)) # Stepped
  BY <1>1, ChainFields DEF DirFrom, HostToGuest, GuestToHost, Stepped
<1>4. \A p \in Peer : RecvAt(p)
  BY <1>1, <1>2, <1>3, IdleFacts DEF RecvAt, Dated, OwnChain
<1>5. \A p \in Peer : SkippedAt(p)
  BY <1>1, EmptySeq, IdleFacts DEF SkippedAt, Apart
<1> QED BY <1>1, <1>4, <1>5 DEF ReadInv

LEMMA ReadNext ==
  ASSUME Handlers = 1, TypeOK, LadderInv, KeysInv, ReadInv, [Next]_vars PROVE ReadInv'
<1>1. ASSUME NEW p \in Peer, NEW i \in 1..Handlers, Step(p, i) PROVE ReadInv'
  BY <1>1, ReadOthers, ReadMessage, ReadCommit, ReadSought, ReadSkip, ReadTake, ReadOpen DEF Step
<1> QED BY <1>1, ReadRest, ReadReload, ReadAnswer, ReadFinalize DEF Next

LEMMA ReadGone ==
  ASSUME TypeOK, KeysInv, ReadInv, FlowInv PROVE ReadKeysAreGone
<1> SUFFICES ASSUME NEW f \in fate, NEW p \in Peer, f.why = "shown"
             PROVE  /\ ~Yields(st[p].send, f.m) /\ ~Yields(st[p].recv, f.m)
                    /\ \A k \in DOMAIN st[p].skipped : st[p].skipped[k].ck # f.m.ck
  BY DEF ReadKeysAreGone
<1> DEFINE ck == f.m.ck
           q == f.to
           w == [to |-> q, m |-> f.m]
<1>1. q \in Peer /\ ck \in ChainKey /\ Other(q) \in Peer /\ Other(Other(q)) = q
  BY Kept, Typed
<1>2. \A c \in ChainKey : Yields(c, f.m) => SameChain(c, ck) /\ SameChain(ck, c) /\ ~(ck.n < c.n)
  <2> TAKE c \in ChainKey
  <2>1. c.n \in Nat /\ ck.n \in Nat
    BY <1>1, ChainFacts
  <2>2. [c EXCEPT !.n = 0] = [ck EXCEPT !.n = 0] => SameChain(c, ck) /\ SameChain(ck, c)
    BY <1>1 DEF ChainKey, SameChain
  <2>3. c.n <= ck.n => ~(ck.n < c.n)
    BY <2>1
  <2> QED BY <2>2, <2>3 DEF Yields
<1>3. w \in wire /\ w.to = q /\ w.m.ck = ck /\ WireAt(w)
  BY DEF FlowInv, FatesCame, KeysInv
<1>4. GoneAt(f)
  BY DEF ReadInv
<1>5. /\ \A r \in Peer : st[r].send \in ChainKey /\ st[r].recv \in ChainKey
      /\ \A r \in Peer : DOMAIN st[r].skipped = 1..Len(st[r].skipped)
  BY Chains, Kept, LenProperties
<1>6. OwnChain(Other(q), ck)
  BY <1>3 DEF WireAt
<1> HIDE DEF ck, w
<1>7. CASE p = q
  <2>1. ~SameChain(st[p].send, ck)
    <3>1. st[p].send.dir # "none" => OwnChain(p, st[p].send)
      BY DEF KeysInv, SendAt
    <3>2. ck.dir # "none"
      BY <1>1, <1>6, NotNone
    <3> QED BY <1>6, <1>7, <3>1, <3>2, OwnApart DEF SameChain
  <2>2. SameChain(ck, st[p].recv) => ck.n < st[p].recv.n
    BY <1>4, <1>7 DEF GoneAt, Spent, ck
  <2>3. \A k \in 1..Len(st[p].skipped) : st[p].skipped[k].ck # ck
    BY <1>4, <1>7 DEF GoneAt, ck
  <2> QED BY <1>2, <1>5, <2>1, <2>2, <2>3 DEF ck
<1>8. CASE p # q
  <2>1. p = Other(q) /\ Other(p) = q
    BY <1>1, <1>8
  <2>2. SameChain(ck, st[p].send) => ck.n < st[p].send.n
    BY <1>3, <2>1 DEF WireAt
  <2>3. ~SameChain(st[p].recv, ck)
    <3>1. st[p].recv.dir # "none" => OwnChain(Other(p), st[p].recv)
      BY DEF ReadInv, RecvAt
    <3>2. ck.dir # "none"
      BY <1>1, <1>6, NotNone
    <3>3. OwnChain(p, ck)
      BY <1>6, <2>1
    <3> QED BY <3>1, <3>2, <3>3, OwnApart DEF SameChain
  <2>4. \A k \in 1..Len(st[p].skipped) : st[p].skipped[k].ck # ck
    <3> TAKE k \in 1..Len(st[p].skipped)
    <3>1. OwnChain(Other(p), st[p].skipped[k].ck)
      BY DEF ReadInv, SkippedAt, Spent
    <3> QED BY <1>6, <2>1, <3>1, OwnApart
  <2> QED BY <1>2, <1>5, <2>2, <2>3, <2>4 DEF ck
<1> QED BY <1>7, <1>8

\* With one handler at a time at each end, whatever bounds: once a message has been shown,
\* neither end has a chain key that its message key follows from, nor the key itself among
\* the skipped ones, since _ratchetDecrypt advances the chain before it tries a key and
\* takes a skipped key out of the map as it uses it.
THEOREM ReadKeysGo == ASSUME Handlers = 1 PROVE Spec => []ReadKeysAreGone
<1>1. Init => KeysInv /\ ReadInv
  BY KeysInit, ReadInit
<1>2. TypeOK /\ LadderInv /\ (KeysInv /\ ReadInv) /\ [Next]_vars => (KeysInv /\ ReadInv)'
  BY KeysNext, ReadNext
<1>3. TypeOK /\ FlowInv /\ (KeysInv /\ ReadInv) => ReadKeysAreGone
  BY ReadGone
<1> QED BY <1>1, <1>2, <1>3, TypeCorrect, FlowCorrect, LadderHolds, PTL DEF Spec

-----------------------------------------------------------------------------
(* With one handler at a time at each end: delivery *)

\* A chain that the session began with or a DH step made, none of a reconnection.
Proper(c) == c.dhs # <<>>

\* A chain without its place, and the one an end reads on after a step to the root r.
ChainOf(ck) == [shared |-> ck.shared, dhs |-> ck.dhs, dir |-> ck.dir]
OfRoot(r) == [shared |-> r.shared, dhs |-> r.dhs, dir |-> Stepped]

\* What the reader of a message goes by; the next message of p that will leave, as far as
\* it is known; and the messages to q in order, that one after those on their way.
Sent(m) == [pk |-> m.pk, n |-> m.n, ctr |-> m.ctr, chain |-> ChainOf(m.ck)]
Tip(p) ==
  [pk |-> st[p].pub,
   n |-> IF T(p).at = "encrypt" /\ T(p).m.v2 THEN T(p).m.n ELSE st[p].sendIdx,
   ctr |-> IF T(p).at \in Sending THEN st[p].counter ELSE st[p].counter + 1,
   chain |-> ChainOf(st[p].send)]
At(q, k) == IF k <= Len(net[q]) THEN Sent(net[q][k]) ELSE Tip(Other(q))
Line(q) == 1..(Len(net[q]) + 1)
BothRooted == Rooted(Host) /\ Rooted(Guest)

LEMMA ChainOfFacts ==
  /\ \A a \in ChainKey : ChainOf(NextChain(a)) = ChainOf(a) /\ (Proper(NextChain(a)) <=> Proper(a))
  /\ \A a, b \in ChainKey : ChainOf(a) = ChainOf(b) /\ a.n = b.n => a = b
  /\ \A a : Proper(ChainOf(a)) <=> Proper(a)
  /\ \A r : ChainOf(Chain(r, Stepped)) = OfRoot(r) /\ Chain(r, Stepped).n = 0
  /\ \A r : (Proper(OfRoot(r)) <=> Proper(r)) /\ (Proper(Chain(r, Stepped)) <=> Proper(r))
  /\ \A k, d : ~Proper(KemChain(k, d)) /\ ~Proper(ChainOf(KemChain(k, d)))
  /\ ~Proper(NoChain) /\ ~Proper(ChainOf(NoChain))
<1>1. ASSUME NEW a \in ChainKey
      PROVE  ChainOf(NextChain(a)) = ChainOf(a) /\ (Proper(NextChain(a)) <=> Proper(a))
  BY ChainFacts DEF ChainOf, Proper
<1>2. ASSUME NEW a \in ChainKey, NEW b \in ChainKey, ChainOf(a) = ChainOf(b), a.n = b.n
      PROVE  a = b
  <2>1. ChainOf(a).shared = ChainOf(b).shared /\ ChainOf(a).dhs = ChainOf(b).dhs
        /\ ChainOf(a).dir = ChainOf(b).dir
    BY <1>2
  <2>2. SameChain(a, b)
    BY <2>1 DEF ChainOf, SameChain
  <2> QED BY <1>2, <2>2, ChainFacts
<1>3. \A a : Proper(ChainOf(a)) <=> Proper(a)
  BY DEF ChainOf, Proper
<1>4. \A r : ChainOf(Chain(r, Stepped)) = OfRoot(r) /\ Chain(r, Stepped).n = 0
  BY DEF ChainOf, Chain, OfRoot
<1>5. \A r : (Proper(OfRoot(r)) <=> Proper(r)) /\ (Proper(Chain(r, Stepped)) <=> Proper(r))
  BY DEF Proper, OfRoot, Chain
<1>6. \A k, d : ~Proper(KemChain(k, d)) /\ ~Proper(ChainOf(KemChain(k, d)))
  BY DEF Proper, ChainOf, KemChain, Chain
<1>7. ~Proper(NoChain) /\ ~Proper(ChainOf(NoChain))
  BY DEF Proper, ChainOf, NoChain, NoRoot, Chain
<1> QED BY <1>1, <1>2, <1>3, <1>4, <1>5, <1>6, <1>7

\* An advance of the root gives a proper one.
LEMMA Advanced ==
  ASSUME NEW r \in RootKey, NEW d \in SUBSET Key
  PROVE  AdvanceRoot(r, d) \in RootKey /\ Proper(AdvanceRoot(r, d)) /\ AdvanceRoot(r, d) # NoRoot
<1>1. r.dhs \in Seq(SUBSET Key)
  BY DEF RootKey, Dhs
<1>2. Append(r.dhs, d) # <<>>
  BY <1>1, AppendProperties
<1>3. AdvanceRoot(r, d).dhs = Append(r.dhs, d)
  BY DEF AdvanceRoot, RootKey
<1>4. NoRoot.dhs = <<>>
  BY DEF NoRoot
<1> QED BY <1>2, <1>3, <1>4, AdvanceRootType DEF Proper

\* Fields of a message.
LEMMA SentFacts ==
  \A m : /\ Sent(m).pk = m.pk /\ Sent(m).n = m.n /\ Sent(m).ctr = m.ctr
         /\ Sent(m).chain = ChainOf(m.ck)
BY DEF Sent

LEMMA TipFacts ==
  ASSUME NEW p \in Peer
  PROVE  /\ Tip(p).pk = st[p].pub /\ Tip(p).chain = ChainOf(st[p].send)
         /\ Tip(p).n = IF T(p).at = "encrypt" /\ T(p).m.v2 THEN T(p).m.n ELSE st[p].sendIdx
         /\ Tip(p).ctr = IF T(p).at \in Sending THEN st[p].counter ELSE st[p].counter + 1
BY DEF Tip

\* The types of what is in line.
LEMMA LineTypes ==
  ASSUME TypeOK, NEW q \in Peer
  PROVE  /\ Len(net[q]) \in Nat
         /\ \A k \in 1..Len(net[q]) : net[q][k] \in Message /\ net[q][k].ck \in ChainKey
         /\ \A k \in Line(q) : At(q, k).n \in Nat /\ At(q, k).ctr \in Nat
         /\ \A k \in 1..Len(net[q]) : k \in Line(q) /\ k + 1 \in Line(q) /\ At(q, k) = Sent(net[q][k])
         /\ 1 \in Line(q) /\ Len(net[q]) + 1 \in Line(q)
         /\ At(q, Len(net[q]) + 1) = Tip(Other(q))
<1>1. net[q] \in Seq(Message) /\ Len(net[q]) \in Nat
  BY Typed
<1>2. \A k \in 1..Len(net[q]) : net[q][k] \in Message
  BY <1>1, ElementOfSeq
<1>3. Tip(Other(q)).n \in Nat /\ Tip(Other(q)).ctr \in Nat
  <2>1. Other(q) \in Peer /\ 1 \in 1..Handlers
    BY BoundsAssumption
  <2>2. st[Other(q)] \in Session /\ T(Other(q)).m \in Message
    BY <2>1, Typed DEF T
  <2>3. /\ st[Other(q)].sendIdx \in Nat /\ st[Other(q)].counter \in Nat
        /\ T(Other(q)).m.n \in Nat
    BY <2>2 DEF Session, Message
  <2> QED BY <2>1, <2>3, TipFacts
<1>4. ASSUME NEW k \in Line(q) PROVE At(q, k).n \in Nat /\ At(q, k).ctr \in Nat
  <2>1. CASE k <= Len(net[q])
    <3>1. k \in 1..Len(net[q])
      BY <1>1, <2>1 DEF Line
    <3>2. At(q, k) = Sent(net[q][k]) /\ net[q][k] \in Message
      BY <1>2, <2>1, <3>1 DEF At
    <3> QED BY <3>2, SentFacts DEF Message
  <2>2. CASE ~(k <= Len(net[q]))
    BY <1>3, <2>2 DEF At
  <2> QED BY <2>1, <2>2
<1>5. /\ \A k \in 1..Len(net[q]) : k \in Line(q) /\ k + 1 \in Line(q)
      /\ 1 \in Line(q) /\ Len(net[q]) + 1 \in Line(q) /\ ~(Len(net[q]) + 1 <= Len(net[q]))
  BY <1>1 DEF Line
<1>6. \A k \in 1..Len(net[q]) : k <= Len(net[q])
  BY <1>1
<1> QED BY <1>1, <1>2, <1>4, <1>5, <1>6 DEF At, Message

\* How the line to an end changes: not at all, at its end, by a message more, by the first one
\* that is taken, or by all being lost.
LEMMA LineSame ==
  ASSUME TypeOK, NEW q \in Peer, net'[q] = net[q]
  PROVE  /\ Line(q)' = Line(q)
         /\ \A k \in 1..Len(net[q]) : At(q, k)' = At(q, k)
         /\ At(q, Len(net[q]) + 1)' = Tip(Other(q))'
         /\ Tip(Other(q))' = Tip(Other(q)) => \A k \in Line(q) : At(q, k)' = At(q, k)
<1>1. Len(net[q]) \in Nat
  BY Typed
<1>2. ~(Len(net[q]) + 1 <= Len(net[q])) /\ \A k \in 1..Len(net[q]) : k <= Len(net[q])
  BY <1>1
<1> QED BY <1>2 DEF At, Line

LEMMA LineMore ==
  ASSUME TypeOK, NEW q \in Peer, NEW m \in Message, net'[q] = Append(net[q], m)
  PROVE  /\ Len(net[q]) \in Nat /\ Len(net'[q]) = Len(net[q]) + 1
         /\ \A k \in 1..Len(net[q]) : At(q, k)' = At(q, k) /\ net'[q][k] = net[q][k]
         /\ \A k : k = Len(net[q]) + 1 => At(q, k)' = Sent(m) /\ net'[q][k] = m
         /\ \A k : k = Len(net[q]) + 2 => At(q, k)' = Tip(Other(q))'
<1>1. /\ Len(net[q]) \in Nat /\ Len(net'[q]) = Len(net[q]) + 1
      /\ \A k \in 1..Len(net[q]) : net'[q][k] = net[q][k]
      /\ net'[q][Len(net[q]) + 1] = m
  BY Typed, AppendFacts
<1>2. /\ ~(Len(net[q]) + 2 <= Len(net'[q])) /\ Len(net[q]) + 1 <= Len(net'[q])
      /\ \A k \in 1..Len(net[q]) : k <= Len(net[q]) /\ k <= Len(net'[q])
  BY <1>1
<1>3. \A k \in 1..Len(net[q]) : At(q, k)' = At(q, k)
  BY <1>1, <1>2 DEF At
<1>4. \A k : k = Len(net[q]) + 1 => At(q, k)' = Sent(m)
  BY <1>1, <1>2 DEF At
<1>5. \A k : k = Len(net[q]) + 2 => At(q, k)' = Tip(Other(q))'
  BY <1>2 DEF At
<1> QED BY <1>1, <1>3, <1>4, <1>5

LEMMA LineLess ==
  ASSUME TypeOK, NEW q \in Peer, net[q] # <<>>, net'[q] = Tail(net[q]),
         Tip(Other(q))' = Tip(Other(q))
  PROVE  /\ Len(net[q]) \in Nat /\ Len(net[q]) >= 1 /\ Len(net'[q]) = Len(net[q]) - 1
         /\ 1 \in 1..Len(net[q]) /\ 2 \in Line(q) /\ Head(net[q]) = net[q][1]
         /\ \A k \in Line(q)' : k + 1 \in Line(q) /\ At(q, k)' = At(q, k + 1)
         /\ \A k \in 1..Len(net'[q]) : k + 1 \in 1..Len(net[q]) /\ net'[q][k] = net[q][k + 1]
<1>1. /\ Len(net[q]) \in Nat /\ 1 \in 1..Len(net[q]) /\ Head(net[q]) = net[q][1]
      /\ Len(net'[q]) = Len(net[q]) - 1
      /\ \A k \in 1..Len(net[q]) - 1 : net'[q][k] = net[q][k + 1]
  BY Typed, HeadTailFacts
<1>2. Len(net[q]) >= 1
  BY <1>1
<1>3. \A k \in Line(q)' : k + 1 \in Line(q) /\ At(q, k)' = At(q, k + 1)
  <2> TAKE k \in Line(q)'
  <2>1. k \in Nat /\ k >= 1 /\ k <= Len(net[q]) /\ k + 1 \in Line(q)
    BY <1>1, <1>2 DEF Line
  <2>2. CASE k + 1 <= Len(net[q])
    <3>1. k <= Len(net'[q]) /\ k \in 1..Len(net[q]) - 1
      BY <1>1, <2>1, <2>2
    <3> QED BY <1>1, <2>1, <2>2, <3>1 DEF At
  <2>3. CASE ~(k + 1 <= Len(net[q]))
    <3>1. ~(k <= Len(net'[q]))
      BY <1>1, <2>1, <2>3
    <3> QED BY <2>1, <2>3, <3>1 DEF At
  <2> QED BY <2>2, <2>3
<1>4. \A k \in 1..Len(net'[q]) : k + 1 \in 1..Len(net[q]) /\ net'[q][k] = net[q][k + 1]
  BY <1>1, <1>2
<1>5. 2 \in Line(q)
  BY <1>1, <1>2 DEF Line
<1> QED BY <1>1, <1>2, <1>3, <1>4, <1>5

LEMMA LineNone ==
  ASSUME NEW q \in Peer, net'[q] = <<>>
  PROVE  Len(net'[q]) = 0 /\ Line(q)' = {1} /\ At(q, 1)' = Tip(Other(q))'
<1>1. Len(<<>>) = 0 /\ ~(1 <= 0) /\ 1..(0 + 1) = {1}
  BY EmptySeq
<1> QED BY <1>1 DEF Line, At

\* The index of a proper chain is its place; a send has the newest index and counter; and a
\* message without an envelope is read on no proper chain.
IndexAt(p) ==
  /\ Proper(st[p].send) => Rooted(p) /\ st[p].sendIdx = st[p].send.n
  /\ Proper(st[p].recv) => st[p].recvIdx = st[p].recv.n /\ T(p).at # "bare"
  /\ T(p).at = "encrypt" /\ T(p).m.v2 => st[p].sendIdx = T(p).m.n + 1
  /\ T(p).at \in Sending => T(p).m.ctr = st[p].counter
IndexedAt(q) ==
  \A k \in 1..Len(net[q]) :
    Proper(net[q][k].ck) => net[q][k].n = net[q][k].ck.n /\ BothRooted

\* While the link is up neither end has lost what a proper chain needs.
UpAt(p) ==
  /\ link = "up" =>
       (Proper(st[p].send) \/ Proper(st[p].recv) \/ Stepping(p) => BothRooted)
  /\ link = "up" /\ links = 1 => Proper(st[p].send)
AnsweredOK ==
  /\ link = "answered" =>
       ~Proper(st[Guest].send) /\ ~Proper(st[Guest].recv) /\ T(Guest).at = "idle"
  /\ links = 1 => link # "answered"
FirstWire == \A w \in wire : w.m.over = 1 => Proper(w.m.ck)

IndexInv ==
  /\ \A p \in Peer : IndexAt(p) /\ IndexedAt(p) /\ UpAt(p)
  /\ AnsweredOK /\ FirstWire

\* Over a step of a handler.
LEMMA IndexStep ==
  ASSUME Handlers = 1, TypeOK, IndexInv, NEW p \in Peer, NEW i \in 1..Handlers, NEW t,
         Now(p, i, t), UNCHANGED <<links, link>>, Rooted(p)' <=> Rooted(p),
         link = "up" \/ T(p).at # "idle",
         IndexAt(p)', UpAt(p)', \A q \in Peer : IndexedAt(q)', FirstWire'
  PROVE  IndexInv'
<1>1. T(p)' = t /\ \A q \in Peer : q # p => T(q)' = T(q) /\ st'[q] = st[q]
  BY OneNow
<1>2. BothRooted' <=> BothRooted
  BY <1>1 DEF BothRooted, Rooted
<1>3. ASSUME NEW q \in Peer, q # p PROVE IndexAt(q)' /\ UpAt(q)'
  <2>1. IndexAt(q) /\ UpAt(q) /\ T(q)' = T(q) /\ st'[q] = st[q]
    BY <1>1, <1>3 DEF IndexInv
  <2>2. IndexAt(q)'
    BY <2>1 DEF IndexAt, Rooted
  <2>3. UpAt(q)'
    BY <1>2, <2>1 DEF UpAt, Stepping
  <2> QED BY <2>2, <2>3
<1>4. AnsweredOK'
  <2>1. AnsweredOK
    BY DEF IndexInv
  <2>2. CASE link = "answered"
    <3>1. Guest # p
      BY <2>1, <2>2 DEF AnsweredOK
    <3>2. Guest \in Peer /\ T(Guest)' = T(Guest) /\ st'[Guest] = st[Guest]
      BY <1>1, <3>1
    <3> QED BY <2>1, <3>2 DEF AnsweredOK
  <2>3. CASE link # "answered"
    BY <2>3 DEF AnsweredOK
  <2> QED BY <2>2, <2>3
<1> QED BY <1>3, <1>4 DEF IndexInv

LEMMA IndexedSame ==
  ASSUME NEW q \in Peer, IndexedAt(q), net'[q] = net[q], BothRooted' <=> BothRooted
  PROVE  IndexedAt(q)'
BY DEF IndexedAt

\* One that leaves the chains that an end has in place, or moves the one it reads on.
LEMMA IndexLocal ==
  ASSUME Handlers = 1, TypeOK, IndexInv, NEW p \in Peer, NEW i \in 1..Handlers, NEW t,
         Now(p, i, t), UNCHANGED <<links, link, wire>>,
         t.at \notin Sending, Stepping(p)' => BothRooted \/ link # "up",
         link = "up" \/ T(p).at # "idle",
         st'[p].root = st[p].root, st'[p].send = st[p].send, st'[p].sendIdx = st[p].sendIdx,
         Proper(st'[p].recv) => /\ Proper(st[p].recv) /\ st'[p].recvIdx = st'[p].recv.n
                                /\ t.at # "bare",
         \A q \in Peer : IndexedAt(q)'
  PROVE  IndexInv'
<1>1. T(p)' = t /\ \A q \in Peer : q # p => T(q)' = T(q) /\ st'[q] = st[q]
  BY OneNow
<1>2. (BothRooted' <=> BothRooted) /\ (Rooted(p)' <=> Rooted(p))
  BY <1>1 DEF BothRooted, Rooted
<1>3. IndexAt(p) /\ UpAt(p) /\ FirstWire
  BY DEF IndexInv
<1>4. IndexAt(p)'
  BY <1>1, <1>2, <1>3 DEF IndexAt, Sending
<1>5. UpAt(p)'
  BY <1>2, <1>3 DEF UpAt
<1>6. FirstWire'
  BY <1>3 DEF FirstWire
<1> QED BY <1>2, <1>4, <1>5, <1>6, IndexStep

LEMMA IndexNets ==
  ASSUME IndexInv, UNCHANGED net, BothRooted' <=> BothRooted
  PROVE  \A q \in Peer : IndexedAt(q)'
BY IndexedSame DEF IndexInv

LEMMA IndexSend ==
  ASSUME Handlers = 1, TypeOK, IndexInv, NEW p \in Peer, NEW i \in 1..Handlers,
         SendMessage(p, i)
  PROVE  IndexInv'
<1>1. PICK t : /\ Now(p, i, t) /\ t.at = "advance" /\ t.m.ctr = st[p].counter + 1
  BY SendFacts
<1>2. /\ link = "up" /\ KeysSame(p) /\ st'[p].counter = st[p].counter + 1
      /\ UNCHANGED <<net, link, links, wire>>
  BY SendFacts
<1>3. T(p)' = t /\ \A q \in Peer : q # p => T(q)' = T(q) /\ st'[q] = st[q]
  BY <1>1, OneNow
<1>4. (BothRooted' <=> BothRooted) /\ (Rooted(p)' <=> Rooted(p)) /\ ~Stepping(p)'
  BY <1>1, <1>2, <1>3 DEF BothRooted, Rooted, KeysSame, Stepping
<1>5. IndexAt(p) /\ UpAt(p) /\ FirstWire
  BY DEF IndexInv
<1>6. IndexAt(p)'
  BY <1>1, <1>2, <1>3, <1>4, <1>5 DEF IndexAt, KeysSame
<1>7. UpAt(p)'
  BY <1>2, <1>4, <1>5 DEF UpAt, KeysSame
<1>8. FirstWire'
  BY <1>2, <1>5 DEF FirstWire
<1> QED BY <1>1, <1>2, <1>4, <1>6, <1>7, <1>8, IndexNets, IndexStep

LEMMA IndexAdvance ==
  ASSUME Handlers = 1, TypeOK, LadderInv, KeysInv, IndexInv, NEW p \in Peer,
         NEW i \in 1..Handlers, ChainAdvanced(p, i)
  PROVE  IndexInv'
<1> DEFINE b == task[p][i]
<1>1. /\ b.at = "advance" /\ st'[p].send = NextChain(b.ck)
      /\ st'[p].sendIdx = IF b.m.v2 THEN st[p].sendIdx + 1 ELSE st[p].sendIdx
      /\ st'[p].root = st[p].root /\ st'[p].recv = st[p].recv
      /\ st'[p].recvIdx = st[p].recvIdx /\ CountsSame(p)
      /\ UNCHANGED <<net, link, links, wire>>
  BY AdvanceFacts
<1>2. PICK t : /\ Now(p, i, t) /\ t.at = "encrypt" /\ t.m.v2 = b.m.v2 /\ t.m.ctr = b.m.ctr
               /\ t.m.n = IF b.m.v2 THEN st[p].sendIdx ELSE 0
  BY AdvanceFacts
<1>3. b = T(p) /\ T(p)' = t /\ \A q \in Peer : q # p => T(q)' = T(q) /\ st'[q] = st[q]
  BY <1>2, OneNow
<1>4. (BothRooted' <=> BothRooted) /\ (Rooted(p)' <=> Rooted(p)) /\ ~Stepping(p)'
  BY <1>1, <1>2, <1>3 DEF BothRooted, Rooted, Stepping
<1>5. IndexAt(p) /\ UpAt(p) /\ FirstWire
  BY DEF IndexInv
<1>6. b.ck = st[p].send /\ (b.m.v2 <=> Rooted(p))
  BY <1>1, <1>3 DEF KeysInv, SendAt, LadderInv, StepAt, Sending
<1>7. /\ Proper(st'[p].send) <=> Proper(st[p].send)
      /\ st'[p].send.n = st[p].send.n + 1
  <2>1. st[p].send \in ChainKey
    BY Chains
  <2> QED BY <1>1, <1>6, <2>1, ChainOfFacts, ChainFacts
<1>8. Proper(st'[p].send) => Rooted(p)' /\ st'[p].sendIdx = st'[p].send.n
  BY <1>1, <1>4, <1>5, <1>6, <1>7 DEF IndexAt
<1>9. t.m.v2 => st'[p].sendIdx = t.m.n + 1
  BY <1>1, <1>2
<1>10. t.m.ctr = st'[p].counter
  BY <1>1, <1>2, <1>3, <1>5 DEF IndexAt, Sending, CountsSame
<1>11. IndexAt(p)'
  BY <1>1, <1>2, <1>3, <1>5, <1>8, <1>9, <1>10 DEF IndexAt
<1>12. UpAt(p)'
  BY <1>1, <1>4, <1>5, <1>7 DEF UpAt
<1>13. FirstWire'
  BY <1>1, <1>5 DEF FirstWire
<1>14. T(p).at # "idle"
  BY <1>1, <1>3
<1> QED BY <1>1, <1>2, <1>4, <1>11, <1>12, <1>13, <1>14, IndexNets, IndexStep

LEMMA IndexEncrypt ==
  ASSUME Handlers = 1, TypeOK, LadderInv, KeysInv, IndexInv, NEW p \in Peer,
         NEW i \in 1..Handlers, Encrypted(p, i)
  PROVE  IndexInv'
<1> DEFINE b == task[p][i]
           q == Other(p)
<1>1. b.at = "encrypt" /\ Now(p, i, Idle) /\ UNCHANGED <<st, link, links>>
  BY EncryptFacts
<1>2. b = T(p) /\ T(p)' = Idle /\ \A x \in Peer : x # p => T(x)' = T(x)
  BY <1>1, OneNow
<1>3. (BothRooted' <=> BothRooted) /\ (Rooted(p)' <=> Rooted(p)) /\ ~Stepping(p)'
  BY <1>1, <1>2, IdleFacts DEF BothRooted, Rooted, Stepping
<1>4. IndexAt(p) /\ UpAt(p) /\ FirstWire /\ \A x \in Peer : IndexedAt(x)
  BY DEF IndexInv
<1>5. IndexAt(p)'
  BY <1>1, <1>2, <1>3, <1>4, IdleFacts DEF IndexAt, Sending
<1>6. UpAt(p)'
  BY <1>1, <1>3, <1>4 DEF UpAt
<1>7. T(p).at # "idle"
  BY <1>1, <1>2
<1>8. CASE UNCHANGED <<net, wire>>
  <2>1. FirstWire'
    BY <1>4, <1>8 DEF FirstWire
  <2> QED BY <1>1, <1>3, <1>5, <1>6, <1>7, <1>8, <2>1, IndexNets, IndexStep
<1>9. ASSUME NEW m \in Message, link = "up",
             m.n = b.m.n, m.ck = b.m.ck, m.over = links,
             net'[q] = Append(net[q], m), net'[p] = net[p],
             wire' = wire \cup {[to |-> q, m |-> m]}
      PROVE  IndexInv'
  <2>1. q \in Peer /\ \A x \in Peer : x # p => x = q
    BY Typed
  <2>2. /\ m.ck \in ChainKey /\ st[p].send = NextChain(m.ck)
        /\ b.m.v2 <=> Rooted(p)
    BY <1>1, <1>2, <1>9 DEF KeysInv, SendAt, LadderInv, StepAt, Sending, Message
  <2>3. (Proper(st[p].send) <=> Proper(m.ck)) /\ st[p].send.n = m.ck.n + 1
    BY <2>2, ChainOfFacts, ChainFacts
  <2>4. Proper(m.ck) => m.n = m.ck.n /\ BothRooted
    <3>1. ASSUME Proper(m.ck) PROVE m.n + 1 = m.ck.n + 1 /\ BothRooted
      BY <1>1, <1>2, <1>4, <1>9, <2>2, <2>3, <3>1 DEF IndexAt, UpAt
    <3>2. m.n \in Nat /\ m.ck.n \in Nat
      BY <2>2, ChainFacts DEF Message
    <3> QED BY <3>1, <3>2
  <2>5. IndexedAt(q)'
    <3> SUFFICES ASSUME NEW k \in 1..Len(net'[q]), Proper(net'[q][k].ck)
                 PROVE  net'[q][k].n = net'[q][k].ck.n /\ BothRooted'
      BY DEF IndexedAt
    <3>1. /\ k \in 1..Len(net[q]) \/ k = Len(net[q]) + 1
          /\ k \in 1..Len(net[q]) => net'[q][k] = net[q][k]
          /\ k = Len(net[q]) + 1 => net'[q][k] = m
      BY <1>9, <2>1, LineMore
    <3>2. CASE k \in 1..Len(net[q])
      BY <1>3, <1>4, <2>1, <3>1, <3>2 DEF IndexedAt
    <3>3. CASE k = Len(net[q]) + 1
      BY <1>3, <2>4, <3>1, <3>3
    <3> QED BY <3>1, <3>2, <3>3
  <2>6. IndexedAt(p)'
    BY <1>3, <1>4, <1>9, IndexedSame
  <2>7. FirstWire'
    <3>1. m.over = 1 => Proper(m.ck)
      BY <1>4, <1>9, <2>3 DEF UpAt
    <3> QED BY <1>4, <1>9, <3>1 DEF FirstWire
  <2> QED BY <1>1, <1>3, <1>5, <1>6, <1>7, <2>1, <2>5, <2>6, <2>7, IndexStep
<1>10. \/ UNCHANGED <<net, wire>>
       \/ \E m \in Message :
            /\ link = "up" /\ m.n = b.m.n /\ m.ck = b.m.ck /\ m.over = links
            /\ net'[q] = Append(net[q], m) /\ net'[p] = net[p]
            /\ wire' = wire \cup {[to |-> q, m |-> m]}
  BY EncryptFacts
<1> QED BY <1>8, <1>9, <1>10

\* The search for a key moves nothing of it.
LEMMA IndexSeek ==
  ASSUME Handlers = 1, TypeOK, IndexInv, NEW p \in Peer, NEW i \in 1..Handlers,
         NEW m \in Message, Found(p, i, m) \/ Refused(p, i, m) \/ Chained(p, i, m),
         UNCHANGED <<links, link, wire>>, link = "up" \/ T(p).at # "idle",
         BothRooted' <=> BothRooted => \A q \in Peer : IndexedAt(q)'
  PROVE  IndexInv'
<1>1. \E t \in Task : Now(p, i, t) /\ t.at \in {"idle", "open", "skip", "take"}
  <2>1. Found(p, i, m) => \E t \in Task : Now(p, i, t) /\ t.at \in {"idle", "open", "skip", "take"}
    BY DEF Found
  <2>2. Refused(p, i, m) => Now(p, i, Idle) /\ Idle \in Task /\ Idle.at = "idle"
    BY IdleFacts DEF Refused
  <2>3. ASSUME Chained(p, i, m)
        PROVE  \E t \in Task : Now(p, i, t) /\ t.at \in {"idle", "open", "skip", "take"}
    <3>1. PICK t \in Task : Now(p, i, t) /\ t.at = IF st[p].recvIdx < m.n THEN "skip" ELSE "take"
      BY <2>3 DEF Chained
    <3>2. t.at \in {"skip", "take"}
      BY <3>1
    <3> QED BY <3>1, <3>2
  <2> QED BY <2>1, <2>2, <2>3
<1>2. PICK t \in Task : Now(p, i, t) /\ t.at \in {"idle", "open", "skip", "take"}
  BY <1>1
<1>3. /\ st'[p].root = st[p].root /\ st'[p].send = st[p].send /\ st'[p].recv = st[p].recv
      /\ st'[p].sendIdx = st[p].sendIdx /\ st'[p].recvIdx = st[p].recvIdx
  BY DEF Found, Refused, Chained
<1>4. T(p)' = t /\ \A q \in Peer : q # p => T(q)' = T(q) /\ st'[q] = st[q]
  BY <1>2, OneNow
<1>5. BothRooted' <=> BothRooted
  BY <1>3, <1>4 DEF BothRooted, Rooted
<1>6. ~Stepping(p)' /\ t.at \notin Sending /\ t.at # "bare"
  BY <1>2, <1>4 DEF Stepping, Sending
<1>7. Proper(st'[p].recv) => /\ Proper(st[p].recv) /\ st'[p].recvIdx = st'[p].recv.n
                             /\ t.at # "bare"
  BY <1>3, <1>6 DEF IndexInv, IndexAt
<1>8. \A q \in Peer : IndexedAt(q)'
  BY <1>5
<1> QED BY <1>2, <1>3, <1>6, <1>7, <1>8, IndexLocal

LEMMA IndexTail ==
  ASSUME TypeOK, IndexInv, NEW p \in Peer, net[p] # <<>>, net'[p] = Tail(net[p]),
         \A q \in Peer : q # p => net'[q] = net[q], BothRooted' <=> BothRooted
  PROVE  \A q \in Peer : IndexedAt(q)'
<1>1. \A k \in 1..Len(net'[p]) : k + 1 \in 1..Len(net[p]) /\ net'[p][k] = net[p][k + 1]
  BY Typed, HeadTailFacts
<1>2. IndexedAt(p)'
  BY <1>1 DEF IndexInv, IndexedAt
<1>3. \A q \in Peer : q # p => IndexedAt(q)'
  BY IndexedSame DEF IndexInv
<1> QED BY <1>2, <1>3

LEMMA IndexMessage ==
  ASSUME Handlers = 1, TypeOK, LadderInv, IndexInv, NEW p \in Peer, NEW i \in 1..Handlers,
         OnMessage(p, i)
  PROVE  IndexInv'
<1>1. link = "up" /\ UNCHANGED <<links, link, wire>>
  BY MessageFacts
<1>2. PICK m \in Message :
         /\ net[p] # <<>> /\ m = Head(net[p]) /\ net'[p] = Tail(net[p])
         /\ \A q \in Peer : q # p => net'[q] = net[q]
         /\ \/ /\ m.v2 /\ st[p].root # NoRoot /\ st' = st
               /\ \E t \in Task : Now(p, i, t) /\ t.at = "root"
            \/ Found(p, i, m) \/ Refused(p, i, m) \/ Chained(p, i, m)
            \/ ~m.v2 /\ st' = st /\ \E t \in Task : Now(p, i, t) /\ t.at = "bare"
  BY MessageFacts
<1>3. BothRooted' <=> BothRooted => \A q \in Peer : IndexedAt(q)'
  BY <1>2, IndexTail
<1>4. m.v2 <=> Rooted(Other(p))
  <2>1. m = net[p][1] /\ 1 \in 1..Len(net[p])
    BY <1>2, Typed, HeadTailFacts
  <2>2. StepAt(Other(p)) /\ Other(Other(p)) = p
    BY Typed DEF LadderInv
  <2> QED BY <2>1, <2>2 DEF StepAt
<1>5. IndexAt(p) /\ UpAt(p)
  BY DEF IndexInv
<1>6. CASE Found(p, i, m) \/ Refused(p, i, m) \/ Chained(p, i, m)
  BY <1>1, <1>3, <1>6, IndexSeek
<1>7. CASE /\ m.v2 /\ st[p].root # NoRoot /\ st' = st
           /\ \E t \in Task : Now(p, i, t) /\ t.at = "root"
  <2>1. PICK t : Now(p, i, t) /\ t.at = "root"
    BY <1>7
  <2>2. BothRooted /\ (BothRooted' <=> BothRooted)
    <3>1. Rooted(p) /\ Rooted(Other(p)) => BothRooted
      BY DEF BothRooted
    <3> QED BY <1>4, <1>7, <3>1 DEF BothRooted, Rooted
  <2>3. \A q \in Peer : IndexedAt(q)'
    BY <1>3, <2>2
  <2>4. t.at \notin Sending /\ t.at # "bare"
    BY <2>1 DEF Sending
  <2> QED BY <1>1, <1>5, <1>7, <2>1, <2>2, <2>3, <2>4, IndexLocal DEF IndexAt
<1>8. CASE ~m.v2 /\ st' = st /\ \E t \in Task : Now(p, i, t) /\ t.at = "bare"
  <2>1. PICK t : Now(p, i, t) /\ t.at = "bare"
    BY <1>8
  <2>2. BothRooted' <=> BothRooted
    BY <1>8 DEF BothRooted, Rooted
  <2>3. \A q \in Peer : IndexedAt(q)'
    BY <1>3, <2>2
  <2>4. ~Proper(st[p].recv)
    BY <1>1, <1>4, <1>5, <1>8 DEF UpAt, BothRooted
  <2>5. t.at \notin Sending /\ ~Stepping(p)'
    BY <2>1, OneNow DEF Sending, Stepping
  <2> QED BY <1>1, <1>8, <2>1, <2>3, <2>4, <2>5, IndexLocal
<1> QED BY <1>2, <1>6, <1>7, <1>8

LEMMA IndexRead ==
  ASSUME Handlers = 1, TypeOK, IndexInv, NEW p \in Peer, NEW i \in 1..Handlers,
         RootRead(p, i)
  PROVE  IndexInv'
<1>1. PICK t : Now(p, i, t) /\ t.at = "commit"
  BY RootFacts
<1>2. task[p][i].at = "root" /\ st' = st /\ UNCHANGED <<net, links, link, wire>>
  BY RootFacts DEF Still
<1>3. task[p][i] = T(p)
  BY <1>1, OneNow
<1>4. IndexAt(p) /\ UpAt(p) /\ Stepping(p) /\ T(p).at # "idle"
  BY <1>2, <1>3 DEF IndexInv, Stepping
<1>5. (BothRooted' <=> BothRooted) /\ (BothRooted \/ link # "up")
  BY <1>2, <1>4 DEF BothRooted, Rooted, UpAt
<1>6. \A q \in Peer : IndexedAt(q)'
  BY <1>2, <1>5, IndexNets
<1>7. t.at \notin Sending /\ t.at # "bare"
  BY <1>1 DEF Sending
<1> QED BY <1>1, <1>2, <1>4, <1>5, <1>6, <1>7, IndexLocal DEF IndexAt

LEMMA IndexCommit ==
  ASSUME Handlers = 1, TypeOK, LadderInv, IndexInv, NEW p \in Peer, NEW i \in 1..Handlers,
         DhCommit(p, i)
  PROVE  IndexInv'
<1> DEFINE b == task[p][i]
           own == KeyPair(p, made[p] + 1)
           root == AdvanceRoot(b.root, {own, b.m.pk})
<1>1. PICK t : Now(p, i, t) /\ t.at = "seek"
  BY CommitFacts
<1>2. /\ b.at = "commit" /\ st'[p].root = root
      /\ st'[p].recv = Chain(b.root, Stepped) /\ st'[p].recvIdx = 0
      /\ st'[p].send = Chain(root, Stepped) /\ st'[p].sendIdx = 0
      /\ UNCHANGED <<net, link, links, wire>>
  BY CommitFacts
<1>3. b = T(p) /\ T(p)' = t /\ \A q \in Peer : q # p => T(q)' = T(q) /\ st'[q] = st[q]
  BY <1>1, OneNow
<1>4. Stepping(p) /\ Rooted(p) /\ ~Stepping(p)'
  BY <1>1, <1>2, <1>3 DEF Stepping, LadderInv, StepAt
<1>5. Proper(root) /\ root # NoRoot
  <2>1. b.root \in RootKey /\ b.m.pk \in Key /\ made[p] + 1 \in Nat
    BY Typed, SMTT(30) DEF Task, Message
  <2>2. {own, b.m.pk} \in SUBSET Key
    BY <2>1, ConstantTypes
  <2> QED BY <2>1, <2>2, Advanced
<1>6. (Rooted(p)' <=> Rooted(p)) /\ (BothRooted' <=> BothRooted)
  BY <1>2, <1>3, <1>4, <1>5 DEF Rooted, BothRooted
<1>7. IndexAt(p)'
  BY <1>1, <1>2, <1>3, <1>4, <1>6, ChainOfFacts DEF IndexAt, Sending
<1>8. Proper(st'[p].send)
  BY <1>2, <1>5, ChainOfFacts
<1>9. UpAt(p)'
  <2>1. link = "up" => BothRooted
    BY <1>4 DEF IndexInv, UpAt
  <2> QED BY <1>2, <1>6, <1>8, <2>1 DEF UpAt
<1>10. FirstWire'
  BY <1>2 DEF IndexInv, FirstWire
<1>11. T(p).at # "idle"
  BY <1>2, <1>3
<1> QED BY <1>1, <1>2, <1>6, <1>7, <1>9, <1>10, <1>11, IndexNets, IndexStep

LEMMA IndexOthers ==
  ASSUME Handlers = 1, TypeOK, ReadInv, IndexInv, NEW p \in Peer, NEW i \in 1..Handlers,
         Sought(p, i) \/ SkipOne(p, i) \/ TakeKey(p, i) \/ Open(p, i)
  PROVE  IndexInv'
<1>1. CASE Sought(p, i)
  <2>1. /\ task[p][i].at = "seek" /\ task[p][i].m \in Message
        /\ \/ Found(p, i, task[p][i].m) \/ Refused(p, i, task[p][i].m)
           \/ Chained(p, i, task[p][i].m)
        /\ UNCHANGED <<net, link, links, wire>>
    BY <1>1, SoughtFacts DEF Still
  <2>2. T(p).at # "idle"
    BY <2>1 DEF T
  <2> QED BY <2>1, <2>2, IndexNets, IndexSeek
<1>2. CASE SkipOne(p, i)
  <2>1. /\ task[p][i].at = "skip"
        /\ st'[p].recv = NextChain(task[p][i].ck) /\ st'[p].recvIdx = st[p].recvIdx + 1
        /\ st'[p].root = st[p].root /\ st'[p].send = st[p].send
        /\ st'[p].sendIdx = st[p].sendIdx
        /\ UNCHANGED <<net, link, links, wire>>
    BY <1>2, SkipFacts DEF Still
  <2>2. PICK t : /\ Now(p, i, t)
                 /\ t.at = IF st[p].recvIdx + 1 < task[p][i].m.n THEN "skip" ELSE "take"
    BY <1>2, SkipFacts
  <2>3. t.at \in {"skip", "take"}
    BY <2>2
  <2>4. task[p][i] = T(p) /\ T(p)' = t /\ \A q \in Peer : q # p => st'[q] = st[q]
    BY <2>2, OneNow
  <2>5. task[p][i].ck = st[p].recv /\ st[p].recv \in ChainKey
    BY <2>1, <2>4, Chains DEF ReadInv, RecvAt
  <2>6. Proper(st'[p].recv) => Proper(st[p].recv) /\ st'[p].recvIdx = st'[p].recv.n
    BY <2>1, <2>5, ChainFacts, ChainOfFacts DEF IndexInv, IndexAt
  <2>7. t.at \notin Sending /\ t.at # "bare" /\ ~Stepping(p)' /\ T(p).at # "idle"
    BY <2>1, <2>3, <2>4 DEF Sending, Stepping
  <2>8. BothRooted' <=> BothRooted
    BY <2>1, <2>4 DEF BothRooted, Rooted
  <2> QED BY <2>1, <2>2, <2>6, <2>7, <2>8, IndexNets, IndexLocal
<1>3. CASE TakeKey(p, i)
  <2>1. /\ task[p][i].at \in {"take", "bare"}
        /\ st'[p].recv = NextChain(task[p][i].ck)
        /\ st'[p].recvIdx = IF task[p][i].at = "take" THEN st[p].recvIdx + 1 ELSE st[p].recvIdx
        /\ st'[p].root = st[p].root /\ st'[p].send = st[p].send
        /\ st'[p].sendIdx = st[p].sendIdx
        /\ UNCHANGED <<net, link, links, wire>>
    BY <1>3, TakeFacts DEF Still
  <2>2. PICK t : Now(p, i, t) /\ t.at = "open"
    BY <1>3, TakeFacts
  <2>4. task[p][i] = T(p) /\ T(p)' = t /\ \A q \in Peer : q # p => st'[q] = st[q]
    BY <2>2, OneNow
  <2>5. task[p][i].ck = st[p].recv /\ st[p].recv \in ChainKey
    BY <2>1, <2>4, Chains DEF ReadInv, RecvAt
  <2>6. Proper(st'[p].recv) => Proper(st[p].recv) /\ st'[p].recvIdx = st'[p].recv.n
    <3>1. (Proper(st'[p].recv) <=> Proper(st[p].recv)) /\ st'[p].recv.n = st[p].recv.n + 1
      BY <2>1, <2>5, ChainFacts, ChainOfFacts
    <3> QED BY <2>1, <2>4, <3>1 DEF IndexInv, IndexAt
  <2>7. t.at \notin Sending /\ t.at # "bare" /\ ~Stepping(p)' /\ T(p).at # "idle"
    BY <2>1, <2>2, <2>4 DEF Sending, Stepping
  <2>8. BothRooted' <=> BothRooted
    BY <2>1, <2>4 DEF BothRooted, Rooted
  <2> QED BY <2>1, <2>2, <2>6, <2>7, <2>8, IndexNets, IndexLocal
<1>4. CASE Open(p, i)
  <2>1. /\ task[p][i].at = "open" /\ Now(p, i, Idle) /\ KeysSame(p)
        /\ UNCHANGED <<net, link, links, wire>>
    BY <1>4, OpenFacts DEF Still
  <2>2. task[p][i] = T(p) /\ T(p)' = Idle /\ \A q \in Peer : q # p => st'[q] = st[q]
    BY <2>1, OneNow
  <2>3. Idle.at \notin Sending /\ Idle.at # "bare" /\ ~Stepping(p)' /\ T(p).at # "idle"
    BY <2>1, <2>2, IdleFacts DEF Sending, Stepping
  <2>4. BothRooted' <=> BothRooted
    BY <2>1, <2>2 DEF BothRooted, Rooted, KeysSame
  <2> QED BY <2>1, <2>3, <2>4, IndexNets, IndexLocal DEF KeysSame, IndexInv, IndexAt
<1> QED BY <1>1, <1>2, <1>3, <1>4

\* The adapters drop, the channel goes, nothing happens: no end changes.
LEMMA IndexRest ==
  ASSUME TypeOK, IndexInv,
         (\E p \in Peer : DropExcess(p)) \/ Disconnect \/ UNCHANGED vars
  PROVE  IndexInv'
<1>1. /\ UNCHANGED <<st, task, links, wire>> /\ link' \in {link, "down"}
      /\ BothRooted' <=> BothRooted
  <2>1. UNCHANGED <<st, task, links, wire>> /\ link' \in {link, "down"}
    BY DropFacts, DownFacts DEF vars
  <2> QED BY <2>1 DEF BothRooted, Rooted
<1>2. \A q \in Peer : IndexedAt(q)'
  <2>1. ASSUME NEW p \in Peer, DropExcess(p) PROVE \A q \in Peer : IndexedAt(q)'
    BY <1>1, <2>1, DropFacts, IndexTail
  <2>2. ASSUME Disconnect PROVE \A q \in Peer : IndexedAt(q)'
    <3>1. Len(<<>>) = 0 /\ 1..0 = {}
      BY EmptySeq
    <3>2. \A q \in Peer : net'[q] = <<>>
      BY <2>2, DownFacts
    <3> QED BY <3>1, <3>2 DEF IndexedAt
  <2>3. ASSUME UNCHANGED vars PROVE \A q \in Peer : IndexedAt(q)'
    BY <1>1, <2>3, IndexNets DEF vars
  <2> QED BY <2>1, <2>2, <2>3
<1>3. ASSUME NEW q \in Peer PROVE IndexAt(q)' /\ UpAt(q)'
  <2>1. IndexAt(q) /\ UpAt(q) /\ T(q)' = T(q) /\ st'[q] = st[q]
    BY <1>1 DEF IndexInv, T
  <2>2. IndexAt(q)'
    BY <2>1 DEF IndexAt, Rooted
  <2>3. UpAt(q)'
    BY <1>1, <2>1 DEF UpAt, Stepping
  <2> QED BY <2>2, <2>3
<1>4. AnsweredOK'
  <2>1. AnsweredOK /\ T(Guest)' = T(Guest)
    BY <1>1 DEF IndexInv, T
  <2> QED BY <1>1, <2>1 DEF AnsweredOK
<1>5. FirstWire'
  BY <1>1 DEF IndexInv, FirstWire
<1> QED BY <1>2, <1>3, <1>4, <1>5 DEF IndexInv

\* A side that gets the chains of a reconnection.
LEMMA IndexRekeyed ==
  ASSUME Handlers = 1, TypeOK, IndexInv, NEW p \in Peer, NEW k, RekeyedAt(p, k),
         UNCHANGED <<task, net, wire>>, T(p) = Idle, link # "up"
  PROVE  /\ IndexAt(p)' /\ ~Proper(st[p].send)' /\ ~Proper(st[p].recv)' /\ ~Stepping(p)'
         /\ \A q \in Peer : q # p => IndexAt(q)' /\ st'[q] = st[q] /\ T(q)' = T(q)
         /\ \A q \in Peer : IndexedAt(q)' /\ T(q)' = T(q)
         /\ FirstWire'
<1>1. ~Proper(st'[p].send) /\ ~Proper(st'[p].recv)
  BY ChainOfFacts DEF RekeyedAt
<1>2. T(p)' = Idle /\ \A q \in Peer : T(q)' = T(q)
  BY DEF T
<1>3. IndexAt(p)' /\ ~Stepping(p)'
  BY <1>1, <1>2, IdleFacts DEF IndexAt, Sending, Stepping
<1>4. ASSUME NEW q \in Peer, q # p PROVE IndexAt(q)' /\ st'[q] = st[q]
  <2>1. IndexAt(q) /\ T(q)' = T(q) /\ st'[q] = st[q]
    BY <1>2, <1>4 DEF IndexInv, RekeyedAt
  <2> QED BY <2>1 DEF IndexAt, Rooted
<1>5. BothRooted' <=> BothRooted
  BY DEF RekeyedAt, BothRooted, Rooted
<1>6. FirstWire'
  BY DEF IndexInv, FirstWire
<1> QED BY <1>1, <1>2, <1>3, <1>4, <1>5, <1>6, IndexNets

LEMMA IndexAnswer ==
  ASSUME Handlers = 1, TypeOK, IndexInv, ReconnectAsGuest PROVE IndexInv'
<1>1. /\ link = "down" /\ link' = "answered" /\ links' = links + 1 /\ links \in Nat
      /\ RekeyedAt(Guest, links + 1) /\ UNCHANGED <<task, net, wire>>
      /\ T(Guest) = Idle /\ Guest \in Peer
  BY AnswerFacts, Typed DEF T
<1>2. /\ ~Proper(st[Guest].send)' /\ ~Proper(st[Guest].recv)' /\ T(Guest)' = Idle
      /\ \A q \in Peer : IndexAt(q)' /\ IndexedAt(q)'
      /\ FirstWire'
  BY <1>1, IndexRekeyed
<1>3. links' # 1
  <2>1. links \in 1..(MaxLinks + 1)
    BY DEF TypeOK
  <2> QED BY <1>1, <2>1
<1>4. AnsweredOK'
  BY <1>2, <1>3, IdleFacts DEF AnsweredOK
<1>5. \A q \in Peer : UpAt(q)'
  BY <1>1 DEF UpAt
<1> QED BY <1>2, <1>4, <1>5 DEF IndexInv

LEMMA IndexFinalize ==
  ASSUME Handlers = 1, TypeOK, IndexInv, FinalizeReconnect PROVE IndexInv'
<1>1. /\ link = "answered" /\ link' = "up" /\ links' = links
      /\ RekeyedAt(Host, links) /\ UNCHANGED <<task, net, wire>>
      /\ T(Host) = Idle /\ Host \in Peer /\ Guest \in Peer /\ Guest # Host
  BY FinalizeFacts DEF T
<1>2. /\ ~Proper(st[Host].send)' /\ ~Proper(st[Host].recv)' /\ ~Stepping(Host)'
      /\ \A q \in Peer : IndexAt(q)' /\ IndexedAt(q)'
      /\ FirstWire' /\ st'[Guest] = st[Guest] /\ T(Guest)' = T(Guest)
  BY <1>1, IndexRekeyed
<1>3. /\ ~Proper(st[Guest].send) /\ ~Proper(st[Guest].recv) /\ T(Guest).at = "idle" /\ links # 1
  BY <1>1 DEF IndexInv, AnsweredOK
<1>4. ~Proper(st[Guest].send)' /\ ~Proper(st[Guest].recv)' /\ ~Stepping(Guest)'
  BY <1>2, <1>3 DEF Stepping
<1>5. \A q \in Peer : UpAt(q)'
  BY <1>1, <1>2, <1>3, <1>4 DEF UpAt
<1>6. AnsweredOK'
  BY <1>1 DEF AnsweredOK
<1> QED BY <1>2, <1>5, <1>6 DEF IndexInv

LEMMA IndexReload ==
  ASSUME Handlers = 1, TypeOK, IndexInv, NEW p \in Peer, Reload(p) PROVE IndexInv'
<1>1. /\ link' = "down" /\ \A q \in Peer : net'[q] = <<>>
      /\ st'[p].send = NoChain /\ st'[p].recv = NoChain
      /\ UNCHANGED <<links, wire>> /\ T(p)' = Idle
      /\ \A q \in Peer : q # p => st'[q] = st[q] /\ T(q)' = T(q)
  BY ReloadFacts DEF T
<1>2. \A q \in Peer : IndexedAt(q)'
  <2>1. Len(<<>>) = 0 /\ 1..0 = {}
    BY EmptySeq
  <2> QED BY <1>1, <2>1 DEF IndexedAt
<1>3. IndexAt(p)'
  BY <1>1, IdleFacts, ChainOfFacts DEF IndexAt, Sending
<1>4. ASSUME NEW q \in Peer, q # p PROVE IndexAt(q)'
  <2>1. IndexAt(q) /\ T(q)' = T(q) /\ st'[q] = st[q]
    BY <1>1, <1>4 DEF IndexInv
  <2> QED BY <2>1 DEF IndexAt, Rooted
<1>5. \A q \in Peer : UpAt(q)'
  BY <1>1 DEF UpAt
<1>6. AnsweredOK'
  BY <1>1 DEF AnsweredOK
<1>7. FirstWire'
  BY <1>1 DEF IndexInv, FirstWire
<1> QED BY <1>2, <1>3, <1>4, <1>5, <1>6, <1>7 DEF IndexInv

LEMMA IndexInit == ASSUME Handlers = 1 PROVE Init => IndexInv
<1> SUFFICES ASSUME Init PROVE IndexInv
  OBVIOUS
<1>1. /\ \A p \in Peer : st[p] = InitSession[p] /\ T(p) = Idle /\ net[p] = <<>>
      /\ link = "up" /\ links = 1 /\ wire = {}
  BY DEF Init, T
<1>2. InitRoot # NoRoot /\ GuestRoot # NoRoot /\ Proper(InitRoot) /\ Proper(GuestRoot)
  <2>1. InitRoot \in RootKey /\ {KeyPair(Host, 1), KeyPair(Guest, 2)} \in SUBSET Key
    BY ConstantTypes
  <2>2. InitRoot.shared = 1 /\ NoRoot.shared = 0 /\ InitRoot.dhs # <<>>
    BY DEF InitRoot, NoRoot
  <2> QED BY <2>1, <2>2, Advanced DEF GuestRoot, Proper
<1>3. \A p \in Peer : /\ Rooted(p) /\ st[p].sendIdx = 0 /\ st[p].recvIdx = 0
                      /\ st[p].send.n = 0 /\ st[p].recv.n = 0
                      /\ Proper(st[p].send) /\ Proper(st[p].recv)
  BY <1>1, <1>2 DEF InitSession, Rooted, Chain, Proper
<1>4. \A p \in Peer : IndexAt(p)
  BY <1>1, <1>3, IdleFacts DEF IndexAt, Sending
<1>5. \A p \in Peer : IndexedAt(p)
  <2>1. Len(<<>>) = 0 /\ 1..0 = {}
    BY EmptySeq
  <2> QED BY <1>1, <2>1 DEF IndexedAt
<1>6. \A p \in Peer : UpAt(p)
  BY <1>3 DEF UpAt, BothRooted
<1>7. AnsweredOK /\ FirstWire
  BY <1>1 DEF AnsweredOK, FirstWire
<1> QED BY <1>4, <1>5, <1>6, <1>7 DEF IndexInv

LEMMA IndexNext ==
  ASSUME Handlers = 1, TypeOK, LadderInv, KeysInv, ReadInv, IndexInv, [Next]_vars
  PROVE  IndexInv'
<1>1. ASSUME NEW p \in Peer, NEW i \in 1..Handlers, Step(p, i) PROVE IndexInv'
  BY <1>1, IndexSend, IndexAdvance, IndexEncrypt, IndexMessage, IndexRead, IndexCommit,
     IndexOthers DEF Step
<1> QED BY <1>1, IndexRest, IndexReload, IndexAnswer, IndexFinalize DEF Next

\* A message of p and the one that p sends after it.
Follows(p, a, b) ==
  IF a.pk = b.pk THEN b.n = a.n + 1 /\ b.chain = a.chain
  ELSE b.n = 0 /\ b.chain = OfRoot(st[p].root)
LineAt(q) ==
  Rooted(Other(q)) => \A k \in 1..Len(net[q]) : Follows(Other(q), At(q, k), At(q, k + 1))

\* What comes to q is numbered upwards, beyond what q has and remembers.
OrderedAt(q) ==
  Rooted(Other(q)) => \A j, k \in Line(q) : j < k => At(q, j).ctr < At(q, k).ctr
NewerAt(q) ==
  Rooted(Other(q)) =>
    \A k \in Line(q) : /\ At(q, k).ctr > st[q].received
                       /\ Receiving(T(q)) => At(q, k).ctr > T(q).m.ctr

\* The chain that q reads on, or is about to, and where on it; the place that the first in
\* line should have, once the message in hand has had its own; and how far one may be off.
Coming(q) ==
  IF Stepping(q) THEN OfRoot(AdvanceRoot(st[q].root, {st[q].priv, T(q).m.pk}))
  ELSE ChainOf(st[q].recv)
Base(q) == IF Stepping(q) THEN 0 ELSE st[q].recvIdx
Pending(q) == T(q).at \in {"root", "commit", "seek", "skip", "take"}
NextIdx(q) == IF Pending(q) THEN T(q).m.n + 1 ELSE st[q].recvIdx
Near(x, n) == x <= n /\ (drops <= MaxSkip => n <= x + drops)

\* The first in line is on the chain that q reads on, or else on the one its key makes.
FrontAt(q) ==
  link = "up" /\ Proper(At(q, 1).chain) =>
    /\ At(q, 1).pk = Waiting(q) => /\ At(q, 1).chain = Coming(q)
                                   /\ Near(NextIdx(q), At(q, 1).n)
                                   /\ Pending(q) => Proper(T(q).m.ck)
    /\ At(q, 1).pk # Waiting(q) => /\ At(q, 1).chain = OfRoot(st[Other(q)].root)
                                   /\ Near(0, At(q, 1).n)

\* So is the message in hand.
InHand(q) ==
  /\ T(q).at # "bare" /\ T(q).m.n = T(q).m.ck.n /\ T(q).m.ctr > st[q].received
  /\ Pending(q) => ChainOf(T(q).m.ck) = Coming(q) /\ Near(Base(q), T(q).m.n)
  /\ T(q).at = "open" => T(q).ck = T(q).m.ck
TaskAt(q) ==
  /\ T(q).at = "skip" => st[q].recvIdx < T(q).m.n
  /\ T(q).at = "take" => st[q].recvIdx = T(q).m.n
  /\ Receiving(T(q)) /\ Proper(T(q).m.ck) => InHand(q)

FateAt(f) == Proper(f.m.ck) /\ f.why # "shown" => f.why = "skip" /\ drops > MaxSkip

DeliveryInv ==
  /\ \A q \in Peer : LineAt(q) /\ OrderedAt(q) /\ NewerAt(q) /\ FrontAt(q) /\ TaskAt(q)
  /\ \A f \in fate : FateAt(f)

LEMMA Numbers ==
  ASSUME TypeOK, NEW q \in Peer
  PROVE  /\ drops \in Nat /\ MaxSkip \in Nat
         /\ st[q].recvIdx \in Nat /\ st[q].received \in Nat /\ st[q].counter \in Nat
         /\ T(q) \in Task /\ T(q).m \in Message
         /\ T(q).m.n \in Nat /\ T(q).m.ctr \in Nat /\ T(q).m.ck.n \in Nat
         /\ NextIdx(q) \in Nat /\ Base(q) \in Nat
         /\ At(q, 1).n \in Nat
<1>1. drops \in Nat /\ MaxSkip \in Nat
  BY Typed, BoundsAssumption
<1>2. st[q].recvIdx \in Nat /\ st[q].received \in Nat /\ st[q].counter \in Nat
  BY Typed DEF Session
<1>3. 1 \in 1..Handlers
  BY BoundsAssumption
<1>4. T(q) \in Task /\ T(q).m \in Message
  BY <1>3, Typed DEF T
<1>5. T(q).m.n \in Nat /\ T(q).m.ctr \in Nat /\ T(q).m.ck \in ChainKey
  BY <1>4 DEF Message
<1>6. T(q).m.ck.n \in Nat
  BY <1>5, ChainFacts
<1>7. NextIdx(q) \in Nat /\ Base(q) \in Nat
  BY <1>2, <1>5 DEF NextIdx, Base
<1>8. At(q, 1).n \in Nat
  BY LineTypes
<1> QED BY <1>1, <1>2, <1>4, <1>5, <1>6, <1>7, <1>8

LEMMA NearKept ==
  ASSUME drops \in Nat, drops' \in Nat, drops' >= drops, NEW x \in Nat, NEW n \in Nat, Near(x, n)
  PROVE  Near(x, n)'
<1>1. \A d, e, s \in Nat : d <= e /\ e <= s /\ (d <= s => n <= x + d) => n <= x + e
  OBVIOUS
<1>2. MaxSkip \in Nat
  BY BoundsAssumption
<1> QED BY <1>1, <1>2 DEF Near

\* The state of q that what comes to it goes by is as it was.
ViewSame(q) ==
  /\ Waiting(q)' = Waiting(q) /\ Coming(q)' = Coming(q) /\ NextIdx(q)' = NextIdx(q)
  /\ Pending(q)' => Pending(q) /\ T(q)'.m = T(q).m
\* And so is what comes.
LineStays(q) ==
  /\ net'[q] = net[q] /\ Tip(Other(q))' = Tip(Other(q))
  /\ st'[Other(q)].root = st[Other(q)].root

LEMMA FrontKept ==
  ASSUME TypeOK, NEW q \in Peer, FrontAt(q), ViewSame(q), LineStays(q), link' = link,
         drops' \in Nat, drops' >= drops
  PROVE  FrontAt(q)'
<1>1. At(q, 1)' = At(q, 1)
  BY LineSame, LineTypes DEF LineStays
<1>2. drops \in Nat /\ NextIdx(q) \in Nat /\ At(q, 1).n \in Nat
  BY Numbers
<1>3. Near(NextIdx(q), At(q, 1).n) => Near(NextIdx(q), At(q, 1).n)'
  <2>1. \A x, n \in Nat : Near(x, n) => Near(x, n)'
    BY <1>2, NearKept
  <2>2. NextIdx(q)' = NextIdx(q) /\ At(q, 1)'.n = At(q, 1).n
    BY <1>1 DEF ViewSame
  <2> QED BY <1>2, <2>1, <2>2 DEF Near
<1>4. Near(0, At(q, 1).n) => Near(0, At(q, 1).n)'
  BY <1>1, <1>2, NearKept
<1> QED BY <1>1, <1>3, <1>4 DEF FrontAt, ViewSame, LineStays

LEMMA LineKept ==
  ASSUME TypeOK, NEW q \in Peer, LineAt(q), OrderedAt(q), LineStays(q)
  PROVE  LineAt(q)' /\ OrderedAt(q)'
<1>1. /\ Line(q)' = Line(q) /\ Len(net'[q]) = Len(net[q])
      /\ \A k \in Line(q) : At(q, k)' = At(q, k)
      /\ \A k \in 1..Len(net[q]) : k \in Line(q) /\ k + 1 \in Line(q)
  BY LineSame, LineTypes DEF LineStays
<1>2. Rooted(Other(q))' <=> Rooted(Other(q))
  BY DEF LineStays, Rooted
<1>3. OrderedAt(q)'
  BY <1>1, <1>2 DEF OrderedAt
<1>4. ASSUME NEW k \in 1..Len(net[q]), Follows(Other(q), At(q, k), At(q, k + 1))
      PROVE  Follows(Other(q), At(q, k), At(q, k + 1))'
  <2>1. At(q, k)' = At(q, k) /\ At(q, k + 1)' = At(q, k + 1)
    BY <1>1
  <2> QED BY <1>4, <2>1 DEF Follows, LineStays
<1>5. LineAt(q)'
  BY <1>1, <1>2, <1>4 DEF LineAt
<1> QED BY <1>3, <1>5

LEMMA NewerKept ==
  ASSUME TypeOK, NEW q \in Peer, NewerAt(q), LineStays(q),
         st'[q].received = st[q].received,
         Receiving(T(q)') => Receiving(T(q)) /\ T(q)'.m = T(q).m
  PROVE  NewerAt(q)'
<1>1. Line(q)' = Line(q) /\ \A k \in Line(q) : At(q, k)' = At(q, k)
  BY LineSame DEF LineStays
<1>2. Rooted(Other(q))' <=> Rooted(Other(q))
  BY DEF LineStays, Rooted
<1> QED BY <1>1, <1>2 DEF NewerAt

\* An end with nothing new.
LEMMA TaskKept ==
  ASSUME TypeOK, NEW q \in Peer, TaskAt(q), T(q)' = T(q), st'[q] = st[q],
         drops' \in Nat, drops' >= drops
  PROVE  TaskAt(q)' /\ ViewSame(q)
<1>1. ViewSame(q) /\ Base(q)' = Base(q) /\ (Pending(q)' <=> Pending(q))
  BY DEF ViewSame, Waiting, Coming, NextIdx, Pending, Stepping, Base
<1>2. Near(Base(q), T(q).m.n) => Near(Base(q), T(q).m.n)'
  <2>1. \A x, n \in Nat : Near(x, n) => Near(x, n)'
    BY Numbers, NearKept
  <2>2. Base(q) \in Nat /\ T(q).m.n \in Nat
    BY Numbers
  <2> QED BY <1>1, <2>1, <2>2 DEF Near
<1>3. InHand(q) => InHand(q)'
  BY <1>1, <1>2 DEF InHand, ViewSame
<1> QED BY <1>1, <1>3 DEF TaskAt

\* A step of a handler, and one that leaves both lines alone.
LEMMA DeliveryStep ==
  ASSUME Handlers = 1, TypeOK, DeliveryInv, NEW p \in Peer, NEW i \in 1..Handlers, NEW t,
         Now(p, i, t), UNCHANGED drops,
         \A q \in Peer : LineAt(q)' /\ OrderedAt(q)' /\ NewerAt(q)' /\ FrontAt(q)',
         TaskAt(p)', \A f \in fate' : f \in fate \/ FateAt(f)'
  PROVE  DeliveryInv'
<1>1. \A q \in Peer : q # p => T(q)' = T(q) /\ st'[q] = st[q]
  BY OneNow
<1>2. \A q \in Peer : q # p => TaskAt(q)'
  BY <1>1, Numbers, TaskKept DEF DeliveryInv
<1>3. \A f \in fate : FateAt(f) => FateAt(f)'
  BY DEF FateAt
<1> QED BY <1>2, <1>3 DEF DeliveryInv

LEMMA DeliveryOther ==
  ASSUME Handlers = 1, TypeOK, DeliveryInv, NEW p \in Peer, NEW i \in 1..Handlers, NEW t,
         Now(p, i, t), UNCHANGED <<link, drops>>, NEW q \in Peer, q # p,
         net'[q] = net[q], Tip(p)' = Tip(p), st'[p].root = st[p].root
  PROVE  LineAt(q)' /\ OrderedAt(q)' /\ NewerAt(q)' /\ FrontAt(q)'
<1>1. T(q)' = T(q) /\ st'[q] = st[q] /\ Other(q) = p
  BY OneNow, Typed
<1>2. LineStays(q)
  BY <1>1 DEF LineStays
<1>3. ViewSame(q) /\ drops \in Nat
  BY <1>1, Numbers, TaskKept DEF DeliveryInv
<1>4. LineAt(q)' /\ OrderedAt(q)'
  BY <1>2, LineKept DEF DeliveryInv
<1>5. NewerAt(q)'
  BY <1>1, <1>2, NewerKept DEF DeliveryInv
<1>6. FrontAt(q)'
  BY <1>2, <1>3, FrontKept DEF DeliveryInv
<1> QED BY <1>4, <1>5, <1>6

LEMMA DeliveryLocal ==
  ASSUME Handlers = 1, TypeOK, DeliveryInv, NEW p \in Peer, NEW i \in 1..Handlers, NEW t,
         Now(p, i, t), UNCHANGED <<net, link, drops>>,
         Tip(p)' = Tip(p), st'[p].root = st[p].root, NewerAt(p)', FrontAt(p)',
         TaskAt(p)', \A f \in fate' : f \in fate \/ FateAt(f)'
  PROVE  DeliveryInv'
<1>1. Other(p) \in Peer /\ Other(p) # p /\ \A q \in Peer : q # p => T(q)' = T(q) /\ st'[q] = st[q]
  BY OneNow, Typed
<1>2. LineStays(p)
  <2>1. Tip(Other(p))' = Tip(Other(p))
    BY <1>1 DEF Tip
  <2> QED BY <1>1, <2>1 DEF LineStays
<1>3. LineAt(p)' /\ OrderedAt(p)'
  BY <1>2, LineKept DEF DeliveryInv
<1>4. \A q \in Peer : q # p => LineAt(q)' /\ OrderedAt(q)' /\ NewerAt(q)' /\ FrontAt(q)'
  BY DeliveryOther
<1> QED BY <1>3, <1>4, DeliveryStep

LEMMA StaysFor ==
  ASSUME Handlers = 1, TypeOK, NEW p \in Peer, NEW i \in 1..Handlers, NEW t, Now(p, i, t),
         net'[p] = net[p]
  PROVE  LineStays(p)
<1>1. Other(p) \in Peer /\ Other(p) # p
  BY Typed
<1>2. T(Other(p))' = T(Other(p)) /\ st'[Other(p)] = st[Other(p)]
  BY <1>1, OneNow
<1>3. Tip(Other(p))' = Tip(Other(p))
  BY <1>2 DEF Tip
<1> QED BY <1>2, <1>3 DEF LineStays

\* An end that has nothing in hand.
LEMMA DeliveryQuiet ==
  ASSUME Handlers = 1, TypeOK, DeliveryInv, NEW p \in Peer, NEW i \in 1..Handlers, NEW t,
         Now(p, i, t), T(p).at \in Sending \cup {"idle"}, t.at \in Sending \cup {"idle"},
         net'[p] = net[p], UNCHANGED <<link, drops>>,
         st'[p].last = st[p].last, st'[p].recv = st[p].recv, st'[p].recvIdx = st[p].recvIdx,
         st'[p].received = st[p].received
  PROVE  LineAt(p)' /\ OrderedAt(p)' /\ NewerAt(p)' /\ FrontAt(p)' /\ TaskAt(p)'
<1>1. T(p)' = t /\ LineStays(p) /\ drops \in Nat
  BY OneNow, StaysFor, Numbers
<1>2. /\ ~Stepping(p) /\ ~Pending(p) /\ ~Receiving(T(p))
      /\ T(p).at \notin {"skip", "take"}
  BY DEF Stepping, Pending, Receiving, Sending
<1>3. /\ ~Stepping(p)' /\ ~Pending(p)' /\ ~Receiving(T(p)')
      /\ T(p)'.at \notin {"skip", "take"}
  BY <1>1 DEF Stepping, Pending, Receiving, Sending
<1>4. ViewSame(p)
  BY <1>2, <1>3 DEF ViewSame, Waiting, Coming, NextIdx
<1>5. TaskAt(p)'
  BY <1>3 DEF TaskAt
<1>6. LineAt(p)' /\ OrderedAt(p)'
  BY <1>1, LineKept DEF DeliveryInv
<1>7. NewerAt(p)'
  BY <1>1, <1>3, NewerKept DEF DeliveryInv
<1>8. FrontAt(p)'
  BY <1>1, <1>4, FrontKept DEF DeliveryInv
<1> QED BY <1>5, <1>6, <1>7, <1>8

LEMMA DeliverySend ==
  ASSUME Handlers = 1, TypeOK, DeliveryInv, NEW p \in Peer, NEW i \in 1..Handlers,
         SendMessage(p, i)
  PROVE  DeliveryInv'
<1>1. PICK t : Now(p, i, t) /\ t.at = "advance"
  BY SendFacts
<1>2. /\ task[p][i] = Idle /\ KeysSame(p) /\ st'[p].counter = st[p].counter + 1
      /\ st'[p].received = st[p].received /\ UNCHANGED <<net, link, drops, fate>>
  BY SendFacts
<1>3. T(p) = Idle /\ T(p)' = t
  BY <1>1, <1>2, OneNow
<1>4. Tip(p)' = Tip(p)
  BY <1>1, <1>2, <1>3, IdleFacts DEF Tip, KeysSame, Sending
<1>5. T(p).at \in Sending \cup {"idle"} /\ t.at \in Sending \cup {"idle"}
  BY <1>1, <1>3, IdleFacts DEF Sending
<1>6. LineAt(p)' /\ OrderedAt(p)' /\ NewerAt(p)' /\ FrontAt(p)' /\ TaskAt(p)'
  BY <1>1, <1>2, <1>5, DeliveryQuiet DEF KeysSame
<1> QED BY <1>1, <1>2, <1>4, <1>6, DeliveryLocal DEF KeysSame

LEMMA DeliveryAdvance ==
  ASSUME Handlers = 1, TypeOK, KeysInv, DeliveryInv, NEW p \in Peer, NEW i \in 1..Handlers,
         ChainAdvanced(p, i)
  PROVE  DeliveryInv'
<1> DEFINE b == task[p][i]
<1>1. /\ b.at = "advance" /\ st'[p].send = NextChain(b.ck)
      /\ st'[p].sendIdx = IF b.m.v2 THEN st[p].sendIdx + 1 ELSE st[p].sendIdx
      /\ st'[p].root = st[p].root /\ st'[p].recv = st[p].recv /\ st'[p].pub = st[p].pub
      /\ st'[p].recvIdx = st[p].recvIdx /\ st'[p].last = st[p].last /\ CountsSame(p)
      /\ UNCHANGED <<net, link, drops, fate>>
  BY AdvanceFacts
<1>2. PICK t : /\ Now(p, i, t) /\ t.at = "encrypt" /\ t.m.v2 = b.m.v2
               /\ t.m.n = IF b.m.v2 THEN st[p].sendIdx ELSE 0
  BY AdvanceFacts
<1>3. b = T(p) /\ T(p)' = t
  BY <1>2, OneNow
<1>4. b.ck = st[p].send /\ st[p].send \in ChainKey
  BY <1>1, <1>3, Chains DEF KeysInv, SendAt
<1>5. ChainOf(st'[p].send) = ChainOf(st[p].send)
  BY <1>1, <1>4, ChainOfFacts
<1>6. Tip(p)' = Tip(p)
  <2>1. Tip(p).n = st[p].sendIdx /\ Tip(p)'.n = st[p].sendIdx
    BY <1>1, <1>2, <1>3 DEF Tip
  <2>2. Tip(p).ctr = st[p].counter /\ Tip(p)'.ctr = st[p].counter
    BY <1>1, <1>2, <1>3 DEF Tip, Sending, CountsSame
  <2> QED BY <1>1, <1>5, <2>1, <2>2 DEF Tip
<1>7. T(p).at \in Sending \cup {"idle"} /\ t.at \in Sending \cup {"idle"}
  BY <1>1, <1>2, <1>3 DEF Sending
<1>8. LineAt(p)' /\ OrderedAt(p)' /\ NewerAt(p)' /\ FrontAt(p)' /\ TaskAt(p)'
  BY <1>1, <1>2, <1>7, DeliveryQuiet DEF CountsSame
<1> QED BY <1>1, <1>2, <1>6, <1>8, DeliveryLocal

\* A message joins the line.
LEMMA DeliveryMore ==
  ASSUME Handlers = 1, TypeOK, IndexInv', DeliveryInv, NEW p \in Peer, NEW q \in Peer,
         q = Other(p), p = Other(q), NEW m \in Message, net'[q] = Append(net[q], m),
         Rooted(p) => Sent(m) = Tip(p),
         Tip(p)'.pk = Tip(p).pk, Rooted(p) => Tip(p)'.n = Tip(p).n + 1,
         Tip(p)'.ctr = Tip(p).ctr + 1, Tip(p)'.chain = Tip(p).chain,
         T(q)' = T(q), UNCHANGED <<st, link, drops>>
  PROVE  LineAt(q)' /\ OrderedAt(q)' /\ NewerAt(q)' /\ FrontAt(q)'
<1>1. /\ Len(net[q]) \in Nat /\ Len(net'[q]) = Len(net[q]) + 1
      /\ \A k \in 1..Len(net[q]) : At(q, k)' = At(q, k)
      /\ \A k : k = Len(net[q]) + 1 => At(q, k)' = Sent(m) /\ net'[q][k] = m
      /\ \A k : k = Len(net[q]) + 2 => At(q, k)' = Tip(p)'
  BY LineMore
<1>2. Rooted(p)' <=> Rooted(p)
  BY DEF Rooted
<1>3. At(q, Len(net[q]) + 1) = Tip(p) /\ \A k \in Line(q) : At(q, k).ctr \in Nat
  BY LineTypes
<1>4. Rooted(p) => \A k \in Line(q) : At(q, k)' = At(q, k)
  <2>1. \A k \in Line(q) : k \in 1..Len(net[q]) \/ k = Len(net[q]) + 1
    BY <1>1 DEF Line
  <2> QED BY <1>1, <1>3, <2>1
<1>5. \A k \in Line(q)' : k \in Line(q) \/ k = Len(net[q]) + 2
  BY <1>1 DEF Line
<1>6. Line(q) = 1..(Len(net[q]) + 1) /\ Len(net[q]) + 1 \in Line(q)
  BY <1>1 DEF Line
<1>7. LineAt(q)'
  <2> SUFFICES ASSUME Rooted(p), NEW k \in 1..Len(net'[q])
               PROVE  Follows(p, At(q, k), At(q, k + 1))'
    BY <1>2 DEF LineAt
  <2>1. k \in 1..Len(net[q]) \/ k = Len(net[q]) + 1
    BY <1>1
  <2>2. CASE k \in 1..Len(net[q])
    <3>1. k \in Line(q) /\ k + 1 \in Line(q)
      BY <2>2, LineTypes
    <3>2. At(q, k)' = At(q, k) /\ At(q, k + 1)' = At(q, k + 1)
      BY <1>4, <3>1
    <3>3. Follows(p, At(q, k), At(q, k + 1))
      BY <2>2 DEF DeliveryInv, LineAt
    <3> QED BY <3>2, <3>3 DEF Follows
  <2>3. CASE k = Len(net[q]) + 1
    <3>1. k + 1 = Len(net[q]) + 2
      BY <1>1, <2>3
    <3>2. At(q, k)' = Tip(p) /\ At(q, k + 1)' = Tip(p)'
      BY <1>1, <2>3, <3>1
    <3> QED BY <3>2 DEF Follows
  <2> QED BY <2>1, <2>2, <2>3
<1>8. ASSUME Rooted(p), NEW k \in Line(q)', k = Len(net[q]) + 2
      PROVE  /\ At(q, k)'.ctr = Tip(p).ctr + 1 /\ Tip(p).ctr \in Nat
             /\ \A j \in Line(q) : At(q, j).ctr <= Tip(p).ctr
  <2>1. At(q, k)' = Tip(p)' /\ Tip(p).ctr \in Nat
    BY <1>1, <1>3, <1>6, <1>8
  <2>2. ASSUME NEW j \in Line(q) PROVE At(q, j).ctr <= Tip(p).ctr
    <3>1. j < Len(net[q]) + 1 \/ j = Len(net[q]) + 1
      BY <1>1, <1>6
    <3>2. j < Len(net[q]) + 1 => At(q, j).ctr < Tip(p).ctr
      BY <1>3, <1>6, <1>8 DEF DeliveryInv, OrderedAt
    <3> QED BY <1>3, <2>1, <3>1, <3>2
  <2> QED BY <2>1, <2>2
<1>9. OrderedAt(q)'
  <2> SUFFICES ASSUME Rooted(p), NEW j \in Line(q)', NEW k \in Line(q)', j < k
               PROVE  At(q, j)'.ctr < At(q, k)'.ctr
    BY <1>2 DEF OrderedAt
  <2>1. j \in Line(q)
    BY <1>1, <1>5 DEF Line
  <2>2. CASE k \in Line(q)
    <3>1. At(q, j).ctr < At(q, k).ctr
      BY <2>1, <2>2 DEF DeliveryInv, OrderedAt
    <3> QED BY <1>4, <2>1, <2>2, <3>1
  <2>3. CASE k = Len(net[q]) + 2
    <3>1. At(q, k)'.ctr = Tip(p).ctr + 1 /\ Tip(p).ctr \in Nat /\ At(q, j).ctr <= Tip(p).ctr
      BY <1>8, <2>1, <2>3
    <3>2. At(q, j)'.ctr = At(q, j).ctr /\ At(q, j).ctr \in Nat
      BY <1>3, <1>4, <2>1
    <3> QED BY <3>1, <3>2
  <2> QED BY <1>5, <2>2, <2>3
<1>10. NewerAt(q)'
  <2> SUFFICES ASSUME Rooted(p), NEW k \in Line(q)'
               PROVE  /\ At(q, k)'.ctr > st[q].received
                      /\ Receiving(T(q)) => At(q, k)'.ctr > T(q).m.ctr
    BY <1>2 DEF NewerAt
  <2>1. CASE k \in Line(q)
    BY <1>4, <2>1 DEF DeliveryInv, NewerAt
  <2>2. CASE k = Len(net[q]) + 2
    <3>1. At(q, k)'.ctr = Tip(p).ctr + 1 /\ Tip(p).ctr \in Nat
      BY <1>8, <2>2
    <3>2. Tip(p).ctr > st[q].received /\ (Receiving(T(q)) => Tip(p).ctr > T(q).m.ctr)
      BY <1>3, <1>6 DEF DeliveryInv, NewerAt
    <3>3. st[q].received \in Nat /\ T(q).m.ctr \in Nat
      BY Numbers
    <3> QED BY <3>1, <3>2, <3>3
  <2> QED BY <1>5, <2>1, <2>2
<1>11. FrontAt(q)'
  <2> SUFFICES ASSUME link = "up", Proper(At(q, 1)'.chain) PROVE FrontAt(q)'
    BY DEF FrontAt
  <2>1. CASE Rooted(p)
    <3>1. At(q, 1)' = At(q, 1)
      BY <1>4, <2>1, LineTypes
    <3>2. ViewSame(q)
      BY DEF ViewSame, Waiting, Coming, NextIdx, Pending, Stepping
    <3> QED BY <3>1, <3>2 DEF DeliveryInv, FrontAt, ViewSame, Near
  <2>2. CASE ~Rooted(p)
    <3>1. 1 \in 1..Len(net'[q]) /\ At(q, 1)' = Sent(net'[q][1])
      BY <1>1 DEF At
    <3>2. Proper(net'[q][1].ck)
      BY <3>1, SentFacts, ChainOfFacts
    <3>3. BothRooted'
      BY <3>1, <3>2 DEF IndexInv, IndexedAt
    <3> QED BY <1>2, <2>2, <3>3 DEF BothRooted
  <2> QED BY <2>1, <2>2
<1> QED BY <1>7, <1>9, <1>10, <1>11

\* Nothing is on its way.
LEMMA DeliveryNone ==
  ASSUME TypeOK, TypeOK', DeliveryInv, NEW q \in Peer, NEW p \in Peer, p = Other(q), net'[q] = <<>>,
         Rooted(p)' => Rooted(p), Rooted(p)' => Tip(p)'.ctr >= Tip(p).ctr,
         st'[q].received <= st[q].received,
         Receiving(T(q)') => Receiving(T(q)) /\ T(q)'.m = T(q).m,
         link' = "up" => ~Proper(Tip(p)'.chain)
  PROVE  LineAt(q)' /\ OrderedAt(q)' /\ NewerAt(q)' /\ FrontAt(q)'
<1>1. Len(net'[q]) = 0 /\ Line(q)' = {1} /\ At(q, 1)' = Tip(p)' /\ 1..0 = {}
  BY LineNone
<1>2. LineAt(q)' /\ OrderedAt(q)'
  <2>1. \A j, k \in {1} : ~(j < k)
    OBVIOUS
  <2> QED BY <1>1, <2>1 DEF LineAt, OrderedAt
<1>3. FrontAt(q)'
  BY <1>1 DEF FrontAt
<1>4. ASSUME Rooted(p)'
      PROVE  /\ Tip(p)'.ctr > st'[q].received
             /\ Receiving(T(q)') => Tip(p)'.ctr > T(q)'.m.ctr
  <2>1. At(q, Len(net[q]) + 1) = Tip(p) /\ Len(net[q]) + 1 \in Line(q) /\ Tip(p).ctr \in Nat
    BY LineTypes
  <2>2. Tip(p).ctr > st[q].received /\ (Receiving(T(q)) => Tip(p).ctr > T(q).m.ctr)
    BY <1>4, <2>1 DEF DeliveryInv, NewerAt
  <2>3. st[q].received \in Nat /\ T(q).m.ctr \in Nat
    BY Numbers
  <2>4. st'[q].received \in Nat /\ Tip(p)'.ctr \in Nat
    <3>1. st' \in [Peer -> Session]
      BY DEF TypeOK
    <3>2. st'[q].received \in Nat /\ st'[p].counter \in Nat
      BY <3>1 DEF Session
    <3> QED BY <3>2 DEF Tip
  <2> QED BY <1>4, <2>1, <2>2, <2>3, <2>4
<1>5. NewerAt(q)'
  BY <1>1, <1>4 DEF NewerAt
<1> QED BY <1>2, <1>3, <1>5

LEMMA DeliveryEncrypt ==
  ASSUME Handlers = 1, TypeOK, TypeOK', LadderInv, KeysInv, IndexInv, IndexInv', DeliveryInv,
         NEW p \in Peer, NEW i \in 1..Handlers, Encrypted(p, i)
  PROVE  DeliveryInv'
<1> DEFINE b == task[p][i]
           q == Other(p)
<1>1. b.at = "encrypt" /\ Now(p, i, Idle) /\ UNCHANGED <<st, link, drops, fate>>
  BY EncryptFacts
<1>2. b = T(p) /\ T(p)' = Idle /\ \A x \in Peer : x # p => T(x)' = T(x)
  BY <1>1, OneNow
<1>3. q \in Peer /\ q # p /\ Other(q) = p /\ \A x \in Peer : x = p \/ x = q
  BY Typed
<1>4. /\ Tip(p).pk = st[p].pub /\ Tip(p).chain = ChainOf(st[p].send)
      /\ Tip(p).n = IF T(p).m.v2 THEN T(p).m.n ELSE st[p].sendIdx
      /\ Tip(p).ctr = st[p].counter
      /\ Tip(p)'.pk = st[p].pub /\ Tip(p)'.chain = ChainOf(st[p].send)
      /\ Tip(p)'.n = st[p].sendIdx /\ Tip(p)'.ctr = st[p].counter + 1
  BY <1>1, <1>2, IdleFacts DEF Tip, Sending
<1>5. /\ T(p).m.v2 <=> Rooted(p)
      /\ st[p].send = NextChain(T(p).m.ck) /\ T(p).m.ctr = st[p].counter
      /\ T(p).m.v2 => st[p].sendIdx = T(p).m.n + 1
  BY <1>1, <1>2 DEF LadderInv, StepAt, KeysInv, SendAt, IndexInv, IndexAt, Sending
<1>6. ASSUME net'[p] = net[p]
      PROVE  LineAt(p)' /\ OrderedAt(p)' /\ NewerAt(p)' /\ FrontAt(p)' /\ TaskAt(p)'
  <2>1. T(p).at \in Sending \cup {"idle"} /\ Idle.at \in Sending \cup {"idle"}
    BY <1>1, <1>2, IdleFacts DEF Sending
  <2> QED BY <1>1, <1>6, <2>1, DeliveryQuiet
<1>7. CASE link # "up" /\ UNCHANGED net
  <2>1. net'[q] = <<>>
    BY <1>3, <1>7 DEF TypeOK
  <2>2. st[p].counter \in Nat /\ st[p].counter + 1 >= st[p].counter
    BY Numbers
  <2>3. st[q].received <= st[q].received
    BY <1>3, Numbers
  <2>4. LineAt(q)' /\ OrderedAt(q)' /\ NewerAt(q)' /\ FrontAt(q)'
    BY <1>1, <1>2, <1>3, <1>4, <1>7, <2>1, <2>2, <2>3, DeliveryNone DEF Rooted
  <2> QED BY <1>1, <1>3, <1>6, <1>7, <2>4, DeliveryStep
<1>8. ASSUME NEW m \in Message, m.v2 = b.m.v2, m.n = b.m.n, m.ck = b.m.ck, m.ctr = b.m.ctr,
             m.pk = IF m.v2 THEN st[p].pub ELSE NoKey,
             net'[q] = Append(net[q], m), net'[p] = net[p]
      PROVE  DeliveryInv'
  <2>1. ChainOf(m.ck) = ChainOf(st[p].send)
    <3>1. T(p).m.ck \in ChainKey
      BY <1>2, Chains
    <3> QED BY <1>2, <1>5, <1>8, <3>1, ChainOfFacts
  <2>2. Rooted(p) => Sent(m) = Tip(p)
    <3>1. Rooted(p) => /\ m.pk = st[p].pub /\ m.n = T(p).m.n /\ m.ctr = st[p].counter
      BY <1>2, <1>5, <1>8
    <3> QED BY <1>1, <1>2, <1>5, <2>1, <3>1 DEF Sent, Tip, Sending
  <2>3. Rooted(p) => Tip(p)'.n = Tip(p).n + 1
    BY <1>4, <1>5
  <2>4. LineAt(q)' /\ OrderedAt(q)' /\ NewerAt(q)' /\ FrontAt(q)'
    BY <1>1, <1>2, <1>3, <1>4, <1>8, <2>2, <2>3, DeliveryMore
  <2> QED BY <1>1, <1>3, <1>6, <1>8, <2>4, DeliveryStep
<1> QED BY <1>7, <1>8, EncryptFacts

\* An end that reads sends nothing.
LEMMA TipStays ==
  ASSUME NEW p \in Peer, T(p).at \notin Sending, T(p)'.at \notin Sending,
         st'[p].pub = st[p].pub, st'[p].send = st[p].send, st'[p].sendIdx = st[p].sendIdx,
         st'[p].counter = st[p].counter
  PROVE  Tip(p)' = Tip(p)
BY DEF Tip, Sending

\* A step with the message in hand that leaves where it is on its chain.
LEMMA DeliveryReads ==
  ASSUME Handlers = 1, TypeOK, DeliveryInv, NEW p \in Peer, NEW i \in 1..Handlers, NEW t,
         Now(p, i, t), T(p).at \notin Sending \cup {"idle"}, t.at \notin Sending \cup {"idle"},
         t.m = T(p).m, UNCHANGED <<net, link, drops, fate>>, ViewSame(p),
         st'[p].root = st[p].root, st'[p].pub = st[p].pub, st'[p].send = st[p].send,
         st'[p].sendIdx = st[p].sendIdx, CountsSame(p), TaskAt(p)'
  PROVE  DeliveryInv'
<1>1. T(p)' = t /\ LineStays(p) /\ drops \in Nat
  BY OneNow, StaysFor, Numbers
<1>2. Tip(p)' = Tip(p)
  BY <1>1, TipStays DEF CountsSame, Sending
<1>3. NewerAt(p)'
  BY <1>1, NewerKept DEF DeliveryInv, Receiving, CountsSame
<1>4. FrontAt(p)'
  BY <1>1, FrontKept DEF DeliveryInv
<1> QED BY <1>2, <1>3, <1>4, DeliveryLocal

LEMMA DeliveryRead ==
  ASSUME Handlers = 1, TypeOK, DeliveryInv, NEW p \in Peer, NEW i \in 1..Handlers,
         RootRead(p, i)
  PROVE  DeliveryInv'
<1>1. PICK t : Now(p, i, t) /\ t.at = "commit" /\ t.m = task[p][i].m
  BY RootFacts
<1>2. /\ task[p][i].at = "root" /\ st' = st
      /\ UNCHANGED <<net, link, drops, fate>>
  BY RootFacts DEF Still
<1>3. task[p][i] = T(p) /\ T(p)' = t
  BY <1>1, OneNow
<1>4. /\ ViewSame(p) /\ Base(p)' = Base(p) /\ Pending(p)
  BY <1>1, <1>2, <1>3 DEF ViewSame, Waiting, Coming, NextIdx, Pending, Stepping, Base
<1>5. T(p).at \notin Sending \cup {"idle"} /\ t.at \notin Sending \cup {"idle"}
  BY <1>1, <1>2, <1>3 DEF Sending
<1>6. TaskAt(p)'
  <2>1. Proper(T(p).m.ck) => InHand(p)
    BY <1>5 DEF DeliveryInv, TaskAt, Receiving
  <2>2. InHand(p) => InHand(p)'
    BY <1>1, <1>2, <1>3, <1>4 DEF InHand, ViewSame, Near
  <2> QED BY <1>1, <1>3, <2>1, <2>2 DEF TaskAt
<1> QED BY <1>1, <1>2, <1>3, <1>4, <1>5, <1>6, DeliveryReads DEF CountsSame

LEMMA DeliverySkip ==
  ASSUME Handlers = 1, TypeOK, ReadInv, DeliveryInv, NEW p \in Peer, NEW i \in 1..Handlers,
         SkipOne(p, i)
  PROVE  DeliveryInv'
<1> DEFINE b == task[p][i]
           idx == st[p].recvIdx
<1>1. /\ b.at = "skip" /\ st'[p].recv = NextChain(b.ck) /\ st'[p].recvIdx = idx + 1
      /\ st'[p].root = st[p].root /\ st'[p].send = st[p].send
      /\ st'[p].sendIdx = st[p].sendIdx /\ st'[p].pub = st[p].pub
      /\ st'[p].last = st[p].last /\ CountsSame(p)
      /\ UNCHANGED <<net, link, drops, fate>>
  BY SkipFacts DEF Still
<1>2. PICK t : Now(p, i, t) /\ t.at = (IF idx + 1 < b.m.n THEN "skip" ELSE "take") /\ t.m = b.m
  BY SkipFacts
<1>3. b = T(p) /\ T(p)' = t
  BY <1>2, OneNow
<1>4. idx \in Nat /\ b.m.n \in Nat /\ idx < b.m.n /\ drops \in Nat /\ MaxSkip \in Nat
  BY <1>1, <1>3, Numbers DEF DeliveryInv, TaskAt
<1>5. ChainOf(st'[p].recv) = ChainOf(st[p].recv)
  <2>1. b.ck = st[p].recv /\ st[p].recv \in ChainKey
    BY <1>1, <1>3, Chains DEF ReadInv, RecvAt
  <2> QED BY <1>1, <2>1, ChainOfFacts
<1>6. t.at \in {"skip", "take"} /\ (t.at = "skip" <=> idx + 1 < b.m.n)
  BY <1>2
<1>7. /\ ViewSame(p) /\ Base(p) = idx /\ Base(p)' = idx + 1 /\ Pending(p)
  BY <1>1, <1>2, <1>3, <1>5, <1>6 DEF ViewSame, Waiting, Coming, NextIdx, Pending, Stepping, Base
<1>8. T(p).at \notin Sending \cup {"idle"} /\ t.at \notin Sending \cup {"idle"}
  BY <1>1, <1>3, <1>6 DEF Sending
<1>9. TaskAt(p)'
  <2>1. Proper(T(p).m.ck) => InHand(p)
    BY <1>8 DEF DeliveryInv, TaskAt, Receiving
  <2>2. Near(idx, b.m.n) => b.m.n >= idx + 1 /\ (drops <= MaxSkip => b.m.n <= idx + 1 + drops)
    <3>1. \A d \in Nat : b.m.n <= idx + d => b.m.n <= idx + 1 + d
      BY <1>4
    <3>2. b.m.n >= idx + 1
      BY <1>4
    <3> QED BY <1>4, <3>1, <3>2 DEF Near
  <2>3. InHand(p) => InHand(p)'
    <3>1. InHand(p) => b.m.n >= idx + 1 /\ (drops <= MaxSkip => b.m.n <= idx + 1 + drops)
      BY <1>3, <1>7, <2>2 DEF InHand
    <3>2. idx + 1 <= b.m.n
      BY <1>4
    <3>3. InHand(p) => Near(Base(p), T(p).m.n)'
      BY <1>1, <1>2, <1>3, <1>7, <3>1, <3>2 DEF Near
    <3>4. InHand(p) => ChainOf(T(p).m.ck) = Coming(p)'
      BY <1>7 DEF InHand, ViewSame
    <3> QED BY <1>1, <1>2, <1>3, <1>6, <3>3, <3>4 DEF InHand, CountsSame
  <2>4. /\ t.at = "skip" => idx + 1 < b.m.n
        /\ t.at = "take" => idx + 1 = b.m.n
    BY <1>4, <1>6
  <2> QED BY <1>1, <1>2, <1>3, <2>1, <2>3, <2>4 DEF TaskAt
<1> QED BY <1>1, <1>2, <1>3, <1>7, <1>8, <1>9, DeliveryReads

\* A message on the chain that is read gets the key it was written with.
LEMMA DeliveryTake ==
  ASSUME Handlers = 1, TypeOK, IndexInv, ReadInv, DeliveryInv, NEW p \in Peer,
         NEW i \in 1..Handlers, TakeKey(p, i)
  PROVE  DeliveryInv'
<1> DEFINE b == task[p][i]
           idx == st[p].recvIdx
<1>1. /\ b.at \in {"take", "bare"} /\ st'[p].recv = NextChain(b.ck)
      /\ st'[p].recvIdx = IF b.at = "take" THEN idx + 1 ELSE idx
      /\ st'[p].root = st[p].root /\ st'[p].send = st[p].send
      /\ st'[p].sendIdx = st[p].sendIdx /\ st'[p].pub = st[p].pub
      /\ st'[p].last = st[p].last /\ CountsSame(p)
      /\ UNCHANGED <<net, link, drops, fate>>
  BY TakeFacts DEF Still
<1>2. PICK t : Now(p, i, t) /\ t.at = "open" /\ t.m = b.m /\ t.ck = b.ck
  BY TakeFacts
<1>3. b = T(p) /\ T(p)' = t
  BY <1>2, OneNow
<1>4. b.ck = st[p].recv /\ st[p].recv \in ChainKey /\ b.m.ck \in ChainKey
  BY <1>1, <1>3, Chains DEF ReadInv, RecvAt
<1>5. ChainOf(st'[p].recv) = ChainOf(st[p].recv)
  BY <1>1, <1>4, ChainOfFacts
<1>6. b.at = "take" => idx = b.m.n
  BY <1>3 DEF DeliveryInv, TaskAt
<1>7. /\ Pending(p) <=> b.at = "take"
      /\ ~Pending(p)' /\ ~Stepping(p) /\ ~Stepping(p)'
  BY <1>1, <1>2, <1>3 DEF Pending, Stepping
<1>8. ViewSame(p)
  <2>1. NextIdx(p)' = NextIdx(p)
    BY <1>1, <1>3, <1>6, <1>7 DEF NextIdx
  <2> QED BY <1>1, <1>5, <1>7, <2>1 DEF ViewSame, Waiting, Coming
<1>9. T(p).at \notin Sending \cup {"idle"} /\ t.at \notin Sending \cup {"idle"}
  BY <1>1, <1>2, <1>3 DEF Sending
<1>10. ASSUME Proper(b.m.ck) PROVE InHand(p)'
  <2>1. InHand(p) /\ b.at = "take"
    BY <1>1, <1>3, <1>9, <1>10 DEF DeliveryInv, TaskAt, Receiving, InHand
  <2>2. ChainOf(b.m.ck) = ChainOf(st[p].recv) /\ b.m.n = b.m.ck.n
    BY <1>3, <1>7, <2>1 DEF InHand, Coming
  <2>3. Proper(st[p].recv)
    BY <1>10, <2>2, ChainOfFacts
  <2>4. st[p].recv.n = b.m.ck.n
    BY <1>6, <2>1, <2>2, <2>3 DEF IndexInv, IndexAt
  <2>5. b.ck = b.m.ck
    BY <1>4, <2>2, <2>4, ChainOfFacts
  <2> QED BY <1>1, <1>2, <1>3, <1>7, <2>1, <2>5 DEF InHand, CountsSame
<1>11. TaskAt(p)'
  BY <1>2, <1>3, <1>10 DEF TaskAt
<1> QED BY <1>1, <1>2, <1>3, <1>8, <1>9, <1>11, DeliveryReads

LEMMA DeliveryOpen ==
  ASSUME Handlers = 1, TypeOK, DeliveryInv, NEW p \in Peer, NEW i \in 1..Handlers, Open(p, i)
  PROVE  DeliveryInv'
<1> DEFINE b == task[p][i]
<1>1. /\ b.at = "open" /\ Now(p, i, Idle) /\ KeysSame(p) /\ st'[p].counter = st[p].counter
      /\ st'[p].received = st[p].received \/ st'[p].received = b.m.ctr
      /\ UNCHANGED <<net, link, drops>>
  BY OpenFacts DEF Still
<1>2. b = T(p) /\ T(p)' = Idle
  BY <1>1, OneNow
<1>3. T(p).at = "open" /\ T(p)'.at = "idle"
  BY <1>1, <1>2, IdleFacts
<1>4. LineStays(p) /\ drops \in Nat
  BY <1>1, StaysFor, Numbers
<1>5. Tip(p)' = Tip(p)
  BY <1>1, <1>3, TipStays DEF KeysSame, Sending
<1>6. ViewSame(p)
  BY <1>1, <1>3 DEF KeysSame, ViewSame, Waiting, Coming, NextIdx, Pending, Stepping
<1>7. FrontAt(p)'
  BY <1>1, <1>4, <1>6, FrontKept DEF DeliveryInv
<1>8. NewerAt(p)'
  <2>1. Line(p)' = Line(p) /\ \A k \in Line(p) : At(p, k)' = At(p, k)
    BY <1>4, LineSame DEF LineStays
  <2>2. Rooted(Other(p))' <=> Rooted(Other(p))
    BY <1>4 DEF LineStays, Rooted
  <2>3. Receiving(T(p)) /\ ~Receiving(T(p)')
    BY <1>3 DEF Receiving, Sending
  <2> QED BY <1>1, <1>2, <2>1, <2>2, <2>3 DEF DeliveryInv, NewerAt
<1>9. TaskAt(p)'
  BY <1>3 DEF TaskAt, Receiving
<1>10. ASSUME NEW f \in fate', f \notin fate PROVE FateAt(f)'
  <2>1. /\ f.m = b.m
        /\ f.why # "shown" => b.ck # b.m.ck \/ ~(b.m.ctr > st[p].received)
    BY <1>10, OpenFacts
  <2>2. Proper(b.m.ck) => InHand(p)
    BY <1>2, <1>3 DEF DeliveryInv, TaskAt, Receiving, Sending
  <2>3. Proper(b.m.ck) => b.ck = b.m.ck /\ b.m.ctr > st[p].received
    BY <1>2, <1>3, <2>2 DEF InHand
  <2> QED BY <2>1, <2>3 DEF FateAt
<1> QED BY <1>1, <1>5, <1>7, <1>8, <1>9, <1>10, DeliveryLocal DEF KeysSame

\* A message on the chain that is read, not too far off, is refused for no other reason than
\* too many dropped, and has no stored key.
LEMMA NearFacts ==
  ASSUME TypeOK, NEW p \in Peer, NEW i \in 1..Handlers, NEW m \in Message,
         Near(st[p].recvIdx, m.n)
  PROVE  /\ ~Found(p, i, m)
         /\ Refused(p, i, m) =>
              /\ drops > MaxSkip /\ m.n > st[p].recvIdx + MaxSkip
              /\ fate' = fate \cup {[to |-> p, m |-> m, why |-> "skip"]}
         /\ st[p].recvIdx <= m.n + 1
<1>1. st[p].recvIdx \in Nat /\ drops \in Nat /\ MaxSkip \in Nat /\ m.n \in Nat
  BY Numbers DEF Message
<1>2. /\ st[p].recvIdx <= m.n
      /\ drops <= MaxSkip => m.n <= st[p].recvIdx + drops
  BY DEF Near
<1>3. ~(m.n < st[p].recvIdx) /\ st[p].recvIdx <= m.n + 1
  BY <1>1, <1>2
<1>4. m.n > st[p].recvIdx + MaxSkip => drops > MaxSkip
  BY <1>1, <1>2
<1> QED BY <1>3, <1>4 DEF Found, Refused

LEMMA DeliverySought ==
  ASSUME Handlers = 1, TypeOK, DeliveryInv, NEW p \in Peer, NEW i \in 1..Handlers, Sought(p, i)
  PROVE  DeliveryInv'
<1> DEFINE b == task[p][i]
           m == b.m
           idx == st[p].recvIdx
           f == At(p, 1)
<1>1. /\ b.at = "seek" /\ m \in Message
      /\ Found(p, i, m) \/ Refused(p, i, m) \/ Chained(p, i, m)
      /\ UNCHANGED <<net, link, drops>>
  BY SoughtFacts DEF Still
<1>2. \E t \in Task : Now(p, i, t) /\ t.at \in {"idle", "open", "skip", "take"}
  BY <1>1, SeekAside
<1>3. PICK t \in Task : Now(p, i, t) /\ t.at \in {"idle", "open", "skip", "take"}
  BY <1>2
<1>4. b = T(p) /\ T(p)' = t /\ LineStays(p)
  BY <1>1, <1>3, OneNow, StaysFor
<1>5. /\ st'[p].root = st[p].root /\ st'[p].send = st[p].send /\ st'[p].recv = st[p].recv
      /\ st'[p].sendIdx = st[p].sendIdx /\ st'[p].recvIdx = st[p].recvIdx
      /\ st'[p].pub = st[p].pub /\ st'[p].priv = st[p].priv /\ st'[p].last = st[p].last
      /\ CountsSame(p)
  BY <1>1 DEF Found, Refused, Chained, CountsSame
<1>6. /\ T(p).at \notin Sending \cup {"idle"} /\ T(p)'.at \notin Sending
      /\ Receiving(T(p)) /\ Pending(p) /\ ~Stepping(p) /\ ~Stepping(p)'
  BY <1>1, <1>3, <1>4 DEF Sending, Receiving, Pending, Stepping
<1>7. Waiting(p)' = Waiting(p) /\ Coming(p)' = Coming(p) /\ Base(p) = idx /\ Base(p)' = idx
  BY <1>5, <1>6 DEF Waiting, Coming, Base
<1>8. Proper(m.ck) => InHand(p) /\ Near(idx, m.n)
  BY <1>4, <1>6, <1>7 DEF DeliveryInv, TaskAt, InHand
<1>9. Tip(p)' = Tip(p)
  BY <1>5, <1>6, TipStays DEF CountsSame
<1>10. f = At(p, 1)' /\ f.n \in Nat /\ m.n \in Nat /\ idx \in Nat /\ MaxSkip \in Nat /\ drops \in Nat
  BY <1>4, LineSame, LineTypes, Numbers DEF LineStays
<1>11. ASSUME Found(p, i, m) \/ Refused(p, i, m) PROVE DeliveryInv'
  <2>1. Proper(m.ck) => Refused(p, i, m) /\ drops > MaxSkip /\ m.n > idx + MaxSkip
                        /\ fate' = fate \cup {[to |-> p, m |-> m, why |-> "skip"]}
    BY <1>1, <1>8, <1>11, NearFacts
  <2>2. \/ t.at = "open" /\ t.m = m /\ fate' = fate /\ ~Proper(m.ck)
        \/ t.at = "idle" /\ \E why : fate' = fate \cup {[to |-> p, m |-> m, why |-> why]}
    <3>1. CASE Found(p, i, m) /\ ~Proper(m.ck)
      <4>1. PICK u \in Task : Now(p, i, u) /\ u.at = "open" /\ u.m = m /\ fate' = fate
        BY <3>1 DEF Found
      <4> QED BY <1>4, <3>1, <4>1, OneNow
    <3>2. CASE Refused(p, i, m)
      <4>1. Now(p, i, Idle) /\ \E why : fate' = fate \cup {[to |-> p, m |-> m, why |-> why]}
        BY <3>2 DEF Refused
      <4> QED BY <1>4, <4>1, OneNow, IdleFacts
    <3> QED BY <1>11, <2>1, <3>1, <3>2
  <2>3. ~Pending(p)' /\ t.at \notin {"skip", "take"}
    BY <1>4, <2>2 DEF Pending
  <2>4. TaskAt(p)'
    BY <1>4, <2>2, <2>3 DEF TaskAt, Receiving
  <2>5. NewerAt(p)'
    <3>1. Receiving(T(p)') => Receiving(T(p)) /\ T(p)'.m = T(p).m
      BY <1>4, <1>6, <2>2 DEF Receiving
    <3> QED BY <1>4, <1>5, <3>1, NewerKept DEF DeliveryInv, CountsSame
  <2>6. FrontAt(p)'
    <3> SUFFICES ASSUME link = "up", Proper(f.chain) PROVE FrontAt(p)'
      BY <1>1, <1>10 DEF FrontAt
    <3>1. CASE f.pk # Waiting(p)
      BY <1>1, <1>4, <1>7, <1>10, <3>1 DEF DeliveryInv, FrontAt, LineStays, Near
    <3>2. CASE f.pk = Waiting(p)
      <4>1. f.chain = Coming(p) /\ Near(m.n + 1, f.n) /\ Proper(m.ck)
        BY <1>4, <1>6, <3>2 DEF DeliveryInv, FrontAt, NextIdx
      <4>2. m.n + 1 <= f.n /\ drops > MaxSkip /\ m.n > idx + MaxSkip
        BY <2>1, <4>1 DEF Near
      <4>3. idx <= f.n /\ ~(drops <= MaxSkip)
        BY <1>10, <4>2
      <4>4. NextIdx(p)' = idx
        BY <1>5, <2>3 DEF NextIdx
      <4>5. Near(NextIdx(p), At(p, 1).n)'
        BY <1>1, <1>10, <4>3, <4>4 DEF Near
      <4> QED BY <1>7, <1>10, <2>3, <3>2, <4>1, <4>5 DEF FrontAt
    <3> QED BY <3>1, <3>2
  <2>7. ASSUME NEW g \in fate', g \notin fate PROVE FateAt(g)'
    <3>1. g.m = m
      BY <2>2, <2>7
    <3>2. Proper(m.ck) => g.why = "skip" /\ drops > MaxSkip
      BY <2>1, <2>7
    <3> QED BY <1>1, <3>1, <3>2 DEF FateAt
  <2> QED BY <1>1, <1>3, <1>5, <1>9, <2>4, <2>5, <2>6, <2>7, DeliveryLocal
<1>12. ASSUME Chained(p, i, m) PROVE DeliveryInv'
  <2>1. PICK u \in Task : /\ Now(p, i, u) /\ u.at = (IF idx < m.n THEN "skip" ELSE "take")
                          /\ u.m = m /\ m.n \in idx..(idx + MaxSkip) /\ fate' = fate
    BY <1>12 DEF Chained
  <2>2. u = t /\ t.at \in {"skip", "take"} /\ T(p)'.at \notin Sending \cup {"idle"}
    BY <1>4, <2>1, OneNow DEF Sending
  <2>3. Pending(p)'
    BY <1>4, <2>2 DEF Pending
  <2>4. ViewSame(p)
    BY <1>4, <1>6, <1>7, <2>1, <2>2, <2>3 DEF ViewSame, NextIdx
  <2>5. /\ t.at = "skip" => idx < m.n
        /\ t.at = "take" => idx = m.n
    BY <1>10, <2>1, <2>2
  <2>6. TaskAt(p)'
    <3>1. Proper(m.ck) => InHand(p)'
      <4>1. Proper(m.ck) => Near(Base(p), T(p).m.n)'
        BY <1>1, <1>4, <1>7, <1>8, <2>1, <2>2 DEF Near
      <4> QED BY <1>4, <1>5, <1>6, <1>7, <1>8, <2>1, <2>2, <2>3, <4>1 DEF InHand, CountsSame
    <3> QED BY <1>4, <1>5, <2>1, <2>2, <2>5, <3>1 DEF TaskAt
  <2> QED BY <1>1, <1>3, <1>4, <1>5, <1>6, <2>1, <2>2, <2>4, <2>6, DeliveryReads
<1> QED BY <1>1, <1>11, <1>12

\* The sender takes a new key and a new chain, which are next in line.
LEMMA DeliveryAnew ==
  ASSUME TypeOK, DeliveryInv, NEW p \in Peer, NEW q \in Peer,
         q = Other(p), p = Other(q), AheadOf(q, p) \/ link # "up",
         net'[q] = net[q], T(q)' = T(q), st'[q] = st[q], UNCHANGED <<link, drops>>,
         Rooted(p), Rooted(p)', st'[p].pub # st[p].pub,
         Tip(p)'.pk = st'[p].pub, Tip(p)'.n = 0, Tip(p)'.ctr = Tip(p).ctr,
         Tip(p)'.chain = OfRoot(st'[p].root)
  PROVE  LineAt(q)' /\ OrderedAt(q)' /\ NewerAt(q)' /\ FrontAt(q)'
<1>1. /\ Line(q)' = Line(q) /\ Len(net[q]) \in Nat /\ Len(net'[q]) = Len(net[q])
      /\ \A k \in 1..Len(net[q]) : At(q, k)' = At(q, k) /\ At(q, k) = Sent(net[q][k])
      /\ \A k : k = Len(net[q]) + 1 => At(q, k)' = Tip(p)' /\ At(q, k) = Tip(p)
      /\ \A k \in 1..Len(net[q]) : k \in Line(q) /\ k + 1 \in Line(q)
      /\ \A k \in Line(q) : k \in 1..Len(net[q]) \/ k = Len(net[q]) + 1
      /\ 1 \in Line(q)
  <2>1. \A k : k = Len(net[q]) + 1 => At(q, k)' = Tip(p)'
    <3>1. Len(net[q]) \in Nat /\ ~(Len(net[q]) + 1 <= Len(net'[q]))
      BY LineTypes
    <3> QED BY <3>1 DEF At
  <2>2. \A k \in Line(q) : k \in 1..Len(net[q]) \/ k = Len(net[q]) + 1
    <3>1. \A n \in Nat : \A k \in 1..(n + 1) : k \in 1..n \/ k = n + 1
      OBVIOUS
    <3>2. Len(net[q]) \in Nat
      BY LineTypes
    <3> QED BY <3>1, <3>2 DEF Line
  <2>3. Line(q)' = Line(q) /\ \A k \in 1..Len(net[q]) : At(q, k)' = At(q, k)
    BY LineSame
  <2>4. /\ Len(net[q]) \in Nat /\ 1 \in Line(q) /\ At(q, Len(net[q]) + 1) = Tip(p)
        /\ \A k \in 1..Len(net[q]) : k \in Line(q) /\ k + 1 \in Line(q)
        /\ \A k \in 1..Len(net[q]) : At(q, k) = Sent(net[q][k])
    BY LineTypes
  <2>5. \A k : k = Len(net[q]) + 1 => At(q, k) = Tip(p)
    BY <2>4
  <2> QED BY <2>1, <2>2, <2>3, <2>4, <2>5
<1>2. \A k \in Line(q) : At(q, k)'.ctr = At(q, k).ctr
  BY <1>1
<1>3. OrderedAt(q)' /\ NewerAt(q)'
  BY <1>1, <1>2 DEF DeliveryInv, OrderedAt, NewerAt
<1>4. CASE link # "up"
  <2>1. Len(net[q]) = 0 /\ 1..0 = {}
    BY <1>4, EmptySeq DEF TypeOK
  <2> QED BY <1>1, <1>3, <1>4, <2>1 DEF LineAt, FrontAt
<1>5. CASE AheadOf(q, p)
  <2>1. /\ \A k \in 1..Len(net[q]) : At(q, k).pk = st[p].pub
        /\ st[q].last = st[p].pub /\ ~Stepping(q)
    <3>1. /\ \A k \in 1..Len(net[q]) : net[q][k].pk = st[p].pub
          /\ st[q].last = st[p].pub /\ ~Stepping(q)
      BY <1>5 DEF AheadOf
    <3>2. \A k \in 1..Len(net[q]) : At(q, k).pk = net[q][k].pk
      BY <1>1, SentFacts
    <3> QED BY <3>1, <3>2
  <2>2. ASSUME NEW k \in 1..Len(net[q]) PROVE Follows(p, At(q, k), At(q, k + 1))'
    <3>1. Follows(p, At(q, k), At(q, k + 1)) /\ At(q, k)' = At(q, k)
      BY <1>1, <2>2 DEF DeliveryInv, LineAt
    <3>2. k + 1 \in 1..Len(net[q]) \/ k + 1 = Len(net[q]) + 1
      BY <1>1
    <3>3. CASE k + 1 \in 1..Len(net[q])
      <4>1. At(q, k + 1)' = At(q, k + 1) /\ At(q, k + 1).pk = At(q, k).pk
        BY <1>1, <2>1, <3>3
      <4> QED BY <3>1, <4>1 DEF Follows
    <3>4. CASE k + 1 = Len(net[q]) + 1
      <4>1. At(q, k + 1)' = Tip(p)' /\ At(q, k).pk # st'[p].pub
        BY <1>1, <2>1, <3>4
      <4> QED BY <3>1, <4>1 DEF Follows
    <3> QED BY <3>2, <3>3, <3>4
  <2>3. LineAt(q)'
    BY <1>1, <2>2 DEF LineAt
  <2>4. ViewSame(q) /\ Waiting(q) = st[p].pub
    BY <2>1 DEF ViewSame, Waiting, Coming, NextIdx, Pending, Stepping
  <2>5. FrontAt(q)'
    <3>1. CASE 1 \in 1..Len(net[q])
      <4>1. At(q, 1)' = At(q, 1) /\ At(q, 1).pk = Waiting(q)
        BY <1>1, <2>1, <2>4, <3>1
      <4> QED BY <2>4, <4>1 DEF DeliveryInv, FrontAt, ViewSame, Near
    <3>2. CASE 1 = Len(net[q]) + 1
      <4>1. At(q, 1)' = Tip(p)' /\ At(q, 1)'.pk # Waiting(q)'
        BY <1>1, <2>4, <3>2 DEF ViewSame
      <4>2. Near(0, 0)'
        BY Numbers DEF Near
      <4>3. Near(0, At(q, 1).n)'
        BY <4>1, <4>2
      <4> QED BY <4>1, <4>3 DEF FrontAt
    <3> QED BY <1>1, <3>1, <3>2
  <2> QED BY <1>3, <2>3, <2>5
<1> QED BY <1>4, <1>5

LEMMA DeliveryCommit ==
  ASSUME Handlers = 1, TypeOK, LadderInv, IndexInv, DeliveryInv, NEW p \in Peer,
         NEW i \in 1..Handlers, DhCommit(p, i)
  PROVE  DeliveryInv'
<1> DEFINE b == task[p][i]
           own == KeyPair(p, made[p] + 1)
           root == AdvanceRoot(b.root, {own, b.m.pk})
           q == Other(p)
<1>1. PICK t : Now(p, i, t) /\ t.at = "seek" /\ t.m = b.m
  BY CommitFacts
<1>2. /\ b.at = "commit" /\ st'[p].root = root
      /\ st'[p].recv = Chain(b.root, Stepped) /\ st'[p].recvIdx = 0
      /\ st'[p].send = Chain(root, Stepped) /\ st'[p].sendIdx = 0
      /\ st'[p].pub = own /\ st'[p].last = b.m.pk /\ CountsSame(p)
      /\ UNCHANGED <<net, link, drops, fate>>
  BY CommitFacts
<1>3. b = T(p) /\ T(p)' = t /\ LineStays(p)
  BY <1>1, <1>2, OneNow, StaysFor
<1>4. q \in Peer /\ q # p /\ Other(q) = p /\ T(q)' = T(q) /\ st'[q] = st[q]
      /\ \A x \in Peer : x = p \/ x = q
  BY <1>1, OneNow, Typed
<1>5. /\ Stepping(p) /\ ~Stepping(p)' /\ Pending(p) /\ Pending(p)'
      /\ T(p).at \notin Sending \cup {"idle"} /\ T(p)'.at \notin Sending \cup {"idle"}
  BY <1>1, <1>2, <1>3 DEF Stepping, Pending, Sending
<1>6. b.root = AdvanceRoot(st[p].root, {st[p].priv, b.m.pk}) /\ Rooted(p)
  BY <1>2, <1>3, <1>5 DEF LadderInv, StepAt
<1>7. /\ ViewSame(p) /\ Base(p) = 0 /\ Base(p)' = 0
  <2>1. Coming(p) = OfRoot(b.root) /\ Coming(p)' = OfRoot(b.root)
    BY <1>2, <1>3, <1>5, <1>6, ChainOfFacts DEF Coming
  <2> QED BY <1>1, <1>2, <1>3, <1>5, <2>1 DEF ViewSame, Waiting, NextIdx, Base
<1>8. drops \in Nat
  BY Numbers
<1>9. LineAt(p)' /\ OrderedAt(p)' /\ NewerAt(p)' /\ FrontAt(p)'
  <2>1. LineAt(p)' /\ OrderedAt(p)'
    BY <1>3, LineKept DEF DeliveryInv
  <2>2. NewerAt(p)'
    BY <1>1, <1>2, <1>3, <1>5, NewerKept DEF DeliveryInv, Receiving, CountsSame
  <2>3. FrontAt(p)'
    BY <1>2, <1>3, <1>7, <1>8, FrontKept DEF DeliveryInv
  <2> QED BY <2>1, <2>2, <2>3
<1>10. TaskAt(p)'
  <2>1. Proper(T(p).m.ck) => InHand(p)
    BY <1>5 DEF DeliveryInv, TaskAt, Receiving
  <2>2. InHand(p) => InHand(p)'
    BY <1>1, <1>2, <1>3, <1>5, <1>7 DEF InHand, ViewSame, Near, CountsSame
  <2> QED BY <1>1, <1>3, <2>1, <2>2 DEF TaskAt
<1>11. AheadOf(q, p) \/ link # "up"
  <2>1. link = "up" => BothRooted
    BY <1>5 DEF IndexInv, UpAt
  <2>2. BothRooted => AheadOf(p, q) \/ AheadOf(q, p)
    BY <1>4 DEF BothRooted, LadderInv
  <2> QED BY <1>5, <2>1, <2>2 DEF AheadOf
<1>12. own # st[p].pub
  <2>1. st[p].pub = KeyPair(p, made[p]) /\ made[p] \in Nat
    BY <1>6, Typed DEF LadderInv, RootAt
  <2>2. made[p] + 1 # made[p]
    BY <2>1
  <2> QED BY <2>1, <2>2 DEF KeyPair
<1>13. Rooted(p)'
  <2>1. b.root \in RootKey /\ b.m.pk \in Key /\ made[p] + 1 \in Nat
    BY Typed, SMTT(30) DEF Task, Message
  <2>2. {own, b.m.pk} \in SUBSET Key
    BY <2>1, ConstantTypes
  <2> QED BY <1>2, <2>1, <2>2, Advanced DEF Rooted
<1>14. /\ Tip(p)'.pk = own /\ Tip(p)'.n = 0 /\ Tip(p)'.ctr = Tip(p).ctr
       /\ Tip(p)'.chain = OfRoot(root)
  <2>1. Tip(p)'.chain = OfRoot(root)
    BY <1>2, ChainOfFacts DEF Tip
  <2>2. Tip(p)'.ctr = Tip(p).ctr /\ Tip(p)'.n = 0
    BY <1>2, <1>5 DEF Tip, CountsSame, Sending
  <2> QED BY <1>2, <2>1, <2>2 DEF Tip
<1>15. LineAt(q)' /\ OrderedAt(q)' /\ NewerAt(q)' /\ FrontAt(q)'
  BY <1>2, <1>4, <1>6, <1>11, <1>12, <1>13, <1>14, DeliveryAnew
<1> QED BY <1>1, <1>2, <1>4, <1>9, <1>10, <1>15, DeliveryStep

\* The first in line leaves it.
LEMMA LineShift ==
  ASSUME TypeOK, DeliveryInv, NEW q \in Peer, net[q] # <<>>, net'[q] = Tail(net[q]),
         Tip(Other(q))' = Tip(Other(q)), st'[Other(q)].root = st[Other(q)].root,
         st'[q].received = st[q].received,
         Receiving(T(q)') =>
           (Receiving(T(q)) /\ T(q)'.m = T(q).m) \/ T(q)'.m = Head(net[q])
  PROVE  LineAt(q)' /\ OrderedAt(q)' /\ NewerAt(q)'
<1>1. /\ Len(net[q]) \in Nat /\ Len(net'[q]) = Len(net[q]) - 1
      /\ 1 \in 1..Len(net[q]) /\ 2 \in Line(q) /\ Head(net[q]) = net[q][1]
      /\ \A k \in Line(q)' : k + 1 \in Line(q) /\ At(q, k)' = At(q, k + 1)
      /\ \A k \in 1..Len(net'[q]) : k + 1 \in 1..Len(net[q]) /\ net'[q][k] = net[q][k + 1]
  BY LineLess
<1>2. Rooted(Other(q))' <=> Rooted(Other(q))
  BY DEF Rooted
<1>3. /\ \A k \in 1..Len(net'[q]) : k \in Line(q)' /\ k + 1 \in Line(q)'
      /\ \A k \in Line(q)' : k \in Nat /\ 1 < k + 1
      /\ 1 \in Line(q)
  <2>1. \A n \in Nat : \A k \in 1..n : k \in 1..(n + 1) /\ k + 1 \in 1..(n + 1)
    OBVIOUS
  <2>2. Len(net'[q]) \in Nat
    BY <1>1
  <2>3. \A n \in Nat : \A k \in 1..(n + 1) : k \in Nat /\ 1 < k + 1
    OBVIOUS
  <2>4. 1 \in Line(q)
    BY LineTypes
  <2> QED BY <2>1, <2>2, <2>3, <2>4 DEF Line
<1>4. LineAt(q)'
  <2> SUFFICES ASSUME Rooted(Other(q)), NEW k \in 1..Len(net'[q])
               PROVE  Follows(Other(q), At(q, k), At(q, k + 1))'
    BY <1>2 DEF LineAt
  <2>1. At(q, k)' = At(q, k + 1) /\ k + 1 \in Line(q)' /\ k + 1 \in 1..Len(net[q])
    BY <1>1, <1>3
  <2>2. \A l : l = k + 1 => At(q, l)' = At(q, l + 1) /\ Follows(Other(q), At(q, l), At(q, l + 1))
    BY <1>1, <2>1 DEF DeliveryInv, LineAt
  <2> QED BY <2>1, <2>2 DEF Follows
<1>5. OrderedAt(q)'
  <2> SUFFICES ASSUME Rooted(Other(q)), NEW j \in Line(q)', NEW k \in Line(q)', j < k
               PROVE  At(q, j)'.ctr < At(q, k)'.ctr
    BY <1>2 DEF OrderedAt
  <2>1. j + 1 \in Line(q) /\ k + 1 \in Line(q) /\ j + 1 < k + 1
    BY <1>1, <1>3
  <2>2. At(q, j + 1).ctr < At(q, k + 1).ctr
    BY <2>1 DEF DeliveryInv, OrderedAt
  <2> QED BY <1>1, <2>2
<1>6. NewerAt(q)'
  <2> SUFFICES ASSUME Rooted(Other(q)), NEW k \in Line(q)'
               PROVE  /\ At(q, k)'.ctr > st[q].received
                      /\ Receiving(T(q)') => At(q, k)'.ctr > T(q)'.m.ctr
    BY <1>2 DEF NewerAt
  <2>1. At(q, k)' = At(q, k + 1) /\ k + 1 \in Line(q) /\ 1 < k + 1
    BY <1>1, <1>3
  <2>2. /\ At(q, k + 1).ctr > st[q].received
        /\ Receiving(T(q)) => At(q, k + 1).ctr > T(q).m.ctr
    BY <2>1 DEF DeliveryInv, NewerAt
  <2>3. At(q, k + 1).ctr > net[q][1].ctr
    <3>1. At(q, 1).ctr < At(q, k + 1).ctr
      BY <1>3, <2>1 DEF DeliveryInv, OrderedAt
    <3>2. At(q, 1).ctr = net[q][1].ctr
      BY <1>1, LineTypes, SentFacts
    <3>3. At(q, 1).ctr \in Nat /\ At(q, k + 1).ctr \in Nat
      BY <1>3, <2>1, LineTypes
    <3> QED BY <3>1, <3>2, <3>3
  <2> QED BY <1>1, <2>1, <2>2, <2>3
<1> QED BY <1>4, <1>5, <1>6

\* The second in line goes on after the first, or it is the first on a chain that its reader
\* does not know of yet.
LEMMA SecondInLine ==
  ASSUME TypeOK, LadderInv, IndexInv, DeliveryInv, NEW q \in Peer, link = "up", net[q] # <<>>,
         NEW f, f = At(q, 2), Proper(f.chain)
  PROVE  /\ BothRooted
         /\ f.pk = Head(net[q]).pk =>
              /\ f.n = Head(net[q]).n + 1 /\ f.chain = ChainOf(Head(net[q]).ck)
              /\ Proper(Head(net[q]).ck)
         /\ f.pk # Head(net[q]).pk =>
              /\ f.n = 0 /\ f.chain = OfRoot(st[Other(q)].root)
              /\ Head(net[q]).pk = Waiting(q) /\ f.pk # Waiting(q)
<1> DEFINE p == Other(q)
           m == net[q][1]
<1>1. p \in Peer /\ Other(p) = q /\ p # q /\ \A x \in Peer : x = p \/ x = q
  BY Typed
<1>2. /\ Len(net[q]) \in Nat /\ 1 \in 1..Len(net[q]) /\ Head(net[q]) = m
  BY Typed, HeadTailFacts
<1>3. /\ 2 \in 1..Len(net[q]) \/ 2 = Len(net[q]) + 1
  BY <1>2
<1>4. /\ At(q, 1) = Sent(m)
      /\ 2 \in 1..Len(net[q]) => At(q, 2) = Sent(net[q][2])
      /\ 2 = Len(net[q]) + 1 => At(q, 2) = Tip(p)
  BY <1>2, LineTypes
<1>5. BothRooted
  <2>1. CASE 2 \in 1..Len(net[q])
    <3>1. Proper(net[q][2].ck)
      BY <1>4, <2>1, SentFacts, ChainOfFacts
    <3> QED BY <2>1, <3>1 DEF IndexInv, IndexedAt
  <2>2. CASE 2 = Len(net[q]) + 1
    <3>1. Proper(st[p].send)
      BY <1>1, <1>4, <2>2, TipFacts, ChainOfFacts
    <3> QED BY <1>1, <3>1 DEF IndexInv, UpAt
  <2> QED BY <1>3, <2>1, <2>2
<1>6. Follows(p, At(q, 1), At(q, 2))
  <2>1. Rooted(p)
    BY <1>1, <1>5 DEF BothRooted
  <2>2. \A k : k = 1 => k + 1 = 2
    OBVIOUS
  <2> QED BY <1>2, <2>1, <2>2 DEF DeliveryInv, LineAt
<1>7. CASE f.pk = m.pk
  <2>1. f.n = m.n + 1 /\ f.chain = ChainOf(m.ck)
    BY <1>4, <1>6, <1>7, SentFacts DEF Follows
  <2> QED BY <1>2, <1>5, <1>7, <2>1, ChainOfFacts
<1>8. CASE f.pk # m.pk
  <2>1. f.n = 0 /\ f.chain = OfRoot(st[p].root)
    BY <1>4, <1>6, <1>8, SentFacts DEF Follows
  <2>2. f.pk \in {net[q][2].pk, st[p].pub}
        /\ (f.pk # st[p].pub => 2 \in 1..Len(net[q]) /\ f.pk = net[q][2].pk)
    BY <1>1, <1>3, <1>4, SentFacts, TipFacts
  <2>3. ~AheadOf(q, p)
    BY <1>2, <1>8, <2>2 DEF AheadOf
  <2>4. AheadOf(p, q)
    BY <1>1, <1>5, <2>3 DEF BothRooted, LadderInv
  <2>5. m.pk \in {Waiting(q), st[p].pub}
    BY <1>2, <2>4 DEF AheadOf
  <2>6. m.pk = st[p].pub => f.pk = st[p].pub
    BY <1>2, <2>2, <2>4 DEF AheadOf
  <2>7. m.pk = Waiting(q)
    BY <1>8, <2>5, <2>6
  <2> QED BY <1>2, <1>5, <1>8, <2>1, <2>7
<1> QED BY <1>2, <1>7, <1>8

LEMMA DeliveryDrop ==
  ASSUME TypeOK, LadderInv, IndexInv, DeliveryInv, NEW q \in Peer, DropExcess(q)
  PROVE  DeliveryInv'
<1> DEFINE p == Other(q)
           m == Head(net[q])
<1>1. /\ link = "up" /\ net[q] # <<>> /\ drops' = drops + 1
      /\ net'[q] = Tail(net[q]) /\ \A x \in Peer : x # q => net'[x] = net[x]
      /\ UNCHANGED <<st, task, link, fate>>
  BY DropFacts
<1>2. p \in Peer /\ p # q /\ Other(p) = q /\ \A x \in Peer : x = p \/ x = q
  BY Typed
<1>3. drops \in Nat /\ drops' \in Nat /\ drops' >= drops
  <2>1. drops \in Nat
    BY Numbers
  <2> QED BY <1>1, <2>1
<1>4. \A x \in Peer : T(x)' = T(x) /\ st'[x] = st[x] /\ Tip(x)' = Tip(x)
  BY <1>1 DEF T, Tip
<1>5. \A x \in Peer : TaskAt(x)' /\ ViewSame(x)
  BY <1>3, <1>4, TaskKept DEF DeliveryInv
<1>6. LineAt(p)' /\ OrderedAt(p)' /\ NewerAt(p)' /\ FrontAt(p)'
  <2>1. LineStays(p)
    BY <1>1, <1>2, <1>4 DEF LineStays
  <2>2. LineAt(p)' /\ OrderedAt(p)'
    BY <1>2, <2>1, LineKept DEF DeliveryInv
  <2>3. NewerAt(p)'
    BY <1>2, <1>4, <2>1, NewerKept DEF DeliveryInv
  <2>4. FrontAt(p)'
    BY <1>1, <1>2, <1>3, <1>5, <2>1, FrontKept DEF DeliveryInv
  <2> QED BY <2>2, <2>3, <2>4
<1>7. LineAt(q)' /\ OrderedAt(q)' /\ NewerAt(q)'
  BY <1>1, <1>2, <1>4, LineShift
<1>8. FrontAt(q)'
  <2>1. At(q, 1)' = At(q, 2)
    <3>1. 1 \in Line(q)' /\ \A k \in Line(q)' : At(q, k)' = At(q, k + 1)
      <4>1. Len(net'[q]) \in Nat
        BY <1>1, <1>2, <1>4, LineLess
      <4> QED BY <1>1, <1>2, <1>4, <4>1, LineLess DEF Line
    <3> QED BY <3>1
  <2> SUFFICES ASSUME NEW f, f = At(q, 2), Proper(f.chain) PROVE FrontAt(q)'
    BY <2>1 DEF FrontAt
  <2>2. /\ f.pk = m.pk => f.n = m.n + 1 /\ f.chain = ChainOf(m.ck) /\ Proper(m.ck)
        /\ f.pk # m.pk => f.n = 0 /\ f.chain = OfRoot(st[p].root) /\ f.pk # Waiting(q)
    BY <1>1, SecondInLine
  <2>3. Near(0, 0)'
    <3>1. \A n \in Nat : 0 <= 0 /\ 0 <= 0 + n
      OBVIOUS
    <3>2. 0 <= 0 /\ 0 <= 0 + drops'
      BY <1>3, <3>1
    <3> QED BY <3>2 DEF Near
  <2>4. CASE f.pk # m.pk
    <3>1. Near(0, At(q, 1).n)'
      BY <2>1, <2>2, <2>3, <2>4
    <3> QED BY <1>4, <1>5, <2>1, <2>2, <2>4, <3>1 DEF FrontAt, ViewSame
  <2>5. CASE f.pk = m.pk
    <3>1. At(q, 1) = Sent(m) /\ m.n \in Nat
      <4>1. 1 \in 1..Len(net[q]) /\ m = net[q][1]
        BY <1>1, Typed, HeadTailFacts
      <4> QED BY <4>1, LineTypes DEF Message
    <3>2. /\ m.pk = Waiting(q) => f.chain = Coming(q) /\ Near(NextIdx(q), m.n)
                                  /\ (Pending(q) => Proper(T(q).m.ck))
          /\ m.pk # Waiting(q) => f.chain = OfRoot(st[p].root) /\ Near(0, m.n)
      <4>1. Proper(At(q, 1).chain)
        BY <2>2, <2>5, <3>1, SentFacts, ChainOfFacts
      <4> QED BY <1>1, <2>2, <2>5, <3>1, <4>1, SentFacts DEF DeliveryInv, FrontAt
    <3>3. \A x \in Nat : Near(x, m.n) => Near(x, f.n)'
      <4> TAKE x \in Nat
      <4>1. \A n, d, s \in Nat : x <= n => x <= n + 1 /\ (n <= x + d => n + 1 <= x + (d + 1))
        OBVIOUS
      <4>2. drops + 1 <= MaxSkip => drops <= MaxSkip
        BY <1>3, BoundsAssumption
      <4>3. f.n = m.n + 1
        BY <2>2, <2>5
      <4> QED BY <1>1, <1>3, <2>2, <2>5, <3>1, <4>1, <4>2, <4>3 DEF Near
    <3>4. NextIdx(q) \in Nat /\ 0 \in Nat
      BY Numbers
    <3>5. m.pk = Waiting(q) => Near(NextIdx(q), At(q, 1).n)'
      <4>1. m.pk = Waiting(q) => \A x : x = NextIdx(q) => Near(x, f.n)'
        BY <3>2, <3>3, <3>4
      <4>2. NextIdx(q)' = NextIdx(q)
        BY <1>5 DEF ViewSame
      <4> QED BY <2>1, <4>1, <4>2 DEF Near
    <3>6. m.pk # Waiting(q) => Near(0, At(q, 1).n)'
      BY <2>1, <3>2, <3>3, <3>4
    <3> QED BY <1>4, <1>5, <2>1, <2>5, <3>2, <3>5, <3>6 DEF FrontAt, ViewSame
  <2> QED BY <2>4, <2>5
<1>9. \A f \in fate' : FateAt(f)'
  <2>1. drops > MaxSkip => drops' > MaxSkip
    BY <1>3, BoundsAssumption
  <2> QED BY <1>1, <2>1 DEF DeliveryInv, FateAt
<1> QED BY <1>2, <1>5, <1>6, <1>7, <1>8, <1>9 DEF DeliveryInv

\* The receiver takes the first in line.
LEMMA DeliveryTaken ==
  ASSUME Handlers = 1, TypeOK, DeliveryInv, NEW p \in Peer, NEW i \in 1..Handlers, NEW t,
         Now(p, i, t), task[p][i] = Idle, t.at \notin Sending,
         t.at # "idle" => t.m = Head(net[p]),
         net[p] # <<>>, net'[p] = Tail(net[p]), \A x \in Peer : x # p => net'[x] = net[x],
         UNCHANGED <<link, drops>>,
         st'[p].root = st[p].root, st'[p].pub = st[p].pub, st'[p].send = st[p].send,
         st'[p].sendIdx = st[p].sendIdx, CountsSame(p), FrontAt(p)', TaskAt(p)',
         \A f \in fate' : f \in fate \/ FateAt(f)'
  PROVE  DeliveryInv'
<1> DEFINE q == Other(p)
<1>1. q \in Peer /\ q # p /\ Other(q) = p /\ \A x \in Peer : x = p \/ x = q
  BY Typed
<1>2. T(p) = Idle /\ T(p)' = t /\ T(q)' = T(q) /\ st'[q] = st[q]
  BY <1>1, OneNow
<1>3. Tip(p)' = Tip(p) /\ Tip(q)' = Tip(q)
  <2>1. T(p).at \notin Sending /\ T(p)'.at \notin Sending
    BY <1>2, IdleFacts DEF Sending
  <2>2. Tip(p)' = Tip(p)
    BY <2>1, TipStays DEF CountsSame
  <2>3. Tip(q)' = Tip(q)
    BY <1>2 DEF Tip
  <2> QED BY <2>2, <2>3
<1>4. LineAt(p)' /\ OrderedAt(p)' /\ NewerAt(p)'
  <2>1. Receiving(T(p)') => T(p)'.m = Head(net[p])
    BY <1>2 DEF Receiving
  <2> QED BY <1>1, <1>2, <1>3, <2>1, LineShift DEF CountsSame
<1>5. LineAt(q)' /\ OrderedAt(q)' /\ NewerAt(q)' /\ FrontAt(q)'
  BY <1>1, <1>3, DeliveryOther
<1> QED BY <1>1, <1>4, <1>5, DeliveryStep

\* Two ends on the ladder, and a message of one that makes the other's step.
LEMMA NewKeyFacts ==
  ASSUME TypeOK, LadderInv, NEW p \in Peer, BothRooted, net[p] # <<>>, ~Stepping(p),
         NEW m, m = Head(net[p]), m.pk # st[p].last
  PROVE  AdvanceRoot(st[p].root, {st[p].priv, m.pk}) = st[Other(p)].root
<1> DEFINE q == Other(p)
<1>1. q \in Peer /\ q # p /\ Other(q) = p
  BY Typed
<1>2. m = net[p][1] /\ 1 \in 1..Len(net[p])
  BY Typed, HeadTailFacts
<1>3. ~AheadOf(p, q)
  BY <1>2 DEF AheadOf
<1>4. AheadOf(q, p)
  BY <1>1, <1>3 DEF BothRooted, LadderInv
<1>5. m.pk = st[q].pub
  BY <1>2, <1>4 DEF AheadOf, Waiting
<1>6. st[p].priv = st[p].pub
  BY DEF BothRooted, LadderInv, RootAt
<1>7. {st[p].priv, m.pk} = {st[q].pub, st[p].pub}
  BY <1>5, <1>6
<1> QED BY <1>4, <1>7 DEF AheadOf

\* What an end knows of the message it takes.
LEMMA FirstInLine ==
  ASSUME TypeOK, LadderInv, IndexInv, DeliveryInv, NEW p \in Peer, link = "up",
         T(p) = Idle, net[p] # <<>>, NEW m, m = Head(net[p]), Proper(m.ck)
  PROVE  /\ BothRooted /\ m.v2 /\ m.n = m.ck.n /\ m.ctr > st[p].received
         /\ m.pk = st[p].last => ChainOf(m.ck) = ChainOf(st[p].recv) /\ Near(st[p].recvIdx, m.n)
         /\ m.pk # st[p].last => ChainOf(m.ck) = OfRoot(st[Other(p)].root) /\ Near(0, m.n)
<1>1. m = net[p][1] /\ 1 \in 1..Len(net[p])
  BY Typed, HeadTailFacts
<1>2. BothRooted /\ m.n = m.ck.n
  BY <1>1 DEF IndexInv, IndexedAt
<1>3. At(p, 1) = Sent(m) /\ 1 \in Line(p)
  BY <1>1, LineTypes
<1>4. Rooted(Other(p)) /\ Other(Other(p)) = p /\ Other(p) \in Peer
  BY <1>2, Typed DEF BothRooted
<1>5. m.v2
  BY <1>1, <1>4 DEF LadderInv, StepAt
<1>6. m.ctr > st[p].received
  <2>1. At(p, 1).ctr > st[p].received
    BY <1>3, <1>4 DEF DeliveryInv, NewerAt
  <2> QED BY <1>3, <2>1, SentFacts
<1>7. Waiting(p) = st[p].last /\ Coming(p) = ChainOf(st[p].recv) /\ NextIdx(p) = st[p].recvIdx
  BY IdleFacts DEF Waiting, Coming, NextIdx, Stepping, Pending
<1>8. Proper(At(p, 1).chain)
  BY <1>3, SentFacts, ChainOfFacts
<1>9. /\ m.pk = st[p].last => ChainOf(m.ck) = ChainOf(st[p].recv) /\ Near(st[p].recvIdx, m.n)
      /\ m.pk # st[p].last => ChainOf(m.ck) = OfRoot(st[Other(p)].root) /\ Near(0, m.n)
  BY <1>3, <1>7, <1>8, SentFacts DEF DeliveryInv, FrontAt
<1> QED BY <1>2, <1>5, <1>6, <1>9

\* The second in line is the first after it.
LEMMA FrontShift ==
  ASSUME TypeOK, NEW p \in Peer, net[p] # <<>>, net'[p] = Tail(net[p]),
         Tip(Other(p))' = Tip(Other(p))
  PROVE  At(p, 1)' = At(p, 2)
<1>1. \A k \in Line(p)' : At(p, k)' = At(p, k + 1)
  BY LineLess
<1>2. Len(net'[p]) \in Nat
  BY LineLess
<1>3. \A n \in Nat : 1 \in 1..(n + 1)
  OBVIOUS
<1>4. 1 \in Line(p)'
  BY <1>2, <1>3 DEF Line
<1>5. 1 + 1 = 2
  OBVIOUS
<1> QED BY <1>1, <1>4, <1>5

\* The message starts no step.
LEMMA DeliverySeek ==
  ASSUME Handlers = 1, TypeOK, LadderInv, IndexInv, DeliveryInv, NEW p \in Peer,
         NEW i \in 1..Handlers, task[p][i] = Idle, NEW m \in Message, m = Head(net[p]),
         Found(p, i, m) \/ Refused(p, i, m) \/ Chained(p, i, m),
         BothRooted => m.pk = st[p].last,
         net[p] # <<>>, net'[p] = Tail(net[p]), \A x \in Peer : x # p => net'[x] = net[x],
         link = "up", UNCHANGED <<link, drops>>
  PROVE  DeliveryInv'
<1> DEFINE q == Other(p)
           idx == st[p].recvIdx
           f == At(p, 2)
<1>1. \E t \in Task : /\ Now(p, i, t) /\ t.at \in {"idle", "open", "skip", "take"}
                      /\ t.at # "idle" => t.m = m
                      /\ Chained(p, i, m) => /\ t.at = IF idx < m.n THEN "skip" ELSE "take"
                                             /\ m.n \in idx..(idx + MaxSkip)
                      /\ ~Chained(p, i, m) => t.at \in {"idle", "open"}
                      /\ Refused(p, i, m) => t.at = "idle"
  <2>1. CASE Chained(p, i, m)
    <3>1. PICK t \in Task : /\ Now(p, i, t) /\ t.at = (IF idx < m.n THEN "skip" ELSE "take")
                            /\ t.m = m /\ m.n \in idx..(idx + MaxSkip) /\ st' = st /\ fate' = fate
      BY <2>1 DEF Chained
    <3>2. t.at \in {"skip", "take"}
      BY <3>1
    <3>3. ~Refused(p, i, m)
      <4>1. ASSUME Refused(p, i, m) PROVE FALSE
        <5>1. Idle = t
          BY <3>1, <4>1, OneNow DEF Refused
        <5> QED BY <3>2, <5>1, IdleFacts
      <4> QED BY <4>1
    <3> QED BY <2>1, <3>1, <3>2, <3>3
  <2>2. CASE Refused(p, i, m) /\ ~Chained(p, i, m)
    BY <2>2, IdleFacts DEF Refused
  <2>3. CASE Found(p, i, m) /\ ~Chained(p, i, m) /\ ~Refused(p, i, m)
    <3>1. PICK t \in Task : Now(p, i, t) /\ t.at = "open" /\ t.m = m
      BY <2>3 DEF Found
    <3> QED BY <2>3, <3>1
  <2> QED BY <2>1, <2>2, <2>3
<1>2. PICK t \in Task :
         /\ Now(p, i, t) /\ t.at \in {"idle", "open", "skip", "take"}
         /\ t.at # "idle" => t.m = m
         /\ Chained(p, i, m) => /\ t.at = IF idx < m.n THEN "skip" ELSE "take"
                                /\ m.n \in idx..(idx + MaxSkip)
         /\ ~Chained(p, i, m) => t.at \in {"idle", "open"}
         /\ Refused(p, i, m) => t.at = "idle"
  BY <1>1
<1>3. /\ st'[p].root = st[p].root /\ st'[p].send = st[p].send /\ st'[p].recv = st[p].recv
      /\ st'[p].sendIdx = st[p].sendIdx /\ st'[p].recvIdx = st[p].recvIdx
      /\ st'[p].pub = st[p].pub /\ st'[p].priv = st[p].priv /\ st'[p].last = st[p].last
      /\ CountsSame(p)
  BY DEF Found, Refused, Chained, CountsSame
<1>4. T(p) = Idle /\ T(p)' = t /\ q \in Peer /\ q # p /\ T(q)' = T(q) /\ st'[q] = st[q]
  BY <1>2, OneNow, Typed
<1>5. /\ ~Stepping(p) /\ ~Stepping(p)' /\ t.at \notin Sending /\ t.at # "bare"
      /\ Pending(p)' => Chained(p, i, m) /\ t.m = m
  BY <1>2, <1>4, IdleFacts DEF Stepping, Sending, Pending
<1>6. /\ Waiting(p) = st[p].last /\ Waiting(p)' = st[p].last
      /\ Coming(p)' = ChainOf(st[p].recv) /\ Base(p)' = idx
      /\ NextIdx(p)' = IF Pending(p)' THEN m.n + 1 ELSE idx
  BY <1>3, <1>4, <1>5 DEF Waiting, Coming, Base, NextIdx
<1>7. Tip(q)' = Tip(q)
  BY <1>4 DEF Tip
<1>8. f = At(p, 1)'
  BY <1>7, FrontShift
<1>9. idx \in Nat /\ m.n \in Nat /\ MaxSkip \in Nat /\ drops \in Nat
  BY Numbers DEF Message
<1>10. Proper(m.ck) => /\ m.n = m.ck.n /\ m.ctr > st[p].received
                       /\ ChainOf(m.ck) = ChainOf(st[p].recv) /\ Near(idx, m.n)
  BY <1>4, FirstInLine
<1>11. Proper(m.ck) => /\ ~Found(p, i, m) /\ idx <= m.n + 1
                       /\ ~Chained(p, i, m) =>
                            /\ drops > MaxSkip
                            /\ fate' = fate \cup {[to |-> p, m |-> m, why |-> "skip"]}
  BY <1>10, NearFacts
<1>12. FrontAt(p)'
  <2> SUFFICES ASSUME Proper(f.chain) PROVE FrontAt(p)'
    BY <1>8 DEF FrontAt
  <2>1. /\ BothRooted
        /\ f.pk = m.pk => f.n = m.n + 1 /\ f.chain = ChainOf(m.ck) /\ Proper(m.ck)
        /\ f.pk # m.pk => f.n = 0 /\ f.chain = OfRoot(st[q].root)
    BY SecondInLine
  <2>2. m.pk = st[p].last
    BY <2>1
  <2>3. CASE f.pk # m.pk
    <3>1. Near(0, At(p, 1).n)'
      <4>1. \A n \in Nat : 0 <= 0 /\ 0 <= 0 + n
        OBVIOUS
      <4>2. At(p, 1)'.n = 0 /\ 0 <= 0 /\ 0 <= 0 + drops'
        BY <1>8, <1>9, <2>1, <2>3, <4>1
      <4> QED BY <4>2 DEF Near
    <3> QED BY <1>4, <1>6, <1>8, <2>1, <2>2, <2>3, <3>1 DEF FrontAt
  <2>4. CASE f.pk = m.pk
    <3>1. f.chain = ChainOf(st[p].recv) /\ f.n = m.n + 1 /\ Proper(m.ck)
      BY <1>10, <2>1, <2>4
    <3>2. Near(NextIdx(p), At(p, 1).n)'
      <4>1. CASE Pending(p)'
        <5>1. NextIdx(p)' = m.n + 1 /\ At(p, 1)'.n = m.n + 1
          BY <1>6, <1>8, <3>1, <4>1
        <5>2. \A n, d \in Nat : n + 1 <= n + 1 /\ n + 1 <= n + 1 + d
          OBVIOUS
        <5> QED BY <1>9, <5>1, <5>2 DEF Near
      <4>2. CASE ~Pending(p)'
        <5>1. ~Chained(p, i, m)
          <6>1. t.at \in {"skip", "take"} => Pending(p)'
            BY <1>4 DEF Pending
          <6> QED BY <1>2, <4>2, <6>1
        <5>2. drops > MaxSkip /\ idx <= m.n + 1
          BY <1>11, <3>1, <5>1
        <5>3. ~(drops <= MaxSkip)
          BY <1>9, <5>2
        <5>4. NextIdx(p)' = idx /\ At(p, 1)'.n = m.n + 1
          BY <1>6, <1>8, <3>1, <4>2
        <5> QED BY <5>2, <5>3, <5>4 DEF Near
      <4> QED BY <4>1, <4>2
    <3>3. Pending(p)' => Proper(T(p)'.m.ck)
      BY <1>4, <1>5, <3>1
    <3> QED BY <1>6, <1>8, <2>2, <2>4, <3>1, <3>2, <3>3 DEF FrontAt
  <2> QED BY <2>3, <2>4
<1>13. TaskAt(p)'
  <2>1. /\ t.at = "skip" => idx < m.n /\ Chained(p, i, m)
        /\ t.at = "take" => idx = m.n /\ Chained(p, i, m)
        /\ t.at = "open" => Found(p, i, m)
    <3>1. t.at = "skip" => idx < m.n /\ Chained(p, i, m)
      BY <1>2
    <3>2. t.at = "take" => idx = m.n /\ Chained(p, i, m)
      BY <1>2, <1>9
    <3>3. t.at = "open" => Found(p, i, m)
      BY <1>2
    <3> QED BY <3>1, <3>2, <3>3
  <2>2. ASSUME Receiving(t), Proper(m.ck) PROVE InHand(p)'
    <3>1. t.m = m /\ t.at # "open" /\ t.at # "bare"
      BY <1>2, <1>5, <1>11, <2>1, <2>2 DEF Receiving
    <3>2. Near(Base(p), T(p).m.n)'
      BY <1>4, <1>6, <1>10, <2>2, <3>1 DEF Near
    <3> QED BY <1>3, <1>4, <1>6, <1>10, <2>2, <3>1, <3>2 DEF InHand, CountsSame
  <2>3. Receiving(t) => t.m = m
    BY <1>2 DEF Receiving
  <2> QED BY <1>2, <1>3, <1>4, <2>1, <2>2, <2>3 DEF TaskAt
<1>14. ASSUME NEW g \in fate', g \notin fate PROVE FateAt(g)'
  <2>1. g.m = m /\ ~Chained(p, i, m)
    BY <1>14 DEF Found, Refused, Chained
  <2>2. Proper(m.ck) => g.why = "skip" /\ drops > MaxSkip
    BY <1>11, <1>14, <2>1
  <2> QED BY <2>1, <2>2 DEF FateAt
<1> QED BY <1>2, <1>3, <1>5, <1>12, <1>13, <1>14, DeliveryTaken

LEMMA DeliveryMessage ==
  ASSUME Handlers = 1, TypeOK, LadderInv, IndexInv, DeliveryInv, NEW p \in Peer,
         NEW i \in 1..Handlers, OnMessage(p, i)
  PROVE  DeliveryInv'
<1> DEFINE q == Other(p)
           f == At(p, 2)
<1>1. link = "up" /\ task[p][i] = Idle /\ UNCHANGED <<link, drops>>
  BY MessageFacts
<1>2. PICK m \in Message :
         /\ net[p] # <<>> /\ m = Head(net[p]) /\ net'[p] = Tail(net[p])
         /\ \A x \in Peer : x # p => net'[x] = net[x]
         /\ \/ /\ m.v2 /\ st[p].root # NoRoot /\ m.pk # st[p].last
               /\ st' = st /\ fate' = fate
               /\ \E t \in Task : Now(p, i, t) /\ t.at = "root" /\ t.m = m
            \/ /\ st[p].root = NoRoot \/ st[p].priv = NoKey \/ m.pk = st[p].last
               /\ Found(p, i, m) \/ Refused(p, i, m) \/ Chained(p, i, m)
            \/ /\ ~m.v2 /\ st' = st /\ fate' = fate
               /\ \E t \in Task : Now(p, i, t) /\ t.at = "bare" /\ t.m = m
  BY MessageFacts
<1>3. q \in Peer /\ q # p /\ Other(q) = p /\ T(p) = Idle
  BY <1>1, Typed DEF T
<1>4. m.v2 <=> Rooted(q)
  <2>1. m = net[p][1] /\ 1 \in 1..Len(net[p])
    BY <1>2, Typed, HeadTailFacts
  <2> QED BY <1>3, <2>1 DEF LadderInv, StepAt
<1>5. CASE /\ st[p].root = NoRoot \/ st[p].priv = NoKey \/ m.pk = st[p].last
           /\ Found(p, i, m) \/ Refused(p, i, m) \/ Chained(p, i, m)
  <2>1. BothRooted => st[p].root # NoRoot /\ st[p].priv # NoKey
    <3>1. Rooted(p) => st[p].priv = KeyPair(p, made[p])
      BY DEF LadderInv, RootAt
    <3>2. KeyPair(p, made[p]) # NoKey
      BY DEF KeyPair, NoKey
    <3> QED BY <3>1, <3>2 DEF BothRooted, Rooted
  <2> QED BY <1>1, <1>2, <1>5, <2>1, DeliverySeek
<1>6. ASSUME NEW t \in Task, Now(p, i, t), t.at \in {"root", "bare"}, t.m = m,
             st' = st, fate' = fate, FrontAt(p)', TaskAt(p)'
      PROVE  DeliveryInv'
  <2>1. t.at \notin Sending
    BY <1>6 DEF Sending
  <2> QED BY <1>1, <1>2, <1>6, <2>1, DeliveryTaken DEF CountsSame
<1>7. ASSUME NEW t \in Task, Now(p, i, t), st' = st
      PROVE  T(p)' = t /\ f = At(p, 1)'
  <2>1. T(p)' = t /\ T(q)' = T(q)
    BY <1>3, <1>7, OneNow
  <2>2. Tip(q)' = Tip(q)
    BY <1>7, <2>1 DEF Tip
  <2> QED BY <1>2, <2>1, <2>2, FrontShift
<1>8. CASE /\ ~m.v2 /\ st' = st /\ fate' = fate
           /\ \E t \in Task : Now(p, i, t) /\ t.at = "bare" /\ t.m = m
  <2>1. PICK t \in Task : Now(p, i, t) /\ t.at = "bare" /\ t.m = m
    BY <1>8
  <2>2. ~BothRooted
    BY <1>3, <1>4, <1>8 DEF BothRooted
  <2>3. T(p)' = t /\ f = At(p, 1)'
    BY <1>7, <1>8, <2>1
  <2>4. ~Proper(m.ck)
    BY <1>1, <1>2, <1>3, <2>2, FirstInLine
  <2>5. ~Proper(f.chain)
    BY <1>1, <1>2, <2>2, SecondInLine
  <2>6. FrontAt(p)'
    BY <2>3, <2>5 DEF FrontAt
  <2>7. TaskAt(p)'
    BY <2>1, <2>3, <2>4 DEF TaskAt
  <2> QED BY <1>6, <1>8, <2>1, <2>6, <2>7
<1>9. CASE /\ m.v2 /\ st[p].root # NoRoot /\ m.pk # st[p].last
           /\ st' = st /\ fate' = fate
           /\ \E t \in Task : Now(p, i, t) /\ t.at = "root" /\ t.m = m
  <2>1. PICK t \in Task : Now(p, i, t) /\ t.at = "root" /\ t.m = m
    BY <1>9
  <2>2. T(p)' = t /\ f = At(p, 1)' /\ Stepping(p)' /\ Pending(p)' /\ ~Stepping(p)
    BY <1>3, <1>7, <1>9, <2>1, IdleFacts DEF Stepping, Pending
  <2>3. BothRooted
    <3>1. Rooted(p) /\ Rooted(q)
      BY <1>4, <1>9 DEF Rooted
    <3> QED BY <1>3, <3>1 DEF BothRooted
  <2>4. AdvanceRoot(st[p].root, {st[p].priv, m.pk}) = st[q].root
    BY <1>2, <1>9, <2>2, <2>3, NewKeyFacts
  <2>5. /\ Waiting(p)' = m.pk /\ Coming(p)' = OfRoot(st[q].root) /\ Base(p)' = 0
        /\ NextIdx(p)' = m.n + 1
    BY <1>9, <2>1, <2>2, <2>4 DEF Waiting, Coming, Base, NextIdx
  <2>6. Waiting(p) = st[p].last
    BY <2>2 DEF Waiting
  <2>7. m.n \in Nat /\ drops \in Nat
    BY Numbers DEF Message
  <2>8. FrontAt(p)'
    <3> SUFFICES ASSUME Proper(f.chain) PROVE FrontAt(p)'
      BY <2>2 DEF FrontAt
    <3>1. f.pk = m.pk /\ f.n = m.n + 1 /\ f.chain = ChainOf(m.ck) /\ Proper(m.ck)
      BY <1>1, <1>2, <1>9, <2>6, SecondInLine
    <3>2. ChainOf(m.ck) = OfRoot(st[q].root)
      BY <1>1, <1>2, <1>3, <1>9, <3>1, FirstInLine
    <3>3. Near(NextIdx(p), At(p, 1).n)'
      <4>1. NextIdx(p)' = m.n + 1 /\ At(p, 1)'.n = m.n + 1
        BY <2>2, <2>5, <3>1
      <4>2. \A n, d \in Nat : n + 1 <= n + 1 /\ n + 1 <= n + 1 + d
        OBVIOUS
      <4> QED BY <1>1, <2>7, <4>1, <4>2 DEF Near
    <3> QED BY <2>1, <2>2, <2>5, <3>1, <3>2, <3>3 DEF FrontAt
  <2>9. TaskAt(p)'
    <3>1. ASSUME Proper(m.ck) PROVE InHand(p)'
      <4>1. /\ m.n = m.ck.n /\ m.ctr > st[p].received
            /\ ChainOf(m.ck) = OfRoot(st[q].root) /\ Near(0, m.n)
        BY <1>1, <1>2, <1>3, <1>9, <3>1, FirstInLine
      <4>2. Near(Base(p), T(p).m.n)'
        BY <1>1, <2>1, <2>2, <2>5, <4>1 DEF Near
      <4> QED BY <1>9, <2>1, <2>2, <2>5, <4>1, <4>2 DEF InHand
    <3> QED BY <2>1, <2>2, <3>1 DEF TaskAt
  <2> QED BY <1>6, <1>9, <2>1, <2>8, <2>9
<1> QED BY <1>2, <1>5, <1>8, <1>9

\* The channel goes with what it held.
LEMMA DeliveryDown ==
  ASSUME TypeOK, TypeOK', DeliveryInv, Disconnect PROVE DeliveryInv'
<1>1. /\ link' = "down" /\ \A q \in Peer : net'[q] = <<>>
      /\ UNCHANGED <<st, task, drops, fate>>
  BY DownFacts
<1>2. \A q \in Peer : T(q)' = T(q) /\ st'[q] = st[q] /\ Tip(q)' = Tip(q)
  BY <1>1 DEF T, Tip
<1>3. ASSUME NEW q \in Peer
      PROVE  LineAt(q)' /\ OrderedAt(q)' /\ NewerAt(q)' /\ FrontAt(q)' /\ TaskAt(q)'
  <2>1. Other(q) \in Peer /\ drops \in Nat /\ st[q].received \in Nat /\ Tip(Other(q)).ctr \in Nat
    BY Typed, Numbers, LineTypes
  <2>2. /\ Tip(Other(q))'.ctr >= Tip(Other(q)).ctr /\ st'[q].received <= st[q].received
        /\ Rooted(Other(q))' => Rooted(Other(q))
    BY <1>2, <2>1 DEF Rooted
  <2>3. LineAt(q)' /\ OrderedAt(q)' /\ NewerAt(q)' /\ FrontAt(q)'
    BY <1>1, <1>2, <2>1, <2>2, DeliveryNone
  <2>4. TaskAt(q)'
    BY <1>1, <1>2, <2>1, TaskKept DEF DeliveryInv
  <2> QED BY <2>3, <2>4
<1>4. \A f \in fate' : FateAt(f)'
  BY <1>1 DEF DeliveryInv, FateAt
<1> QED BY <1>3, <1>4 DEF DeliveryInv

\* A page that reloads sends nothing that can be read on, and remembers no more than it did.
LEMMA DeliveryReload ==
  ASSUME Handlers = 1, TypeOK, TypeOK', DeliveryInv, NEW p \in Peer, Reload(p)
  PROVE  DeliveryInv'
<1> DEFINE q == Other(p)
<1>1. /\ link' = "down" /\ \A x \in Peer : net'[x] = <<>>
      /\ T(p)' = Idle /\ st'[p].root = NoRoot /\ st'[p].received \in 0..st[p].received
      /\ \A x \in Peer : x # p => st'[x] = st[x] /\ T(x)' = T(x)
      /\ UNCHANGED <<drops, fate>>
  BY ReloadFacts DEF T
<1>2. q \in Peer /\ q # p /\ Other(q) = p /\ \A x \in Peer : x = p \/ x = q
  BY Typed
<1>3. T(q)' = T(q) /\ st'[q] = st[q] /\ Tip(q)' = Tip(q)
  BY <1>1, <1>2 DEF Tip
<1>4. LineAt(p)' /\ OrderedAt(p)' /\ NewerAt(p)' /\ FrontAt(p)'
  <2>1. st[p].received \in Nat /\ Tip(q).ctr \in Nat
    BY Numbers, LineTypes
  <2>2. /\ Tip(q)'.ctr >= Tip(q).ctr /\ st'[p].received <= st[p].received
        /\ Rooted(q)' => Rooted(q)
    BY <1>1, <1>3, <2>1 DEF Rooted
  <2>3. ~Receiving(T(p)')
    BY <1>1, IdleFacts DEF Receiving
  <2> QED BY <1>1, <1>2, <2>2, <2>3, DeliveryNone
<1>5. LineAt(q)' /\ OrderedAt(q)' /\ NewerAt(q)' /\ FrontAt(q)'
  <2>1. ~Rooted(p)' /\ st[q].received \in Nat
    BY <1>1, <1>2, Numbers DEF Rooted
  <2>2. st'[q].received <= st[q].received
    BY <1>3, <2>1
  <2> QED BY <1>1, <1>2, <1>3, <2>1, <2>2, DeliveryNone
<1>6. TaskAt(p)'
  BY <1>1, IdleFacts DEF TaskAt, Receiving
<1>7. TaskAt(q)'
  <2>1. drops \in Nat
    BY Numbers
  <2> QED BY <1>1, <1>2, <1>3, <2>1, TaskKept DEF DeliveryInv
<1>8. \A f \in fate' : FateAt(f)'
  BY <1>1 DEF DeliveryInv, FateAt
<1> QED BY <1>2, <1>4, <1>5, <1>6, <1>7, <1>8 DEF DeliveryInv

\* Chains of a reconnection are no proper ones.
LEMMA DeliveryRekeyed ==
  ASSUME Handlers = 1, TypeOK, TypeOK', DeliveryInv, NEW p \in Peer, NEW k, RekeyedAt(p, k),
         T(p) = Idle, UNCHANGED <<task, net, drops, fate>>, link # "up",
         link' = "up" => ~Proper(st[Other(p)].send)
  PROVE  DeliveryInv'
<1> DEFINE q == Other(p)
<1>1. q \in Peer /\ q # p /\ Other(q) = p /\ \A x \in Peer : x = p \/ x = q
  BY Typed
<1>2. /\ \A x \in Peer : T(x)' = T(x)
      /\ st'[q] = st[q] /\ Tip(q)' = Tip(q)
  BY <1>1 DEF T, Tip, RekeyedAt
<1>3. \A x \in Peer : net'[x] = <<>>
  BY DEF TypeOK
<1>4. /\ Tip(p)'.ctr = Tip(p).ctr /\ ~Proper(Tip(p)'.chain)
      /\ Rooted(p)' <=> Rooted(p)
      /\ st'[p].received = st[p].received
  <2>1. Tip(p)'.ctr = Tip(p).ctr
    BY <1>2 DEF Tip, RekeyedAt, CountsSame
  <2>2. Tip(p)'.chain = ChainOf(st'[p].send)
    BY DEF Tip
  <2>3. ~Proper(ChainOf(st'[p].send))
    BY ChainOfFacts DEF RekeyedAt
  <2> QED BY <2>1, <2>2, <2>3 DEF RekeyedAt, Rooted, CountsSame
<1>5. /\ st[p].received \in Nat /\ st[q].received \in Nat /\ drops \in Nat
      /\ Tip(p).ctr \in Nat /\ Tip(q).ctr \in Nat
  BY <1>1, Numbers, LineTypes
<1>6. LineAt(p)' /\ OrderedAt(p)' /\ NewerAt(p)' /\ FrontAt(p)'
  <2>1. /\ Tip(q)'.ctr >= Tip(q).ctr /\ st'[p].received <= st[p].received
        /\ Rooted(q)' => Rooted(q)
    BY <1>2, <1>4, <1>5 DEF Rooted
  <2>2. link' = "up" => ~Proper(Tip(q)'.chain)
    BY <1>1, <1>2, TipFacts, ChainOfFacts
  <2> QED BY <1>1, <1>2, <1>3, <2>1, <2>2, DeliveryNone
<1>7. LineAt(q)' /\ OrderedAt(q)' /\ NewerAt(q)' /\ FrontAt(q)'
  <2>1. Tip(p)'.ctr >= Tip(p).ctr /\ st'[q].received <= st[q].received
    BY <1>2, <1>4, <1>5
  <2> QED BY <1>1, <1>2, <1>3, <1>4, <2>1, DeliveryNone
<1>8. TaskAt(p)'
  <2>1. T(p)' = Idle
    BY <1>2
  <2> QED BY <2>1, IdleFacts DEF TaskAt, Receiving
<1>9. TaskAt(q)'
  BY <1>1, <1>2, <1>5, TaskKept DEF DeliveryInv
<1>10. \A f \in fate' : FateAt(f)'
  BY DEF DeliveryInv, FateAt
<1> QED BY <1>1, <1>6, <1>7, <1>8, <1>9, <1>10 DEF DeliveryInv

LEMMA DeliveryLinks ==
  ASSUME Handlers = 1, TypeOK, TypeOK', IndexInv, DeliveryInv,
         ReconnectAsGuest \/ FinalizeReconnect
  PROVE  DeliveryInv'
<1>1. CASE ReconnectAsGuest
  <2>1. /\ link = "down" /\ link' = "answered" /\ RekeyedAt(Guest, links + 1)
        /\ T(Guest) = Idle /\ Guest \in Peer /\ UNCHANGED <<task, net, drops, fate>>
    BY <1>1, AnswerFacts DEF T
  <2> QED BY <2>1, DeliveryRekeyed
<1>2. CASE FinalizeReconnect
  <2>1. /\ link = "answered" /\ link' = "up" /\ RekeyedAt(Host, links)
        /\ T(Host) = Idle /\ Host \in Peer /\ Other(Host) = Guest
        /\ UNCHANGED <<task, net, drops, fate>>
    BY <1>2, FinalizeFacts DEF T
  <2>2. ~Proper(st[Guest].send)
    BY <2>1 DEF IndexInv, AnsweredOK
  <2> QED BY <2>1, <2>2, DeliveryRekeyed
<1> QED BY <1>1, <1>2

LEMMA DeliveryStutter ==
  ASSUME TypeOK, DeliveryInv, UNCHANGED vars PROVE DeliveryInv'
<1>1. ASSUME NEW q \in Peer
      PROVE  LineAt(q)' /\ OrderedAt(q)' /\ NewerAt(q)' /\ FrontAt(q)' /\ TaskAt(q)'
  <2>1. /\ Other(q) \in Peer /\ T(q)' = T(q) /\ st'[q] = st[q] /\ drops' = drops /\ drops \in Nat
        /\ LineStays(q) /\ link' = link /\ drops' >= drops
    BY Typed, Numbers DEF vars, T, LineStays, Tip
  <2>2. TaskAt(q)' /\ ViewSame(q)
    BY <2>1, TaskKept DEF DeliveryInv
  <2>3. LineAt(q)' /\ OrderedAt(q)' /\ NewerAt(q)' /\ FrontAt(q)'
    BY <2>1, <2>2, LineKept, NewerKept, FrontKept DEF DeliveryInv
  <2> QED BY <2>2, <2>3
<1>2. \A f \in fate' : FateAt(f)'
  BY DEF vars, DeliveryInv, FateAt
<1> QED BY <1>1, <1>2 DEF DeliveryInv

LEMMA DeliveryInit == ASSUME Handlers = 1 PROVE Init => DeliveryInv
<1> SUFFICES ASSUME Init PROVE DeliveryInv
  OBVIOUS
<1>1. /\ \A p \in Peer : st[p] = InitSession[p] /\ T(p) = Idle /\ net[p] = <<>>
      /\ drops = 0 /\ fate = {}
  BY DEF Init, T
<1>2. \A p \in Peer : Len(net[p]) = 0 /\ Line(p) = {1} /\ At(p, 1) = Tip(Other(p)) /\ 1..0 = {}
  <2>1. Len(<<>>) = 0 /\ ~(1 <= 0) /\ 1..(0 + 1) = {1} /\ 1..0 = {}
    BY EmptySeq
  <2> QED BY <1>1, <2>1 DEF Line, At
<1>3. \A p \in Peer : /\ T(p).at = "idle" /\ ~Stepping(p) /\ ~Pending(p) /\ ~Receiving(T(p))
                      /\ T(p).at \notin Sending
  BY <1>1, IdleFacts DEF Stepping, Pending, Receiving, Sending
<1>4. ASSUME NEW p \in Peer
      PROVE  /\ Tip(p).ctr = 1 /\ Tip(p).n = 0 /\ Tip(p).pk = InitSession[p].pub
             /\ Tip(p).chain = ChainOf(InitSession[p].send)
             /\ st[p].received = 0 /\ NextIdx(p) = 0
             /\ Coming(p) = ChainOf(InitSession[p].recv) /\ Waiting(p) = InitSession[p].last
  <2>1. /\ st[p].counter = 0 /\ st[p].received = 0 /\ st[p].sendIdx = 0 /\ st[p].recvIdx = 0
    BY <1>1 DEF InitSession
  <2> QED BY <1>1, <1>3, <2>1 DEF Tip, NextIdx, Coming, Waiting
<1>5. \A p \in Peer : LineAt(p) /\ OrderedAt(p) /\ NewerAt(p) /\ TaskAt(p)
  <2>1. \A j, k \in {1} : ~(j < k)
    OBVIOUS
  <2>2. ASSUME NEW p \in Peer PROVE NewerAt(p)
    <3>1. Other(p) \in Peer
      OBVIOUS
    <3> QED BY <1>2, <1>3, <1>4, <3>1 DEF NewerAt
  <2>3. \A p \in Peer : LineAt(p) /\ OrderedAt(p)
    BY <1>2, <2>1 DEF LineAt, OrderedAt
  <2>4. \A p \in Peer : TaskAt(p)
    BY <1>3 DEF TaskAt
  <2> QED BY <2>2, <2>3, <2>4
<1>6. Near(0, 0)
  BY <1>1, BoundsAssumption DEF Near
<1>7. FrontAt(Guest)
  <2>1. /\ At(Guest, 1) = Tip(Host) /\ Tip(Host).pk = KeyPair(Host, 1) /\ Tip(Host).n = 0
        /\ Waiting(Guest) = KeyPair(Host, 1) /\ NextIdx(Guest) = 0 /\ ~Pending(Guest)
    BY <1>2, <1>3, <1>4 DEF InitSession
  <2>2. Tip(Host).chain = Coming(Guest)
    BY <1>4 DEF InitSession
  <2> QED BY <1>6, <2>1, <2>2 DEF FrontAt
<1>8. FrontAt(Host)
  <2>1. /\ At(Host, 1) = Tip(Guest) /\ Tip(Guest).pk = KeyPair(Guest, 2) /\ Tip(Guest).n = 0
        /\ Waiting(Host) = KeyPair(Guest, 1) /\ KeyPair(Guest, 2) # KeyPair(Guest, 1)
    BY <1>2, <1>4 DEF InitSession, KeyPair
  <2>2. Tip(Guest).chain = OfRoot(st[Guest].root) /\ Other(Host) = Guest
    <3>1. st[Guest].root = GuestRoot /\ InitSession[Guest].send = Chain(GuestRoot, Stepped)
      BY <1>1 DEF InitSession
    <3>2. Tip(Guest).chain = ChainOf(Chain(GuestRoot, Stepped))
      BY <1>4, <3>1
    <3> QED BY <3>1, <3>2, ChainOfFacts
  <2> QED BY <1>6, <2>1, <2>2 DEF FrontAt
<1>9. \A f \in fate : FateAt(f)
  BY <1>1
<1> QED BY <1>5, <1>7, <1>8, <1>9 DEF DeliveryInv

LEMMA DeliveryNext ==
  ASSUME Handlers = 1, TypeOK, TypeOK', LadderInv, KeysInv, ReadInv, IndexInv, IndexInv',
         DeliveryInv, [Next]_vars
  PROVE  DeliveryInv'
<1>1. ASSUME NEW p \in Peer, NEW i \in 1..Handlers, Step(p, i) PROVE DeliveryInv'
  BY <1>1, DeliverySend, DeliveryAdvance, DeliveryEncrypt, DeliveryMessage, DeliveryRead,
     DeliveryCommit, DeliverySought, DeliverySkip, DeliveryTake, DeliveryOpen DEF Step
<1> QED BY <1>1, DeliveryDrop, DeliveryReload, DeliveryDown, DeliveryLinks, DeliveryStutter
        DEF Next

\* What the two properties say of a message that was handled.
LEMMA FatesDelivered ==
  ASSUME FlowInv, IndexInv, DeliveryInv PROVE FirstLinkDelivers /\ HealedChainsDeliver
<1> SUFFICES ASSUME NEW f \in fate, f.why # "shown", f.m.over = 1 \/ Len(f.m.ck.dhs) > 1
             PROVE  f.why = "skip" /\ drops > MaxSkip
  BY DEF FirstLinkDelivers, HealedChainsDeliver
<1>1. Proper(f.m.ck)
  <2>1. CASE f.m.over = 1
    <3>1. [to |-> f.to, m |-> f.m] \in wire
      BY DEF FlowInv, FatesCame
    <3>2. \A w \in wire : w.m.over = 1 => Proper(w.m.ck)
      BY DEF IndexInv, FirstWire
    <3> QED BY <2>1, <3>1, <3>2
  <2>2. CASE Len(f.m.ck.dhs) > 1
    <3>1. Len(<<>>) = 0 /\ ~(0 > 1)
      BY EmptySeq
    <3> QED BY <2>2, <3>1 DEF Proper
  <2> QED BY <2>1, <2>2
<1> QED BY <1>1 DEF DeliveryInv, FateAt

\* With one handler at a time at each end, whatever bounds: what comes to an end is in line,
\* numbered upwards, each message the next of its chain or the first of the chain that its
\* key makes; the first in line, and the message that _ratchetDecrypt has in hand, are on
\* the chain the end reads on, or is about to, and no farther along it than messages were
\* dropped.  Chains of a reconnection are left out.
THEOREM LinesHold == ASSUME Handlers = 1 PROVE Spec => [](IndexInv /\ DeliveryInv)
<1>1. Init => KeysInv /\ ReadInv /\ IndexInv /\ DeliveryInv
  BY KeysInit, ReadInit, IndexInit, DeliveryInit
<1>2. TypeOK /\ TypeOK' /\ LadderInv /\ KeysInv /\ ReadInv /\ IndexInv /\ DeliveryInv
      /\ [Next]_vars => KeysInv' /\ ReadInv' /\ IndexInv' /\ DeliveryInv'
  BY KeysNext, ReadNext, IndexNext, DeliveryNext
<1> QED BY <1>1, <1>2, TypeCorrect, LadderHolds, PTL DEF Spec

\* So on the connection that finalizeSession and joinSession set up, before any reload or
\* reconnection, whatever onMessage takes is shown, however sends and DH steps of the two
\* ends interleave, unless the adapters have dropped more than MAX_SKIP messages.
THEOREM FirstLinkIsDelivered == ASSUME Handlers = 1 PROVE Spec => []FirstLinkDelivers
<1>1. FlowInv /\ IndexInv /\ DeliveryInv => FirstLinkDelivers
  BY FatesDelivered
<1> QED BY <1>1, FlowCorrect, LinesHold, PTL

\* And on any later one, a message on a chain that a _performDhRatchetStep made is shown,
\* although reconnections put indices and announced keys at odds with the chains: a step
\* of either end starts both from the one ladder of roots.
THEOREM HealedChainsAreDelivered == ASSUME Handlers = 1 PROVE Spec => []HealedChainsDeliver
<1>1. FlowInv /\ IndexInv /\ DeliveryInv => HealedChainsDeliver
  BY FatesDelivered
<1> QED BY <1>1, FlowCorrect, LinesHold, PTL
=============================================================================
