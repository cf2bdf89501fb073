--------------------------- MODULE RatchetProofs ---------------------------
(***************************************************************************)
(* Proofs about Ratchet, for any number of messages, links, drops and      *)
(* reloads.  For any number of handlers: its types, with the limit of the  *)
(* map of skipped keys, that it implements Conversation, and that messages *)
(* are shown in order.  For one handler at a time: the roots of the ends.  *)
(***************************************************************************)
EXTENDS Ratchet, TLAPS, SequenceTheorems, SequenceFacts

(* Keys and their types *)

\* Advancing a root by a DH output gives a root.
LEMMA AdvanceRootType ==
  ASSUME NEW r \in RootKey, NEW d \in SUBSET Key
  PROVE  AdvanceRoot(r, d) \in RootKey
BY DEF AdvanceRoot, RootKey, Dhs

\* A root gives a chain in each direction.
LEMMA ChainType ==
  ASSUME NEW r \in RootKey, NEW d \in Dir
  PROVE  Chain(r, d) \in ChainKey
BY DEF Chain, RootKey, ChainKey

\* Advancing a chain gives a chain key.
LEMMA NextChainType ==
  ASSUME NEW c \in ChainKey
  PROVE  NextChain(c) \in ChainKey
BY DEF NextChain, ChainKey

\* A KEM secret gives a chain in each direction.
LEMMA KemChainType ==
  ASSUME NEW k \in Nat, NEW d \in Dir
  PROVE  KemChain(k, d) \in ChainKey
<1>1. <<>> \in Dhs
  BY DEF Dhs
<1> QED BY <1>1 DEF KemChain, Chain, ChainKey

\* The constants of the model have their types.
LEMMA ConstantTypes ==
  /\ NoKey \in Key
  /\ \A p \in Peer, k \in Nat : KeyPair(p, k) \in Key
  /\ NoRoot \in RootKey
  /\ NoChain \in ChainKey
  /\ NoMsg \in Message
  /\ Idle \in Task
  /\ InitRoot \in RootKey /\ GuestRoot \in RootKey
<1>1. NoKey \in Key /\ \A p \in Peer, k \in Nat : KeyPair(p, k) \in Key
  BY DEF NoKey, Key, KeyPair, Peer
<1>2. NoRoot \in RootKey
  BY DEF NoRoot, RootKey, Dhs
<1>3. NoChain \in ChainKey
  BY <1>2, ChainType DEF NoChain, Dir
<1>4. NoMsg \in Message
  BY <1>1, <1>3 DEF NoMsg, Message
<1>5. Idle \in Task
  BY <1>2, <1>3, <1>4 DEF Idle, Task
<1>6. InitRoot \in RootKey
  <2>1. {KeyPair(Host, 1), KeyPair(Guest, 1)} \in SUBSET Key
    BY <1>1 DEF Peer
  <2>2. <<{KeyPair(Host, 1), KeyPair(Guest, 1)}>> \in Dhs
    BY <2>1 DEF Dhs
  <2> QED BY <2>2 DEF InitRoot, RootKey
<1>7. GuestRoot \in RootKey
  BY <1>1, <1>6, AdvanceRootType DEF GuestRoot, Peer
<1> QED BY <1>1, <1>2, <1>3, <1>4, <1>5, <1>6, <1>7

-----------------------------------------------------------------------------
(* The map of skipped keys *)

\* Taking an entry out leaves a shorter map.
LEMMA WithoutType ==
  ASSUME NEW sk \in Seq(SkippedKey), NEW k \in DOMAIN sk
  PROVE  Without(sk, k) \in Seq(SkippedKey) /\ Len(Without(sk, k)) <= Len(sk)
<1>1. k \in 1..Len(sk)
  BY LenProperties
<1>2. /\ SubSeq(sk, 1, k - 1) \in Seq(SkippedKey)
      /\ Len(SubSeq(sk, 1, k - 1)) = k - 1
  BY <1>1, SubSeqProperties, LenProperties
<1>3. /\ SubSeq(sk, k + 1, Len(sk)) \in Seq(SkippedKey)
      /\ Len(SubSeq(sk, k + 1, Len(sk))) = Len(sk) - k
  BY <1>1, SubSeqProperties, LenProperties
<1> QED BY <1>1, <1>2, <1>3, ConcatProperties, LenProperties DEF Without

\* Setting an entry makes the map longer by one entry at most.
LEMMA PutType ==
  ASSUME NEW sk \in Seq(SkippedKey), NEW e \in SkippedKey
  PROVE  Put(sk, e) \in Seq(SkippedKey) /\ Len(Put(sk, e)) <= Len(sk) + 1
<1>1. CASE \E k \in DOMAIN sk : KeyOf(sk[k], e)
  <2>1. Put(sk, e) = [k \in 1..Len(sk) |-> IF KeyOf(sk[k], e) THEN e ELSE sk[k]]
    BY <1>1, LenProperties DEF Put
  <2>2. \A k \in 1..Len(sk) : (IF KeyOf(sk[k], e) THEN e ELSE sk[k]) \in SkippedKey
    BY ElementOfSeq
  <2>3. Len(sk) \in Nat
    BY LenProperties
  <2> QED BY <2>1, <2>2, <2>3
<1>2. CASE ~\E k \in DOMAIN sk : KeyOf(sk[k], e)
  BY <1>2, AppendProperties DEF Put
<1> QED BY <1>1, <1>2

\* Storing a key keeps the map within its limit.
LEMMA StoreType ==
  ASSUME NEW sk \in Seq(SkippedKey), Len(sk) <= 2 * MaxSkip, NEW e \in SkippedKey
  PROVE  Store(sk, e) \in Seq(SkippedKey) /\ Len(Store(sk, e)) <= 2 * MaxSkip
<1> DEFINE put == Put(sk, e)
<1>1. put \in Seq(SkippedKey) /\ Len(put) <= Len(sk) + 1
  BY PutType
<1>2. MaxSkip \in Nat /\ Len(sk) \in Nat /\ Len(put) \in Nat
  BY <1>1, LenProperties, BoundsAssumption
<1> HIDE DEF put
<1>3. CASE Len(put) > 2 * MaxSkip
  <2>1. put # <<>>
    BY <1>2, <1>3
  <2>2. Tail(put) \in Seq(SkippedKey) /\ Len(Tail(put)) = Len(put) - 1
    BY <1>1, <2>1, HeadTailProperties
  <2> QED BY <1>1, <1>2, <1>3, <2>2 DEF Store, put
<1>4. CASE ~(Len(put) > 2 * MaxSkip)
  BY <1>1, <1>2, <1>4 DEF Store, put
<1> QED BY <1>3, <1>4

-----------------------------------------------------------------------------
(* Types *)

\* The conjuncts of TypeOK that actions of handlers disturb.
SessionsOK == st \in [Peer -> Session] /\ \A p \in Peer : Len(st[p].skipped) <= 2 * MaxSkip
TasksOK == task \in [Peer -> [1..Handlers -> Task]]
FatesOK == fate \in SUBSET Fate

\* The ones that only sends, receives, links and reloads do.
NetOK == net \in [Peer -> Seq(Message)] /\ (link # "up" => \A p \in Peer : net[p] = <<>>)
WireOK == wire \in SUBSET [to : Peer, m : Message]
RestOK ==
  /\ made \in [Peer -> Nat]
  /\ link \in {"up", "down", "answered"}
  /\ links \in 1..(MaxLinks + 1)
  /\ hasKem \in BOOLEAN
  /\ sends \in [Peer -> Nat]
  /\ drops \in 0..MaxDrops
  /\ reloads \in 0..MaxReloads

\* TypeOK is these parts together.
LEMMA Parts ==
  /\ TypeOK <=> SessionsOK /\ TasksOK /\ FatesOK /\ NetOK /\ WireOK /\ RestOK
  /\ TypeOK' <=> SessionsOK' /\ TasksOK' /\ FatesOK' /\ NetOK' /\ WireOK' /\ RestOK'
BY DEF TypeOK, SessionsOK, TasksOK, FatesOK, NetOK, WireOK, RestOK

\* What a handler of p works on is typed.
LEMMA PartsTyped ==
  ASSUME TypeOK, NEW p \in Peer
  PROVE  /\ st \in [Peer -> Session] /\ st[p] \in Session /\ TasksOK
         /\ st[p].counter \in Nat /\ st[p].received \in Nat
         /\ \A i \in 1..Handlers :
              /\ task[p][i] \in Task /\ task[p][i].m \in Message /\ task[p][i].root \in RootKey
              /\ task[p][i].m.ctr \in Nat /\ task[p][i].m.pk \in Key
<1>1. st \in [Peer -> Session] /\ TasksOK
  BY DEF TypeOK, TasksOK
<1>2. st[p] \in Session
  BY <1>1
<1>3. st[p].counter \in Nat /\ st[p].received \in Nat
  BY <1>2 DEF Session
<1>4. \A i \in 1..Handlers : task[p][i] \in Task
  BY <1>1 DEF TasksOK
<1>5. \A t \in Task : t.m \in Message /\ t.root \in RootKey
  BY DEF Task
<1>6. \A m \in Message : m.ctr \in Nat /\ m.pk \in Key
  BY DEF Message
<1> QED BY <1>1, <1>2, <1>3, <1>4, <1>5, <1>6

\* A handler that goes on keeps the types of the handlers.
LEMMA ContinueType ==
  ASSUME TasksOK, NEW p \in Peer, NEW i \in 1..Handlers, NEW t \in Task, Continue(p, i, t)
  PROVE  TasksOK'
BY DEF TasksOK, Continue

\* A handler that ends keeps the types of the handlers and adds a fate.
LEMMA EndsType ==
  ASSUME TasksOK, FatesOK, NEW p \in Peer, NEW i \in 1..Handlers, NEW m \in Message,
         NEW why \in {"shown", "stale", "unreadable", "missing", "skip"}, Ends(p, i, m, why)
  PROVE  TasksOK' /\ FatesOK'
<1>1. TasksOK'
  BY ConstantTypes, ContinueType DEF Ends
<1>2. [to |-> p, m |-> m, why |-> why] \in Fate
  BY DEF Fate
<1> QED BY <1>1, <1>2 DEF Ends, FatesOK

\* Looking for the key of a message keeps the types.
LEMMA SeekType ==
  ASSUME SessionsOK, TasksOK, FatesOK, NEW p \in Peer, NEW i \in 1..Handlers,
         NEW m \in Message, Seek(p, i, m)
  PROVE  SessionsOK' /\ TasksOK' /\ FatesOK'
<1> DEFINE s == st[p]
<1>1. s \in Session /\ s.skipped \in Seq(SkippedKey) /\ s.recv \in ChainKey
  BY DEF SessionsOK, Session
<1>2. CASE /\ \E k \in DOMAIN s.skipped :
                /\ KeyOf(s.skipped[k], m)
                /\ st' = [st EXCEPT ![p].skipped = Without(@, k)]
                /\ Continue(p, i, [Idle EXCEPT !.at = "open", !.m = m,
                                               !.ck = s.skipped[k].ck])
           /\ UNCHANGED fate
  <2>1. PICK k \in DOMAIN s.skipped :
          /\ st' = [st EXCEPT ![p].skipped = Without(@, k)]
          /\ Continue(p, i, [Idle EXCEPT !.at = "open", !.m = m, !.ck = s.skipped[k].ck])
    BY <1>2
  <2>2. /\ Without(s.skipped, k) \in Seq(SkippedKey)
        /\ Len(Without(s.skipped, k)) <= Len(s.skipped)
    BY <1>1, WithoutType
  <2>3. SessionsOK'
    <3>1. st'[p] = [s EXCEPT !.skipped = Without(s.skipped, k)]
      BY <2>1 DEF SessionsOK
    <3>2. st'[p] \in Session
      BY <1>1, <2>2, <3>1 DEF Session
    <3>3. Len(st'[p].skipped) <= 2 * MaxSkip
      <4>1. st'[p].skipped = Without(s.skipped, k)
        BY <1>1, <3>1 DEF Session
      <4>2. Len(s.skipped) <= 2 * MaxSkip
        BY DEF SessionsOK
      <4>3. Len(s.skipped) \in Nat /\ Len(Without(s.skipped, k)) \in Nat
        BY <1>1, <2>2, LenProperties
      <4> QED BY <2>2, <4>1, <4>2, <4>3, BoundsAssumption
    <3> QED BY <2>1, <3>2, <3>3 DEF SessionsOK
  <2>4. s.skipped[k] \in SkippedKey
    BY <1>1, ElementOfSeq, LenProperties
  <2>5. [Idle EXCEPT !.at = "open", !.m = m, !.ck = s.skipped[k].ck] \in Task
    BY <2>4, ConstantTypes DEF Task, SkippedKey
  <2> QED BY <1>2, <2>1, <2>3, <2>5, ContinueType DEF FatesOK
<1>3. CASE Ends(p, i, m, "missing") /\ UNCHANGED st
  BY <1>3, EndsType DEF SessionsOK
<1>4. CASE Ends(p, i, m, "skip") /\ UNCHANGED st
  BY <1>4, EndsType DEF SessionsOK
<1>5. CASE /\ Continue(p, i, [Idle EXCEPT !.at = IF s.recvIdx < m.n THEN "skip" ELSE "take",
                                          !.m = m, !.ck = s.recv])
           /\ UNCHANGED <<st, fate>>
  <2>1. [Idle EXCEPT !.at = IF s.recvIdx < m.n THEN "skip" ELSE "take",
                     !.m = m, !.ck = s.recv] \in Task
    BY <1>1, ConstantTypes DEF Task
  <2> QED BY <1>5, <2>1, ContinueType DEF SessionsOK, FatesOK
<1> QED BY <1>2, <1>3, <1>4, <1>5 DEF Seek

\* What changes nothing but the session and the handlers keeps the other types.
LEMMA LocalType ==
  ASSUME NetOK, WireOK, RestOK, Local
  PROVE  NetOK' /\ WireOK' /\ RestOK'
BY DEF NetOK, WireOK, RestOK, Local

\* A session of the right type with the same map of skipped keys can take the place
\* of another.
LEMMA SessionsType ==
  ASSUME SessionsOK, NEW p \in Peer, NEW s \in Session, s.skipped = st[p].skipped,
         st' = [st EXCEPT ![p] = s]
  PROVE  SessionsOK'
BY DEF SessionsOK

\* The steps of a send between its awaits keep the types.
LEMMA ChainAdvancedType ==
  ASSUME TypeOK, NEW p \in Peer, NEW i \in 1..Handlers, ChainAdvanced(p, i)
  PROVE  TypeOK'
<1> DEFINE t == task[p][i]
<1>1. t \in Task /\ st[p] \in Session
  BY Parts DEF TasksOK, SessionsOK
<1>2. SessionsOK'
  <2> DEFINE idx == IF t.m.v2 THEN st[p].sendIdx + 1 ELSE st[p].sendIdx
             next == NextChain(t.ck)
             new == [st[p] EXCEPT !.send = next, !.sendIdx = idx]
  <2>1. next \in ChainKey
    BY <1>1, NextChainType DEF Task
  <2>2. st[p].sendIdx \in Nat
    BY <1>1 DEF Session
  <2>3. idx \in Nat
    BY <2>2
  <2>4. st' = [st EXCEPT ![p] = new]
    BY Parts DEF ChainAdvanced, SessionsOK
  <2> HIDE DEF idx, next
  <2>5. new \in Session /\ new.skipped = st[p].skipped
    BY <1>1, <2>1, <2>3 DEF Session
  <2> QED BY <2>4, <2>5, Parts, SessionsType
<1>3. [t EXCEPT !.at = "encrypt", !.m.n = IF t.m.v2 THEN st[p].sendIdx ELSE 0,
                !.m.ck = t.ck] \in Task
  BY <1>1 DEF Task, Message, Session
<1>4. TasksOK'
  BY <1>3, Parts, ContinueType DEF ChainAdvanced
<1>5. FatesOK'
  BY Parts DEF ChainAdvanced, FatesOK
<1> QED BY <1>2, <1>4, <1>5, Parts, LocalType DEF ChainAdvanced

\* Reading the root for a DH step keeps the types.
LEMMA RootReadType ==
  ASSUME TypeOK, NEW p \in Peer, NEW i \in 1..Handlers, RootRead(p, i)
  PROVE  TypeOK'
<1> DEFINE t == task[p][i]
<1>1. t \in Task /\ st[p] \in Session
  BY Parts DEF TasksOK, SessionsOK
<1>2. AdvanceRoot(st[p].root, t.dh) \in RootKey
  BY <1>1, AdvanceRootType DEF Task, Session
<1>3. [t EXCEPT !.at = "commit", !.root = AdvanceRoot(st[p].root, t.dh)] \in Task
  BY <1>1, <1>2 DEF Task
<1>4. TasksOK'
  BY <1>3, Parts, ContinueType DEF RootRead
<1>5. SessionsOK' /\ FatesOK'
  BY Parts DEF RootRead, SessionsOK, FatesOK
<1> QED BY <1>4, <1>5, Parts, LocalType DEF RootRead

\* The commit of a DH step keeps the types.
LEMMA DhCommitType ==
  ASSUME TypeOK, NEW p \in Peer, NEW i \in 1..Handlers, DhCommit(p, i)
  PROVE  TypeOK'
<1> DEFINE t == task[p][i]
           own == KeyPair(p, made[p] + 1)
           root == AdvanceRoot(t.root, {own, t.m.pk})
           new == [st[p] EXCEPT !.root = root,
                                !.recv = Chain(t.root, Stepped), !.recvIdx = 0,
                                !.send = Chain(root, Stepped), !.sendIdx = 0,
                                !.pub = own, !.priv = own, !.last = t.m.pk,
                                !.skipped = <<>>]
<1>1. t \in Task /\ st[p] \in Session /\ t.m \in Message /\ t.m.pk \in Key /\ t.root \in RootKey
  BY PartsTyped
<1>2. own \in Key
  BY Parts, ConstantTypes DEF RestOK
<1>3. root \in RootKey
  BY <1>1, <1>2, AdvanceRootType
<1>4. Chain(t.root, Stepped) \in ChainKey /\ Chain(root, Stepped) \in ChainKey
  BY <1>1, <1>3, ChainType DEF Dir
<1>5. <<>> \in Seq(SkippedKey) /\ Len(<<>>) <= 2 * MaxSkip
  BY BoundsAssumption
<1> HIDE DEF own, root
<1>6. new \in Session /\ new.skipped = <<>>
  BY <1>1, <1>2, <1>3, <1>4, <1>5 DEF Session
<1>7. st' = [st EXCEPT ![p] = new]
  BY DEF DhCommit, own, root
<1> HIDE DEF new
<1>8. SessionsOK'
  BY <1>5, <1>6, <1>7, Parts DEF SessionsOK
<1>9. [t EXCEPT !.at = "seek"] \in Task
  BY <1>1 DEF Task
<1>10. TasksOK'
  BY <1>9, Parts, ContinueType DEF DhCommit
<1>11. FatesOK' /\ NetOK' /\ WireOK' /\ RestOK'
  BY Parts DEF DhCommit, FatesOK, NetOK, WireOK, RestOK
<1> QED BY <1>8, <1>10, <1>11, Parts

\* A handler that looks for its key keeps the types.
LEMMA SoughtType ==
  ASSUME TypeOK, NEW p \in Peer, NEW i \in 1..Handlers, Sought(p, i)
  PROVE  TypeOK'
<1>1. task[p][i].m \in Message
  BY Parts DEF TasksOK, Task
<1> QED BY <1>1, Parts, SeekType, LocalType DEF Sought

\* One turn of the loop over a gap keeps the types and the limit of the map.
LEMMA SkipOneType ==
  ASSUME TypeOK, NEW p \in Peer, NEW i \in 1..Handlers, SkipOne(p, i)
  PROVE  TypeOK'
<1> DEFINE t == task[p][i]
           s == st[p]
           e == [pk |-> t.m.pk, n |-> s.recvIdx, ck |-> t.ck]
           next == [t EXCEPT !.at = IF s.recvIdx + 1 < t.m.n THEN "skip" ELSE "take",
                             !.ck = NextChain(t.ck)]
           new == [s EXCEPT !.skipped = Store(s.skipped, e), !.recv = NextChain(t.ck),
                            !.recvIdx = s.recvIdx + 1]
<1>1. /\ t \in Task /\ s \in Session /\ s.skipped \in Seq(SkippedKey)
      /\ Len(s.skipped) <= 2 * MaxSkip
  BY Parts DEF TasksOK, SessionsOK, Session
<1>2. e \in SkippedKey
  BY <1>1 DEF Task, Message, Session, SkippedKey
<1>3. NextChain(t.ck) \in ChainKey
  BY <1>1, NextChainType DEF Task
<1>4. next \in Task
  BY <1>1, <1>3 DEF Task
<1>5. Store(s.skipped, e) \in Seq(SkippedKey) /\ Len(Store(s.skipped, e)) <= 2 * MaxSkip
  BY <1>1, <1>2, StoreType
<1>6. st' = [st EXCEPT ![p] = new]
  BY Parts DEF SkipOne, SessionsOK
<1>7. new \in Session /\ new.skipped = Store(s.skipped, e)
  <2> DEFINE idx == s.recvIdx + 1
             put == Store(s.skipped, e)
             chain == NextChain(t.ck)
  <2>1. idx \in Nat
    BY <1>1 DEF Session
  <2>2. put \in Seq(SkippedKey) /\ chain \in ChainKey
    BY <1>3, <1>5
  <2> HIDE DEF idx, put, chain
  <2>3. [s EXCEPT !.skipped = put, !.recv = chain, !.recvIdx = idx] \in Session
    BY <1>1, <2>1, <2>2 DEF Session
  <2>4. [s EXCEPT !.skipped = put, !.recv = chain, !.recvIdx = idx].skipped = put
    BY <1>1 DEF Session
  <2> QED BY <2>3, <2>4 DEF idx, put, chain
<1> HIDE DEF e, new
<1>8. SessionsOK'
  BY <1>5, <1>6, <1>7, Parts DEF SessionsOK
<1>9. TasksOK'
  BY <1>4, Parts, ContinueType DEF SkipOne
<1>10. FatesOK'
  BY Parts DEF SkipOne, FatesOK
<1> QED BY <1>8, <1>9, <1>10, Parts, LocalType DEF SkipOne

\* Taking the message's own key keeps the types.
LEMMA TakeKeyType ==
  ASSUME TypeOK, NEW p \in Peer, NEW i \in 1..Handlers, TakeKey(p, i)
  PROVE  TypeOK'
<1> DEFINE t == task[p][i]
<1>1. t \in Task /\ st[p] \in Session
  BY Parts DEF TasksOK, SessionsOK
<1>2. NextChain(t.ck) \in ChainKey
  BY <1>1, NextChainType DEF Task
<1>3. SessionsOK'
  <2> DEFINE idx == IF t.at = "take" THEN st[p].recvIdx + 1 ELSE st[p].recvIdx
             next == NextChain(t.ck)
             new == [st[p] EXCEPT !.recv = next, !.recvIdx = idx]
  <2>1. st[p].recvIdx \in Nat
    BY <1>1 DEF Session
  <2>2. idx \in Nat
    BY <2>1
  <2>3. st' = [st EXCEPT ![p] = new]
    BY Parts DEF TakeKey, SessionsOK
  <2> HIDE DEF idx
  <2>4. new \in Session /\ new.skipped = st[p].skipped
    <3> HIDE DEF next
    <3> QED BY <1>1, <1>2, <2>2 DEF Session, next
  <2> QED BY <2>3, <2>4, Parts, SessionsType
<1>4. [t EXCEPT !.at = "open"] \in Task
  BY <1>1 DEF Task
<1>5. TasksOK'
  BY <1>4, Parts, ContinueType DEF TakeKey
<1>6. FatesOK'
  BY Parts DEF TakeKey, FatesOK
<1> QED BY <1>3, <1>5, <1>6, Parts, LocalType DEF TakeKey

\* Opening a message keeps the types.
LEMMA OpenType ==
  ASSUME TypeOK, NEW p \in Peer, NEW i \in 1..Handlers, Open(p, i)
  PROVE  TypeOK'
<1> DEFINE t == task[p][i]
<1>1. t \in Task /\ st[p] \in Session /\ t.m \in Message /\ t.m.ctr \in Nat
  BY PartsTyped
<1>2. SessionsOK'
  <2> DEFINE new == [st[p] EXCEPT !.received = IF t.ck = t.m.ck /\ ValidCounter(st[p], t.m.ctr)
                                               THEN t.m.ctr ELSE @]
  <2>1. new \in Session /\ new.skipped = st[p].skipped
    BY <1>1 DEF Session
  <2>2. st' = [st EXCEPT ![p] = new]
    BY Parts DEF Open, SessionsOK
  <2> QED BY <2>1, <2>2, Parts, SessionsType
<1>3. TasksOK' /\ FatesOK'
  BY <1>1, Parts, EndsType DEF Open
<1> QED BY <1>2, <1>3, Parts, LocalType DEF Open

\* A send that begins keeps the types.
LEMMA SendMessageType ==
  ASSUME TypeOK, NEW p \in Peer, NEW i \in 1..Handlers, SendMessage(p, i)
  PROVE  TypeOK'
<1> DEFINE new == [st[p] EXCEPT !.counter = @ + 1]
           first == [Idle EXCEPT !.at = "advance", !.ck = st[p].send,
                                 !.m = [NoMsg EXCEPT !.v2 = st[p].pub # NoKey,
                                                     !.ctr = st[p].counter + 1]]
<1>1. st[p] \in Session
  BY Parts DEF SessionsOK
<1>2. new \in Session /\ new.skipped = st[p].skipped
  BY <1>1, SMTT(30) DEF Session
<1>3. st' = [st EXCEPT ![p] = new]
  BY Parts DEF SendMessage, SessionsOK
<1>4. SessionsOK'
  BY <1>2, <1>3, Parts, SessionsType
<1>5. first \in Task
  <2>1. [NoMsg EXCEPT !.v2 = st[p].pub # NoKey, !.ctr = st[p].counter + 1] \in Message
    <3> DEFINE ctr == st[p].counter + 1
    <3>1. ctr \in Nat
      BY <1>1 DEF Session
    <3> HIDE DEF ctr
    <3>2. [NoMsg EXCEPT !.v2 = st[p].pub # NoKey, !.ctr = ctr] \in Message
      BY <3>1, ConstantTypes DEF Message
    <3> QED BY <3>2 DEF ctr
  <2> QED BY <1>1, <2>1, ConstantTypes DEF Task, Session
<1>6. TasksOK'
  BY <1>5, Parts, ContinueType DEF SendMessage
<1>7. FatesOK' /\ NetOK' /\ WireOK' /\ RestOK'
  BY Parts, SMTT(30) DEF SendMessage, FatesOK, NetOK, WireOK, RestOK
<1> QED BY <1>4, <1>6, <1>7, Parts

\* A message that leaves keeps the types.
LEMMA EncryptedType ==
  ASSUME TypeOK, NEW p \in Peer, NEW i \in 1..Handlers, Encrypted(p, i)
  PROVE  TypeOK'
<1> DEFINE t == task[p][i]
           m == [t.m EXCEPT !.pk = IF t.m.v2 THEN st[p].pub ELSE NoKey, !.over = links]
<1>1. t \in Task /\ t.m \in Message /\ st[p] \in Session /\ links \in Nat
  <2>1. t \in Task /\ st[p] \in Session
    BY Parts DEF TasksOK, SessionsOK
  <2>2. t.m \in Message
    BY <2>1 DEF Task
  <2>3. links \in Nat
    BY Parts DEF RestOK
  <2> QED BY <2>1, <2>2, <2>3
<1>2. m \in Message
  <2> DEFINE pk == IF t.m.v2 THEN st[p].pub ELSE NoKey
  <2>1. pk \in Key
    BY <1>1, ConstantTypes DEF Session
  <2> HIDE DEF pk
  <2>2. [t.m EXCEPT !.pk = pk, !.over = links] \in Message
    BY <1>1, <2>1 DEF Message
  <2> QED BY <2>2 DEF pk
<1>3. Other(p) \in Peer
  BY DEF Peer, Other
<1> HIDE DEF m
<1>4. NetOK' /\ WireOK'
  <2>1. CASE link = "up"
    <3>1. /\ net' = [net EXCEPT ![Other(p)] = Append(@, m)]
          /\ wire' = wire \cup {[to |-> Other(p), m |-> m]}
          /\ link' = "up"
      BY <2>1 DEF Encrypted, m
    <3>2. Append(net[Other(p)], m) \in Seq(Message)
      BY <1>2, <1>3, Parts DEF NetOK
    <3> QED BY <1>2, <1>3, <3>1, <3>2, Parts DEF NetOK, WireOK
  <2>2. CASE link # "up"
    BY <2>2, Parts DEF Encrypted, NetOK, WireOK
  <2> QED BY <2>1, <2>2
<1>5. TasksOK'
  BY Parts, ConstantTypes, ContinueType DEF Encrypted
<1>6. SessionsOK' /\ FatesOK' /\ RestOK'
  BY Parts DEF Encrypted, SessionsOK, FatesOK, RestOK
<1> QED BY <1>4, <1>5, <1>6, Parts

\* A message that is taken off the channel leaves one of the right type there.
LEMMA TakenType ==
  ASSUME NetOK, NEW p \in Peer, net[p] # <<>>
  PROVE  /\ Head(net[p]) \in Message
         /\ [net EXCEPT ![p] = Tail(@)] \in [Peer -> Seq(Message)]
<1>1. net[p] \in Seq(Message)
  BY DEF NetOK
<1>2. Head(net[p]) \in Message /\ Tail(net[p]) \in Seq(Message)
  BY <1>1, HeadTailProperties
<1> QED BY <1>2 DEF NetOK

\* A receive that begins keeps the types.
LEMMA OnMessageType ==
  ASSUME TypeOK, NEW p \in Peer, NEW i \in 1..Handlers, OnMessage(p, i)
  PROVE  TypeOK'
<1> DEFINE m == Head(net[p])
           s == st[p]
           newKey == s.root # NoRoot /\ s.priv # NoKey /\ m.pk # s.last
<1>1. m \in Message /\ s \in Session
  BY Parts, TakenType DEF OnMessage, SessionsOK
<1>2. NetOK'
  BY Parts, TakenType DEF OnMessage, NetOK
<1>3. SessionsOK' /\ TasksOK' /\ FatesOK'
  <2>1. CASE /\ Continue(p, i, [Idle EXCEPT !.at = "root", !.m = m, !.dh = {s.priv, m.pk}])
             /\ UNCHANGED <<st, fate>>
    <3>1. {s.priv, m.pk} \in SUBSET Key
      BY <1>1 DEF Session, Message
    <3>2. [Idle EXCEPT !.at = "root", !.m = m, !.dh = {s.priv, m.pk}] \in Task
      BY <1>1, <3>1, ConstantTypes DEF Task
    <3> QED BY <2>1, <3>2, Parts, ContinueType DEF SessionsOK, FatesOK
  <2>2. CASE Seek(p, i, m)
    BY <1>1, <2>2, Parts, SeekType
  <2>3. CASE /\ Continue(p, i, [Idle EXCEPT !.at = "bare", !.m = m, !.ck = s.recv])
             /\ UNCHANGED <<st, fate>>
    <3>1. [Idle EXCEPT !.at = "bare", !.m = m, !.ck = s.recv] \in Task
      BY <1>1, ConstantTypes DEF Task, Session
    <3> QED BY <2>3, <3>1, Parts, ContinueType DEF SessionsOK, FatesOK
  <2> QED BY <2>1, <2>2, <2>3 DEF OnMessage
<1>4. WireOK' /\ RestOK'
  BY Parts DEF OnMessage, WireOK, RestOK
<1> QED BY <1>2, <1>3, <1>4, Parts

\* Every step of a handler keeps the types.
LEMMA StepType ==
  ASSUME TypeOK, NEW p \in Peer, NEW i \in 1..Handlers, Step(p, i)
  PROVE  TypeOK'
BY SendMessageType, ChainAdvancedType, EncryptedType, OnMessageType, RootReadType,
   DhCommitType, SoughtType, SkipOneType, TakeKeyType, OpenType DEF Step

\* A dropped message keeps the types.
LEMMA DropExcessType ==
  ASSUME TypeOK, NEW p \in Peer, DropExcess(p)
  PROVE  TypeOK'
<1>1. NetOK'
  BY Parts, TakenType DEF DropExcess, NetOK
<1>2. RestOK'
  <2>1. drops' \in 0..MaxDrops
    BY Parts, BoundsAssumption DEF DropExcess, RestOK
  <2> QED BY <2>1, Parts DEF DropExcess, RestOK
<1>3. SessionsOK' /\ TasksOK' /\ FatesOK' /\ WireOK'
  BY Parts DEF DropExcess, SessionsOK, TasksOK, FatesOK, WireOK
<1> QED BY <1>1, <1>2, <1>3, Parts

\* A link that goes keeps the types.
LEMMA DisconnectType ==
  ASSUME TypeOK, Disconnect
  PROVE  TypeOK'
<1>1. NetOK'
  <2>1. <<>> \in Seq(Message)
    OBVIOUS
  <2> QED BY <2>1, Parts DEF Disconnect, NetOK
<1>2. SessionsOK' /\ TasksOK' /\ FatesOK' /\ WireOK' /\ RestOK'
  BY Parts DEF Disconnect, SessionsOK, TasksOK, FatesOK, WireOK, RestOK
<1> QED BY <1>1, <1>2, Parts

\* New chains for an end keep the types of the sessions.
LEMMA RekeyedType ==
  ASSUME SessionsOK, NEW p \in Peer, NEW k \in Nat, st' = Rekeyed(p, k)
  PROVE  SessionsOK'
<1> DEFINE send == KemChain(k, IF p = Host THEN HostToGuest ELSE GuestToHost)
           recv == KemChain(k, IF p = Host THEN GuestToHost ELSE HostToGuest)
           new == [st[p] EXCEPT !.send = send, !.recv = recv]
<1>1. send \in ChainKey /\ recv \in ChainKey
  BY KemChainType DEF Dir
<1> HIDE DEF send, recv
<1>2. new \in Session /\ new.skipped = st[p].skipped
  BY <1>1 DEF SessionsOK, Session
<1>3. st' = [st EXCEPT ![p] = new]
  BY DEF Rekeyed, SessionsOK, send, recv
<1> QED BY <1>2, <1>3, SessionsType

\* A reconnection keeps the types.
LEMMA ReconnectType ==
  ASSUME TypeOK, ReconnectAsGuest \/ FinalizeReconnect
  PROVE  TypeOK'
<1>1. links \in Nat /\ links + 1 \in Nat
  BY Parts DEF RestOK
<1>2. CASE ReconnectAsGuest
  <2>1. SessionsOK'
    BY <1>1, <1>2, Parts, RekeyedType DEF ReconnectAsGuest, Peer
  <2>2. RestOK'
    BY <1>2, Parts, BoundsAssumption DEF ReconnectAsGuest, RestOK
  <2>3. TasksOK' /\ FatesOK' /\ NetOK' /\ WireOK'
    BY <1>2, Parts DEF ReconnectAsGuest, TasksOK, FatesOK, NetOK, WireOK
  <2> QED BY <2>1, <2>2, <2>3, Parts
<1>3. CASE FinalizeReconnect
  <2>1. SessionsOK'
    BY <1>1, <1>3, Parts, RekeyedType DEF FinalizeReconnect, Peer
  <2>2. TasksOK' /\ FatesOK' /\ NetOK' /\ WireOK' /\ RestOK'
    BY <1>3, Parts DEF FinalizeReconnect, TasksOK, FatesOK, NetOK, WireOK, RestOK
  <2> QED BY <2>1, <2>2, Parts
<1> QED BY <1>2, <1>3

\* A reload keeps the types.
LEMMA ReloadType ==
  ASSUME TypeOK, NEW p \in Peer, Reload(p)
  PROVE  TypeOK'
<1>1. st[p] \in Session /\ st[p].counter \in Nat /\ st[p].received \in Nat
  BY Parts DEF SessionsOK, Session
<1>2. PICK c \in 0..st[p].counter, r \in 0..st[p].received :
        st' = [st EXCEPT ![p] = RestoredSession(c, r)]
  BY DEF Reload
<1>3. /\ RestoredSession(c, r) \in Session
      /\ RestoredSession(c, r).skipped = <<>>
  <2>1. c \in Nat /\ r \in Nat
    BY <1>1
  <2>2. <<>> \in Seq(SkippedKey)
    OBVIOUS
  <2> QED BY <2>1, <2>2, ConstantTypes DEF RestoredSession, Session
<1>4. SessionsOK'
  <2>1. Len(<<>>) <= 2 * MaxSkip
    BY BoundsAssumption
  <2> QED BY <1>2, <1>3, <2>1, Parts DEF SessionsOK
<1>5. TasksOK'
  BY Parts, ConstantTypes DEF Reload, TasksOK
<1>6. NetOK'
  <2>1. <<>> \in Seq(Message)
    OBVIOUS
  <2> QED BY <2>1, Parts DEF Reload, NetOK
<1>7. RestOK'
  <2>1. reloads + 1 \in 0..MaxReloads
    BY Parts, BoundsAssumption, SMTT(30) DEF Reload, RestOK
  <2>2. (hasKem /\ p # Host) \in BOOLEAN
    OBVIOUS
  <2>3. /\ made' = made /\ links' = links /\ sends' = sends /\ drops' = drops
        /\ link' = "down" /\ reloads' = reloads + 1 /\ hasKem' = (hasKem /\ p # Host)
    BY DEF Reload
  <2> QED BY <2>1, <2>2, <2>3, Parts DEF RestOK
<1>8. FatesOK' /\ WireOK'
  BY Parts DEF Reload, FatesOK, WireOK
<1> QED BY <1>4, <1>5, <1>6, <1>7, <1>8, Parts

\* The state that a finished handshake leaves has the types.
LEMMA InitType ==
  ASSUME Init
  PROVE  TypeOK
<1>1. SessionsOK
  <2>1. /\ Chain(InitRoot, HostToGuest) \in ChainKey
        /\ Chain(InitRoot, GuestToHost) \in ChainKey
        /\ Chain(GuestRoot, Stepped) \in ChainKey
    BY ConstantTypes, ChainType DEF Dir
  <2>2. <<>> \in Seq(SkippedKey) /\ Len(<<>>) <= 2 * MaxSkip
    BY BoundsAssumption
  <2>3. \A p \in Peer : InitSession[p] \in Session /\ InitSession[p].skipped = <<>>
    <3> TAKE p \in Peer
    <3>1. CASE p = Host
      BY <2>1, <2>2, <3>1, ConstantTypes DEF InitSession, Session, Peer, Other, Host, Guest
    <3>2. CASE p = Guest
      BY <2>1, <2>2, <3>2, ConstantTypes DEF InitSession, Session, Peer, Other, Host, Guest
    <3> QED BY <3>1, <3>2 DEF Peer
  <2>4. InitSession \in [Peer -> Session]
    BY <2>3 DEF InitSession
  <2> QED BY <2>2, <2>3, <2>4 DEF Init, SessionsOK
<1>2. TasksOK
  BY ConstantTypes DEF Init, TasksOK
<1>3. NetOK
  <2>1. <<>> \in Seq(Message)
    OBVIOUS
  <2> QED BY <2>1 DEF Init, NetOK
<1>4. RestOK
  BY BoundsAssumption DEF Init, RestOK
<1>5. FatesOK /\ WireOK
  BY DEF Init, FatesOK, WireOK
<1> QED BY <1>1, <1>2, <1>3, <1>4, <1>5, Parts

\* Every variable keeps its type, the map of skipped keys stays within its limit and
\* nothing is on its way without a link, for any number of overlapping handlers,
\* messages, links, drops and reloads.
THEOREM TypeCorrect == Spec => []TypeOK
<1>1. Init => TypeOK
  BY InitType
<1>2. TypeOK /\ [Next]_vars => TypeOK'
  <2> SUFFICES ASSUME TypeOK, [Next]_vars PROVE TypeOK'
    OBVIOUS
  <2>1. CASE \E p \in Peer, i \in 1..Handlers : Step(p, i)
    BY <2>1, StepType
  <2>2. CASE \E p \in Peer : DropExcess(p) \/ Reload(p)
    BY <2>2, DropExcessType, ReloadType
  <2>3. CASE Disconnect
    BY <2>3, DisconnectType
  <2>4. CASE ReconnectAsGuest \/ FinalizeReconnect
    BY <2>4, ReconnectType
  <2>5. CASE UNCHANGED vars
    BY <2>5 DEF vars, TypeOK, Message
  <2> QED BY <2>1, <2>2, <2>3, <2>4, <2>5 DEF Next
<1> QED BY <1>1, <1>2, PTL DEF Spec

-----------------------------------------------------------------------------
(* The flow of messages *)

Came(p, m) == [to |-> p, m |-> m] \in wire

\* A handler whose message is numbered, or has come over the wire, keeps the order of
\* the handlers.
LEMMA HandlersFlow ==
  ASSUME TasksOK, SendsNumbered, ReceivesCame, wire \subseteq wire',
         NEW p \in Peer, NEW i \in 1..Handlers, NEW t \in Task, Continue(p, i, t),
         t.at \in Sending => t.m.ctr \in 1..MaxSends(p),
         t.at \notin Sending \cup {"idle"} => Came(p, t.m)
  PROVE  SendsNumbered' /\ ReceivesCame'
<1>1. /\ task'[p][i] = t
      /\ \A q \in Peer, j \in 1..Handlers : q # p \/ j # i => task'[q][j] = task[q][j]
  BY DEF Continue, TasksOK
<1>2. SendsNumbered'
  BY <1>1 DEF SendsNumbered, MaxSends
<1>3. ReceivesCame'
  BY <1>1 DEF ReceivesCame, Came
<1> QED BY <1>2, <1>3

\* A handler that ends with a message of the wire keeps the order.
LEMMA EndsFlow ==
  ASSUME TasksOK, FlowInv, UNCHANGED wire, NEW p \in Peer, NEW i \in 1..Handlers,
         NEW m, NEW why, Came(p, m), Ends(p, i, m, why)
  PROVE  SendsNumbered' /\ ReceivesCame' /\ FatesCame'
<1>1. Idle \in Task /\ Idle.at = "idle" /\ "idle" \notin Sending
  BY ConstantTypes DEF Idle, Sending
<1>2. SendsNumbered' /\ ReceivesCame'
  BY <1>1, HandlersFlow DEF Ends, FlowInv
<1>3. FatesCame'
  <2> SUFFICES ASSUME NEW f \in fate' PROVE [to |-> f.to, m |-> f.m] \in wire'
    BY DEF FatesCame
  <2> USE DEF Came
  <2>1. CASE f \in fate
    BY <2>1 DEF FlowInv, FatesCame
  <2>2. CASE f = [to |-> p, m |-> m, why |-> why]
    <3>1. f.to = p /\ f.m = m
      BY <2>2
    <3> QED BY <3>1
  <2> QED BY <2>1, <2>2 DEF Ends
<1> QED BY <1>2, <1>3

\* A message that is not shown leaves what is shown.
LEMMA NotShown ==
  ASSUME NEW p, NEW m, NEW why, why # "shown",
         fate' = fate \cup {[to |-> p, m |-> m, why |-> why]}
  PROVE  \A q \in Peer : ShownBy(q)' = ShownBy(q)
<1> TAKE q \in Peer
<1>1. {x \in fate' : x.to = q /\ x.why = "shown"} = {x \in fate : x.to = q /\ x.why = "shown"}
  OBVIOUS
<1> QED BY <1>1 DEF ShownBy

\* A receive that goes on with its message keeps the order.
LEMMA GoesOnFlow ==
  ASSUME TasksOK, FlowInv, UNCHANGED <<wire, fate>>, NEW p \in Peer, NEW i \in 1..Handlers,
         NEW t \in Task, Continue(p, i, t), t.at \notin Sending, Came(p, t.m)
  PROVE  SendsNumbered' /\ ReceivesCame' /\ FatesCame'
<1>1. SendsNumbered' /\ ReceivesCame'
  BY HandlersFlow DEF FlowInv
<1>2. FatesCame'
  BY DEF FlowInv, FatesCame
<1> QED BY <1>1, <1>2

\* Where the counters stay and nothing leaves, the handlers and the channel are all
\* that matters.
LEMMA RestFlow ==
  ASSUME FlowInv, UNCHANGED <<wire, sends>>,
         \A p \in Peer : st'[p].counter = st[p].counter,
         NetCame', SendsNumbered', ReceivesCame', FatesCame'
  PROVE  FlowInv'
<1>1. CountersRight'
  BY DEF FlowInv, CountersRight, MaxSends
<1>2. WireNumbered'
  BY DEF FlowInv, WireNumbered, MaxSends, Other
<1> QED BY <1>1, <1>2 DEF FlowInv

\* A channel that stays, or loses all it held, holds only what came over the wire.
LEMMA SameNet ==
  ASSUME FlowInv, UNCHANGED wire, UNCHANGED net \/ net' = [p \in Peer |-> <<>>]
  PROVE  NetCame'
<1>1. CASE UNCHANGED net
  BY <1>1 DEF FlowInv, NetCame
<1>2. CASE net' = [p \in Peer |-> <<>>]
  <2> SUFFICES ASSUME NEW p \in Peer, NEW k \in DOMAIN net'[p] PROVE FALSE
    BY DEF NetCame
  <2>1. net'[p] = <<>>
    BY <1>2
  <2> QED BY <2>1
<1> QED BY <1>1, <1>2

\* Looking for the key keeps the order, the counters and what was shown.
LEMMA SeekFlow ==
  ASSUME TypeOK, FlowInv, UNCHANGED wire, NEW p \in Peer, NEW i \in 1..Handlers,
         NEW m \in Message, Came(p, m), Seek(p, i, m)
  PROVE  /\ SendsNumbered' /\ ReceivesCame' /\ FatesCame'
         /\ \A q \in Peer : /\ st'[q].counter = st[q].counter
                            /\ st'[q].received = st[q].received
         /\ \A q \in Peer : ShownBy(q)' = ShownBy(q)
<1> DEFINE s == st[p]
<1>1. TasksOK /\ SessionsOK /\ s \in Session /\ s.skipped \in Seq(SkippedKey)
  BY Parts DEF SessionsOK, Session
<1>2. CASE /\ \E k \in DOMAIN s.skipped :
                /\ KeyOf(s.skipped[k], m)
                /\ st' = [st EXCEPT ![p].skipped = Without(@, k)]
                /\ Continue(p, i, [Idle EXCEPT !.at = "open", !.m = m,
                                               !.ck = s.skipped[k].ck])
           /\ UNCHANGED fate
  <2>1. PICK k \in DOMAIN s.skipped :
          /\ st' = [st EXCEPT ![p].skipped = Without(@, k)]
          /\ Continue(p, i, [Idle EXCEPT !.at = "open", !.m = m, !.ck = s.skipped[k].ck])
    BY <1>2
  <2> DEFINE t == [Idle EXCEPT !.at = "open", !.m = m, !.ck = s.skipped[k].ck]
  <2>2. s.skipped[k] \in SkippedKey
    BY <1>1, ElementOfSeq, LenProperties
  <2>3. t \in Task /\ t.at = "open" /\ t.m = m
    BY <2>2, ConstantTypes DEF Task, SkippedKey
  <2>4. SendsNumbered' /\ ReceivesCame' /\ FatesCame'
    BY <1>1, <1>2, <2>1, <2>3, GoesOnFlow DEF Sending
  <2>5. \A q \in Peer : /\ st'[q].counter = st[q].counter
                        /\ st'[q].received = st[q].received
    BY <1>1, <2>1 DEF SessionsOK, Session
  <2> QED BY <1>2, <2>4, <2>5 DEF ShownBy
<1>3. ASSUME NEW why \in {"missing", "skip"}, Ends(p, i, m, why), UNCHANGED st
      PROVE  /\ SendsNumbered' /\ ReceivesCame' /\ FatesCame'
             /\ \A q \in Peer : ShownBy(q)' = ShownBy(q)
  <2>1. SendsNumbered' /\ ReceivesCame' /\ FatesCame'
    BY <1>1, <1>3, EndsFlow
  <2>2. \A q \in Peer : ShownBy(q)' = ShownBy(q)
    BY <1>3, NotShown DEF Ends
  <2> QED BY <2>1, <2>2
<1>4. CASE /\ Continue(p, i, [Idle EXCEPT !.at = IF s.recvIdx < m.n THEN "skip" ELSE "take",
                                          !.m = m, !.ck = s.recv])
           /\ UNCHANGED <<st, fate>>
  <2> DEFINE t == [Idle EXCEPT !.at = IF s.recvIdx < m.n THEN "skip" ELSE "take",
                               !.m = m, !.ck = s.recv]
  <2>1. t \in Task /\ t.at \in {"skip", "take"} /\ t.m = m
    BY <1>1, ConstantTypes DEF Task, Session
  <2>2. SendsNumbered' /\ ReceivesCame' /\ FatesCame'
    BY <1>1, <1>4, <2>1, GoesOnFlow DEF Sending
  <2> QED BY <1>4, <2>2 DEF ShownBy
<1> QED BY <1>2, <1>3, <1>4 DEF Seek

-----------------------------------------------------------------------------
(* Every action keeps the flow, and is a step of Conversation or none *)

Stutters ==
  /\ \A p \in Peer : st'[p].received = st[p].received
  /\ \A p \in Peer : WrittenTo(p)' = WrittenTo(p) /\ ShownBy(p)' = ShownBy(p)

\* A step that changes nothing of it is a stutter of Conversation.
LEMMA StutterMaps ==
  ASSUME Stutters
  PROVE  UNCHANGED C!vars
BY DEF Stutters, C!vars

\* A send that begins takes a number of its end.
LEMMA SendMessageFlow ==
  ASSUME TypeOK, FlowInv, NEW p \in Peer, NEW i \in 1..Handlers, SendMessage(p, i)
  PROVE  FlowInv' /\ Stutters
<1> DEFINE first == [Idle EXCEPT !.at = "advance", !.ck = st[p].send,
                                 !.m = [NoMsg EXCEPT !.v2 = st[p].pub # NoKey,
                                                     !.ctr = st[p].counter + 1]]
<1>1. /\ st[p] \in Session /\ st[p].counter \in Nat /\ sends[p] \in Nat
      /\ st \in [Peer -> Session] /\ sends \in [Peer -> Nat]
  BY Parts DEF SessionsOK, Session, RestOK
<1>2. /\ st' = [st EXCEPT ![p].counter = st[p].counter + 1]
      /\ sends' = [sends EXCEPT ![p] = sends[p] + 1]
      /\ sends[p] < MaxSends(p)
      /\ UNCHANGED <<net, wire, fate>>
      /\ Continue(p, i, first)
  BY DEF SendMessage
<1>3. MaxSends(p) \in Nat
  BY BoundsAssumption DEF MaxSends
<1>4. st[p].counter <= sends[p]
  BY DEF FlowInv, CountersRight
<1>5. /\ st'[p].counter = st[p].counter + 1 /\ st'[p].received = st[p].received
      /\ \A q \in Peer : q # p => st'[q] = st[q]
  BY <1>1, <1>2 DEF Session
<1>6. CountersRight'
  <2>1. sends'[p] = sends[p] + 1 /\ \A q \in Peer : q # p => sends'[q] = sends[q]
    BY <1>1, <1>2
  <2>2. st'[p].counter <= sends'[p] /\ sends'[p] <= MaxSends(p)
    BY <1>1, <1>2, <1>3, <1>4, <1>5, <2>1
  <2> QED BY <1>5, <2>1, <2>2 DEF FlowInv, CountersRight, MaxSends
<1>7. st[p].counter + 1 \in 1..MaxSends(p)
  BY <1>1, <1>2, <1>3, <1>4
<1>8. first \in Task /\ first.at = "advance" /\ first.m.ctr = st[p].counter + 1
  <2> DEFINE ctr == st[p].counter + 1
             m == [NoMsg EXCEPT !.v2 = st[p].pub # NoKey, !.ctr = ctr]
  <2>1. ctr \in Nat
    BY <1>1
  <2> HIDE DEF ctr
  <2>2. m \in Message /\ m.ctr = ctr
    BY <2>1, ConstantTypes DEF Message
  <2> HIDE DEF m
  <2>3. /\ [Idle EXCEPT !.at = "advance", !.ck = st[p].send, !.m = m] \in Task
        /\ [Idle EXCEPT !.at = "advance", !.ck = st[p].send, !.m = m].at = "advance"
        /\ [Idle EXCEPT !.at = "advance", !.ck = st[p].send, !.m = m].m = m
    BY <1>1, <2>2, ConstantTypes DEF Task, Session
  <2> QED BY <2>2, <2>3 DEF m, ctr
<1> HIDE DEF first
<1>9. SendsNumbered' /\ ReceivesCame'
  BY <1>2, <1>7, <1>8, Parts, HandlersFlow DEF FlowInv, Sending
<1>10. NetCame' /\ WireNumbered' /\ FatesCame'
  BY <1>2 DEF FlowInv, NetCame, WireNumbered, FatesCame, MaxSends, Other
<1>11. Stutters
  BY <1>2, <1>5 DEF Stutters, WrittenTo, ShownBy
<1> QED BY <1>6, <1>9, <1>10, <1>11 DEF FlowInv

\* A send that goes on keeps its number.
LEMMA ChainAdvancedFlow ==
  ASSUME TypeOK, FlowInv, NEW p \in Peer, NEW i \in 1..Handlers, ChainAdvanced(p, i)
  PROVE  FlowInv' /\ Stutters
<1> DEFINE t == task[p][i]
           next == [t EXCEPT !.at = "encrypt", !.m.n = IF t.m.v2 THEN st[p].sendIdx ELSE 0,
                             !.m.ck = t.ck]
<1>1. t \in Task /\ st \in [Peer -> Session] /\ st[p] \in Session /\ t.m \in Message
  BY Parts DEF TasksOK, SessionsOK, Task
<1>2. next \in Task /\ next.at = "encrypt" /\ next.m.ctr = t.m.ctr
  BY <1>1 DEF Task, Message, Session
<1>3. t.m.ctr \in 1..MaxSends(p)
  BY DEF FlowInv, SendsNumbered, ChainAdvanced, Waits, Sending
<1>4. Continue(p, i, next) /\ UNCHANGED <<net, wire, sends, fate>>
  BY DEF ChainAdvanced, Local
<1> HIDE DEF next
<1>5. SendsNumbered' /\ ReceivesCame'
  BY <1>2, <1>3, <1>4, Parts, HandlersFlow DEF FlowInv, Sending
<1>6. \A q \in Peer : st'[q].counter = st[q].counter /\ st'[q].received = st[q].received
  BY <1>1 DEF ChainAdvanced, Session
<1>7. FatesCame'
  BY <1>4 DEF FlowInv, FatesCame
<1>8. Stutters
  BY <1>4, <1>6 DEF Stutters, WrittenTo, ShownBy
<1> QED BY <1>4, <1>5, <1>6, <1>7, <1>8, SameNet, RestFlow

\* One more message is one more number.
LEMMA OneMoreNumber ==
  ASSUME NEW S, NEW x
  PROVE  {y.m.ctr : y \in S \cup {x}} = {y.m.ctr : y \in S} \cup {x.m.ctr}
OBVIOUS

\* A message that leaves is written to the other end, with a number of its sender.
LEMMA EncryptedFlow ==
  ASSUME TypeOK, FlowInv, NEW p \in Peer, NEW i \in 1..Handlers, Encrypted(p, i)
  PROVE  FlowInv' /\ (C!Write(Other(p)) \/ Stutters)
<1> DEFINE t == task[p][i]
           m == [t.m EXCEPT !.pk = IF t.m.v2 THEN st[p].pub ELSE NoKey, !.over = links]
           o == Other(p)
           w == [to |-> o, m |-> m]
<1>1. t \in Task /\ o \in Peer /\ Other(o) = p
  BY Parts DEF TasksOK, Peer, Other, Host, Guest
<1>2. t.m \in Message
  BY <1>1 DEF Task
<1>3. m.ctr = t.m.ctr /\ m \in Message
  <2> DEFINE pk == IF t.m.v2 THEN st[p].pub ELSE NoKey
  <2>1. pk \in Key
    BY Parts, ConstantTypes DEF SessionsOK, Session
  <2>2. links \in Nat
    BY Parts DEF RestOK
  <2> HIDE DEF pk
  <2>3. /\ [t.m EXCEPT !.pk = pk, !.over = links] \in Message
        /\ [t.m EXCEPT !.pk = pk, !.over = links].ctr = t.m.ctr
    BY <1>2, <2>1, <2>2 DEF Message
  <2> QED BY <2>3 DEF pk
<1>4. t.m.ctr \in 1..MaxSends(p)
  BY DEF FlowInv, SendsNumbered, Encrypted, Waits, Sending
<1>5. /\ Continue(p, i, Idle)
      /\ UNCHANGED <<st, sends, fate>>
      /\ \/ UNCHANGED <<net, wire>>
         \/ net' = [net EXCEPT ![o] = Append(@, m)] /\ wire' = wire \cup {w}
  BY DEF Encrypted
<1>6. Idle \in Task /\ Idle.at = "idle" /\ "idle" \notin Sending
  BY ConstantTypes DEF Idle, Sending
<1>7. wire \subseteq wire'
  BY <1>5
<1>8. SendsNumbered' /\ ReceivesCame'
  BY <1>5, <1>6, <1>7, Parts, HandlersFlow DEF FlowInv
<1>9. CountersRight' /\ FatesCame'
  BY <1>5, <1>7 DEF FlowInv, CountersRight, FatesCame, MaxSends
<1> HIDE DEF m
<1>10. CASE UNCHANGED <<net, wire>>
  <2>1. NetCame' /\ WireNumbered'
    BY <1>10 DEF FlowInv, NetCame, WireNumbered, MaxSends, Other
  <2>2. Stutters
    BY <1>5, <1>10 DEF Stutters, WrittenTo, ShownBy
  <2> QED BY <1>8, <1>9, <2>1, <2>2 DEF FlowInv
<1>11. CASE net' = [net EXCEPT ![o] = Append(@, m)] /\ wire' = wire \cup {w}
  <2>1. WireNumbered'
    <3>1. \A x \in wire' : x \in wire \/ x = w
      BY <1>11
    <3>2. w.m.ctr \in 1..MaxSends(Other(w.to))
      BY <1>1, <1>3, <1>4
    <3>3. \A x \in wire : x.m.ctr \in 1..MaxSends(Other(x.to))
      BY DEF FlowInv, WireNumbered
    <3>4. \A x \in wire' : x.m.ctr \in 1..MaxSends(Other(x.to))
      BY <3>1, <3>2, <3>3
    <3> QED BY <3>4 DEF WireNumbered, MaxSends, Other
  <2>2. NetCame'
    <3> SUFFICES ASSUME NEW q \in Peer, NEW k \in DOMAIN net'[q]
                 PROVE  [to |-> q, m |-> net'[q][k]] \in wire'
      BY DEF NetCame
    <3>1. net \in [Peer -> Seq(Message)]
      BY Parts DEF NetOK
    <3>2. CASE q # o
      BY <1>7, <1>11, <3>1, <3>2 DEF FlowInv, NetCame
    <3>3. CASE q = o
      <4>1. net'[q] = Append(net[q], m)
        BY <1>1, <1>11, <3>1, <3>3
      <4>2. net[q] \in Seq(Message) /\ Len(net[q]) \in Nat /\ k \in 1..(Len(net[q]) + 1)
        BY <3>1, <4>1, LenProperties
      <4>3. CASE k = Len(net[q]) + 1
        <5>1. net'[q][k] = m
          BY <1>3, <4>1, <4>2, <4>3, AppendProperties
        <5> QED BY <1>11, <3>3, <5>1
      <4>4. CASE k # Len(net[q]) + 1
        <5>1. k \in DOMAIN net[q] /\ net'[q][k] = net[q][k]
          BY <4>1, <4>2, <4>4, LenProperties
        <5> QED BY <1>7, <5>1 DEF FlowInv, NetCame
      <4> QED BY <4>3, <4>4
    <3> QED BY <3>2, <3>3
  <2>3. C!Write(o)
    <3>1. m.ctr \in 1..(MaxHostSends + MaxGuestSends)
      BY <1>3, <1>4, BoundsAssumption DEF MaxSends
    <3>2. WrittenTo(o)' = WrittenTo(o) \cup {m.ctr}
      <4>1. {x \in wire' : x.to = o} = {x \in wire : x.to = o} \cup {w}
        BY <1>11
      <4>2. w.m.ctr = m.ctr
        OBVIOUS
      <4> QED BY <4>1, <4>2, OneMoreNumber DEF WrittenTo
    <3>3. \A q \in Peer : q # o => WrittenTo(q)' = WrittenTo(q)
      <4> TAKE q \in Peer
      <4> HAVE q # o
      <4>1. {x \in wire' : x.to = q} = {x \in wire : x.to = q}
        BY <1>11
      <4> QED BY <4>1 DEF WrittenTo
    <3>4. [q \in Peer |-> WrittenTo(q)]' =
            [[q \in Peer |-> WrittenTo(q)] EXCEPT ![o] = @ \cup {m.ctr}]
      BY <1>1, <3>2, <3>3
    <3>5. UNCHANGED <<[q \in Peer |-> ShownBy(q)], [q \in Peer |-> st[q].received]>>
      BY <1>5 DEF ShownBy
    <3> QED BY <3>1, <3>4, <3>5 DEF C!Write
  <2> QED BY <1>8, <1>9, <2>1, <2>2, <2>3 DEF FlowInv
<1> QED BY <1>5, <1>10, <1>11

\* A receive whose message is in hand and goes on with it keeps the flow, and shows
\* nothing.
LEMMA ReceiveGoesOnFlow ==
  ASSUME TypeOK, FlowInv, NEW p \in Peer, NEW i \in 1..Handlers, NEW t \in Task,
         task[p][i].at \notin Sending \cup {"idle"},
         t.at \notin Sending, t.m = task[p][i].m, Continue(p, i, t),
         \A q \in Peer : /\ st'[q].counter = st[q].counter
                         /\ st'[q].received = st[q].received,
         UNCHANGED <<wire, sends, net, fate>>
  PROVE  FlowInv' /\ Stutters
<1>1. Came(p, t.m)
  BY DEF FlowInv, ReceivesCame, Came
<1>2. SendsNumbered' /\ ReceivesCame' /\ FatesCame'
  BY <1>1, Parts, GoesOnFlow
<1>3. FlowInv'
  BY <1>2, SameNet, RestFlow
<1>4. Stutters
  BY DEF Stutters, WrittenTo, ShownBy
<1> QED BY <1>3, <1>4

\* The first half of a DH step keeps the flow.
LEMMA RootReadFlow ==
  ASSUME TypeOK, FlowInv, NEW p \in Peer, NEW i \in 1..Handlers, RootRead(p, i)
  PROVE  FlowInv' /\ Stutters
<1> DEFINE root == AdvanceRoot(st[p].root, task[p][i].dh)
           t == [task[p][i] EXCEPT !.at = "commit", !.root = root]
<1>1. task[p][i] \in Task /\ st[p].root \in RootKey
  BY Parts DEF TasksOK, SessionsOK, Session
<1>2. root \in RootKey
  BY <1>1, AdvanceRootType DEF Task
<1> HIDE DEF root
<1>3. t \in Task /\ t.at = "commit" /\ t.m = task[p][i].m
  BY <1>1, <1>2 DEF Task
<1>4. Continue(p, i, t) /\ UNCHANGED <<st, wire, sends, net, fate>>
  BY DEF RootRead, Local, root
<1> QED BY <1>3, <1>4, ReceiveGoesOnFlow DEF RootRead, Waits, Sending

\* So does the second.
LEMMA DhCommitFlow ==
  ASSUME TypeOK, FlowInv, NEW p \in Peer, NEW i \in 1..Handlers, DhCommit(p, i)
  PROVE  FlowInv' /\ Stutters
<1> DEFINE t == [task[p][i] EXCEPT !.at = "seek"]
<1>1. task[p][i] \in Task /\ st \in [Peer -> Session] /\ st[p] \in Session
  BY Parts DEF TasksOK, SessionsOK
<1>2. t \in Task /\ t.at = "seek" /\ t.m = task[p][i].m
  BY <1>1 DEF Task
<1>3. Continue(p, i, t) /\ UNCHANGED <<wire, sends, net, fate>>
  BY DEF DhCommit
<1>4. \A q \in Peer : st'[q].counter = st[q].counter /\ st'[q].received = st[q].received
  BY <1>1 DEF DhCommit, Session
<1> QED BY <1>2, <1>3, <1>4, ReceiveGoesOnFlow DEF DhCommit, Waits, Sending

\* And so does the search for the key after it.
LEMMA SoughtFlow ==
  ASSUME TypeOK, FlowInv, NEW p \in Peer, NEW i \in 1..Handlers, Sought(p, i)
  PROVE  FlowInv' /\ Stutters
<1> DEFINE m == task[p][i].m
<1>1. m \in Message
  BY Parts DEF TasksOK, Task
<1>2. Came(p, m)
  BY DEF FlowInv, ReceivesCame, Came, Sought, Waits, Sending
<1>3. UNCHANGED <<wire, sends, net>> /\ Seek(p, i, m)
  BY DEF Sought, Local
<1> HIDE DEF m
<1>4. /\ SendsNumbered' /\ ReceivesCame' /\ FatesCame'
      /\ \A q \in Peer : /\ st'[q].counter = st[q].counter
                         /\ st'[q].received = st[q].received
      /\ \A q \in Peer : ShownBy(q)' = ShownBy(q)
  BY <1>1, <1>2, <1>3, SeekFlow
<1>5. Stutters
  BY <1>3, <1>4 DEF Stutters, WrittenTo
<1> QED BY <1>3, <1>4, <1>5, SameNet, RestFlow

\* A turn over a gap keeps the flow.
LEMMA SkipOneFlow ==
  ASSUME TypeOK, FlowInv, NEW p \in Peer, NEW i \in 1..Handlers, SkipOne(p, i)
  PROVE  FlowInv' /\ Stutters
<1> DEFINE at == IF st[p].recvIdx + 1 < task[p][i].m.n THEN "skip" ELSE "take"
           ck == NextChain(task[p][i].ck)
           t == [task[p][i] EXCEPT !.at = at, !.ck = ck]
<1>1. task[p][i] \in Task /\ st \in [Peer -> Session] /\ st[p] \in Session
  BY Parts DEF TasksOK, SessionsOK
<1>2. at \in {"skip", "take"} /\ ck \in ChainKey
  BY <1>1, NextChainType DEF Task
<1>3. Continue(p, i, t) /\ UNCHANGED <<wire, sends, net, fate>>
  BY DEF SkipOne, Local
<1>4. \A q \in Peer : st'[q].counter = st[q].counter /\ st'[q].received = st[q].received
  BY <1>1 DEF SkipOne, Session
<1> HIDE DEF at, ck
<1>5. t \in Task /\ t.at \in {"skip", "take"} /\ t.m = task[p][i].m
  BY <1>1, <1>2 DEF Task
<1> QED BY <1>3, <1>4, <1>5, ReceiveGoesOnFlow DEF SkipOne, Waits, Sending

\* The message's own key leaves the flow as it is.
LEMMA TakeKeyFlow ==
  ASSUME TypeOK, FlowInv, NEW p \in Peer, NEW i \in 1..Handlers, TakeKey(p, i)
  PROVE  FlowInv' /\ Stutters
<1> DEFINE t == [task[p][i] EXCEPT !.at = "open"]
<1>1. task[p][i] \in Task /\ st \in [Peer -> Session] /\ st[p] \in Session
  BY Parts DEF TasksOK, SessionsOK
<1>2. t \in Task /\ t.at = "open" /\ t.m = task[p][i].m
  BY <1>1 DEF Task
<1>3. Continue(p, i, t) /\ UNCHANGED <<wire, sends, net, fate>>
  BY DEF TakeKey, Local
<1>4. \A q \in Peer : st'[q].counter = st[q].counter /\ st'[q].received = st[q].received
  BY <1>1 DEF TakeKey, Session
<1> QED BY <1>2, <1>3, <1>4, ReceiveGoesOnFlow DEF TakeKey, Waits, Sending

\* What is first on the channel came over the wire, and so did the rest.
LEMMA TakenFlow ==
  ASSUME TypeOK, FlowInv, NEW p \in Peer, net[p] # <<>>,
         net' = [net EXCEPT ![p] = Tail(@)], UNCHANGED wire
  PROVE  Head(net[p]) \in Message /\ Came(p, Head(net[p])) /\ NetCame'
<1>1. net \in [Peer -> Seq(Message)] /\ net[p] \in Seq(Message)
  BY Parts DEF NetOK
<1>2. /\ Head(net[p]) \in Message /\ Head(net[p]) = net[p][1]
      /\ Len(net[p]) \in Nat /\ 1 \in DOMAIN net[p]
  BY <1>1, HeadTailProperties, EmptySeq, LenProperties
<1>3. Came(p, Head(net[p]))
  BY <1>2 DEF FlowInv, NetCame, Came
<1>4. NetCame'
  <2> SUFFICES ASSUME NEW q \in Peer, NEW k \in DOMAIN net'[q]
               PROVE  [to |-> q, m |-> net'[q][k]] \in wire
    BY DEF NetCame
  <2>1. CASE q = p
    <3>1. net'[q] = Tail(net[p])
      BY <1>1, <2>1
    <3>2. k \in 1..(Len(net[p]) - 1) /\ net'[q][k] = net[p][k + 1]
      BY <1>1, <1>2, <3>1, HeadTailProperties, LenProperties
    <3>3. k + 1 \in DOMAIN net[p]
      BY <1>1, <1>2, <3>2, LenProperties
    <3> QED BY <2>1, <3>2, <3>3 DEF FlowInv, NetCame
  <2>2. CASE q # p
    BY <1>1, <2>2 DEF FlowInv, NetCame
  <2> QED BY <2>1, <2>2
<1> QED BY <1>2, <1>3, <1>4

\* A receive that begins has a message that came.
LEMMA OnMessageFlow ==
  ASSUME TypeOK, FlowInv, NEW p \in Peer, NEW i \in 1..Handlers, OnMessage(p, i)
  PROVE  FlowInv' /\ Stutters
<1> DEFINE m == Head(net[p])
           s == st[p]
<1>1. UNCHANGED <<wire, sends>> /\ TasksOK /\ s \in Session
  BY Parts DEF OnMessage, SessionsOK
<1>2. m \in Message /\ Came(p, m) /\ NetCame'
  BY TakenFlow DEF OnMessage
<1> HIDE DEF m
<1>3. ASSUME NEW t \in Task, t.at \in {"root", "bare"}, t.m = m, Continue(p, i, t),
             UNCHANGED <<st, fate>>
      PROVE  FlowInv' /\ Stutters
  <2>1. SendsNumbered' /\ ReceivesCame' /\ FatesCame'
    BY <1>1, <1>2, <1>3, GoesOnFlow DEF Sending
  <2>2. Stutters
    BY <1>1, <1>3 DEF Stutters, WrittenTo, ShownBy
  <2> QED BY <1>1, <1>2, <1>3, <2>1, <2>2, RestFlow
<1>4. CASE /\ Continue(p, i, [Idle EXCEPT !.at = "root", !.m = m, !.dh = {s.priv, m.pk}])
           /\ UNCHANGED <<st, fate>>
  <2> DEFINE t == [Idle EXCEPT !.at = "root", !.m = m, !.dh = {s.priv, m.pk}]
  <2>1. {s.priv, m.pk} \in SUBSET Key
    BY <1>1, <1>2 DEF Session, Message
  <2>2. t \in Task /\ t.at = "root" /\ t.m = m
    BY <1>2, <2>1, ConstantTypes DEF Task
  <2> HIDE DEF t
  <2>3. Continue(p, i, t) /\ UNCHANGED <<st, fate>>
    BY <1>4 DEF t
  <2> QED BY <2>2, <2>3, <1>3
<1>5. CASE Seek(p, i, m)
  <2>1. /\ SendsNumbered' /\ ReceivesCame' /\ FatesCame'
        /\ \A q \in Peer : /\ st'[q].counter = st[q].counter
                           /\ st'[q].received = st[q].received
        /\ \A q \in Peer : ShownBy(q)' = ShownBy(q)
    BY <1>1, <1>2, <1>5, SeekFlow
  <2>2. Stutters
    BY <1>1, <2>1 DEF Stutters, WrittenTo
  <2> QED BY <1>1, <1>2, <2>1, <2>2, RestFlow
<1>6. CASE /\ Continue(p, i, [Idle EXCEPT !.at = "bare", !.m = m, !.ck = s.recv])
           /\ UNCHANGED <<st, fate>>
  <2> DEFINE t == [Idle EXCEPT !.at = "bare", !.m = m, !.ck = s.recv]
  <2>1. t \in Task /\ t.at = "bare" /\ t.m = m
    BY <1>1, <1>2, ConstantTypes DEF Task, Session
  <2> HIDE DEF t
  <2>2. Continue(p, i, t) /\ UNCHANGED <<st, fate>>
    BY <1>6 DEF t
  <2> QED BY <2>1, <2>2, <1>3
<1> QED BY <1>4, <1>5, <1>6 DEF OnMessage, m

\* A message that is opened is shown as one written to this end and newer than what
\* it remembers, or changes nothing that is promised.
LEMMA OpenFlow ==
  ASSUME TypeOK, FlowInv, NEW p \in Peer, NEW i \in 1..Handlers, Open(p, i)
  PROVE  FlowInv' /\ (C!Show(p) \/ Stutters)
<1> DEFINE m == task[p][i].m
           readable == task[p][i].ck = m.ck
           fresh == m.ctr > st[p].received
           why == IF ~readable THEN "unreadable" ELSE IF fresh THEN "shown" ELSE "stale"
<1>1. /\ st \in [Peer -> Session] /\ st[p] \in Session /\ TasksOK
      /\ m \in Message /\ m.ctr \in Nat /\ st[p].received \in Nat
  BY PartsTyped
<1>2. Came(p, m)
  BY DEF FlowInv, ReceivesCame, Came, Open, Waits, Sending
<1>3. UNCHANGED <<wire, sends, net>> /\ Ends(p, i, m, why)
  BY DEF Open, Local, ValidCounter
<1>4. st' = [st EXCEPT ![p].received = IF readable /\ fresh THEN m.ctr ELSE @]
  BY DEF Open, ValidCounter
<1>5. \A q \in Peer : st'[q].counter = st[q].counter
  BY <1>1, <1>4 DEF Session
<1>6. \A q \in Peer :
        st'[q].received = IF q = p /\ readable /\ fresh THEN m.ctr ELSE st[q].received
  BY <1>1, <1>4 DEF Session
<1> HIDE DEF m, readable, fresh
<1>7. FlowInv'
  <2>1. SendsNumbered' /\ ReceivesCame' /\ FatesCame'
    BY <1>1, <1>2, <1>3, EndsFlow
  <2> QED BY <1>3, <1>5, <2>1, SameNet, RestFlow
<1>8. CASE ~(readable /\ fresh)
  <2>1. why # "shown"
    BY <1>8
  <2> HIDE DEF why
  <2>2. \A q \in Peer : ShownBy(q)' = ShownBy(q)
    BY <1>3, <2>1, NotShown DEF Ends
  <2>3. Stutters
    BY <1>3, <1>6, <1>8, <2>2 DEF Stutters, WrittenTo
  <2> QED BY <1>7, <2>3
<1>9. CASE readable /\ fresh
  <2>1. fate' = fate \cup {[to |-> p, m |-> m, why |-> "shown"]}
    BY <1>3, <1>9 DEF Ends
  <2>2. m.ctr \in WrittenTo(p)
    <3>1. [to |-> p, m |-> m] \in {x \in wire : x.to = p}
      BY <1>2 DEF Came
    <3> QED BY <3>1 DEF WrittenTo
  <2>3. ShownBy(p)' = ShownBy(p) \cup {m.ctr}
    <3>1. {x \in fate' : x.to = p /\ x.why = "shown"} =
            {x \in fate : x.to = p /\ x.why = "shown"}
              \cup {[to |-> p, m |-> m, why |-> "shown"]}
      BY <2>1
    <3>2. [to |-> p, m |-> m, why |-> "shown"].m.ctr = m.ctr
      OBVIOUS
    <3> QED BY <3>1, <3>2, OneMoreNumber DEF ShownBy
  <2>4. \A q \in Peer : q # p => ShownBy(q)' = ShownBy(q)
    <3> TAKE q \in Peer
    <3> HAVE q # p
    <3>1. {x \in fate' : x.to = q /\ x.why = "shown"} =
            {x \in fate : x.to = q /\ x.why = "shown"}
      BY <2>1
    <3> QED BY <3>1 DEF ShownBy
  <2>5. [q \in Peer |-> ShownBy(q)]' =
          [[q \in Peer |-> ShownBy(q)] EXCEPT ![p] = @ \cup {m.ctr}]
    BY <2>3, <2>4
  <2>6. [q \in Peer |-> st[q].received]' =
          [[q \in Peer |-> st[q].received] EXCEPT ![p] = m.ctr]
    BY <1>6, <1>9
  <2>7. UNCHANGED [q \in Peer |-> WrittenTo(q)]
    BY <1>3 DEF WrittenTo
  <2>8. m.ctr > st[p].received
    BY <1>9 DEF fresh
  <2>9. C!Show(p)
    BY <2>2, <2>5, <2>6, <2>7, <2>8 DEF C!Show
  <2> QED BY <1>7, <2>9
<1> QED BY <1>8, <1>9

\* Every step of a handler keeps the flow, and writes a message, shows one, or does
\* nothing of either.
LEMMA StepFlow ==
  ASSUME TypeOK, FlowInv, NEW p \in Peer, NEW i \in 1..Handlers, Step(p, i)
  PROVE  FlowInv' /\ (C!Next \/ Stutters)
<1>1. Other(p) \in Peer
  BY DEF Peer, Other, Host, Guest
<1>2. CASE SendMessage(p, i) \/ ChainAdvanced(p, i)
  BY <1>2, SendMessageFlow, ChainAdvancedFlow
<1>3. CASE Encrypted(p, i)
  <2>1. FlowInv' /\ (C!Write(Other(p)) \/ Stutters)
    BY <1>3, EncryptedFlow
  <2> QED BY <1>1, <2>1 DEF C!Next
<1>4. CASE OnMessage(p, i) \/ RootRead(p, i) \/ DhCommit(p, i) \/ Sought(p, i)
  BY <1>4, OnMessageFlow, RootReadFlow, DhCommitFlow, SoughtFlow
<1>5. CASE SkipOne(p, i) \/ TakeKey(p, i)
  BY <1>5, SkipOneFlow, TakeKeyFlow
<1>6. CASE Open(p, i)
  <2>1. FlowInv' /\ (C!Show(p) \/ Stutters)
    BY <1>6, OpenFlow
  <2> QED BY <2>1 DEF C!Next
<1> QED BY <1>2, <1>3, <1>4, <1>5, <1>6 DEF Step

\* Where the handlers and what became of messages stay, so does their order.
LEMMA SameTasks ==
  ASSUME FlowInv, UNCHANGED <<wire, task, fate>>
  PROVE  SendsNumbered' /\ ReceivesCame' /\ FatesCame'
BY DEF FlowInv, SendsNumbered, ReceivesCame, FatesCame, MaxSends

\* A dropped message keeps the flow.
LEMMA DropExcessFlow ==
  ASSUME TypeOK, FlowInv, NEW p \in Peer, DropExcess(p)
  PROVE  FlowInv' /\ Stutters
<1>1. NetCame'
  BY TakenFlow DEF DropExcess
<1>2. UNCHANGED <<st, task, wire, sends, fate>>
  BY DEF DropExcess
<1>3. Stutters
  BY <1>2 DEF Stutters, WrittenTo, ShownBy
<1> QED BY <1>1, <1>2, <1>3, SameTasks, RestFlow

\* A link that goes keeps the flow.
LEMMA DisconnectFlow ==
  ASSUME TypeOK, FlowInv, Disconnect
  PROVE  FlowInv' /\ Stutters
<1>1. UNCHANGED <<st, task, wire, sends, fate>> /\ net' = [p \in Peer |-> <<>>]
  BY DEF Disconnect
<1>2. Stutters
  BY <1>1 DEF Stutters, WrittenTo, ShownBy
<1> QED BY <1>1, <1>2, SameNet, SameTasks, RestFlow

\* New chains keep the flow: the counters run on over reconnections.
LEMMA ReconnectFlow ==
  ASSUME TypeOK, FlowInv, ReconnectAsGuest \/ FinalizeReconnect
  PROVE  FlowInv' /\ Stutters
<1>1. st \in [Peer -> Session]
  BY Parts DEF SessionsOK
<1>2. PICK p \in Peer, k \in {links, links + 1} : st' = Rekeyed(p, k)
  BY DEF ReconnectAsGuest, FinalizeReconnect, Peer
<1>3. \A q \in Peer : st'[q].counter = st[q].counter /\ st'[q].received = st[q].received
  BY <1>1, <1>2 DEF Rekeyed, Session
<1>4. UNCHANGED <<task, net, wire, sends, fate>>
  BY DEF ReconnectAsGuest, FinalizeReconnect
<1>5. Stutters
  BY <1>3, <1>4 DEF Stutters, WrittenTo, ShownBy
<1> QED BY <1>3, <1>4, <1>5, SameNet, SameTasks, RestFlow

\* A reload may take back the counters, and so it restarts its end of Conversation.
LEMMA ReloadFlow ==
  ASSUME TypeOK, FlowInv, NEW p \in Peer, Reload(p)
  PROVE  FlowInv' /\ C!Restart(p)
<1>1. /\ st \in [Peer -> Session] /\ st[p] \in Session /\ TasksOK
      /\ st[p].counter \in Nat /\ st[p].received \in Nat /\ sends[p] \in Nat
  BY Parts DEF SessionsOK, Session, RestOK
<1>2. PICK c \in 0..st[p].counter, r \in 0..st[p].received :
        st' = [st EXCEPT ![p] = RestoredSession(c, r)]
  BY DEF Reload
<1>3. /\ task' = [task EXCEPT ![p] = [i \in 1..Handlers |-> Idle]]
      /\ UNCHANGED <<sends, wire, fate>> /\ net' = [q \in Peer |-> <<>>]
  BY DEF Reload
<1>4. /\ st'[p].counter = c /\ st'[p].received = r
      /\ \A q \in Peer : q # p => st'[q] = st[q]
  BY <1>1, <1>2 DEF RestoredSession
<1>5. CountersRight'
  <2>1. \A q \in Peer : st[q].counter <= sends[q] /\ sends[q] <= MaxSends(q)
    BY DEF FlowInv, CountersRight
  <2>2. c <= sends[p]
    BY <1>1, <2>1
  <2> QED BY <1>3, <1>4, <2>1, <2>2 DEF CountersRight, MaxSends
<1>6. Idle.at = "idle" /\ "idle" \notin Sending
  BY DEF Idle, Sending
<1>7. \A q \in Peer, i \in 1..Handlers : task'[q][i] = task[q][i] \/ task'[q][i] = Idle
  BY <1>1, <1>3 DEF TasksOK
<1>8. SendsNumbered' /\ ReceivesCame'
  BY <1>3, <1>6, <1>7 DEF FlowInv, SendsNumbered, ReceivesCame, MaxSends
<1>9. NetCame'
  BY <1>3, SameNet
<1>10. WireNumbered' /\ FatesCame'
  BY <1>3 DEF FlowInv, WireNumbered, FatesCame, MaxSends, Other
<1>11. C!Restart(p)
  <2>1. [q \in Peer |-> st[q].received]' =
          [[q \in Peer |-> st[q].received] EXCEPT ![p] = r]
    BY <1>4
  <2>2. UNCHANGED <<[q \in Peer |-> WrittenTo(q)], [q \in Peer |-> ShownBy(q)]>>
    BY <1>3 DEF WrittenTo, ShownBy
  <2> QED BY <2>1, <2>2 DEF C!Restart
<1> QED BY <1>5, <1>8, <1>9, <1>10, <1>11 DEF FlowInv

\* Before anything is sent the flow is right, and nothing is promised yet.
LEMMA InitFlow ==
  ASSUME Init
  PROVE  FlowInv /\ C!Init
<1>1. \A p \in Peer : st[p].counter = 0 /\ st[p].received = 0
  BY DEF Init, InitSession
<1>2. CountersRight
  BY <1>1, BoundsAssumption DEF Init, CountersRight, MaxSends
<1>3. SendsNumbered /\ ReceivesCame
  BY DEF Init, Idle, SendsNumbered, ReceivesCame, Sending
<1>4. NetCame /\ WireNumbered /\ FatesCame
  BY DEF Init, NetCame, WireNumbered, FatesCame
<1>5. C!Init
  BY <1>1 DEF Init, C!Init, WrittenTo, ShownBy
<1> QED BY <1>2, <1>3, <1>4, <1>5 DEF FlowInv

\* Every step keeps the flow, and is a step of Conversation or none.
LEMMA NextFlow ==
  ASSUME TypeOK, FlowInv, [Next]_vars
  PROVE  FlowInv' /\ (C!Next \/ UNCHANGED C!vars)
<1>1. CASE \E p \in Peer, i \in 1..Handlers : Step(p, i)
  BY <1>1, StepFlow, StutterMaps
<1>2. CASE \E p \in Peer : DropExcess(p)
  BY <1>2, DropExcessFlow, StutterMaps
<1>3. CASE \E p \in Peer : Reload(p)
  <2>1. PICK p \in Peer : Reload(p)
    BY <1>3
  <2>2. FlowInv' /\ C!Restart(p)
    BY <2>1, ReloadFlow
  <2> QED BY <2>2 DEF C!Next
<1>4. CASE Disconnect
  BY <1>4, DisconnectFlow, StutterMaps
<1>5. CASE ReconnectAsGuest \/ FinalizeReconnect
  BY <1>5, ReconnectFlow, StutterMaps
<1>6. CASE UNCHANGED vars
  <2>1. UNCHANGED <<st, task, net, sends, wire, fate>>
    BY <1>6 DEF vars
  <2>2. FlowInv'
    BY <2>1, SameTasks, SameNet, RestFlow
  <2>3. Stutters
    BY <2>1 DEF Stutters, WrittenTo, ShownBy
  <2> QED BY <2>2, <2>3, StutterMaps
<1> QED BY <1>1, <1>2, <1>3, <1>4, <1>5, <1>6 DEF Next

-----------------------------------------------------------------------------
\* FlowInv is an invariant, for any bounds and any number of overlapping handlers: no
\* end ever has a message in hand, on the channel or behind it that did not leave the
\* other end, under a number of that end's.
THEOREM FlowCorrect == Spec => []FlowInv
<1>1. Init => FlowInv
  BY InitFlow
<1>2. TypeOK /\ FlowInv /\ [Next]_vars => FlowInv'
  BY NextFlow
<1> QED BY <1>1, <1>2, TypeCorrect, PTL DEF Spec

\* The ratchet implements Conversation, for any bounds: however handlers overlap, links
\* break and pages reload, an end shows only messages that were written to it, each
\* newer than what it remembers to have shown.
THEOREM ImplementsConversation == Spec => KeepsConversation
<1>1. Init => C!Init
  BY InitFlow
<1>2. TypeOK /\ FlowInv /\ [Next]_vars => [C!Next]_(C!vars)
  BY NextFlow
<1> QED BY <1>1, <1>2, TypeCorrect, FlowCorrect, PTL DEF Spec, KeepsConversation, C!Spec

-----------------------------------------------------------------------------
(* What each action does, field by field *)

USE DEF Host, Guest, Peer, Other

KeysSame(p) ==
  /\ st'[p].root = st[p].root /\ st'[p].send = st[p].send /\ st'[p].recv = st[p].recv
  /\ st'[p].sendIdx = st[p].sendIdx /\ st'[p].recvIdx = st[p].recvIdx
  /\ st'[p].pub = st[p].pub /\ st'[p].priv = st[p].priv /\ st'[p].last = st[p].last
  /\ st'[p].skipped = st[p].skipped
CountsSame(p) == st'[p].counter = st[p].counter /\ st'[p].received = st[p].received

\* Handler i of p is where t is, and nothing happens at the other end.
Now(p, i, t) ==
  /\ task'[p][i] = t
  /\ \A q \in Peer, j \in 1..Handlers : q # p \/ j # i => task'[q][j] = task[q][j]
  /\ \A q \in Peer : q # p => st'[q] = st[q]

LEMMA Typed ==
  ASSUME TypeOK, NEW p \in Peer
  PROVE  /\ st \in [Peer -> Session] /\ st[p] \in Session
         /\ task \in [Peer -> [1..Handlers -> Task]]
         /\ \A i \in 1..Handlers : task[p][i] \in Task /\ task[p][i].m \in Message
         /\ net \in [Peer -> Seq(Message)] /\ net[p] \in Seq(Message) /\ Len(net[p]) \in Nat
         /\ links \in Nat /\ drops \in Nat /\ made[p] \in Nat /\ made \in [Peer -> Nat]
         /\ Other(p) \in Peer /\ Other(Other(p)) = p /\ Other(p) # p
         /\ \A q \in Peer : q # p => q = Other(p)
<1>1. net \in [Peer -> Seq(Message)] /\ net[p] \in Seq(Message)
  BY DEF TypeOK
<1>2. Len(net[p]) \in Nat
  BY <1>1, LenProperties
<1>3. st \in [Peer -> Session] /\ st[p] \in Session
  BY DEF TypeOK
<1>4. /\ task \in [Peer -> [1..Handlers -> Task]]
      /\ \A i \in 1..Handlers : task[p][i] \in Task
  BY DEF TypeOK
<1>5. \A i \in 1..Handlers : task[p][i].m \in Message
  BY <1>4 DEF Task
<1>6. links \in Nat /\ drops \in Nat /\ made[p] \in Nat /\ made \in [Peer -> Nat]
  BY DEF TypeOK
<1>7. /\ Other(p) \in Peer /\ Other(Other(p)) = p /\ Other(p) # p
      /\ \A q \in Peer : q # p => q = Other(p)
  OBVIOUS
<1> QED BY <1>1, <1>2, <1>3, <1>4, <1>5, <1>6, <1>7

LEMMA IdleFacts ==
  /\ Idle \in Task /\ Idle.at = "idle" /\ Idle.m = NoMsg /\ Idle.ck = NoChain
  /\ NoMsg \in Message
BY ConstantTypes DEF Idle

\* What fields a handler has that starts with Idle.
LEMMA TaskFrom ==
  ASSUME NEW at, NEW m, NEW ck, NEW dh
  PROVE  /\ [Idle EXCEPT !.at = at, !.m = m, !.ck = ck].at = at
         /\ [Idle EXCEPT !.at = at, !.m = m, !.ck = ck].m = m
         /\ [Idle EXCEPT !.at = at, !.m = m, !.ck = ck].ck = ck
         /\ [Idle EXCEPT !.at = at, !.m = m, !.dh = dh].at = at
         /\ [Idle EXCEPT !.at = at, !.m = m, !.dh = dh].m = m
         /\ [Idle EXCEPT !.at = at, !.m = m, !.dh = dh].dh = dh
         /\ [Idle EXCEPT !.at = at, !.ck = ck, !.m = m].at = at
         /\ [Idle EXCEPT !.at = at, !.ck = ck, !.m = m].m = m
         /\ [Idle EXCEPT !.at = at, !.ck = ck, !.m = m].ck = ck
BY DEF Idle

LEMMA Continued ==
  ASSUME TypeOK, NEW p \in Peer, NEW i \in 1..Handlers, NEW t, Continue(p, i, t),
         \A q \in Peer : q # p => st'[q] = st[q]
  PROVE  Now(p, i, t)
BY Typed DEF Continue, Now

LEMMA SendFacts ==
  ASSUME TypeOK, NEW p \in Peer, NEW i \in 1..Handlers, SendMessage(p, i)
  PROVE  /\ link = "up" /\ task[p][i] = Idle
         /\ \E t : /\ Now(p, i, t)
                   /\ t.at = "advance" /\ t.ck = st[p].send
                   /\ t.m.v2 = (st[p].pub # NoKey) /\ t.m.ctr = st[p].counter + 1
         /\ KeysSame(p) /\ st'[p].counter = st[p].counter + 1
         /\ st'[p].received = st[p].received
         /\ UNCHANGED <<made, net, link, links, hasKem, drops, wire, fate>>
<1> DEFINE m == [NoMsg EXCEPT !.v2 = st[p].pub # NoKey, !.ctr = st[p].counter + 1]
           t == [Idle EXCEPT !.at = "advance", !.ck = st[p].send, !.m = m]
<1>1. st' = [st EXCEPT ![p].counter = st[p].counter + 1] /\ Continue(p, i, t)
  BY DEF SendMessage
<1>2. /\ KeysSame(p) /\ st'[p].counter = st[p].counter + 1
      /\ st'[p].received = st[p].received
      /\ \A q \in Peer : q # p => st'[q] = st[q]
  BY <1>1, Typed DEF KeysSame, Session
<1>3. Now(p, i, t)
  BY <1>1, <1>2, Continued
<1>4. m.v2 = (st[p].pub # NoKey) /\ m.ctr = st[p].counter + 1
  BY DEF NoMsg
<1> HIDE DEF m
<1>5. t.at = "advance" /\ t.ck = st[p].send /\ t.m = m
  BY TaskFrom
<1> HIDE DEF t
<1>6. t.m.v2 = (st[p].pub # NoKey) /\ t.m.ctr = st[p].counter + 1
  BY <1>4, <1>5
<1>7. \E x : /\ Now(p, i, x)
             /\ x.at = "advance" /\ x.ck = st[p].send
             /\ x.m.v2 = (st[p].pub # NoKey) /\ x.m.ctr = st[p].counter + 1
  BY <1>3, <1>5, <1>6
<1> QED BY <1>2, <1>7 DEF SendMessage, Free

LEMMA AdvanceFacts ==
  ASSUME TypeOK, NEW p \in Peer, NEW i \in 1..Handlers, ChainAdvanced(p, i)
  PROVE  /\ task[p][i].at = "advance"
         /\ \E t : /\ Now(p, i, t)
                   /\ t.at = "encrypt" /\ t.ck = task[p][i].ck
                   /\ t.m.v2 = task[p][i].m.v2 /\ t.m.ctr = task[p][i].m.ctr
                   /\ t.m.ck = task[p][i].ck
                   /\ t.m.n = IF task[p][i].m.v2 THEN st[p].sendIdx ELSE 0
         /\ st'[p].send = NextChain(task[p][i].ck)
         /\ st'[p].sendIdx = IF task[p][i].m.v2 THEN st[p].sendIdx + 1 ELSE st[p].sendIdx
         /\ st'[p].root = st[p].root /\ st'[p].recv = st[p].recv
         /\ st'[p].recvIdx = st[p].recvIdx /\ st'[p].pub = st[p].pub
         /\ st'[p].priv = st[p].priv /\ st'[p].last = st[p].last
         /\ st'[p].skipped = st[p].skipped
         /\ CountsSame(p)
         /\ UNCHANGED <<made, net, link, links, hasKem, drops, wire, fate>>
<1> DEFINE b == task[p][i]
           n == IF b.m.v2 THEN st[p].sendIdx ELSE 0
           t == [b EXCEPT !.at = "encrypt", !.m.n = n, !.m.ck = b.ck]
           idx == IF b.m.v2 THEN st[p].sendIdx + 1 ELSE st[p].sendIdx
           next == NextChain(b.ck)
<1>1. b \in Task /\ b.m \in Message /\ st[p] \in Session /\ st \in [Peer -> Session]
  BY Typed
<1>2. st' = [st EXCEPT ![p] = [st[p] EXCEPT !.send = next, !.sendIdx = idx]]
      /\ Continue(p, i, t) /\ b.at = "advance"
      /\ UNCHANGED <<made, net, link, links, hasKem, drops, wire, fate>>
  BY <1>1 DEF ChainAdvanced, Local, Waits
<1>3. t.at = "encrypt" /\ t.ck = b.ck /\ t.m = [b.m EXCEPT !.n = n, !.ck = b.ck]
  BY <1>1 DEF Task, Message
<1> HIDE DEF n, idx, next, t
<1>4. t.m.v2 = b.m.v2 /\ t.m.ctr = b.m.ctr /\ t.m.ck = b.ck /\ t.m.n = n
  <2>1. ASSUME NEW x \in Message, NEW ck PROVE
          LET y == [x EXCEPT !.n = n, !.ck = ck]
          IN  y.v2 = x.v2 /\ y.ctr = x.ctr /\ y.ck = ck /\ y.n = n
    BY DEF Message
  <2> QED BY <1>1, <1>3, <2>1
<1>5. \A q \in Peer : q # p => st'[q] = st[q]
  BY <1>1, <1>2
<1>6. st'[p] = [st[p] EXCEPT !.send = next, !.sendIdx = idx]
  BY <1>1, <1>2
<1>7. /\ st'[p].send = next /\ st'[p].sendIdx = idx
      /\ st'[p].root = st[p].root /\ st'[p].recv = st[p].recv
      /\ st'[p].recvIdx = st[p].recvIdx /\ st'[p].pub = st[p].pub
      /\ st'[p].priv = st[p].priv /\ st'[p].last = st[p].last
      /\ st'[p].skipped = st[p].skipped /\ CountsSame(p)
  BY <1>1, <1>6 DEF Session, CountsSame
<1>8. Now(p, i, t)
  BY <1>2, <1>5, Continued DEF t, n
<1>9. \E x : /\ Now(p, i, x)
             /\ x.at = "encrypt" /\ x.ck = b.ck
             /\ x.m.v2 = b.m.v2 /\ x.m.ctr = b.m.ctr
             /\ x.m.ck = b.ck /\ x.m.n = n
  BY <1>3, <1>4, <1>8
<1> QED BY <1>2, <1>7, <1>9 DEF n, idx, next

LEMMA EncryptFacts ==
  ASSUME TypeOK, NEW p \in Peer, NEW i \in 1..Handlers, Encrypted(p, i)
  PROVE  /\ task[p][i].at = "encrypt" /\ Now(p, i, Idle)
         /\ \/ link # "up" /\ UNCHANGED <<net, wire>>
            \/ \E m \in Message :
                 /\ link = "up"
                 /\ m.v2 = task[p][i].m.v2 /\ m.n = task[p][i].m.n /\ m.ck = task[p][i].m.ck
                 /\ m.ctr = task[p][i].m.ctr /\ m.over = links
                 /\ m.pk = IF m.v2 THEN st[p].pub ELSE NoKey
                 /\ net'[Other(p)] = Append(net[Other(p)], m) /\ net'[p] = net[p]
                 /\ wire' = wire \cup {[to |-> Other(p), m |-> m]}
         /\ UNCHANGED <<st, made, link, links, hasKem, drops, fate>>
<1> DEFINE b == task[p][i]
           pk == IF b.m.v2 THEN st[p].pub ELSE NoKey
           m == [b.m EXCEPT !.pk = pk, !.over = links]
<1>1. b.m \in Message /\ links \in Nat /\ pk \in Key
  BY Typed, ConstantTypes DEF Session
<1>2. /\ b.at = "encrypt" /\ Continue(p, i, Idle)
      /\ UNCHANGED <<st, made, link, links, hasKem, drops, fate>>
      /\ IF link = "up"
         THEN /\ net' = [net EXCEPT ![Other(p)] = Append(net[Other(p)], m)]
              /\ wire' = wire \cup {[to |-> Other(p), m |-> m]}
         ELSE UNCHANGED <<net, wire>>
  BY DEF Encrypted, Waits
<1> HIDE DEF pk
<1>3. /\ m \in Message /\ m.v2 = b.m.v2 /\ m.n = b.m.n /\ m.ck = b.m.ck /\ m.ctr = b.m.ctr
      /\ m.over = links /\ m.pk = pk
  BY <1>1 DEF Message
<1> HIDE DEF m
<1>4. Now(p, i, Idle)
  BY <1>2, Continued
<1>5. link = "up" => net'[Other(p)] = Append(net[Other(p)], m) /\ net'[p] = net[p]
  BY <1>2, Typed
<1>6. m.pk = IF m.v2 THEN st[p].pub ELSE NoKey
  BY <1>3 DEF pk
<1>7. CASE link = "up"
  BY <1>2, <1>3, <1>4, <1>5, <1>6, <1>7
<1>8. CASE link # "up"
  BY <1>2, <1>4, <1>8
<1> QED BY <1>7, <1>8

\* Everything of a step of a handler but the keys.
Still == UNCHANGED <<made, net, link, links, hasKem, drops, wire>>

\* What the search for a message's key comes to: a stored key,
Found(p, i, m) ==
  \E k \in 1..Len(st[p].skipped), t \in Task :
    /\ m.n < st[p].recvIdx /\ KeyOf(st[p].skipped[k], m)
    /\ Now(p, i, t)
    /\ t.at = "open" /\ t.m = m /\ t.ck = st[p].skipped[k].ck
    /\ st'[p].root = st[p].root /\ st'[p].send = st[p].send /\ st'[p].recv = st[p].recv
    /\ st'[p].sendIdx = st[p].sendIdx /\ st'[p].recvIdx = st[p].recvIdx
    /\ st'[p].pub = st[p].pub /\ st'[p].priv = st[p].priv /\ st'[p].last = st[p].last
    /\ st'[p].skipped = Without(st[p].skipped, k)
    /\ CountsSame(p)
    /\ fate' = fate

\* none,
Refused(p, i, m) ==
  /\ \/ m.n < st[p].recvIdx /\ fate' = fate \cup {[to |-> p, m |-> m, why |-> "missing"]}
     \/ /\ m.n > st[p].recvIdx + MaxSkip
        /\ fate' = fate \cup {[to |-> p, m |-> m, why |-> "skip"]}
  /\ Now(p, i, Idle)
  /\ st' = st

\* or the chain.
Chained(p, i, m) ==
  \E t \in Task :
    /\ m.n \in st[p].recvIdx..(st[p].recvIdx + MaxSkip)
    /\ Now(p, i, t)
    /\ t.at = IF st[p].recvIdx < m.n THEN "skip" ELSE "take"
    /\ t.m = m /\ t.ck = st[p].recv
    /\ st' = st
    /\ fate' = fate

LEMMA SeekFacts ==
  ASSUME TypeOK, NEW p \in Peer, NEW i \in 1..Handlers, NEW m \in Message, Seek(p, i, m)
  PROVE  Found(p, i, m) \/ Refused(p, i, m) \/ Chained(p, i, m)
<1>1. st[p] \in Session /\ st \in [Peer -> Session]
  BY Typed
<1>2. ASSUME NEW k \in DOMAIN st[p].skipped,
             m.n < st[p].recvIdx, KeyOf(st[p].skipped[k], m),
             st' = [st EXCEPT ![p].skipped = Without(@, k)], UNCHANGED fate,
             Continue(p, i, [Idle EXCEPT !.at = "open", !.m = m, !.ck = st[p].skipped[k].ck])
      PROVE  Found(p, i, m)
  <2> DEFINE t == [Idle EXCEPT !.at = "open", !.m = m, !.ck = st[p].skipped[k].ck]
             sk == Without(st[p].skipped, k)
  <2>1. k \in 1..Len(st[p].skipped) /\ st[p].skipped \in Seq(SkippedKey)
    BY <1>1, LenProperties DEF Session
  <2>2. st[p].skipped[k].ck \in ChainKey
    <3>1. st[p].skipped[k] \in SkippedKey
      BY <2>1, ElementOfSeq
    <3> QED BY <3>1 DEF SkippedKey
  <2>3. t \in Task
    BY <2>2, IdleFacts DEF Task
  <2>4. t.at = "open" /\ t.m = m /\ t.ck = st[p].skipped[k].ck
    BY TaskFrom
  <2>5. st' = [st EXCEPT ![p] = [st[p] EXCEPT !.skipped = sk]]
    BY <1>1, <1>2
  <2> HIDE DEF sk
  <2>6. /\ \A q \in Peer : q # p => st'[q] = st[q]
        /\ st'[p] = [st[p] EXCEPT !.skipped = sk]
    BY <1>1, <2>5
  <2>7. /\ st'[p].root = st[p].root /\ st'[p].send = st[p].send /\ st'[p].recv = st[p].recv
        /\ st'[p].sendIdx = st[p].sendIdx /\ st'[p].recvIdx = st[p].recvIdx
        /\ st'[p].pub = st[p].pub /\ st'[p].priv = st[p].priv /\ st'[p].last = st[p].last
        /\ st'[p].skipped = sk /\ CountsSame(p)
    BY <1>1, <2>6 DEF Session, CountsSame
  <2>8. Now(p, i, t)
    BY <1>2, <2>6, Continued
  <2> HIDE DEF t
  <2> QED BY <1>2, <2>1, <2>3, <2>4, <2>7, <2>8 DEF Found, sk
<1>3. ASSUME UNCHANGED st, NEW why, Ends(p, i, m, why),
             \/ m.n < st[p].recvIdx /\ why = "missing"
             \/ m.n > st[p].recvIdx + MaxSkip /\ why = "skip"
      PROVE  Refused(p, i, m)
  <2>1. Continue(p, i, Idle) /\ fate' = fate \cup {[to |-> p, m |-> m, why |-> why]}
    BY <1>3 DEF Ends
  <2>2. Now(p, i, Idle)
    BY <1>3, <2>1, Continued
  <2> QED BY <1>3, <2>1, <2>2 DEF Refused
<1>4. ASSUME m.n \in st[p].recvIdx..(st[p].recvIdx + MaxSkip), UNCHANGED <<st, fate>>,
             Continue(p, i, [Idle EXCEPT !.at = IF st[p].recvIdx < m.n THEN "skip" ELSE "take",
                                         !.m = m, !.ck = st[p].recv])
      PROVE  Chained(p, i, m)
  <2> DEFINE at == IF st[p].recvIdx < m.n THEN "skip" ELSE "take"
             t == [Idle EXCEPT !.at = at, !.m = m, !.ck = st[p].recv]
  <2>1. at \in {"skip", "take"}
    OBVIOUS
  <2> HIDE DEF at
  <2>2. t \in Task
    BY <1>1, <2>1, IdleFacts DEF Task, Session
  <2>3. t.at = at /\ t.m = m /\ t.ck = st[p].recv
    BY TaskFrom
  <2>4. Now(p, i, t)
    BY <1>4, Continued DEF at
  <2> HIDE DEF t
  <2> QED BY <1>4, <2>2, <2>3, <2>4 DEF Chained, at
<1> QED BY <1>2, <1>3, <1>4 DEF Seek

LEMMA MessageFacts ==
  ASSUME TypeOK, NEW p \in Peer, NEW i \in 1..Handlers, OnMessage(p, i)
  PROVE  /\ link = "up" /\ task[p][i] = Idle
         /\ UNCHANGED <<made, link, links, hasKem, drops, wire>>
         /\ \E m \in Message :
              /\ net[p] # <<>> /\ m = Head(net[p]) /\ net'[p] = Tail(net[p])
              /\ \A q \in Peer : q # p => net'[q] = net[q]
              /\ \/ /\ m.v2 /\ st[p].root # NoRoot /\ st[p].priv # NoKey /\ m.pk # st[p].last
                    /\ st' = st /\ fate' = fate
                    /\ \E t \in Task : /\ Now(p, i, t)
                                       /\ t.at = "root" /\ t.m = m /\ t.dh = {st[p].priv, m.pk}
                 \/ /\ m.v2 /\ (st[p].root = NoRoot \/ st[p].priv = NoKey \/ m.pk = st[p].last)
                    /\ Found(p, i, m) \/ Refused(p, i, m) \/ Chained(p, i, m)
                 \/ /\ ~m.v2
                    /\ st' = st /\ fate' = fate
                    /\ \E t \in Task : /\ Now(p, i, t)
                                       /\ t.at = "bare" /\ t.m = m /\ t.ck = st[p].recv
<1> DEFINE m == Head(net[p])
           a == [Idle EXCEPT !.at = "root", !.m = m, !.dh = {st[p].priv, m.pk}]
           b == [Idle EXCEPT !.at = "bare", !.m = m, !.ck = st[p].recv]
<1>1. /\ st[p] \in Session /\ net[p] \in Seq(Message) /\ net \in [Peer -> Seq(Message)]
  BY Typed
<1>2. /\ link = "up" /\ task[p][i] = Idle /\ net[p] # <<>>
      /\ net' = [net EXCEPT ![p] = Tail(net[p])]
      /\ UNCHANGED <<made, link, links, hasKem, drops, wire>>
  BY DEF OnMessage, Free
<1>3. m \in Message
  BY <1>1, <1>2, HeadTailProperties
<1>4. net'[p] = Tail(net[p]) /\ \A q \in Peer : q # p => net'[q] = net[q]
  BY <1>1, <1>2
<1>5. CASE /\ m.v2 /\ st[p].root # NoRoot /\ st[p].priv # NoKey /\ m.pk # st[p].last
           /\ Continue(p, i, a) /\ UNCHANGED <<st, fate>>
  <2>1. a \in Task
    <3>1. {st[p].priv, m.pk} \in SUBSET Key
      BY <1>1, <1>3 DEF Session, Message
    <3> HIDE DEF m
    <3> QED BY <1>3, <3>1, IdleFacts DEF Task
  <2>2. Now(p, i, a)
    BY <1>5, Continued
  <2>3. a.at = "root" /\ a.m = m /\ a.dh = {st[p].priv, m.pk}
    BY TaskFrom
  <2> HIDE DEF a
  <2> QED BY <1>2, <1>3, <1>4, <1>5, <2>1, <2>2, <2>3
<1>6. CASE /\ m.v2 /\ ~(st[p].root # NoRoot /\ st[p].priv # NoKey /\ m.pk # st[p].last)
           /\ Seek(p, i, m)
  <2>1. Found(p, i, m) \/ Refused(p, i, m) \/ Chained(p, i, m)
    BY <1>3, <1>6, SeekFacts
  <2> QED BY <1>2, <1>3, <1>4, <1>6, <2>1
<1>7. CASE ~m.v2 /\ Continue(p, i, b) /\ UNCHANGED <<st, fate>>
  <2>1. b \in Task
    <3> HIDE DEF m
    <3> QED BY <1>1, <1>3, IdleFacts DEF Task, Session
  <2>2. Now(p, i, b)
    BY <1>7, Continued
  <2>3. b.at = "bare" /\ b.m = m /\ b.ck = st[p].recv
    BY TaskFrom
  <2> HIDE DEF b
  <2> QED BY <1>2, <1>3, <1>4, <1>7, <2>1, <2>2, <2>3
<1> QED BY <1>5, <1>6, <1>7 DEF OnMessage

LEMMA RootFacts ==
  ASSUME TypeOK, NEW p \in Peer, NEW i \in 1..Handlers, RootRead(p, i)
  PROVE  /\ task[p][i].at = "root"
         /\ \E t \in Task : /\ Now(p, i, t)
                            /\ t.at = "commit" /\ t.m = task[p][i].m
                            /\ t.root = AdvanceRoot(st[p].root, task[p][i].dh)
         /\ Still /\ st' = st /\ fate' = fate
<1> DEFINE r == AdvanceRoot(st[p].root, task[p][i].dh)
           t == [task[p][i] EXCEPT !.at = "commit", !.root = r]
<1>1. task[p][i] \in Task /\ st[p] \in Session
  BY Typed
<1>2. r \in RootKey
  BY <1>1, AdvanceRootType DEF Task, Session
<1>3. /\ task[p][i].at = "root" /\ Continue(p, i, t) /\ st' = st /\ fate' = fate
      /\ Still
  BY DEF RootRead, Waits, Local, Still
<1> HIDE DEF r
<1>4. t \in Task /\ t.at = "commit" /\ t.m = task[p][i].m /\ t.root = r
  BY <1>1, <1>2 DEF Task
<1>5. Now(p, i, t)
  BY <1>3, Continued
<1> HIDE DEF t
<1> QED BY <1>3, <1>4, <1>5 DEF r

LEMMA CommitFacts ==
  ASSUME TypeOK, NEW p \in Peer, NEW i \in 1..Handlers, DhCommit(p, i)
  PROVE  LET b == task[p][i]
             own == KeyPair(p, made[p] + 1)
             root == AdvanceRoot(b.root, {own, b.m.pk})
         IN
         /\ b.at = "commit"
         /\ \E t \in Task : Now(p, i, t) /\ t.at = "seek" /\ t.m = b.m
         /\ st'[p].root = root
         /\ st'[p].recv = Chain(b.root, Stepped) /\ st'[p].recvIdx = 0
         /\ st'[p].send = Chain(root, Stepped) /\ st'[p].sendIdx = 0
         /\ st'[p].pub = own /\ st'[p].priv = own /\ st'[p].last = b.m.pk
         /\ st'[p].skipped = <<>>
         /\ CountsSame(p)
         /\ made'[p] = made[p] + 1 /\ \A q \in Peer : q # p => made'[q] = made[q]
         /\ UNCHANGED <<net, link, links, hasKem, drops, wire, fate>>
<1> DEFINE b == task[p][i]
           own == KeyPair(p, made[p] + 1)
           root == AdvanceRoot(b.root, {own, b.m.pk})
           t == [b EXCEPT !.at = "seek"]
           recv == Chain(b.root, Stepped)
           send == Chain(root, Stepped)
           s == [st[p] EXCEPT !.root = root, !.recv = recv, !.recvIdx = 0,
                              !.send = send, !.sendIdx = 0,
                              !.pub = own, !.priv = own, !.last = b.m.pk, !.skipped = <<>>]
<1>1. b \in Task /\ st[p] \in Session /\ st \in [Peer -> Session] /\ made \in [Peer -> Nat]
  BY Typed
<1>2. /\ b.at = "commit" /\ Continue(p, i, t)
      /\ st' = [st EXCEPT ![p] = s]
      /\ made' = [made EXCEPT ![p] = made[p] + 1]
      /\ UNCHANGED <<net, link, links, hasKem, drops, wire, fate>>
  BY <1>1 DEF DhCommit, Waits
<1>3. t \in Task /\ t.at = "seek" /\ t.m = b.m
  BY <1>1 DEF Task
<1> HIDE DEF own, root, recv, send
<1>4. /\ s.root = root /\ s.recv = recv /\ s.recvIdx = 0 /\ s.send = send /\ s.sendIdx = 0
      /\ s.pub = own /\ s.priv = own /\ s.last = b.m.pk /\ s.skipped = <<>>
      /\ s.counter = st[p].counter /\ s.received = st[p].received
  BY <1>1 DEF Session
<1> HIDE DEF s, b
<1>5. st'[p] = s /\ \A q \in Peer : q # p => st'[q] = st[q]
  BY <1>1, <1>2
<1>6. Now(p, i, t)
  BY <1>2, <1>5, Continued
<1> HIDE DEF t
<1>7. made'[p] = made[p] + 1 /\ \A q \in Peer : q # p => made'[q] = made[q]
  BY <1>1, <1>2
<1> QED BY <1>2, <1>3, <1>4, <1>5, <1>6, <1>7 DEF b, own, root, recv, send, CountsSame

LEMMA SoughtFacts ==
  ASSUME TypeOK, NEW p \in Peer, NEW i \in 1..Handlers, Sought(p, i)
  PROVE  /\ task[p][i].at = "seek" /\ task[p][i].m \in Message
         /\ \/ Found(p, i, task[p][i].m) \/ Refused(p, i, task[p][i].m)
            \/ Chained(p, i, task[p][i].m)
         /\ Still
<1>1. task[p][i].m \in Message
  BY Typed
<1>2. task[p][i].at = "seek" /\ Seek(p, i, task[p][i].m) /\ Still
  BY DEF Sought, Waits, Local, Still
<1> QED BY <1>1, <1>2, SeekFacts

LEMMA SkipFacts ==
  ASSUME TypeOK, NEW p \in Peer, NEW i \in 1..Handlers, SkipOne(p, i)
  PROVE  LET b == task[p][i]
             idx == st[p].recvIdx
         IN
         /\ b.at = "skip"
         /\ \E t \in Task : /\ Now(p, i, t)
                            /\ t.at = IF idx + 1 < b.m.n THEN "skip" ELSE "take"
                            /\ t.m = b.m /\ t.ck = NextChain(b.ck)
         /\ st'[p].skipped = Store(st[p].skipped, [pk |-> b.m.pk, n |-> idx, ck |-> b.ck])
         /\ st'[p].recv = NextChain(b.ck) /\ st'[p].recvIdx = idx + 1
         /\ st'[p].root = st[p].root /\ st'[p].send = st[p].send
         /\ st'[p].sendIdx = st[p].sendIdx /\ st'[p].pub = st[p].pub
         /\ st'[p].priv = st[p].priv /\ st'[p].last = st[p].last
         /\ CountsSame(p)
         /\ Still /\ fate' = fate
<1> DEFINE b == task[p][i]
           idx == st[p].recvIdx
           at == IF idx + 1 < b.m.n THEN "skip" ELSE "take"
           next == NextChain(b.ck)
           sk == Store(st[p].skipped, [pk |-> b.m.pk, n |-> idx, ck |-> b.ck])
           t == [b EXCEPT !.at = at, !.ck = next]
           s == [st[p] EXCEPT !.skipped = sk, !.recv = next, !.recvIdx = idx + 1]
<1>1. b \in Task /\ b.ck \in ChainKey /\ st[p] \in Session /\ st \in [Peer -> Session]
  BY Typed DEF Task
<1>2. /\ b.at = "skip" /\ Continue(p, i, t) /\ Still /\ fate' = fate
      /\ st' = [st EXCEPT ![p] = s]
  BY <1>1 DEF SkipOne, Waits, Local, Still
<1>3. at \in {"skip", "take"} /\ next \in ChainKey
  BY <1>1, NextChainType
<1> HIDE DEF at, next, sk
<1>4. t \in Task /\ t.at = at /\ t.m = b.m /\ t.ck = next
  BY <1>1, <1>3 DEF Task
<1>5. /\ s.skipped = sk /\ s.recv = next /\ s.recvIdx = idx + 1
      /\ s.root = st[p].root /\ s.send = st[p].send /\ s.sendIdx = st[p].sendIdx
      /\ s.pub = st[p].pub /\ s.priv = st[p].priv /\ s.last = st[p].last
      /\ s.counter = st[p].counter /\ s.received = st[p].received
  BY <1>1 DEF Session
<1> HIDE DEF s, b
<1>6. st'[p] = s /\ \A q \in Peer : q # p => st'[q] = st[q]
  BY <1>1, <1>2
<1>7. Now(p, i, t)
  BY <1>2, <1>6, Continued
<1> HIDE DEF t
<1> QED BY <1>2, <1>4, <1>5, <1>6, <1>7 DEF at, next, sk, b, CountsSame

LEMMA TakeFacts ==
  ASSUME TypeOK, NEW p \in Peer, NEW i \in 1..Handlers, TakeKey(p, i)
  PROVE  LET b == task[p][i] IN
         /\ b.at \in {"take", "bare"}
         /\ \E t \in Task : Now(p, i, t) /\ t.at = "open" /\ t.m = b.m /\ t.ck = b.ck
         /\ st'[p].recv = NextChain(b.ck)
         /\ st'[p].recvIdx = IF b.at = "take" THEN st[p].recvIdx + 1 ELSE st[p].recvIdx
         /\ st'[p].skipped = st[p].skipped
         /\ st'[p].root = st[p].root /\ st'[p].send = st[p].send
         /\ st'[p].sendIdx = st[p].sendIdx /\ st'[p].pub = st[p].pub
         /\ st'[p].priv = st[p].priv /\ st'[p].last = st[p].last
         /\ CountsSame(p)
         /\ Still /\ fate' = fate
<1> DEFINE b == task[p][i]
           idx == IF b.at = "take" THEN st[p].recvIdx + 1 ELSE st[p].recvIdx
           next == NextChain(b.ck)
           t == [b EXCEPT !.at = "open"]
           s == [st[p] EXCEPT !.recv = next, !.recvIdx = idx]
<1>1. b \in Task /\ st[p] \in Session /\ st \in [Peer -> Session]
  BY Typed
<1>2. /\ b.at \in {"take", "bare"} /\ Continue(p, i, t) /\ Still /\ fate' = fate
      /\ st' = [st EXCEPT ![p] = s]
  BY <1>1 DEF TakeKey, Waits, Local, Still
<1> HIDE DEF idx, next
<1>4. t \in Task /\ t.at = "open" /\ t.m = b.m /\ t.ck = b.ck
  BY <1>1 DEF Task
<1>5. /\ s.recv = next /\ s.recvIdx = idx /\ s.skipped = st[p].skipped
      /\ s.root = st[p].root /\ s.send = st[p].send /\ s.sendIdx = st[p].sendIdx
      /\ s.pub = st[p].pub /\ s.priv = st[p].priv /\ s.last = st[p].last
      /\ s.counter = st[p].counter /\ s.received = st[p].received
  BY <1>1 DEF Session
<1> HIDE DEF s, b
<1>6. st'[p] = s /\ \A q \in Peer : q # p => st'[q] = st[q]
  BY <1>1, <1>2
<1>7. Now(p, i, t)
  BY <1>2, <1>6, Continued
<1> HIDE DEF t
<1> QED BY <1>2, <1>4, <1>5, <1>6, <1>7 DEF idx, next, b, CountsSame

LEMMA OpenFacts ==
  ASSUME TypeOK, NEW p \in Peer, NEW i \in 1..Handlers, Open(p, i)
  PROVE  LET b == task[p][i] IN
         /\ b.at = "open" /\ b.m \in Message /\ b.ck \in ChainKey
         /\ Now(p, i, Idle)
         /\ KeysSame(p) /\ st'[p].counter = st[p].counter
         /\ \/ /\ b.ck = b.m.ck /\ b.m.ctr > st[p].received
               /\ st'[p].received = b.m.ctr
               /\ fate' = fate \cup {[to |-> p, m |-> b.m, why |-> "shown"]}
            \/ /\ b.ck = b.m.ck /\ ~(b.m.ctr > st[p].received)
               /\ st'[p].received = st[p].received
               /\ fate' = fate \cup {[to |-> p, m |-> b.m, why |-> "stale"]}
            \/ /\ b.ck # b.m.ck
               /\ st'[p].received = st[p].received
               /\ fate' = fate \cup {[to |-> p, m |-> b.m, why |-> "unreadable"]}
         /\ Still
<1> DEFINE b == task[p][i]
           readable == b.ck = b.m.ck
           fresh == b.m.ctr > st[p].received
           rec == IF readable /\ fresh THEN b.m.ctr ELSE st[p].received
           why == IF ~readable THEN "unreadable" ELSE IF fresh THEN "shown" ELSE "stale"
           s == [st[p] EXCEPT !.received = rec]
<1>1. b \in Task /\ b.m \in Message /\ b.ck \in ChainKey /\ st[p] \in Session
      /\ st \in [Peer -> Session]
  BY Typed DEF Task
<1>2. /\ b.at = "open" /\ Ends(p, i, b.m, why) /\ Still
      /\ st' = [st EXCEPT ![p] = s]
  BY <1>1 DEF Open, Waits, Local, Still, ValidCounter
<1>3. Continue(p, i, Idle) /\ fate' = fate \cup {[to |-> p, m |-> b.m, why |-> why]}
  BY <1>2 DEF Ends
<1>4. st'[p] = s /\ \A q \in Peer : q # p => st'[q] = st[q]
  BY <1>1, <1>2
<1>5. Now(p, i, Idle)
  BY <1>3, <1>4, Continued
<1> HIDE DEF rec
<1>6. KeysSame(p) /\ st'[p].counter = st[p].counter /\ st'[p].received = rec
  BY <1>1, <1>4 DEF Session, KeysSame
<1>7. CASE readable /\ fresh
  BY <1>1, <1>2, <1>3, <1>5, <1>6, <1>7 DEF rec
<1>8. CASE readable /\ ~fresh
  BY <1>1, <1>2, <1>3, <1>5, <1>6, <1>8 DEF rec
<1>9. CASE ~readable
  BY <1>1, <1>2, <1>3, <1>5, <1>6, <1>9 DEF rec
<1> QED BY <1>7, <1>8, <1>9

LEMMA DropFacts ==
  ASSUME TypeOK, NEW p \in Peer, DropExcess(p)
  PROVE  /\ link = "up" /\ net[p] # <<>> /\ drops' = drops + 1
         /\ net'[p] = Tail(net[p]) /\ \A q \in Peer : q # p => net'[q] = net[q]
         /\ UNCHANGED <<st, made, task, link, links, hasKem, wire, fate>>
<1>1. net \in [Peer -> Seq(Message)]
  BY Typed
<1> QED BY <1>1 DEF DropExcess

LEMMA DownFacts ==
  ASSUME TypeOK, Disconnect
  PROVE  /\ link # "down" /\ link' = "down" /\ \A q \in Peer : net'[q] = <<>>
         /\ UNCHANGED <<st, made, task, links, hasKem, drops, wire, fate>>
BY DEF Disconnect

DirFrom(p) == IF p = Host THEN HostToGuest ELSE GuestToHost

\* What reconnection leaves of an end.
RekeyedAt(p, k) ==
  /\ st'[p].root = st[p].root
  /\ st'[p].send = KemChain(k, DirFrom(p)) /\ st'[p].recv = KemChain(k, DirFrom(Other(p)))
  /\ st'[p].sendIdx = st[p].sendIdx /\ st'[p].recvIdx = st[p].recvIdx
  /\ st'[p].pub = st[p].pub /\ st'[p].priv = st[p].priv /\ st'[p].last = st[p].last
  /\ st'[p].skipped = st[p].skipped
  /\ CountsSame(p)
  /\ \A q \in Peer : q # p => st'[q] = st[q]

LEMMA RekeyedFacts ==
  ASSUME TypeOK, NEW p \in Peer, NEW k, st' = Rekeyed(p, k)
  PROVE  RekeyedAt(p, k)
<1> DEFINE a == KemChain(k, DirFrom(p))
           b == KemChain(k, DirFrom(Other(p)))
<1>1. st[p] \in Session /\ st \in [Peer -> Session]
  BY Typed
<1>2. st' = [st EXCEPT ![p] = [st[p] EXCEPT !.send = a, !.recv = b]]
  BY <1>1 DEF Rekeyed, DirFrom
<1> HIDE DEF a, b
<1>3. /\ st'[p] = [st[p] EXCEPT !.send = a, !.recv = b]
      /\ \A q \in Peer : q # p => st'[q] = st[q]
  BY <1>1, <1>2
<1>4. st'[p].send = a /\ st'[p].recv = b
  BY <1>1, <1>3 DEF Session
<1>5. /\ st'[p].root = st[p].root
      /\ st'[p].sendIdx = st[p].sendIdx /\ st'[p].recvIdx = st[p].recvIdx
      /\ st'[p].pub = st[p].pub /\ st'[p].priv = st[p].priv /\ st'[p].last = st[p].last
      /\ st'[p].skipped = st[p].skipped /\ CountsSame(p)
  BY <1>1, <1>3 DEF Session, CountsSame
<1> QED BY <1>3, <1>4, <1>5 DEF a, b, RekeyedAt

LEMMA AnswerFacts ==
  ASSUME TypeOK, ReconnectAsGuest
  PROVE  /\ link = "down" /\ link' = "answered" /\ links' = links + 1
         /\ \A i \in 1..Handlers : task[Guest][i] = Idle
         /\ RekeyedAt(Guest, links + 1)
         /\ UNCHANGED <<made, task, net, hasKem, drops, wire, fate>>
<1>1. st' = Rekeyed(Guest, links + 1)
  BY DEF ReconnectAsGuest
<1> QED BY <1>1, RekeyedFacts DEF ReconnectAsGuest, Quiet

LEMMA FinalizeFacts ==
  ASSUME TypeOK, FinalizeReconnect
  PROVE  /\ link = "answered" /\ link' = "up" /\ hasKem
         /\ \A i \in 1..Handlers : task[Host][i] = Idle
         /\ RekeyedAt(Host, links)
         /\ UNCHANGED <<made, task, net, links, hasKem, drops, wire, fate>>
<1>1. st' = Rekeyed(Host, links)
  BY DEF FinalizeReconnect
<1> QED BY <1>1, RekeyedFacts DEF FinalizeReconnect, Quiet

LEMMA ReloadFacts ==
  ASSUME TypeOK, NEW p \in Peer, Reload(p)
  PROVE  /\ link' = "down" /\ hasKem' = (hasKem /\ p # Host)
         /\ \A q \in Peer : net'[q] = <<>>
         /\ \A i \in 1..Handlers : task'[p][i] = Idle
         /\ \A q \in Peer : q # p => st'[q] = st[q] /\ task'[q] = task[q]
         /\ st'[p].root = NoRoot /\ st'[p].send = NoChain /\ st'[p].recv = NoChain
         /\ st'[p].sendIdx = 0 /\ st'[p].recvIdx = 0
         /\ st'[p].pub = NoKey /\ st'[p].priv = NoKey /\ st'[p].last = NoKey
         /\ st'[p].skipped = <<>>
         /\ st'[p].counter \in 0..st[p].counter /\ st'[p].received \in 0..st[p].received
         /\ UNCHANGED <<made, links, drops, wire, fate>>
<1>1. PICK c \in 0..st[p].counter, r \in 0..st[p].received :
        st' = [st EXCEPT ![p] = RestoredSession(c, r)]
  BY DEF Reload
<1>2. st'[p] = RestoredSession(c, r) /\ \A q \in Peer : q # p => st'[q] = st[q]
  BY <1>1, Typed
<1>3. /\ st'[p].root = NoRoot /\ st'[p].send = NoChain /\ st'[p].recv = NoChain
      /\ st'[p].sendIdx = 0 /\ st'[p].recvIdx = 0
      /\ st'[p].pub = NoKey /\ st'[p].priv = NoKey /\ st'[p].last = NoKey
      /\ st'[p].skipped = <<>>
      /\ st'[p].counter = c /\ st'[p].received = r
  BY <1>2 DEF RestoredSession
<1>4. /\ \A i \in 1..Handlers : task'[p][i] = Idle
      /\ \A q \in Peer : q # p => task'[q] = task[q]
  BY Typed DEF Reload
<1>5. /\ link' = "down" /\ hasKem' = (hasKem /\ p # Host)
      /\ \A q \in Peer : net'[q] = <<>>
      /\ UNCHANGED <<made, links, drops, wire, fate>>
  BY DEF Reload
<1> QED BY <1>1, <1>2, <1>3, <1>4, <1>5

-----------------------------------------------------------------------------
(* Messages are shown in order *)

Receiving(t) == t.at \notin Sending \cup {"idle"}

\* Nothing of the number c or less can reach p any more: not a receive, not a message on
\* its way, nor a send, unless the session is one that p forgot and no link brings back.
Superseded(p, c) ==
  /\ \A i \in 1..Handlers : Receiving(task[p][i]) => task[p][i].m.ctr > c
  /\ \A k \in 1..Len(net[p]) : net[p][k].ctr > c
  /\ link = "up" =>
       \A i \in 1..Handlers : task[Other(p)][i].at \in Sending => task[Other(p)][i].m.ctr > c
  /\ hasKem => p = Guest /\ c <= st[Host].counter

\* Without the KEM private key no link comes up again; with it the host has forgotten no
\* number, and every message shown has one its receiver remembers or is superseded.
OrderInv ==
  /\ ~hasKem => link # "up"
  /\ hasKem =>
       /\ \A i \in 1..Handlers :
            task[Host][i].at \in Sending => task[Host][i].m.ctr <= st[Host].counter
       /\ \A w \in wire : w.to = Guest => w.m.ctr <= st[Host].counter
  /\ \A f \in fate :
       f.why = "shown" => f.m.ctr <= st[f.to].received \/ Superseded(f.to, f.m.ctr)

\* What a receive, a message on its way, a send and a message that left come from.
ReceiveStep(q, j) ==
  Receiving(task'[q][j]) =>
    \/ Receiving(task[q][j]) /\ task'[q][j].m.ctr = task[q][j].m.ctr
    \/ \E k \in 1..Len(net[q]) : task'[q][j].m.ctr = net[q][k].ctr
NetStep(q) ==
  \A k \in 1..Len(net'[q]) :
    \/ \E l \in 1..Len(net[q]) : net'[q][k].ctr = net[q][l].ctr
    \/ /\ link = "up"
       /\ \E j \in 1..Handlers : /\ task[Other(q)][j].at \in Sending
                                 /\ net'[q][k].ctr = task[Other(q)][j].m.ctr
SendStep(q, j) ==
  task'[q][j].at \in Sending =>
    \/ task[q][j].at \in Sending /\ task'[q][j].m.ctr = task[q][j].m.ctr
    \/ /\ link = "up" /\ st'[q].counter = st[q].counter + 1
       /\ task'[q][j].m.ctr = st'[q].counter
WireStep ==
  \A w \in wire' :
    \/ w \in wire
    \/ \E j \in 1..Handlers : /\ task[Other(w.to)][j].at \in Sending
                              /\ w.m.ctr = task[Other(w.to)][j].m.ctr
OrderStep ==
  /\ hasKem' = hasKem /\ (link' = "up" => link = "up")
  /\ \A q \in Peer : /\ st'[q].counter >= st[q].counter
                     /\ st'[q].received >= st[q].received
                     /\ NetStep(q)
                     /\ \A j \in 1..Handlers : ReceiveStep(q, j) /\ SendStep(q, j)
  /\ WireStep
  /\ \A f \in fate' : f.why = "shown" => f \in fate \/ f.m.ctr <= st'[f.to].received

LEMMA Counts ==
  ASSUME TypeOK
  PROVE  /\ \A q \in Peer : st[q].counter \in Nat /\ st[q].received \in Nat
         /\ \A q \in Peer, j \in 1..Handlers : task[q][j].m.ctr \in Nat
         /\ \A q \in Peer : \A k \in 1..Len(net[q]) : net[q][k].ctr \in Nat
         /\ \A f \in fate : f.to \in Peer /\ f.m.ctr \in Nat
         /\ \A w \in wire : w.to \in Peer /\ w.m.ctr \in Nat
<1>1. \A q \in Peer : st[q].counter \in Nat /\ st[q].received \in Nat
  BY Typed DEF Session
<1>2. \A q \in Peer, j \in 1..Handlers : task[q][j].m.ctr \in Nat
  BY Typed DEF Message
<1>3. ASSUME NEW q \in Peer, NEW k \in 1..Len(net[q]) PROVE net[q][k].ctr \in Nat
  <2>1. net[q][k] \in Message
    BY Typed, ElementOfSeq
  <2> QED BY <2>1 DEF Message
<1>4. \A f \in fate : f.to \in Peer /\ f.m.ctr \in Nat
  BY DEF TypeOK, Fate, Message
<1>5. \A w \in wire : w.to \in Peer /\ w.m.ctr \in Nat
  BY DEF TypeOK, Message
<1> QED BY <1>1, <1>2, <1>3, <1>4, <1>5

LEMMA CountsNext ==
  ASSUME TypeOK'
  PROVE  /\ \A q \in Peer : st'[q].counter \in Nat /\ st'[q].received \in Nat
         /\ \A w \in wire' : w.to \in Peer /\ w.m.ctr \in Nat
<1>1. \A q \in Peer : st'[q] \in Session
  BY DEF TypeOK
<1>2. \A w \in wire' : w.to \in Peer /\ w.m.ctr \in Nat
  BY DEF TypeOK, Message
<1> QED BY <1>1, <1>2 DEF Session

\* What is superseded stays so.
LEMMA SupersededKept ==
  ASSUME TypeOK, TypeOK', OrderInv, OrderStep, NEW p \in Peer, NEW c \in Nat, Superseded(p, c)
  PROVE  Superseded(p, c)'
<1>1. ASSUME NEW i \in 1..Handlers, Receiving(task'[p][i]) PROVE task'[p][i].m.ctr > c
  <2>1. ReceiveStep(p, i)
    BY DEF OrderStep
  <2>2. CASE Receiving(task[p][i]) /\ task'[p][i].m.ctr = task[p][i].m.ctr
    BY <2>2 DEF Superseded
  <2>3. CASE \E k \in 1..Len(net[p]) : task'[p][i].m.ctr = net[p][k].ctr
    BY <2>3 DEF Superseded
  <2> QED BY <1>1, <2>1, <2>2, <2>3 DEF ReceiveStep
<1>2. ASSUME NEW k \in 1..Len(net'[p]) PROVE net'[p][k].ctr > c
  <2>1. NetStep(p)
    BY DEF OrderStep
  <2>2. CASE \E l \in 1..Len(net[p]) : net'[p][k].ctr = net[p][l].ctr
    BY <2>2 DEF Superseded
  <2>3. CASE /\ link = "up"
             /\ \E j \in 1..Handlers : /\ task[Other(p)][j].at \in Sending
                                       /\ net'[p][k].ctr = task[Other(p)][j].m.ctr
    BY <2>3 DEF Superseded
  <2> QED BY <2>1, <2>2, <2>3 DEF NetStep
<1>3. ASSUME link' = "up", NEW i \in 1..Handlers, task'[Other(p)][i].at \in Sending
      PROVE  task'[Other(p)][i].m.ctr > c
  <2>1. link = "up" /\ hasKem /\ SendStep(Other(p), i)
    BY <1>3, Typed DEF OrderStep, OrderInv
  <2>2. CASE /\ task[Other(p)][i].at \in Sending
             /\ task'[Other(p)][i].m.ctr = task[Other(p)][i].m.ctr
    BY <2>1, <2>2 DEF Superseded
  <2>3. CASE /\ st'[Other(p)].counter = st[Other(p)].counter + 1
             /\ task'[Other(p)][i].m.ctr = st'[Other(p)].counter
    <3>1. p = Guest /\ c <= st[Host].counter
      BY <2>1 DEF Superseded
    <3>2. st[Host].counter \in Nat
      BY Counts
    <3> QED BY <2>3, <3>1, <3>2
  <2> QED BY <1>3, <2>1, <2>2, <2>3 DEF SendStep
<1>4. ASSUME hasKem' PROVE p = Guest /\ c <= st'[Host].counter
  <2>1. p = Guest /\ c <= st[Host].counter /\ st'[Host].counter >= st[Host].counter
    BY <1>4 DEF Superseded, OrderStep
  <2>2. st[Host].counter \in Nat /\ st'[Host].counter \in Nat
    BY Counts, CountsNext
  <2> QED BY <2>1, <2>2
<1> QED BY <1>1, <1>2, <1>3, <1>4 DEF Superseded

LEMMA OrderKept ==
  ASSUME TypeOK, TypeOK', OrderInv, OrderStep PROVE OrderInv'
<1>1. ~hasKem' => link' # "up"
  BY DEF OrderInv, OrderStep
<1>2. ASSUME hasKem', NEW i \in 1..Handlers, task'[Host][i].at \in Sending
      PROVE  task'[Host][i].m.ctr <= st'[Host].counter
  <2>1. SendStep(Host, i) /\ st'[Host].counter >= st[Host].counter /\ hasKem
    BY <1>2 DEF OrderStep
  <2>2. st[Host].counter \in Nat /\ st'[Host].counter \in Nat /\ task[Host][i].m.ctr \in Nat
    BY Counts, CountsNext
  <2> QED BY <1>2, <2>1, <2>2 DEF SendStep, OrderInv
<1>3. ASSUME hasKem', NEW w \in wire', w.to = Guest PROVE w.m.ctr <= st'[Host].counter
  <2>1. st'[Host].counter >= st[Host].counter /\ hasKem /\ WireStep
    BY <1>3 DEF OrderStep
  <2>2. st[Host].counter \in Nat /\ st'[Host].counter \in Nat /\ w.m.ctr \in Nat
    BY <1>3, Counts, CountsNext
  <2>3. w.m.ctr <= st[Host].counter
    <3>1. CASE w \in wire
      BY <1>3, <2>1, <3>1 DEF OrderInv
    <3>2. CASE \E j \in 1..Handlers : /\ task[Host][j].at \in Sending
                                      /\ w.m.ctr = task[Host][j].m.ctr
      BY <2>1, <3>2 DEF OrderInv
    <3> QED BY <1>3, <2>1, <3>1, <3>2 DEF WireStep
  <2> QED BY <2>1, <2>2, <2>3
<1>4. ASSUME NEW f \in fate', f.why = "shown"
      PROVE  f.m.ctr <= st'[f.to].received \/ Superseded(f.to, f.m.ctr)'
  <2>1. f \in fate \/ f.m.ctr <= st'[f.to].received
    BY <1>4 DEF OrderStep
  <2>2. CASE f \in fate
    <3>1. f.to \in Peer /\ f.m.ctr \in Nat
      BY <2>2, Counts
    <3>2. /\ st[f.to].received \in Nat /\ st'[f.to].received \in Nat
          /\ st'[f.to].received >= st[f.to].received
      BY <3>1, Counts, CountsNext DEF OrderStep
    <3>3. f.m.ctr <= st[f.to].received \/ Superseded(f.to, f.m.ctr)
      BY <1>4, <2>2 DEF OrderInv
    <3> QED BY <3>1, <3>2, <3>3, SupersededKept
  <2> QED BY <2>1, <2>2
<1> QED BY <1>1, <1>2, <1>3, <1>4 DEF OrderInv

\* A step of a handler is one of these.
LEMMA HandlerOrder ==
  ASSUME TypeOK, NEW p \in Peer, NEW i \in 1..Handlers, NEW t, Now(p, i, t),
         hasKem' = hasKem, link' = link,
         st'[p].counter >= st[p].counter, st'[p].received >= st[p].received,
         Receiving(t) => \/ Receiving(task[p][i]) /\ t.m.ctr = task[p][i].m.ctr
                         \/ \E k \in 1..Len(net[p]) : t.m.ctr = net[p][k].ctr,
         t.at \in Sending => \/ task[p][i].at \in Sending /\ t.m.ctr = task[p][i].m.ctr
                             \/ /\ link = "up" /\ st'[p].counter = st[p].counter + 1
                                /\ t.m.ctr = st'[p].counter,
         \A q \in Peer : NetStep(q), WireStep,
         \A f \in fate' : f.why = "shown" => f \in fate \/ f.m.ctr <= st'[f.to].received
  PROVE  OrderStep
<1>1. \A n \in Nat : n >= n
  OBVIOUS
<1>2. \A q \in Peer : /\ st'[q].counter >= st[q].counter
                      /\ st'[q].received >= st[q].received
  BY <1>1, Counts DEF Now
<1>3. ASSUME NEW q \in Peer, NEW j \in 1..Handlers PROVE ReceiveStep(q, j) /\ SendStep(q, j)
  <2>1. CASE q = p /\ j = i
    BY <2>1 DEF Now, ReceiveStep, SendStep
  <2>2. CASE ~(q = p /\ j = i)
    <3>1. task'[q][j] = task[q][j]
      BY <2>2 DEF Now
    <3> QED BY <3>1 DEF ReceiveStep, SendStep
  <2> QED BY <2>1, <2>2
<1> QED BY <1>2, <1>3 DEF OrderStep

LEMMA SameNetStep == ASSUME UNCHANGED net, NEW q \in Peer PROVE NetStep(q)
BY DEF NetStep

LEMMA SameWireStep == ASSUME UNCHANGED wire PROVE WireStep
BY DEF WireStep

LEMMA TailNetStep ==
  ASSUME TypeOK, NEW p \in Peer, net[p] # <<>>, net'[p] = Tail(net[p]),
         \A q \in Peer : q # p => net'[q] = net[q]
  PROVE  /\ \A q \in Peer : NetStep(q)
         /\ 1 \in 1..Len(net[p]) /\ Head(net[p]) = net[p][1]
<1>1. net[p] \in Seq(Message)
  BY Typed
<1>2. /\ 1 \in 1..Len(net[p]) /\ Head(net[p]) = net[p][1]
      /\ \A k \in 1..Len(net'[p]) : k + 1 \in 1..Len(net[p]) /\ net'[p][k] = net[p][k + 1]
  BY <1>1, HeadTailFacts
<1>3. NetStep(p)
  BY <1>2 DEF NetStep
<1>4. \A q \in Peer : q # p => NetStep(q)
  BY DEF NetStep
<1> QED BY <1>2, <1>3, <1>4

NoneShown == \A f \in fate' : f.why = "shown" => f \in fate

\* An end shows nothing that is older than what it has shown.
ShownLater ==
  \A f \in fate' \ fate, e \in fate :
    f.to = e.to /\ f.why = "shown" /\ e.why = "shown" => f.m.ctr > e.m.ctr

LEMMA SendOrder ==
  ASSUME TypeOK, NEW p \in Peer, NEW i \in 1..Handlers, SendMessage(p, i)
  PROVE  OrderStep /\ NoneShown
<1>1. /\ link = "up" /\ KeysSame(p) /\ st'[p].counter = st[p].counter + 1
      /\ st'[p].received = st[p].received
      /\ UNCHANGED <<made, net, link, links, hasKem, drops, wire, fate>>
  BY SendFacts
<1>2. PICK t : Now(p, i, t) /\ t.at = "advance" /\ t.m.ctr = st[p].counter + 1
  BY SendFacts
<1>3. /\ \A q \in Peer : NetStep(q)
      /\ WireStep
  BY <1>1, SameNetStep, SameWireStep
<1>4. st'[p].counter >= st[p].counter /\ st'[p].received >= st[p].received
  BY <1>1, Counts
<1>5. ~Receiving(t) /\ NoneShown
  BY <1>1, <1>2 DEF Receiving, Sending, NoneShown
<1> QED BY <1>1, <1>2, <1>3, <1>4, <1>5, HandlerOrder DEF NoneShown

\* A step that changes neither counters nor channel.
LEMMA LocalOrder ==
  ASSUME TypeOK, NEW p \in Peer, NEW i \in 1..Handlers, NEW t, Now(p, i, t),
         UNCHANGED <<net, link, hasKem, wire>>, CountsSame(p), NoneShown,
         t.at # "idle" => /\ task[p][i].at # "idle"
                          /\ t.at \in Sending <=> task[p][i].at \in Sending
                          /\ t.m.ctr = task[p][i].m.ctr
  PROVE  OrderStep
<1>1. /\ \A q \in Peer : NetStep(q)
      /\ WireStep
  BY SameNetStep, SameWireStep
<1>2. st'[p].counter >= st[p].counter /\ st'[p].received >= st[p].received
  BY Counts DEF CountsSame
<1>3. Receiving(t) => Receiving(task[p][i]) /\ t.m.ctr = task[p][i].m.ctr
  BY DEF Receiving
<1>4. t.at \in Sending => task[p][i].at \in Sending /\ t.m.ctr = task[p][i].m.ctr
  BY DEF Sending
<1> QED BY <1>1, <1>2, <1>3, <1>4, HandlerOrder DEF NoneShown

LEMMA AdvanceOrder ==
  ASSUME TypeOK, NEW p \in Peer, NEW i \in 1..Handlers, ChainAdvanced(p, i)
  PROVE  OrderStep /\ NoneShown
<1>1. /\ task[p][i].at = "advance" /\ CountsSame(p)
      /\ UNCHANGED <<made, net, link, links, hasKem, drops, wire, fate>>
  BY AdvanceFacts
<1>2. PICK t : Now(p, i, t) /\ t.at = "encrypt" /\ t.m.ctr = task[p][i].m.ctr
  BY AdvanceFacts
<1>3. NoneShown
  BY <1>1 DEF NoneShown
<1> QED BY <1>1, <1>2, <1>3, LocalOrder DEF Sending

LEMMA EncryptOrder ==
  ASSUME TypeOK, NEW p \in Peer, NEW i \in 1..Handlers, Encrypted(p, i)
  PROVE  OrderStep /\ NoneShown
<1>1. /\ task[p][i].at = "encrypt" /\ Now(p, i, Idle)
      /\ UNCHANGED <<st, made, link, links, hasKem, drops, fate>>
  BY EncryptFacts
<1>2. NoneShown /\ task[p][i].at \in Sending
  BY <1>1 DEF NoneShown, Sending
<1>3. CASE UNCHANGED <<net, wire>>
  <2>1. CountsSame(p)
    BY <1>1 DEF CountsSame
  <2> QED BY <1>1, <1>2, <1>3, <2>1, IdleFacts, LocalOrder
<1>4. ASSUME NEW m \in Message, link = "up", m.ctr = task[p][i].m.ctr,
             net'[Other(p)] = Append(net[Other(p)], m), net'[p] = net[p],
             wire' = wire \cup {[to |-> Other(p), m |-> m]}
      PROVE  OrderStep
  <2>1. NetStep(p)
    BY <1>4 DEF NetStep
  <2>2. NetStep(Other(p))
    <3>1. net[Other(p)] \in Seq(Message) /\ Other(Other(p)) = p
      BY Typed
    <3>2. \A k \in 1..Len(net'[Other(p)]) :
            \/ k \in 1..Len(net[Other(p)]) /\ net'[Other(p)][k] = net[Other(p)][k]
            \/ net'[Other(p)][k] = m
      BY <1>4, <3>1, AppendFacts
    <3> QED BY <1>2, <1>4, <3>1, <3>2 DEF NetStep
  <2>3. \A q \in Peer : NetStep(q)
    BY <2>1, <2>2, Typed
  <2>4. WireStep
    <3> SUFFICES ASSUME NEW w \in wire', w \notin wire
                 PROVE  /\ task[Other(w.to)][i].at \in Sending
                        /\ w.m.ctr = task[Other(w.to)][i].m.ctr
      BY DEF WireStep
    <3>1. w = [to |-> Other(p), m |-> m]
      BY <1>4
    <3>2. w.to = Other(p) /\ w.m = m
      BY <3>1
    <3> QED BY <1>2, <1>4, <3>2, Typed
  <2>5. st'[p].counter >= st[p].counter /\ st'[p].received >= st[p].received
    BY <1>1, Counts
  <2>6. ~Receiving(Idle) /\ Idle.at \notin Sending
    BY IdleFacts DEF Receiving, Sending
  <2> QED BY <1>1, <1>2, <2>3, <2>4, <2>5, <2>6, HandlerOrder DEF NoneShown
<1> QED BY <1>2, <1>3, <1>4, EncryptFacts

\* A receive that goes on or ends without showing its message.
LEMMA ReceiveOrder ==
  ASSUME TypeOK, NEW p \in Peer, NEW i \in 1..Handlers, NEW t, NEW m, Now(p, i, t),
         UNCHANGED <<link, hasKem>>, \A q \in Peer : NetStep(q), WireStep,
         CountsSame(p), NoneShown,
         t.at = "idle" \/ (t.at \notin Sending /\ t.m = m),
         \/ (Receiving(task[p][i]) /\ m = task[p][i].m)
         \/ \E k \in 1..Len(net[p]) : m.ctr = net[p][k].ctr
  PROVE  OrderStep
<1>1. st'[p].counter >= st[p].counter /\ st'[p].received >= st[p].received
  BY Counts DEF CountsSame
<1>2. t.at \notin Sending
  BY DEF Sending
<1>3. Receiving(t) => \/ Receiving(task[p][i]) /\ t.m.ctr = task[p][i].m.ctr
                      \/ \E k \in 1..Len(net[p]) : t.m.ctr = net[p][k].ctr
  BY DEF Receiving
<1> QED BY <1>1, <1>2, <1>3, HandlerOrder DEF NoneShown

LEMMA SeekOrder ==
  ASSUME TypeOK, NEW p \in Peer, NEW i \in 1..Handlers, NEW m \in Message,
         Found(p, i, m) \/ Refused(p, i, m) \/ Chained(p, i, m)
  PROVE  /\ \E t \in Task : Now(p, i, t) /\ (t.at = "idle" \/ (t.at \notin Sending /\ t.m = m))
         /\ CountsSame(p) /\ NoneShown
<1>1. CASE Found(p, i, m)
  BY <1>1 DEF Found, Sending, NoneShown
<1>2. CASE Refused(p, i, m)
  <2>1. Now(p, i, Idle) /\ Idle \in Task /\ Idle.at = "idle"
    BY <1>2, IdleFacts DEF Refused
  <2>2. CountsSame(p)
    BY <1>2 DEF Refused, CountsSame
  <2>3. ASSUME NEW f \in fate', f.why = "shown" PROVE f \in fate
    <3>1. PICK why \in {"missing", "skip"} :
            fate' = fate \cup {[to |-> p, m |-> m, why |-> why]}
      BY <1>2 DEF Refused
    <3>2. [to |-> p, m |-> m, why |-> why].why # "shown"
      BY <3>1
    <3> QED BY <2>3, <3>1, <3>2
  <2> QED BY <2>1, <2>2, <2>3 DEF NoneShown
<1>3. CASE Chained(p, i, m)
  <2>1. CountsSame(p) /\ NoneShown
    BY <1>3 DEF Chained, CountsSame, NoneShown
  <2>2. PICK t \in Task : /\ Now(p, i, t)
                          /\ t.at = IF st[p].recvIdx < m.n THEN "skip" ELSE "take"
                          /\ t.m = m
    BY <1>3 DEF Chained
  <2> QED BY <2>1, <2>2 DEF Sending
<1> QED BY <1>1, <1>2, <1>3

LEMMA MessageOrder ==
  ASSUME TypeOK, NEW p \in Peer, NEW i \in 1..Handlers, OnMessage(p, i)
  PROVE  OrderStep /\ NoneShown
<1>1. UNCHANGED <<link, hasKem>> /\ WireStep
  BY MessageFacts, SameWireStep
<1>2. PICK m \in Message :
         /\ net[p] # <<>> /\ m = Head(net[p]) /\ net'[p] = Tail(net[p])
         /\ \A q \in Peer : q # p => net'[q] = net[q]
         /\ \/ /\ st' = st /\ fate' = fate
               /\ \E t \in Task : Now(p, i, t) /\ t.at = "root" /\ t.m = m
            \/ Found(p, i, m) \/ Refused(p, i, m) \/ Chained(p, i, m)
            \/ /\ st' = st /\ fate' = fate
               /\ \E t \in Task : Now(p, i, t) /\ t.at = "bare" /\ t.m = m
  BY MessageFacts
<1>3. /\ \A q \in Peer : NetStep(q)
      /\ \E k \in 1..Len(net[p]) : m.ctr = net[p][k].ctr
  BY <1>2, TailNetStep
<1>4. /\ \E t \in Task : Now(p, i, t) /\ (t.at = "idle" \/ (t.at \notin Sending /\ t.m = m))
      /\ CountsSame(p) /\ NoneShown
  <2>1. CASE Found(p, i, m) \/ Refused(p, i, m) \/ Chained(p, i, m)
    BY <2>1, SeekOrder
  <2>2. CASE /\ st' = st /\ fate' = fate
             /\ \E t \in Task : Now(p, i, t) /\ t.at \in {"root", "bare"} /\ t.m = m
    BY <2>2 DEF CountsSame, NoneShown, Sending
  <2> QED BY <1>2, <2>1, <2>2
<1> QED BY <1>1, <1>3, <1>4, ReceiveOrder

LEMMA SoughtOrder ==
  ASSUME TypeOK, NEW p \in Peer, NEW i \in 1..Handlers, Sought(p, i)
  PROVE  OrderStep /\ NoneShown
<1>1. /\ UNCHANGED <<link, hasKem>> /\ WireStep
      /\ \A q \in Peer : NetStep(q)
  BY SoughtFacts, SameWireStep, SameNetStep DEF Still
<1>2. /\ task[p][i].at = "seek" /\ task[p][i].m \in Message
      /\ \/ Found(p, i, task[p][i].m) \/ Refused(p, i, task[p][i].m)
         \/ Chained(p, i, task[p][i].m)
  BY SoughtFacts
<1>3. Receiving(task[p][i])
  BY <1>2 DEF Receiving, Sending
<1>4. /\ \E t \in Task : /\ Now(p, i, t)
                         /\ t.at = "idle" \/ (t.at \notin Sending /\ t.m = task[p][i].m)
      /\ CountsSame(p) /\ NoneShown
  BY <1>2, SeekOrder
<1> QED BY <1>1, <1>3, <1>4, ReceiveOrder

\* The steps between.
LEMMA BetweenOrder ==
  ASSUME TypeOK, NEW p \in Peer, NEW i \in 1..Handlers,
         RootRead(p, i) \/ DhCommit(p, i) \/ SkipOne(p, i) \/ TakeKey(p, i)
  PROVE  OrderStep /\ NoneShown
<1>1. ASSUME NEW t, Now(p, i, t), UNCHANGED <<net, link, hasKem, wire, fate>>, CountsSame(p),
             Receiving(task[p][i]), t.at \notin Sending, t.m = task[p][i].m
      PROVE  OrderStep /\ NoneShown
  <2>1. NoneShown
    BY <1>1 DEF NoneShown
  <2>2. t.at # "idle" => /\ task[p][i].at # "idle"
                         /\ t.at \in Sending <=> task[p][i].at \in Sending
                         /\ t.m.ctr = task[p][i].m.ctr
    BY <1>1 DEF Receiving, Sending
  <2> QED BY <1>1, <2>1, <2>2, LocalOrder
<1>2. CASE RootRead(p, i)
  BY <1>1, <1>2, RootFacts DEF Still, CountsSame, Receiving, Sending
<1>3. CASE DhCommit(p, i)
  BY <1>1, <1>3, CommitFacts DEF CountsSame, Receiving, Sending
<1>4. CASE SkipOne(p, i)
  <2>1. /\ task[p][i].at = "skip" /\ CountsSame(p)
        /\ UNCHANGED <<net, link, hasKem, wire, fate>>
    BY <1>4, SkipFacts DEF Still
  <2>2. PICK t \in Task :
           /\ Now(p, i, t) /\ t.m = task[p][i].m
           /\ t.at = IF st[p].recvIdx + 1 < task[p][i].m.n THEN "skip" ELSE "take"
    BY <1>4, SkipFacts
  <2>3. t.at \in {"skip", "take"}
    BY <2>2
  <2> QED BY <1>1, <2>1, <2>2, <2>3 DEF Receiving, Sending
<1>5. CASE TakeKey(p, i)
  BY <1>1, <1>5, TakeFacts DEF Still, Receiving, Sending
<1> QED BY <1>2, <1>3, <1>4, <1>5

\* A message is shown whose number is above those the end remembers, and whatever it has
\* forgotten is superseded by the message it shows.
LEMMA OpenOrder ==
  ASSUME TypeOK, OrderInv, NEW p \in Peer, NEW i \in 1..Handlers, Open(p, i)
  PROVE  OrderStep /\ ShownLater
<1> DEFINE b == task[p][i]
<1>1. /\ b.at = "open" /\ Now(p, i, Idle) /\ Still /\ st'[p].counter = st[p].counter
      /\ \/ /\ b.m.ctr > st[p].received /\ st'[p].received = b.m.ctr
            /\ fate' = fate \cup {[to |-> p, m |-> b.m, why |-> "shown"]}
         \/ /\ st'[p].received = st[p].received
            /\ \E why \in {"stale", "unreadable"} :
                 fate' = fate \cup {[to |-> p, m |-> b.m, why |-> why]}
  BY OpenFacts
<1>2. /\ \A q \in Peer : NetStep(q)
      /\ WireStep
  BY <1>1, SameNetStep, SameWireStep DEF Still
<1>3. st[p].counter \in Nat /\ st[p].received \in Nat /\ b.m.ctr \in Nat
  BY Counts
<1>4. st'[p].counter >= st[p].counter /\ st'[p].received >= st[p].received
  BY <1>1, <1>3
<1>5. \A n \in Nat : n <= n
  OBVIOUS
<1>6. ASSUME NEW f \in fate', f.why = "shown", f \notin fate
      PROVE  f.to = p /\ f.m = b.m /\ b.m.ctr > st[p].received /\ st'[p].received = b.m.ctr
  BY <1>1, <1>6
<1>7. ~Receiving(Idle) /\ Idle.at \notin Sending /\ Receiving(b)
  BY <1>1, IdleFacts DEF Receiving, Sending
<1>8. ShownLater
  <2> SUFFICES ASSUME NEW f \in fate', f \notin fate, NEW e \in fate, f.to = e.to,
                      f.why = "shown", e.why = "shown"
               PROVE  f.m.ctr > e.m.ctr
    BY DEF ShownLater
  <2>1. f.to = p /\ f.m = b.m /\ b.m.ctr > st[p].received
    BY <1>6
  <2>2. e.m.ctr <= st[p].received \/ Superseded(p, e.m.ctr)
    BY <2>1 DEF OrderInv
  <2>3. e.m.ctr \in Nat
    BY Counts
  <2>4. CASE e.m.ctr <= st[p].received
    BY <1>3, <2>1, <2>3, <2>4
  <2>5. CASE Superseded(p, e.m.ctr)
    BY <1>7, <2>1, <2>5 DEF Superseded
  <2> QED BY <2>2, <2>4, <2>5
<1>9. \A f \in fate' : f.why = "shown" => f \in fate \/ f.m.ctr <= st'[f.to].received
  BY <1>3, <1>5, <1>6
<1> QED BY <1>1, <1>2, <1>4, <1>7, <1>8, <1>9, HandlerOrder DEF Still

\* The adapters drop, the channel goes, the guest prepares a link, nothing happens.
LEMMA RestOrder ==
  ASSUME TypeOK, (\E p \in Peer : DropExcess(p)) \/ Disconnect \/ ReconnectAsGuest
                 \/ UNCHANGED vars
  PROVE  OrderStep /\ NoneShown
<1>1. ASSUME UNCHANGED <<task, hasKem, wire, fate>>, \A q \in Peer : NetStep(q),
             link' = "up" => link = "up",
             \A q \in Peer : CountsSame(q)
      PROVE  OrderStep /\ NoneShown
  <2>1. \A n \in Nat : n >= n
    OBVIOUS
  <2>2. \A q \in Peer : /\ st'[q].counter >= st[q].counter
                        /\ st'[q].received >= st[q].received
    BY <1>1, <2>1, Counts DEF CountsSame
  <2>3. \A q \in Peer, j \in 1..Handlers : ReceiveStep(q, j) /\ SendStep(q, j)
    BY <1>1 DEF ReceiveStep, SendStep
  <2>4. WireStep /\ NoneShown
    BY <1>1 DEF WireStep, NoneShown
  <2> QED BY <1>1, <2>2, <2>3, <2>4 DEF OrderStep, NoneShown
<1>2. ASSUME NEW p \in Peer, DropExcess(p) PROVE OrderStep /\ NoneShown
  <2>1. \A q \in Peer : NetStep(q)
    BY <1>2, DropFacts, TailNetStep
  <2>2. UNCHANGED <<st, task, link, hasKem, wire, fate>>
    BY <1>2, DropFacts
  <2> QED BY <1>1, <2>1, <2>2 DEF CountsSame
<1>3. CASE Disconnect
  <2>1. /\ link' = "down" /\ \A q \in Peer : net'[q] = <<>>
        /\ UNCHANGED <<st, task, hasKem, wire, fate>>
    BY <1>3, DownFacts
  <2>2. \A q \in Peer : NetStep(q)
    BY <2>1 DEF NetStep
  <2> QED BY <1>1, <2>1, <2>2 DEF CountsSame
<1>4. CASE ReconnectAsGuest
  <2>1. /\ link' = "answered" /\ UNCHANGED <<task, net, hasKem, wire, fate>>
        /\ RekeyedAt(Guest, links + 1)
    BY <1>4, AnswerFacts
  <2>2. \A q \in Peer : CountsSame(q)
    BY <2>1 DEF RekeyedAt, CountsSame
  <2> QED BY <1>1, <2>1, <2>2, SameNetStep
<1>5. CASE UNCHANGED vars
  <2>1. UNCHANGED <<st, task, net, link, hasKem, wire, fate>>
    BY <1>5 DEF vars
  <2> QED BY <1>1, <2>1, SameNetStep DEF CountsSame
<1> QED BY <1>2, <1>3, <1>4, <1>5

\* The host has the KEM private key, and with it all its numbers, when a link comes up:
\* what was superseded at the guest has none of the numbers to come.
LEMMA FinalizeOrder ==
  ASSUME TypeOK, OrderInv, FinalizeReconnect PROVE OrderInv' /\ NoneShown
<1>1. /\ link = "answered" /\ hasKem /\ RekeyedAt(Host, links)
      /\ \A i \in 1..Handlers : task[Host][i] = Idle
      /\ UNCHANGED <<task, net, hasKem, wire, fate>>
  BY FinalizeFacts
<1>2. \A q \in Peer : CountsSame(q)
  BY <1>1 DEF RekeyedAt, CountsSame
<1>3. \A i \in 1..Handlers : task[Host][i].at \notin Sending
  BY <1>1, IdleFacts DEF Sending
<1>4. ASSUME NEW p \in Peer, NEW c, Superseded(p, c) PROVE Superseded(p, c)'
  <2>1. p = Guest /\ c <= st'[Host].counter
    BY <1>1, <1>2, <1>4 DEF Superseded, CountsSame
  <2> QED BY <1>1, <1>3, <1>4, <2>1 DEF Superseded
<1>5. \A f \in fate' :
        f.why = "shown" => f.m.ctr <= st'[f.to].received \/ Superseded(f.to, f.m.ctr)'
  BY <1>1, <1>2, <1>4, Counts DEF OrderInv, CountsSame
<1>6. /\ \A i \in 1..Handlers :
            task'[Host][i].at \in Sending => task'[Host][i].m.ctr <= st'[Host].counter
      /\ \A w \in wire' : w.to = Guest => w.m.ctr <= st'[Host].counter
  BY <1>1, <1>2 DEF OrderInv, CountsSame
<1> QED BY <1>1, <1>5, <1>6 DEF OrderInv, NoneShown

\* A page that reloads forgets numbers.  A host that does has lost the KEM private key; a
\* guest that does has shown only numbers the host remembers.
LEMMA ReloadOrder ==
  ASSUME TypeOK, FlowInv, OrderInv, NEW p \in Peer, Reload(p) PROVE OrderInv' /\ NoneShown
<1>1. /\ link' = "down" /\ hasKem' = (hasKem /\ p # Host)
      /\ \A q \in Peer : net'[q] = <<>>
      /\ \A i \in 1..Handlers : task'[p][i] = Idle
      /\ \A q \in Peer : q # p => st'[q] = st[q] /\ task'[q] = task[q]
      /\ UNCHANGED <<wire, fate>>
  BY ReloadFacts
<1>2. ASSUME hasKem' PROVE p = Guest /\ hasKem /\ st'[Host] = st[Host] /\ task'[Host] = task[Host]
  BY <1>1, <1>2
<1>3. ASSUME NEW q \in Peer, NEW c, Superseded(q, c) PROVE Superseded(q, c)'
  <2>1. \A i \in 1..Handlers : Receiving(task'[q][i]) => task'[q][i].m.ctr > c
    <3>1. CASE q = p
      BY <1>1, <3>1, IdleFacts DEF Receiving
    <3>2. CASE q # p
      BY <1>1, <1>3, <3>2 DEF Superseded
    <3> QED BY <3>1, <3>2
  <2>2. \A k \in 1..Len(net'[q]) : net'[q][k].ctr > c
    BY <1>1
  <2>3. hasKem' => q = Guest /\ c <= st'[Host].counter
    BY <1>2, <1>3 DEF Superseded
  <2> QED BY <1>1, <2>1, <2>2, <2>3 DEF Superseded
<1>4. ASSUME NEW f \in fate, f.why = "shown", f.to = p PROVE Superseded(p, f.m.ctr)'
  <2>1. \A i \in 1..Handlers : ~Receiving(task'[p][i])
    BY <1>1, IdleFacts DEF Receiving
  <2>2. \A k \in 1..Len(net'[p]) : net'[p][k].ctr > f.m.ctr
    BY <1>1
  <2>3. hasKem' => p = Guest /\ f.m.ctr <= st'[Host].counter
    <3> SUFFICES ASSUME hasKem' PROVE p = Guest /\ f.m.ctr <= st[Host].counter
      BY <1>2
    <3> DEFINE w == [to |-> f.to, m |-> f.m]
    <3>1. w \in wire
      BY DEF FlowInv, FatesCame
    <3>2. w.to = Guest /\ w.m = f.m
      BY <1>2, <1>4
    <3> HIDE DEF w
    <3> QED BY <1>2, <3>1, <3>2 DEF OrderInv
  <2> QED BY <1>1, <2>1, <2>2, <2>3 DEF Superseded
<1>5. ASSUME NEW f \in fate', f.why = "shown"
      PROVE  f.m.ctr <= st'[f.to].received \/ Superseded(f.to, f.m.ctr)'
  <2>1. f \in fate /\ f.to \in Peer
    BY <1>1, <1>5, Counts
  <2>2. CASE f.to = p
    BY <1>4, <1>5, <2>1, <2>2
  <2>3. CASE f.to # p
    <3>1. st'[f.to] = st[f.to]
      BY <1>1, <2>1, <2>3
    <3>2. f.m.ctr <= st[f.to].received \/ Superseded(f.to, f.m.ctr)
      BY <1>5, <2>1 DEF OrderInv
    <3> QED BY <1>3, <2>1, <3>1, <3>2
  <2> QED BY <2>2, <2>3
<1>6. hasKem' =>
        /\ \A i \in 1..Handlers :
            task'[Host][i].at \in Sending => task'[Host][i].m.ctr <= st'[Host].counter
        /\ \A w \in wire' : w.to = Guest => w.m.ctr <= st'[Host].counter
  BY <1>1, <1>2 DEF OrderInv
<1> QED BY <1>1, <1>5, <1>6 DEF OrderInv, NoneShown

LEMMA OrderInit == Init => OrderInv
<1> SUFFICES ASSUME Init PROVE OrderInv
  OBVIOUS
<1>1. \A i \in 1..Handlers : task[Host][i].at \notin Sending
  BY IdleFacts DEF Init, Sending
<1> QED BY <1>1 DEF Init, OrderInv

LEMMA OrderNext ==
  ASSUME TypeOK, TypeOK', FlowInv, OrderInv, [Next]_vars PROVE OrderInv' /\ ShownLater
<1>1. ASSUME OrderStep, NoneShown PROVE OrderInv' /\ ShownLater
  BY <1>1, OrderKept DEF NoneShown, ShownLater
<1>2. ASSUME NEW p \in Peer, NEW i \in 1..Handlers, Step(p, i) PROVE OrderInv' /\ ShownLater
  <2>1. CASE Open(p, i)
    BY <2>1, OpenOrder, OrderKept
  <2>2. CASE \/ SendMessage(p, i) \/ ChainAdvanced(p, i) \/ Encrypted(p, i)
             \/ OnMessage(p, i) \/ Sought(p, i)
    BY <1>1, <2>2, SendOrder, AdvanceOrder, EncryptOrder, MessageOrder, SoughtOrder
  <2>3. CASE RootRead(p, i) \/ DhCommit(p, i) \/ SkipOne(p, i) \/ TakeKey(p, i)
    BY <1>1, <2>3, BetweenOrder
  <2> QED BY <1>2, <2>1, <2>2, <2>3 DEF Step
<1>3. CASE (\E p \in Peer : DropExcess(p)) \/ Disconnect \/ ReconnectAsGuest \/ UNCHANGED vars
  BY <1>1, <1>3, RestOrder
<1>4. CASE FinalizeReconnect
  BY <1>4, FinalizeOrder DEF NoneShown, ShownLater
<1>5. ASSUME NEW p \in Peer, Reload(p) PROVE OrderInv' /\ ShownLater
  BY <1>5, ReloadOrder DEF NoneShown, ShownLater
<1> QED BY <1>2, <1>3, <1>4, <1>5 DEF Next

\* For any bounds, and however handlers overlap, links break and pages reload: a number that
\* an end has shown and forgotten with its page is one that no receive, no message on its
\* way and no send reaches any more.  A host that reloads has lost its KEM key too, and
\* without it decapsulateSharedKey never brings the session back.
THEOREM OrderKeeps == Spec => []OrderInv
<1>1. Init => OrderInv
  BY OrderInit
<1>2. TypeOK /\ TypeOK' /\ FlowInv /\ OrderInv /\ [Next]_vars => OrderInv'
  BY OrderNext
<1> QED BY <1>1, <1>2, TypeCorrect, FlowCorrect, PTL DEF Spec

\* So onMessage shows the messages of a session in the order they were written, none twice,
\* although a reload may take validateReceivedCounter back to an older count.
THEOREM InOrder == Spec => ShownInOrder
<1>1. TypeOK /\ TypeOK' /\ FlowInv /\ OrderInv /\ [Next]_vars =>
        [\A f \in fate' \ fate, e \in fate :
           f.to = e.to /\ f.why = "shown" /\ e.why = "shown" => f.m.ctr > e.m.ctr]_vars
  BY OrderNext DEF ShownLater
<1> QED BY <1>1, TypeCorrect, FlowCorrect, OrderKeeps, PTL DEF Spec, ShownInOrder

-----------------------------------------------------------------------------
(* With one handler at a time at each end: the ladder of roots *)

T(p) == task[p][1]
Rooted(p) == st[p].root # NoRoot
Stepping(p) == T(p).at \in {"root", "commit"}

\* The key of p's peer that p has, or is about to have.
Waiting(p) == IF Stepping(p) THEN T(p).m.pk ELSE st[p].last

\* An end that has not reloaded announces the last key pair it made.
RootAt(p) ==
  /\ Rooted(p) => /\ st[p].pub = KeyPair(p, made[p]) /\ st[p].priv = st[p].pub
                  /\ st[p].root.shared = 1 /\ Len(st[p].root.dhs) >= 1
  /\ ~Rooted(p) => st[p].pub = NoKey /\ st[p].priv = NoKey

\* It sends envelopes, and its steps go from its root.
StepAt(p) ==
  /\ T(p).at \in Sending => (T(p).m.v2 <=> Rooted(p))
  /\ \A k \in 1..Len(net[Other(p)]) : net[Other(p)][k].v2 <=> Rooted(p)
  /\ Stepping(p) => Rooted(p)
  /\ T(p).at = "root" => T(p).dh = {st[p].priv, T(p).m.pk}
  /\ T(p).at = "commit" => T(p).root = AdvanceRoot(st[p].root, {st[p].priv, T(p).m.pk})

\* p's root is one step ahead of q's, made with q's key and one that q has not stepped
\* on.  It is q's turn: what q announces is known, and what p announces, once q hears of
\* it, makes q's step.
AheadOf(p, q) ==
  /\ st[p].root = AdvanceRoot(st[q].root, {st[p].pub, st[q].pub})
  /\ st[p].last = st[q].pub
  /\ st[q].last # st[p].pub
  /\ ~Stepping(p)
  /\ \A k \in 1..Len(net[p]) : net[p][k].pk = st[q].pub
  /\ \A k \in 1..Len(net[q]) : net[q][k].pk \in {Waiting(q), st[p].pub}
  /\ \A j, k \in 1..Len(net[q]) :
       j < k /\ net[q][j].pk = st[p].pub => net[q][k].pk = st[p].pub
  /\ Stepping(q) => T(q).m.pk = st[p].pub

LadderInv ==
  /\ \A p \in Peer : RootAt(p) /\ StepAt(p)
  /\ Rooted(Host) /\ Rooted(Guest) => AheadOf(Host, Guest) \/ AheadOf(Guest, Host)

LEMMA OneNow ==
  ASSUME Handlers = 1, NEW p \in Peer, NEW i \in 1..Handlers, NEW t, Now(p, i, t)
  PROVE  /\ i = 1 /\ task[p][i] = T(p) /\ T(p)' = t
         /\ \A q \in Peer : q # p => T(q)' = T(q) /\ st'[q] = st[q]
BY DEF Now, T

\* The roots and the keys announced.
RootsSame(q) ==
  /\ st'[q].root = st[q].root /\ st'[q].pub = st[q].pub /\ st'[q].priv = st[q].priv
  /\ st'[q].last = st[q].last /\ made'[q] = made[q]

\* A handler that makes no step.
Aside(q) ==
  \/ T(q)' = T(q)
  \/ /\ ~Stepping(q) /\ ~Stepping(q)'
     /\ T(q)'.at \in Sending => (T(q)'.m.v2 <=> Rooted(q))

\* A channel that has lost some of what it held.
Within(t, s) ==
  \E d \in {0, 1} : \A k \in 1..Len(t) : k + d \in 1..Len(s) /\ t[k] = s[k + d]

LEMMA WithinSame == ASSUME NEW s, Len(s) \in Nat PROVE Within(s, s)
<1>1. \A k \in 1..Len(s) : k + 0 \in 1..Len(s) /\ s[k] = s[k + 0]
  OBVIOUS
<1> QED BY <1>1 DEF Within

LEMMA WithinTail ==
  ASSUME TypeOK, NEW p \in Peer, net[p] # <<>>, net'[p] = Tail(net[p])
  PROVE  Within(net'[p], net[p])
<1>1. net[p] \in Seq(Message)
  BY Typed
<1>2. \A k \in 1..Len(net'[p]) : k + 1 \in 1..Len(net[p]) /\ net'[p][k] = net[p][k + 1]
  BY <1>1, HeadTailFacts
<1> QED BY <1>2 DEF Within

LEMMA WithinEmpty == \A s : Within(<<>>, s)
<1>1. \A s : \A k \in 1..Len(<<>>) : k + 0 \in 1..Len(s) /\ <<>>[k] = s[k + 0]
  OBVIOUS
<1> QED BY <1>1 DEF Within

\* What a channel keeps when it loses some of what it held.
LEMMA WithinFacts ==
  ASSUME TypeOK, NEW q \in Peer, Within(net'[q], net[q])
  PROVE  /\ \A k \in 1..Len(net'[q]) : \E l \in 1..Len(net[q]) : net'[q][k] = net[q][l]
         /\ \A j, k \in 1..Len(net'[q]) :
              j < k => \E l, n \in 1..Len(net[q]) :
                         l < n /\ net'[q][j] = net[q][l] /\ net'[q][k] = net[q][n]
<1>1. PICK d \in {0, 1} :
        \A k \in 1..Len(net'[q]) : k + d \in 1..Len(net[q]) /\ net'[q][k] = net[q][k + d]
  BY DEF Within
<1>2. \A j, k \in 1..Len(net'[q]) : j < k => j + d < k + d
  BY <1>1
<1> QED BY <1>1, <1>2

\* Nothing that the ladder stands on changes.
LEMMA RootKept ==
  ASSUME NEW q \in Peer, RootAt(q), RootsSame(q) PROVE RootAt(q)' /\ (Rooted(q)' <=> Rooted(q))
BY DEF RootAt, RootsSame, Rooted

LEMMA StepKept ==
  ASSUME TypeOK, NEW q \in Peer, StepAt(q), RootsSame(q), Aside(q),
         Within(net'[Other(q)], net[Other(q)])
  PROVE  StepAt(q)'
<1>1. Rooted(q)' <=> Rooted(q)
  BY DEF RootsSame, Rooted
<1>2. \A k \in 1..Len(net'[Other(q)]) : net'[Other(q)][k].v2 <=> Rooted(q)'
  <2> TAKE k \in 1..Len(net'[Other(q)])
  <2>1. Other(q) \in Peer
    BY Typed
  <2>2. PICK l \in 1..Len(net[Other(q)]) : net'[Other(q)][k] = net[Other(q)][l]
    BY <2>1, WithinFacts
  <2>3. net[Other(q)][l].v2 <=> Rooted(q)
    BY DEF StepAt
  <2> QED BY <1>1, <2>2, <2>3
<1>3. CASE T(q)' = T(q)
  BY <1>1, <1>2, <1>3 DEF StepAt, Stepping, RootsSame
<1>4. CASE /\ ~Stepping(q) /\ ~Stepping(q)'
           /\ T(q)'.at \in Sending => (T(q)'.m.v2 <=> Rooted(q))
  BY <1>1, <1>2, <1>4 DEF StepAt, Stepping
<1> QED BY <1>3, <1>4 DEF Aside

LEMMA AheadKept ==
  ASSUME TypeOK, NEW p \in Peer, NEW q \in Peer, AheadOf(p, q), RootsSame(p), RootsSame(q),
         Aside(p), Aside(q), Within(net'[p], net[p]), Within(net'[q], net[q])
  PROVE  AheadOf(p, q)'
<1>1. /\ Stepping(q)' <=> Stepping(q)
      /\ Stepping(q) => T(q)' = T(q)
      /\ ~Stepping(p)' /\ Waiting(q)' = Waiting(q)
  <2>1. (Stepping(q)' <=> Stepping(q)) /\ (Stepping(q) => T(q)' = T(q))
    BY DEF Aside, Stepping
  <2>2. ~Stepping(p)'
    BY DEF AheadOf, Aside, Stepping
  <2>3. Waiting(q)' = Waiting(q)
    BY <2>1 DEF Waiting, RootsSame
  <2> QED BY <2>1, <2>2, <2>3
<1>2. ASSUME NEW k \in 1..Len(net'[p]) PROVE net'[p][k].pk = st[q].pub
  <2>1. PICK l \in 1..Len(net[p]) : net'[p][k] = net[p][l]
    BY <1>2, WithinFacts
  <2>2. net[p][l].pk = st[q].pub
    BY <2>1 DEF AheadOf
  <2> QED BY <2>1, <2>2
<1>3. ASSUME NEW k \in 1..Len(net'[q]) PROVE net'[q][k].pk \in {Waiting(q), st[p].pub}
  <2>1. PICK l \in 1..Len(net[q]) : net'[q][k] = net[q][l]
    BY <1>3, WithinFacts
  <2>2. net[q][l].pk \in {Waiting(q), st[p].pub}
    BY <2>1 DEF AheadOf
  <2> QED BY <2>1, <2>2
<1>4. ASSUME NEW j \in 1..Len(net'[q]), NEW k \in 1..Len(net'[q]), j < k,
             net'[q][j].pk = st[p].pub
      PROVE  net'[q][k].pk = st[p].pub
  <2>1. PICK l \in 1..Len(net[q]), n \in 1..Len(net[q]) :
          l < n /\ net'[q][j] = net[q][l] /\ net'[q][k] = net[q][n]
    BY <1>4, WithinFacts
  <2> QED BY <1>4, <2>1 DEF AheadOf
<1> QED BY <1>1, <1>2, <1>3, <1>4 DEF AheadOf, RootsSame

LEMMA LadderKept ==
  ASSUME TypeOK, LadderInv,
         \A q \in Peer : RootsSame(q) /\ Aside(q) /\ Within(net'[q], net[q])
  PROVE  LadderInv'
<1>1. \A q \in Peer : RootAt(q)' /\ StepAt(q)' /\ (Rooted(q)' <=> Rooted(q))
  BY RootKept, StepKept, Typed DEF LadderInv
<1>2. AheadOf(Host, Guest) => AheadOf(Host, Guest)'
  BY AheadKept
<1>3. AheadOf(Guest, Host) => AheadOf(Guest, Host)'
  BY AheadKept
<1> QED BY <1>1, <1>2, <1>3 DEF LadderInv

\* A step of a handler that makes none of a root's.
LEMMA LadderAside ==
  ASSUME Handlers = 1, TypeOK, LadderInv, NEW p \in Peer, NEW i \in 1..Handlers, NEW t,
         Now(p, i, t), RootsSame(p), made' = made,
         ~Stepping(p) /\ t.at \notin {"root", "commit"},
         t.at \in Sending => (t.m.v2 <=> Rooted(p)),
         \A q \in Peer : Within(net'[q], net[q])
  PROVE  LadderInv'
<1>1. T(p)' = t /\ \A q \in Peer : q # p => T(q)' = T(q) /\ st'[q] = st[q]
  BY OneNow
<1>2. Aside(p)
  BY <1>1 DEF Aside, Stepping
<1>3. \A q \in Peer : RootsSame(q) /\ Aside(q)
  BY <1>1, <1>2 DEF RootsSame, Aside
<1> QED BY <1>3, LadderKept

LEMMA NetsSame == ASSUME TypeOK, UNCHANGED net PROVE \A q \in Peer : Within(net'[q], net[q])
BY WithinSame, Typed

LEMMA NetsTail ==
  ASSUME TypeOK, NEW p \in Peer, net[p] # <<>>, net'[p] = Tail(net[p]),
         \A q \in Peer : q # p => net'[q] = net[q]
  PROVE  \A q \in Peer : Within(net'[q], net[q])
BY WithinTail, WithinSame, Typed

LEMMA LadderSend ==
  ASSUME Handlers = 1, TypeOK, LadderInv, NEW p \in Peer, NEW i \in 1..Handlers,
         SendMessage(p, i)
  PROVE  LadderInv'
<1>1. /\ task[p][i] = Idle /\ KeysSame(p)
      /\ UNCHANGED <<made, net, link, links, hasKem, drops, wire, fate>>
  BY SendFacts
<1>2. PICK t : Now(p, i, t) /\ t.at = "advance" /\ (t.m.v2 <=> st[p].pub # NoKey)
  BY SendFacts
<1>3. st[p].pub # NoKey <=> Rooted(p)
  BY DEF LadderInv, RootAt, NoKey, KeyPair
<1>4. ~Stepping(p)
  BY <1>1, <1>2, OneNow, IdleFacts DEF Stepping
<1>5. RootsSame(p)
  BY <1>1 DEF KeysSame, RootsSame
<1> QED BY <1>1, <1>2, <1>3, <1>4, <1>5, NetsSame, LadderAside DEF Sending

LEMMA LadderAdvance ==
  ASSUME Handlers = 1, TypeOK, LadderInv, NEW p \in Peer, NEW i \in 1..Handlers,
         ChainAdvanced(p, i)
  PROVE  LadderInv'
<1>1. /\ task[p][i].at = "advance" /\ RootsSame(p) /\ UNCHANGED <<made, net>>
  BY AdvanceFacts DEF RootsSame
<1>2. PICK t : Now(p, i, t) /\ t.at = "encrypt" /\ t.m.v2 = task[p][i].m.v2
  BY AdvanceFacts
<1>3. task[p][i] = T(p)
  BY <1>2, OneNow
<1>4. ~Stepping(p) /\ (t.m.v2 <=> Rooted(p))
  <2>1. T(p).at \in Sending /\ ~Stepping(p)
    BY <1>1, <1>3 DEF Sending, Stepping
  <2>2. T(p).m.v2 <=> Rooted(p)
    BY <2>1 DEF LadderInv, StepAt
  <2> QED BY <1>2, <1>3, <2>1, <2>2
<1> QED BY <1>1, <1>2, <1>4, NetsSame, LadderAside

\* What an end sends carries its key.
LEMMA LadderEncrypt ==
  ASSUME Handlers = 1, TypeOK, LadderInv, NEW p \in Peer, NEW i \in 1..Handlers,
         Encrypted(p, i)
  PROVE  LadderInv'
<1>1. /\ task[p][i].at = "encrypt" /\ Now(p, i, Idle)
      /\ UNCHANGED <<st, made, link, links, hasKem, drops, fate>>
  BY EncryptFacts
<1>2. /\ task[p][i] = T(p) /\ T(p)' = Idle
      /\ \A q \in Peer : q # p => T(q)' = T(q)
      /\ T(p).at \in Sending /\ ~Stepping(p)
  BY <1>1, OneNow DEF Sending, Stepping
<1>3. \A q \in Peer : RootsSame(q) /\ Aside(q)
  BY <1>1, <1>2, IdleFacts DEF RootsSame, Aside, Stepping, Sending
<1>4. CASE UNCHANGED net
  BY <1>3, <1>4, NetsSame, LadderKept
<1>5. ASSUME NEW m \in Message, m.v2 = task[p][i].m.v2,
             m.pk = IF m.v2 THEN st[p].pub ELSE NoKey,
             net'[Other(p)] = Append(net[Other(p)], m), net'[p] = net[p]
      PROVE  LadderInv'
  <2> DEFINE q == Other(p)
  <2>1. q \in Peer /\ q # p /\ Other(q) = p /\ net[q] \in Seq(Message) /\ Len(net[q]) \in Nat
    BY Typed
  <2>2. m.v2 <=> Rooted(p)
    BY <1>2, <1>5 DEF LadderInv, StepAt
  <2>3. /\ \A k \in 1..Len(net'[q]) : \/ k \in 1..Len(net[q]) /\ net'[q][k] = net[q][k]
                                      \/ k = Len(net[q]) + 1 /\ net'[q][k] = m
        /\ Within(net'[p], net[p])
    <3>1. /\ Len(net'[q]) = Len(net[q]) + 1
          /\ \A k \in 1..Len(net[q]) : net'[q][k] = net[q][k]
          /\ net'[q][Len(net[q]) + 1] = m
      BY <1>5, <2>1, AppendFacts
    <3>2. Within(net'[p], net[p])
      BY <1>5, WithinSame, Typed
    <3> QED BY <2>1, <3>1, <3>2
  <2>4. /\ \A x \in Peer : RootAt(x)' /\ (Rooted(x)' <=> Rooted(x))
        /\ StepAt(q)'
    BY <1>3, <2>1, <2>3, RootKept, StepKept DEF LadderInv
  <2>5. StepAt(p)'
    <3>1. \A k \in 1..Len(net'[q]) : net'[q][k].v2 <=> Rooted(p)'
      <4> TAKE k \in 1..Len(net'[q])
      <4>1. CASE k \in 1..Len(net[q]) /\ net'[q][k] = net[q][k]
        <5>1. net[q][k].v2 <=> Rooted(p)
          BY <4>1 DEF LadderInv, StepAt
        <5> QED BY <2>4, <4>1, <5>1
      <4>2. CASE net'[q][k] = m
        BY <2>2, <2>4, <4>2
      <4> QED BY <2>3, <4>1, <4>2
    <3> QED BY <1>2, <3>1, IdleFacts DEF StepAt, Sending, Stepping
  <2>6. ASSUME Rooted(p), AheadOf(p, q) PROVE AheadOf(p, q)'
    <3>1. m.pk = st[p].pub
      BY <1>5, <2>2, <2>6
    <3>2. ~Stepping(p)' /\ T(q)' = T(q) /\ Waiting(q)' = Waiting(q)
      BY <1>1, <1>2, <2>1, IdleFacts DEF Stepping, Waiting
    <3>3. \A k \in 1..Len(net'[q]) : net'[q][k].pk \in {Waiting(q), st[p].pub}
      BY <2>3, <2>6, <3>1 DEF AheadOf
    <3>4. ASSUME NEW j \in 1..Len(net'[q]), NEW k \in 1..Len(net'[q]), j < k,
                 net'[q][j].pk = st[p].pub
          PROVE  net'[q][k].pk = st[p].pub
      <4>1. CASE net'[q][k] = m
        BY <3>1, <4>1
      <4>2. CASE k \in 1..Len(net[q]) /\ net'[q][k] = net[q][k]
        <5>1. j \in 1..Len(net[q]) /\ net'[q][j] = net[q][j]
          BY <2>1, <2>3, <3>4, <4>2
        <5> QED BY <2>6, <3>4, <4>2, <5>1 DEF AheadOf
      <4> QED BY <2>3, <4>1, <4>2
    <3> QED BY <1>1, <1>5, <2>6, <3>2, <3>3, <3>4 DEF AheadOf, Stepping
  <2>7. ASSUME Rooted(p), AheadOf(q, p) PROVE AheadOf(q, p)'
    <3>1. m.pk = st[p].pub
      BY <1>5, <2>2, <2>7
    <3>2. ~Stepping(p)' /\ T(q)' = T(q) /\ Waiting(p)' = Waiting(p)
      BY <1>1, <1>2, <2>1, IdleFacts DEF Stepping, Waiting
    <3>3. \A k \in 1..Len(net'[q]) : net'[q][k].pk = st[p].pub
      <4> TAKE k \in 1..Len(net'[q])
      <4>1. CASE k \in 1..Len(net[q]) /\ net'[q][k] = net[q][k]
        BY <2>7, <4>1 DEF AheadOf
      <4>2. CASE net'[q][k] = m
        BY <3>1, <4>2
      <4> QED BY <2>3, <4>1, <4>2
    <3>4. ~Stepping(q)'
      BY <2>7, <3>2 DEF AheadOf, Stepping
    <3>5. \A k \in 1..Len(net'[p]) : net'[p][k].pk \in {Waiting(p), st[q].pub}
      BY <1>5, <2>7 DEF AheadOf
    <3>6. \A j, k \in 1..Len(net'[p]) :
            j < k /\ net'[p][j].pk = st[q].pub => net'[p][k].pk = st[q].pub
      BY <1>5, <2>7 DEF AheadOf
    <3>7. st' = st
      BY <1>1
    <3> QED BY <2>7, <3>2, <3>3, <3>4, <3>5, <3>6, <3>7 DEF AheadOf
  <2>8. Rooted(Host)' /\ Rooted(Guest)' => AheadOf(p, q)' \/ AheadOf(q, p)'
    BY <2>4, <2>6, <2>7 DEF LadderInv
  <2> QED BY <2>1, <2>4, <2>5, <2>8 DEF LadderInv
<1> QED BY <1>4, <1>5, EncryptFacts

\* What a search for a key leaves.
LEMMA SeekAside ==
  ASSUME TypeOK, NEW p \in Peer, NEW i \in 1..Handlers, NEW m \in Message,
         Found(p, i, m) \/ Refused(p, i, m) \/ Chained(p, i, m)
  PROVE  \E t \in Task : /\ Now(p, i, t) /\ t.at \in {"idle", "open", "skip", "take"}
                         /\ made' = made => RootsSame(p)
<1>1. CASE Found(p, i, m)
  BY <1>1 DEF Found, RootsSame
<1>2. CASE Refused(p, i, m)
  BY <1>2, IdleFacts DEF Refused, RootsSame
<1>3. CASE Chained(p, i, m)
  <2>1. PICK t \in Task : /\ Now(p, i, t)
                          /\ t.at = IF st[p].recvIdx < m.n THEN "skip" ELSE "take"
    BY <1>3 DEF Chained
  <2>2. t.at \in {"skip", "take"}
    BY <2>1
  <2> QED BY <1>3, <2>1, <2>2 DEF Chained, RootsSame
<1> QED BY <1>1, <1>2, <1>3

\* A new key makes a step: it is the one ahead's.
LEMMA LadderRoot ==
  ASSUME Handlers = 1, TypeOK, LadderInv, NEW p \in Peer, NEW i \in 1..Handlers,
         task[p][i] = Idle, NEW m \in Message, net[p] # <<>>, m = Head(net[p]),
         net'[p] = Tail(net[p]), \A q \in Peer : q # p => net'[q] = net[q],
         m.pk # st[p].last, Rooted(p), UNCHANGED <<st, made>>,
         NEW t, Now(p, i, t), t.at = "root", t.m = m, t.dh = {st[p].priv, m.pk}
  PROVE  LadderInv'
<1> DEFINE q == Other(p)
<1>1. q \in Peer /\ q # p /\ Other(q) = p /\ net[p] \in Seq(Message)
  BY Typed
<1>2. /\ T(p) = Idle /\ T(p)' = t /\ T(q)' = T(q) /\ ~Stepping(p) /\ Stepping(p)'
  BY <1>1, OneNow, IdleFacts DEF Stepping
<1>3. \A x \in Peer : RootsSame(x) /\ Within(net'[x], net[x])
  BY NetsTail DEF RootsSame
<1>4. \A x \in Peer : RootAt(x)' /\ (Rooted(x)' <=> Rooted(x))
  BY <1>3, RootKept DEF LadderInv
<1>5. StepAt(q)'
  BY <1>1, <1>2, <1>3, StepKept DEF LadderInv, Aside
<1>6. StepAt(p)'
  <2>1. \A k \in 1..Len(net'[q]) : net'[q][k].v2 <=> Rooted(p)'
    BY <1>1, <1>4 DEF LadderInv, StepAt
  <2> QED BY <1>2, <1>4, <2>1 DEF StepAt, Sending
<1>7. 1 \in 1..Len(net[p]) /\ m = net[p][1]
  BY <1>1, HeadTailFacts
<1>8. ~AheadOf(p, q)
  <2> SUFFICES ASSUME AheadOf(p, q) PROVE FALSE
    OBVIOUS
  <2> QED BY <1>7 DEF AheadOf
<1>9. ASSUME AheadOf(q, p) PROVE AheadOf(q, p)'
  <2>1. m.pk = st[q].pub
    BY <1>2, <1>7, <1>9 DEF AheadOf, Waiting
  <2>2. \A k \in 1..Len(net'[p]) : net'[p][k].pk = st[q].pub
    <3> TAKE k \in 1..Len(net'[p])
    <3>1. k + 1 \in 1..Len(net[p]) /\ net'[p][k] = net[p][k + 1] /\ 1 < k + 1
      BY <1>1, HeadTailFacts
    <3> QED BY <1>7, <1>9, <2>1, <3>1 DEF AheadOf
  <2>3. \A k \in 1..Len(net'[q]) : net'[q][k].pk = st[p].pub
    BY <1>1, <1>9 DEF AheadOf
  <2>4. ~Stepping(q)'
    BY <1>2, <1>9 DEF AheadOf, Stepping
  <2>5. T(p)'.m.pk = st[q].pub
    BY <1>2, <2>1
  <2> QED BY <1>9, <2>2, <2>3, <2>4, <2>5 DEF AheadOf
<1>10. Rooted(Host)' /\ Rooted(Guest)' => AheadOf(q, p)'
  BY <1>1, <1>4, <1>8, <1>9 DEF LadderInv
<1> QED BY <1>1, <1>4, <1>5, <1>6, <1>10 DEF LadderInv

LEMMA LadderMessage ==
  ASSUME Handlers = 1, TypeOK, LadderInv, NEW p \in Peer, NEW i \in 1..Handlers,
         OnMessage(p, i)
  PROVE  LadderInv'
<1>1. task[p][i] = Idle /\ UNCHANGED made
  BY MessageFacts
<1>2. PICK m \in Message :
         /\ net[p] # <<>> /\ m = Head(net[p]) /\ net'[p] = Tail(net[p])
         /\ \A q \in Peer : q # p => net'[q] = net[q]
         /\ \/ /\ m.v2 /\ st[p].root # NoRoot /\ m.pk # st[p].last
               /\ st' = st
               /\ \E t \in Task : /\ Now(p, i, t)
                                  /\ t.at = "root" /\ t.m = m /\ t.dh = {st[p].priv, m.pk}
            \/ Found(p, i, m) \/ Refused(p, i, m) \/ Chained(p, i, m)
            \/ /\ st' = st
               /\ \E t \in Task : Now(p, i, t) /\ t.at = "bare"
  BY MessageFacts
<1>3. \A q \in Peer : Within(net'[q], net[q])
  BY <1>2, NetsTail
<1>4. ASSUME NEW t, Now(p, i, t), RootsSame(p), t.at \in {"idle", "open", "skip", "take", "bare"}
      PROVE  LadderInv'
  <2>1. ~Stepping(p)
    BY <1>1, <1>4, OneNow, IdleFacts DEF Stepping
  <2> QED BY <1>1, <1>3, <1>4, <2>1, LadderAside DEF Sending
<1>5. CASE Found(p, i, m) \/ Refused(p, i, m) \/ Chained(p, i, m)
  BY <1>1, <1>4, <1>5, SeekAside
<1>6. CASE st' = st /\ \E t \in Task : Now(p, i, t) /\ t.at = "bare"
  BY <1>1, <1>4, <1>6 DEF RootsSame
<1>7. CASE /\ m.v2 /\ st[p].root # NoRoot /\ m.pk # st[p].last /\ st' = st
           /\ \E t \in Task : /\ Now(p, i, t)
                              /\ t.at = "root" /\ t.m = m /\ t.dh = {st[p].priv, m.pk}
  BY <1>1, <1>2, <1>7, LadderRoot DEF Rooted
<1> QED BY <1>2, <1>5, <1>6, <1>7

LEMMA LadderRead ==
  ASSUME Handlers = 1, TypeOK, LadderInv, NEW p \in Peer, NEW i \in 1..Handlers,
         RootRead(p, i)
  PROVE  LadderInv'
<1> DEFINE q == Other(p)
<1>1. q \in Peer /\ q # p /\ Other(q) = p
  BY Typed
<1>2. task[p][i].at = "root" /\ UNCHANGED <<st, made, net>>
  BY RootFacts DEF Still
<1>3. PICK t \in Task : /\ Now(p, i, t) /\ t.at = "commit" /\ t.m = task[p][i].m
                        /\ t.root = AdvanceRoot(st[p].root, task[p][i].dh)
  BY RootFacts
<1>4. /\ T(p) = task[p][i] /\ T(p)' = t /\ T(q)' = T(q) /\ Stepping(p) /\ Stepping(p)'
  BY <1>1, <1>2, <1>3, OneNow DEF Stepping
<1>5. \A x \in Peer : RootsSame(x) /\ Within(net'[x], net[x])
  BY <1>2, NetsSame DEF RootsSame
<1>6. \A x \in Peer : RootAt(x)' /\ (Rooted(x)' <=> Rooted(x))
  BY <1>5, RootKept DEF LadderInv
<1>7. StepAt(q)'
  BY <1>1, <1>4, <1>5, StepKept DEF LadderInv, Aside
<1>8. StepAt(p)'
  <2>1. Rooted(p) /\ T(p).dh = {st[p].priv, T(p).m.pk}
    BY <1>2, <1>4 DEF LadderInv, StepAt
  <2>2. \A k \in 1..Len(net'[q]) : net'[q][k].v2 <=> Rooted(p)'
    BY <1>2, <1>6 DEF LadderInv, StepAt
  <2> QED BY <1>2, <1>3, <1>4, <1>6, <2>1, <2>2 DEF StepAt, Sending
<1>9. ~AheadOf(p, q)
  BY <1>4 DEF AheadOf
<1>10. AheadOf(q, p) => AheadOf(q, p)'
  <2>1. Stepping(q)' <=> Stepping(q)
    BY <1>4 DEF Stepping
  <2>2. Waiting(p)' = Waiting(p) /\ T(p)'.m = T(p).m
    BY <1>2, <1>3, <1>4 DEF Waiting
  <2> QED BY <1>2, <1>4, <2>1, <2>2 DEF AheadOf
<1>11. Rooted(Host)' /\ Rooted(Guest)' => AheadOf(q, p)'
  BY <1>1, <1>6, <1>9, <1>10 DEF LadderInv
<1> QED BY <1>1, <1>6, <1>7, <1>8, <1>11 DEF LadderInv

\* The one behind steps over the one ahead.
LEMMA LadderCommit ==
  ASSUME Handlers = 1, TypeOK, LadderInv, NEW p \in Peer, NEW i \in 1..Handlers,
         DhCommit(p, i)
  PROVE  LadderInv'
<1> DEFINE q == Other(p)
           own == KeyPair(p, made[p] + 1)
           root == AdvanceRoot(T(p).root, {own, T(p).m.pk})
<1>1. q \in Peer /\ q # p /\ Other(q) = p /\ made[p] \in Nat
  BY Typed
<1>2. PICK t \in Task : Now(p, i, t) /\ t.at = "seek"
  BY CommitFacts
<1>3. T(p) = task[p][i] /\ T(p)' = t /\ T(q)' = T(q) /\ st'[q] = st[q]
  BY <1>1, <1>2, OneNow
<1>4. /\ T(p).at = "commit" /\ Stepping(p)
      /\ st'[p].root = root
      /\ st'[p].pub = own /\ st'[p].priv = own /\ st'[p].last = T(p).m.pk
      /\ made'[p] = made[p] + 1 /\ made'[q] = made[q] /\ net' = net
  <2>1. /\ task[p][i].at = "commit"
        /\ st'[p].root = AdvanceRoot(task[p][i].root, {own, task[p][i].m.pk})
        /\ st'[p].pub = own /\ st'[p].priv = own /\ st'[p].last = task[p][i].m.pk
        /\ made'[p] = made[p] + 1 /\ \A x \in Peer : x # p => made'[x] = made[x]
        /\ net' = net
    BY CommitFacts
  <2> QED BY <1>1, <1>3, <2>1 DEF Stepping
<1>5. /\ Rooted(p) /\ st[p].priv = st[p].pub /\ st[p].pub = KeyPair(p, made[p])
      /\ T(p).root = AdvanceRoot(st[p].root, {st[p].pub, T(p).m.pk})
      /\ st[p].root.shared = 1
  BY <1>4 DEF LadderInv, StepAt, RootAt
<1>6. own # st[p].pub
  BY <1>1, <1>5 DEF KeyPair
<1>7. root.shared = 1 /\ Len(root.dhs) >= 1 /\ root # NoRoot
  <2>1. st[p].root \in RootKey /\ T(p).root \in RootKey
    <3>1. st[p] \in Session /\ T(p) \in Task
      BY <1>3, Typed
    <3> QED BY <3>1 DEF Session, Task
  <2>2. T(p).root.shared = 1 /\ T(p).root.dhs \in Seq(SUBSET Key)
    BY <1>5, <2>1 DEF AdvanceRoot, RootKey, Dhs
  <2>3. root.shared = 1 /\ root.dhs = Append(T(p).root.dhs, {own, T(p).m.pk})
    BY <2>1, <2>2 DEF AdvanceRoot, RootKey
  <2>4. own \in Key /\ T(p).m.pk \in Key
    <3>1. T(p).m \in Message
      BY <1>3, Typed
    <3> QED BY <1>1, <3>1, ConstantTypes DEF Message
  <2>5. Len(root.dhs) >= 1
    <3> HIDE DEF own, root
    <3>1. Len(root.dhs) = Len(T(p).root.dhs) + 1 /\ Len(T(p).root.dhs) \in Nat
      BY <2>2, <2>3, <2>4, AppendProperties, LenProperties
    <3> QED BY <3>1
  <2>6. NoRoot.shared = 0
    BY DEF NoRoot
  <2> QED BY <2>3, <2>5, <2>6
<1> HIDE DEF root
<1>8. Rooted(p)' /\ RootAt(p)'
  BY <1>4, <1>7 DEF RootAt, Rooted
<1>9. RootAt(q)' /\ (Rooted(q)' <=> Rooted(q))
  BY <1>1, <1>3, <1>4 DEF LadderInv, RootAt, Rooted
<1>10. StepAt(q)'
  <2>1. RootsSame(q) /\ Aside(q) /\ Within(net'[p], net[p])
    BY <1>1, <1>3, <1>4, NetsSame DEF RootsSame, Aside
  <2> QED BY <1>1, <2>1, StepKept DEF LadderInv
<1>11. StepAt(p)'
  <2>1. \A k \in 1..Len(net'[q]) : net'[q][k].v2 <=> Rooted(p)'
    BY <1>4, <1>5, <1>8 DEF LadderInv, StepAt
  <2> QED BY <1>2, <1>3, <2>1 DEF StepAt, Stepping, Sending
<1>12. ~AheadOf(p, q)
  BY <1>4 DEF AheadOf
<1>13. ASSUME AheadOf(q, p) PROVE AheadOf(p, q)'
  <2>1. T(p).m.pk = st[q].pub /\ Waiting(p) = st[q].pub
    BY <1>4, <1>13 DEF AheadOf, Waiting
  <2>2. T(p).root = st[q].root
    <3>1. {st[p].pub, st[q].pub} = {st[q].pub, st[p].pub}
      OBVIOUS
    <3> QED BY <1>5, <1>13, <2>1, <3>1 DEF AheadOf
  <2>3. st'[p].root = AdvanceRoot(st'[q].root, {st'[p].pub, st'[q].pub})
    BY <1>3, <1>4, <2>1, <2>2 DEF root
  <2>4. st'[p].last = st'[q].pub /\ st'[q].last # st'[p].pub
    BY <1>3, <1>4, <1>6, <1>13, <2>1 DEF AheadOf
  <2>5. ~Stepping(p)' /\ ~Stepping(q)'
    BY <1>2, <1>3, <1>13 DEF Stepping, AheadOf
  <2>6. \A k \in 1..Len(net'[p]) : net'[p][k].pk = st'[q].pub
    BY <1>3, <1>4, <1>13, <2>1 DEF AheadOf
  <2>7. \A k \in 1..Len(net'[q]) : net'[q][k].pk = st[p].pub
    BY <1>4, <1>13 DEF AheadOf
  <2>8. Waiting(q)' = st[p].pub
    BY <1>3, <1>13, <2>5 DEF Waiting, AheadOf
  <2>9. \A k \in 1..Len(net'[q]) : net'[q][k].pk # st'[p].pub
    BY <1>4, <1>6, <2>7
  <2> QED BY <2>3, <2>4, <2>5, <2>6, <2>7, <2>8, <2>9 DEF AheadOf
<1>14. Rooted(Host)' /\ Rooted(Guest)' => AheadOf(p, q)'
  BY <1>1, <1>5, <1>9, <1>12, <1>13 DEF LadderInv
<1> QED BY <1>1, <1>8, <1>9, <1>10, <1>11, <1>14 DEF LadderInv

LEMMA LadderSought ==
  ASSUME Handlers = 1, TypeOK, LadderInv, NEW p \in Peer, NEW i \in 1..Handlers,
         Sought(p, i)
  PROVE  LadderInv'
<1>1. /\ task[p][i].at = "seek" /\ Still /\ task[p][i].m \in Message
      /\ \/ Found(p, i, task[p][i].m) \/ Refused(p, i, task[p][i].m)
         \/ Chained(p, i, task[p][i].m)
  BY SoughtFacts
<1>2. PICK t \in Task : /\ Now(p, i, t) /\ t.at \in {"idle", "open", "skip", "take"}
                        /\ RootsSame(p)
  BY <1>1, SeekAside DEF Still
<1>3. ~Stepping(p)
  BY <1>1, <1>2, OneNow DEF Stepping
<1>4. \A q \in Peer : Within(net'[q], net[q])
  BY <1>1, NetsSame DEF Still
<1> QED BY <1>1, <1>2, <1>3, <1>4, LadderAside DEF Still, Sending

LEMMA LadderOthers ==
  ASSUME Handlers = 1, TypeOK, LadderInv, NEW p \in Peer, NEW i \in 1..Handlers,
         SkipOne(p, i) \/ TakeKey(p, i) \/ Open(p, i)
  PROVE  LadderInv'
<1>1. ASSUME NEW t, Now(p, i, t), RootsSame(p), Still, t.at \in {"idle", "open", "skip", "take"},
             task[p][i].at \in {"skip", "take", "bare", "open"}
      PROVE  LadderInv'
  <2>1. ~Stepping(p)
    BY <1>1, OneNow DEF Stepping
  <2>2. \A q \in Peer : Within(net'[q], net[q])
    BY <1>1, NetsSame DEF Still
  <2> QED BY <1>1, <2>1, <2>2, LadderAside DEF Still, Sending
<1>2. CASE SkipOne(p, i)
  <2>1. PICK t \in Task :
           /\ Now(p, i, t)
           /\ t.at = IF st[p].recvIdx + 1 < task[p][i].m.n THEN "skip" ELSE "take"
    BY <1>2, SkipFacts
  <2>2. task[p][i].at = "skip" /\ Still /\ RootsSame(p)
    BY <1>2, SkipFacts DEF RootsSame, Still
  <2>3. t.at \in {"skip", "take"}
    BY <2>1
  <2> QED BY <1>1, <2>1, <2>2, <2>3
<1>3. CASE TakeKey(p, i)
  <2>1. PICK t \in Task : Now(p, i, t) /\ t.at = "open"
    BY <1>3, TakeFacts
  <2>2. task[p][i].at \in {"take", "bare"} /\ Still /\ RootsSame(p)
    BY <1>3, TakeFacts DEF RootsSame, Still
  <2> QED BY <1>1, <2>1, <2>2
<1>4. CASE Open(p, i)
  <2>1. Now(p, i, Idle) /\ task[p][i].at = "open" /\ Still /\ KeysSame(p)
    BY <1>4, OpenFacts
  <2>2. RootsSame(p)
    BY <2>1 DEF RootsSame, KeysSame, Still
  <2> QED BY <1>1, <2>1, <2>2, IdleFacts
<1> QED BY <1>2, <1>3, <1>4

LEMMA LadderRest ==
  ASSUME TypeOK, LadderInv,
         \/ \E p \in Peer : DropExcess(p)
         \/ Disconnect \/ ReconnectAsGuest \/ FinalizeReconnect \/ UNCHANGED vars
  PROVE  LadderInv'
<1>1. ASSUME UNCHANGED <<made, task>>, \A q \in Peer : Within(net'[q], net[q]),
             \A q \in Peer : /\ st'[q].root = st[q].root /\ st'[q].pub = st[q].pub
                             /\ st'[q].priv = st[q].priv /\ st'[q].last = st[q].last
      PROVE  LadderInv'
  <2>1. \A q \in Peer : RootsSame(q) /\ Aside(q)
    BY <1>1 DEF RootsSame, Aside, T
  <2> QED BY <1>1, <2>1, LadderKept
<1>2. ASSUME NEW p \in Peer, DropExcess(p) PROVE LadderInv'
  <2>1. /\ net[p] # <<>> /\ net'[p] = Tail(net[p])
        /\ \A q \in Peer : q # p => net'[q] = net[q]
        /\ UNCHANGED <<st, made, task>>
    BY <1>2, DropFacts
  <2> QED BY <1>1, <2>1, NetsTail
<1>3. CASE Disconnect
  <2>1. (\A q \in Peer : net'[q] = <<>>) /\ UNCHANGED <<st, made, task>>
    BY <1>3, DownFacts
  <2> QED BY <1>1, <2>1, WithinEmpty
<1>4. ASSUME NEW p \in Peer, NEW k, RekeyedAt(p, k), UNCHANGED <<made, task, net>>
      PROVE  LadderInv'
  <2>1. \A q \in Peer : /\ st'[q].root = st[q].root /\ st'[q].pub = st[q].pub
                        /\ st'[q].priv = st[q].priv /\ st'[q].last = st[q].last
    BY <1>4 DEF RekeyedAt
  <2> QED BY <1>1, <1>4, <2>1, NetsSame
<1>5. CASE ReconnectAsGuest
  BY <1>4, <1>5, AnswerFacts
<1>6. CASE FinalizeReconnect
  BY <1>4, <1>6, FinalizeFacts
<1>7. CASE UNCHANGED vars
  <2>1. UNCHANGED <<st, made, task, net>>
    BY <1>7 DEF vars
  <2> QED BY <1>1, <2>1, NetsSame
<1> QED BY <1>2, <1>3, <1>5, <1>6, <1>7

\* An end that reloads is on the ladder no more.
LEMMA LadderReload ==
  ASSUME Handlers = 1, TypeOK, LadderInv, NEW p \in Peer, Reload(p) PROVE LadderInv'
<1> DEFINE q == Other(p)
<1>1. q \in Peer /\ q # p /\ Other(q) = p
  BY Typed
<1>2. /\ \A x \in Peer : net'[x] = <<>>
      /\ st'[q] = st[q] /\ task'[q] = task[q] /\ T(p)' = Idle
      /\ st'[p].root = NoRoot /\ st'[p].pub = NoKey /\ st'[p].priv = NoKey
      /\ made' = made
  BY <1>1, ReloadFacts DEF T
<1>3. ~Rooted(p)' /\ RootAt(p)' /\ StepAt(p)'
  BY <1>1, <1>2, IdleFacts DEF Rooted, RootAt, StepAt, Stepping, Sending
<1>4. RootsSame(q) /\ Aside(q) /\ Within(net'[p], net[p])
  BY <1>2, WithinEmpty DEF RootsSame, Aside, T
<1>5. RootAt(q)' /\ StepAt(q)'
  BY <1>1, <1>4, RootKept, StepKept DEF LadderInv
<1> QED BY <1>1, <1>3, <1>5 DEF LadderInv

LEMMA LadderInit == ASSUME Handlers = 1 PROVE Init => LadderInv
<1> SUFFICES ASSUME Init PROVE LadderInv
  OBVIOUS
<1>1. /\ st[Host].root = InitRoot /\ st[Guest].root = GuestRoot
      /\ st[Host].pub = KeyPair(Host, 1) /\ st[Guest].pub = KeyPair(Guest, 2)
      /\ st[Host].priv = KeyPair(Host, 1) /\ st[Guest].priv = KeyPair(Guest, 2)
      /\ st[Host].last = KeyPair(Guest, 1) /\ st[Guest].last = KeyPair(Host, 1)
      /\ made[Host] = 1 /\ made[Guest] = 2
      /\ \A p \in Peer : net[p] = <<>> /\ T(p) = Idle
  BY DEF Init, InitSession, T
<1>2. KeyPair(Guest, 1) # KeyPair(Guest, 2)
  BY DEF KeyPair
<1>3. /\ InitRoot.shared = 1 /\ Len(InitRoot.dhs) >= 1 /\ InitRoot # NoRoot
      /\ GuestRoot.shared = 1 /\ Len(GuestRoot.dhs) >= 1 /\ GuestRoot # NoRoot
  <2> DEFINE d == {KeyPair(Host, 1), KeyPair(Guest, 1)}
             e == {KeyPair(Host, 1), KeyPair(Guest, 2)}
  <2>1. InitRoot = [shared |-> 1, dhs |-> <<d>>]
    BY DEF InitRoot
  <2> HIDE DEF d, e
  <2>2. InitRoot.shared = 1 /\ InitRoot.dhs = <<d>> /\ InitRoot # NoRoot
    BY <2>1 DEF NoRoot
  <2>3. GuestRoot = [shared |-> 1, dhs |-> Append(<<d>>, e)]
    BY <2>1 DEF GuestRoot, AdvanceRoot, e
  <2>4. Len(Append(<<d>>, e)) = 2
    <3>1. <<d>> \in Seq({d, e}) /\ e \in {d, e} /\ Len(<<d>>) = 1
      OBVIOUS
    <3> QED BY <3>1, AppendProperties
  <2>5. GuestRoot.shared = 1 /\ Len(GuestRoot.dhs) >= 1 /\ GuestRoot # NoRoot
    BY <2>3, <2>4 DEF NoRoot
  <2>6. Len(InitRoot.dhs) >= 1
    BY <2>2
  <2> QED BY <2>2, <2>5, <2>6
<1>4. \A p \in Peer : Rooted(p) /\ ~Stepping(p) /\ T(p).at \notin Sending
  BY <1>1, <1>3, IdleFacts DEF Rooted, Stepping, Sending
<1>5. \A p \in Peer : RootAt(p)
  BY <1>1, <1>3, <1>4 DEF RootAt
<1>6. \A p \in Peer : StepAt(p)
  BY <1>1, <1>4, IdleFacts DEF StepAt
<1>7. AheadOf(Guest, Host)
  <2>1. GuestRoot = AdvanceRoot(InitRoot, {KeyPair(Guest, 2), KeyPair(Host, 1)})
    <3>1. {KeyPair(Host, 1), KeyPair(Guest, 2)} = {KeyPair(Guest, 2), KeyPair(Host, 1)}
      OBVIOUS
    <3> QED BY <3>1 DEF GuestRoot
  <2> QED BY <1>1, <1>2, <1>4, <2>1 DEF AheadOf
<1> QED BY <1>5, <1>6, <1>7 DEF LadderInv

LEMMA LadderNext ==
  ASSUME Handlers = 1, TypeOK, LadderInv, [Next]_vars PROVE LadderInv'
<1>1. ASSUME NEW p \in Peer, NEW i \in 1..Handlers, Step(p, i) PROVE LadderInv'
  BY <1>1, LadderSend, LadderAdvance, LadderEncrypt, LadderMessage, LadderRead, LadderCommit,
     LadderSought, LadderOthers DEF Step
<1>2. ASSUME NEW p \in Peer, Reload(p) PROVE LadderInv'
  BY <1>2, LadderReload
<1>3. CASE \/ \E p \in Peer : DropExcess(p)
           \/ Disconnect \/ ReconnectAsGuest \/ FinalizeReconnect \/ UNCHANGED vars
  BY <1>3, LadderRest
<1> QED BY <1>1, <1>2, <1>3 DEF Next

LEMMA AppendedLast ==
  ASSUME NEW S, NEW seq \in Seq(S), NEW elt \in S
  PROVE  /\ Len(Append(seq, elt)) = Len(seq) + 1
         /\ Append(seq, elt)[Len(seq) + 1] = elt
BY AppendProperties

LEMMA AheadOnLadder ==
  ASSUME TypeOK, NEW p \in Peer, NEW q \in Peer, AheadOf(p, q)
  PROVE  OneAhead(st[p].root, st[q].root)
<1> DEFINE d == {st[p].pub, st[q].pub}
<1>1. /\ st[q].root \in RootKey /\ d \in SUBSET Key
  BY Typed DEF Session
<1>2. st[p].root = AdvanceRoot(st[q].root, d)
  BY DEF AheadOf
<1> HIDE DEF d
<1>3. st[q].root.dhs \in Seq(SUBSET Key) /\ st[p].root.dhs = Append(st[q].root.dhs, d)
  BY <1>1, <1>2 DEF AdvanceRoot, RootKey, Dhs
<1>4. /\ Len(st[p].root.dhs) = Len(st[q].root.dhs) + 1
      /\ st[p].root.dhs[Len(st[q].root.dhs) + 1] = d
  <2>1. /\ Len(Append(st[q].root.dhs, d)) = Len(st[q].root.dhs) + 1
        /\ Append(st[q].root.dhs, d)[Len(st[q].root.dhs) + 1] = d
    <3>1. st[q].root.dhs \in Seq(SUBSET Key) /\ d \in SUBSET Key
      BY <1>1, <1>3
    <3> QED BY <3>1, AppendedLast, ZenonT(40)
  <2> QED BY <1>3, <2>1
<1>5. st[p].root.dhs[Len(st[p].root.dhs)] = d
  BY <1>4
<1> QED BY <1>2, <1>4, <1>5 DEF OneAhead

\* With one handler at a time at each end, and any bounds: an end that has not reloaded
\* announces the key pair of its last _performDhRatchetStep, and of two such ends one is a
\* step ahead, made with the other's key and one of its own that the other has yet to step
\* on.
THEOREM LadderHolds == ASSUME Handlers = 1 PROVE Spec => []LadderInv
<1>1. Init => LadderInv
  BY LadderInit
<1>2. TypeOK /\ LadderInv /\ [Next]_vars => LadderInv'
  BY LadderNext
<1> QED BY <1>1, <1>2, TypeCorrect, PTL DEF Spec

\* So the roots of the two ends stay on one ladder, whatever is sent, dropped or reloaded,
\* and however often they reconnect: the next DH step of either end heals the chains that
\* a reconnection put at odds.
THEOREM RootsOnOneLadder == ASSUME Handlers = 1 PROVE Spec => []OneLadder
<1>1. TypeOK /\ LadderInv => OneLadder
  BY AheadOnLadder DEF LadderInv, OneLadder, Rooted
<1> QED BY <1>1, TypeCorrect, LadderHolds, PTL

=============================================================================
