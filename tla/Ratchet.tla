------------------------------ MODULE Ratchet ------------------------------
(***************************************************************************)
(* The double ratchet of SessionManager.js over the data channel of one    *)
(* session: _ratchetEncrypt, _ratchetDecrypt and _performDhRatchetStep cut *)
(* at their awaits, the channel between the two ends, and what reloads and *)
(* reconnections do to the keys.                                           *)
(*                                                                         *)
(* Keys are symbolic.  A key pair is known by its owner and a number, a DH *)
(* output is the set of its two public keys, and a root key is the KEM     *)
(* secret it began with and the DH outputs mixed in since.  A chain is     *)
(* known by the root it came with, or by the secret alone when             *)
(* deriveRatchetKeys made it, and its direction; a chain key by its chain  *)
(* and the advances made on it; the message key of an advance by the chain *)
(* key advanced.  Decryption succeeds with the message's own key.          *)
(***************************************************************************)
EXTENDS Naturals, Sequences, FiniteSets

CONSTANTS
  MaxSkip,        \* MAX_SKIP of _ratchetDecrypt (100)
  Handlers,       \* sends and receives that may be under way at one end
  MaxHostSends,   \* bounds: messages of the host,
  MaxGuestSends,  \* messages of the guest,
  MaxLinks,       \* connections,
  MaxDrops,       \* messages the receiving adapters drop,
  MaxReloads      \* and page reloads

ASSUME BoundsAssumption ==
  /\ MaxSkip \in Nat
  /\ Handlers \in Nat \ {0}
  /\ {MaxHostSends, MaxGuestSends, MaxLinks, MaxDrops, MaxReloads} \subseteq Nat

Host == "host"
Guest == "guest"
Peer == {Host, Guest}
Other(p) == IF p = Host THEN Guest ELSE Host
MaxSends(p) == IF p = Host THEN MaxHostSends ELSE MaxGuestSends

VARIABLES
  st,        \* the ratchet fields of each end's session
  made,      \* ratchet key pairs each end has generated
  task,      \* the handlers under way at each end
  net,       \* messages on their way to each end, in order
  link,      \* "up"; "down"; "answered": the guest's side is ready again
  links,     \* connections begun, and KEM secrets made: one for each
  hasKem,    \* the host holds its KEM private key in memory
  sends, drops, reloads,   \* counted against the bounds
  wire,      \* messages that left, with their receiver
  fate       \* what became of those the receiver handled

vars == <<st, made, task, net, link, links, hasKem, sends, drops, reloads, wire, fate>>

-----------------------------------------------------------------------------
\* Keys.
KeyPair(p, k) == [by |-> p, k |-> k]
NoKey == [by |-> "none", k |-> 0]

NoRoot == [shared |-> 0, dhs |-> <<>>]

\* The root part of advanceRootChain.
AdvanceRoot(root, dh) == [root EXCEPT !.dhs = Append(@, dh)]

Chain(root, dir) == [shared |-> root.shared, dhs |-> root.dhs, dir |-> dir, n |-> 0]

\* Mutated: each reconnection derives the chains from the first secret.
KemChainOfFirst(k, dir) == Chain([shared |-> 1, dhs |-> <<>>], dir)

\* deriveRatchetKeys: from the secret alone, whatever the root is.
KemChain(k, dir) == Chain([shared |-> k, dhs |-> <<>>], dir)

NoChain == Chain(NoRoot, "none")

\* advanceChain.
NextChain(ck) == [ck EXCEPT !.n = @ + 1]

HostToGuest == "host->guest"
GuestToHost == "guest->host"
Stepped == "step"      \* the one chain that an advance of the root gives

\* The state finalizeSession and joinSession leave: initDhRatchet on both
\* sides, then the guest's own first step, whose key pair (number 2) only its
\* messages announce.
InitRoot == [shared |-> 1, dhs |-> <<{KeyPair(Host, 1), KeyPair(Guest, 1)}>>]

\* Mutated: the guest steps with its old key pair and announces the new one.
GuestRootOldKey == AdvanceRoot(InitRoot, {KeyPair(Host, 1), KeyPair(Guest, 1)})

GuestRoot == AdvanceRoot(InitRoot, {KeyPair(Host, 1), KeyPair(Guest, 2)})

InitSession ==
  [p \in Peer |->
     [root |-> IF p = Host THEN InitRoot ELSE GuestRoot,
      send |-> IF p = Host THEN Chain(InitRoot, HostToGuest)
               ELSE Chain(GuestRoot, Stepped),
      recv |-> Chain(InitRoot, IF p = Host THEN GuestToHost ELSE HostToGuest),
      sendIdx |-> 0, recvIdx |-> 0,
      pub |-> KeyPair(p, IF p = Host THEN 1 ELSE 2),
      priv |-> KeyPair(p, IF p = Host THEN 1 ELSE 2),
      last |-> KeyPair(Other(p), 1),
      skipped |-> <<>>,
      counter |-> 0, received |-> 0]]

\* What fromSerializable restores without stored secrets, with the counters of
\* the last save that finished.
RestoredSession(counter, received) ==
  [root |-> NoRoot, send |-> NoChain, recv |-> NoChain, sendIdx |-> 0, recvIdx |-> 0,
   pub |-> NoKey, priv |-> NoKey, last |-> NoKey, skipped |-> <<>>,
   counter |-> counter, received |-> received]

\* A message: in a v2 envelope, with the public key and index of its header,
\* or bare; the chain key whose message key encrypted it; its counter; and, for
\* the properties, the connection it went over.
NoMsg == [v2 |-> FALSE, pk |-> NoKey, n |-> 0, ck |-> NoChain, ctr |-> 0, over |-> 0]

\* A handler: where it waits, and its local variables.
Idle == [at |-> "idle", m |-> NoMsg, ck |-> NoChain, dh |-> {}, root |-> NoRoot]

Init ==
  /\ st = InitSession
  /\ made = [p \in Peer |-> IF p = Host THEN 1 ELSE 2]
  /\ task = [p \in Peer |-> [i \in 1..Handlers |-> Idle]]
  /\ net = [p \in Peer |-> <<>>]
  /\ link = "up"
  /\ links = 1
  /\ hasKem = TRUE
  /\ sends = [p \in Peer |-> 0]
  /\ drops = 0
  /\ reloads = 0
  /\ wire = {}
  /\ fate = {}

-----------------------------------------------------------------------------
\* Handlers are taken in order.
Free(p, i) ==
  /\ task[p][i] = Idle
  /\ \A j \in 1..(i - 1) : task[p][j] # Idle

Waits(p, i, at) == task[p][i].at = at

Continue(p, i, t) == task' = [task EXCEPT ![p][i] = t]

Quiet(p) == \A i \in 1..Handlers : task[p][i] = Idle

Ends(p, i, m, why) ==
  /\ Continue(p, i, Idle)
  /\ fate' = fate \cup {[to |-> p, m |-> m, why |-> why]}

\* Nothing but the session and the handlers changes.
Local == UNCHANGED <<made, net, link, links, hasKem, sends, drops, reloads, wire>>

-----------------------------------------------------------------------------
\* sendMessage to the await of advanceChain, whose argument is the chain key of
\* that moment.
SendMessage(p, i) ==
  /\ link = "up"
  /\ Free(p, i)
  /\ sends[p] < MaxSends(p)
  /\ sends' = [sends EXCEPT ![p] = @ + 1]
  /\ st' = [st EXCEPT ![p].counter = @ + 1]
  /\ Continue(p, i,
       [Idle EXCEPT !.at = "advance", !.ck = st[p].send,
                    !.m = [NoMsg EXCEPT !.v2 = st[p].pub # NoKey,
                                        !.ctr = st[p].counter + 1]])
  /\ UNCHANGED <<made, net, link, links, hasKem, drops, reloads, wire, fate>>

\* _ratchetEncrypt from advanceChain to the await of encrypt.
ChainAdvanced(p, i) ==
  LET t == task[p][i] IN
  /\ Waits(p, i, "advance")
  /\ st' = [st EXCEPT ![p].send = NextChain(t.ck),
                      ![p].sendIdx = IF t.m.v2 THEN @ + 1 ELSE @]
  /\ Continue(p, i, [t EXCEPT !.at = "encrypt",
                              !.m.n = IF t.m.v2 THEN st[p].sendIdx ELSE 0,
                              !.m.ck = t.ck])
  /\ Local /\ UNCHANGED fate

\* The envelope takes the public key of this moment; send throws without an
\* open channel.
Encrypted(p, i) ==
  LET t == task[p][i]
      m == [t.m EXCEPT !.pk = IF t.m.v2 THEN st[p].pub ELSE NoKey, !.over = links]
  IN
  /\ Waits(p, i, "encrypt")
  /\ Continue(p, i, Idle)
  /\ IF link = "up"
     THEN /\ net' = [net EXCEPT ![Other(p)] = Append(@, m)]
          /\ wire' = wire \cup {[to |-> Other(p), m |-> m]}
     ELSE UNCHANGED <<net, wire>>
  /\ UNCHANGED <<st, made, link, links, hasKem, sends, drops, reloads, fate>>

-----------------------------------------------------------------------------
\* _ratchetDecrypt once it knows the sender's key: a stored key, an error, or
\* the chain, first for the gap and then for the message itself.
KeyOf(sk, m) == sk.pk = m.pk /\ sk.n = m.n

\* The map sk less its entry k.
Without(sk, k) == SubSeq(sk, 1, k - 1) \o SubSeq(sk, k + 1, Len(sk))

Seek(p, i, m) ==
  LET s == st[p] IN
  \/ /\ m.n < s.recvIdx
     /\ \E k \in DOMAIN s.skipped :
          /\ KeyOf(s.skipped[k], m)
          /\ st' = [st EXCEPT ![p].skipped = Without(@, k)]
          /\ Continue(p, i, [Idle EXCEPT !.at = "open", !.m = m, !.ck = s.skipped[k].ck])
     /\ UNCHANGED fate
  \/ /\ m.n < s.recvIdx
     /\ \A k \in DOMAIN s.skipped : ~KeyOf(s.skipped[k], m)
     /\ Ends(p, i, m, "missing")
     /\ UNCHANGED st
  \/ /\ m.n > s.recvIdx + MaxSkip
     /\ Ends(p, i, m, "skip")
     /\ UNCHANGED st
  \/ /\ m.n \in s.recvIdx..(s.recvIdx + MaxSkip)
     /\ Continue(p, i, [Idle EXCEPT !.at = IF s.recvIdx < m.n THEN "skip" ELSE "take",
                                    !.m = m, !.ck = s.recv])
     /\ UNCHANGED <<st, fate>>

\* onMessage to its first await.
OnMessage(p, i) ==
  LET m == Head(net[p])
      s == st[p]
      newKey == s.root # NoRoot /\ s.priv # NoKey /\ m.pk # s.last
  IN
  /\ link = "up"
  /\ Free(p, i)
  /\ net[p] # <<>>
  /\ net' = [net EXCEPT ![p] = Tail(@)]
  /\ \/ /\ m.v2 /\ newKey
        /\ Continue(p, i, [Idle EXCEPT !.at = "root", !.m = m, !.dh = {s.priv, m.pk}])
        /\ UNCHANGED <<st, fate>>
     \/ /\ m.v2 /\ ~newKey
        /\ Seek(p, i, m)
     \/ /\ ~m.v2
        /\ Continue(p, i, [Idle EXCEPT !.at = "bare", !.m = m, !.ck = s.recv])
        /\ UNCHANGED <<st, fate>>
  /\ UNCHANGED <<made, link, links, hasKem, sends, drops, reloads, wire>>

\* _performDhRatchetStep reads the root when the first DH output is there.
RootRead(p, i) ==
  /\ Waits(p, i, "root")
  /\ Continue(p, i, [task[p][i] EXCEPT !.at = "commit",
                                       !.root = AdvanceRoot(st[p].root, task[p][i].dh)])
  /\ Local /\ UNCHANGED <<st, fate>>

\* Its updates, all at once after the last await.
DhCommit(p, i) ==
  LET t == task[p][i]
      own == KeyPair(p, made[p] + 1)
      root == AdvanceRoot(t.root, {own, t.m.pk})
  IN
  /\ Waits(p, i, "commit")
  /\ made' = [made EXCEPT ![p] = @ + 1]
  /\ st' = [st EXCEPT ![p] = [@ EXCEPT !.root = root,
                                       !.recv = Chain(t.root, Stepped), !.recvIdx = 0,
                                       !.send = Chain(root, Stepped), !.sendIdx = 0,
                                       !.pub = own, !.priv = own, !.last = t.m.pk,
                                       !.skipped = <<>>]]
  /\ Continue(p, i, [t EXCEPT !.at = "seek"])
  /\ UNCHANGED <<net, link, links, hasKem, sends, drops, reloads, wire, fate>>

Sought(p, i) ==
  /\ Waits(p, i, "seek")
  /\ Seek(p, i, task[p][i].m)
  /\ Local

\* One turn of the loop over a gap.  Setting an entry of the map that is there
\* keeps its place; the map keeps its newest 2 * MaxSkip keys.
Put(sk, e) ==
  IF \E k \in DOMAIN sk : KeyOf(sk[k], e)
  THEN [k \in DOMAIN sk |-> IF KeyOf(sk[k], e) THEN e ELSE sk[k]]
  ELSE Append(sk, e)

Store(sk, e) ==
  LET put == Put(sk, e) IN IF Len(put) > 2 * MaxSkip THEN Tail(put) ELSE put

SkipOne(p, i) ==
  LET t == task[p][i]
      idx == st[p].recvIdx
  IN
  /\ Waits(p, i, "skip")
  /\ st' = [st EXCEPT ![p].skipped = Store(@, [pk |-> t.m.pk, n |-> idx, ck |-> t.ck]),
                      ![p].recv = NextChain(t.ck),
                      ![p].recvIdx = idx + 1]
  /\ Continue(p, i, [t EXCEPT !.at = IF idx + 1 < t.m.n THEN "skip" ELSE "take",
                              !.ck = NextChain(t.ck)])
  /\ Local /\ UNCHANGED fate

\* Mutated: the chain key stays until a DH step replaces it.
TakeKeyKept(p, i) ==
  LET t == task[p][i] IN
  /\ Waits(p, i, "take") \/ Waits(p, i, "bare")
  /\ st' = [st EXCEPT ![p].recvIdx = IF t.at = "take" THEN @ + 1 ELSE @]
  /\ Continue(p, i, [t EXCEPT !.at = "open"])
  /\ Local /\ UNCHANGED fate

\* The message's own key: the chain moves on before the key is tried.
TakeKey(p, i) ==
  LET t == task[p][i] IN
  /\ Waits(p, i, "take") \/ Waits(p, i, "bare")
  /\ st' = [st EXCEPT ![p].recv = NextChain(t.ck),
                      ![p].recvIdx = IF t.at = "take" THEN @ + 1 ELSE @]
  /\ Continue(p, i, [t EXCEPT !.at = "open"])
  /\ Local /\ UNCHANGED fate

\* validateReceivedCounter, for jumps below its limit of 10,000.
ValidCounter(s, ctr) == ctr > s.received

\* Mutated: the counter is not looked at.
OpenAny(p, i) ==
  LET t == task[p][i]
      readable == t.ck = t.m.ck
  IN
  /\ Waits(p, i, "open")
  /\ st' = [st EXCEPT ![p].received = IF readable THEN t.m.ctr ELSE @]
  /\ Ends(p, i, t.m, IF readable THEN "shown" ELSE "unreadable")
  /\ Local

\* decrypt, then validateReceivedCounter and the message list.
Open(p, i) ==
  LET t == task[p][i]
      readable == t.ck = t.m.ck
      fresh == ValidCounter(st[p], t.m.ctr)
  IN
  /\ Waits(p, i, "open")
  /\ st' = [st EXCEPT ![p].received = IF readable /\ fresh THEN t.m.ctr ELSE @]
  /\ Ends(p, i, t.m, IF ~readable THEN "unreadable" ELSE IF fresh THEN "shown" ELSE "stale")
  /\ Local

\* The adapter drops what exceeds its size or rate limit.
DropExcess(p) ==
  /\ link = "up"
  /\ net[p] # <<>>
  /\ drops < MaxDrops
  /\ drops' = drops + 1
  /\ net' = [net EXCEPT ![p] = Tail(@)]
  /\ UNCHANGED <<st, made, task, link, links, hasKem, sends, reloads, wire, fate>>

-----------------------------------------------------------------------------
\* Mutated: what the channel held stays.
DisconnectKept ==
  /\ link # "down"
  /\ link' = "down"
  /\ UNCHANGED <<st, made, task, net, links, hasKem, sends, drops, reloads, wire, fate>>

\* The channel goes with what it held, on either end's wish or on its own.
Disconnect ==
  /\ link # "down"
  /\ link' = "down"
  /\ net' = [p \in Peer |-> <<>>]
  /\ UNCHANGED <<st, made, task, links, hasKem, sends, drops, reloads, wire, fate>>

\* Mutated: reconnection restarts the root as well.
RekeyedRoot(p, k) ==
  [st EXCEPT ![p].root = [shared |-> k, dhs |-> <<>>],
             ![p].send = KemChain(k, IF p = Host THEN HostToGuest ELSE GuestToHost),
             ![p].recv = KemChain(k, IF p = Host THEN GuestToHost ELSE HostToGuest)]

\* Mutated: reconnection forgets the peer's last key, and so the next message
\* makes a DH step of a key that had its step.
RekeyedForgetful(p, k) ==
  [st EXCEPT ![p].last = NoKey,
             ![p].send = KemChain(k, IF p = Host THEN HostToGuest ELSE GuestToHost),
             ![p].recv = KemChain(k, IF p = Host THEN GuestToHost ELSE HostToGuest)]

\* Reconnection replaces both chains and nothing else.  Codes pass by hand, so
\* what an end had under way is over by then.
Rekeyed(p, k) ==
  [st EXCEPT ![p].send = KemChain(k, IF p = Host THEN HostToGuest ELSE GuestToHost),
             ![p].recv = KemChain(k, IF p = Host THEN GuestToHost ELSE HostToGuest)]

ReconnectAsGuest ==
  /\ link = "down"
  /\ links < MaxLinks
  /\ Quiet(Guest)
  /\ st' = Rekeyed(Guest, links + 1)
  /\ links' = links + 1
  /\ link' = "answered"
  /\ UNCHANGED <<made, task, net, hasKem, sends, drops, reloads, wire, fate>>

\* Without the KEM private key decapsulation throws.
FinalizeReconnect ==
  /\ link = "answered"
  /\ Quiet(Host)
  /\ hasKem
  /\ st' = Rekeyed(Host, links)
  /\ link' = "up"
  /\ UNCHANGED <<made, task, net, links, hasKem, sends, drops, reloads, wire, fate>>

\* The saves under way are lost with the page, so the counters may be older ones.
Reload(p) ==
  /\ reloads < MaxReloads
  /\ reloads' = reloads + 1
  /\ \E c \in 0..st[p].counter, r \in 0..st[p].received :
       st' = [st EXCEPT ![p] = RestoredSession(c, r)]
  /\ task' = [task EXCEPT ![p] = [i \in 1..Handlers |-> Idle]]
  /\ hasKem' = (hasKem /\ p # Host)
  /\ link' = "down"
  /\ net' = [q \in Peer |-> <<>>]
  /\ UNCHANGED <<made, links, sends, drops, wire, fate>>

Step(p, i) ==
  \/ SendMessage(p, i) \/ ChainAdvanced(p, i) \/ Encrypted(p, i)
  \/ OnMessage(p, i) \/ RootRead(p, i) \/ DhCommit(p, i) \/ Sought(p, i)
  \/ SkipOne(p, i) \/ TakeKey(p, i) \/ Open(p, i)

Next ==
  \/ \E p \in Peer, i \in 1..Handlers : Step(p, i)
  \/ \E p \in Peer : DropExcess(p) \/ Reload(p)
  \/ Disconnect
  \/ ReconnectAsGuest
  \/ FinalizeReconnect

Spec == Init /\ [][Next]_vars

-----------------------------------------------------------------------------
Key == [by : Peer \cup {"none"}, k : Nat]
Dir == {HostToGuest, GuestToHost, Stepped, "none"}
Dhs == Seq(SUBSET Key)
RootKey == [shared : Nat, dhs : Dhs]
ChainKey == [shared : Nat, dhs : Dhs, dir : Dir, n : Nat]
Message == [v2 : BOOLEAN, pk : Key, n : Nat, ck : ChainKey, ctr : Nat, over : Nat]
SkippedKey == [pk : Key, n : Nat, ck : ChainKey]
Session ==
  [root : RootKey, send : ChainKey, recv : ChainKey, sendIdx : Nat, recvIdx : Nat,
   pub : Key, priv : Key, last : Key, skipped : Seq(SkippedKey),
   counter : Nat, received : Nat]
Task ==
  [at : {"idle", "advance", "encrypt", "root", "commit", "seek", "skip", "take",
         "bare", "open"},
   m : Message, ck : ChainKey, dh : SUBSET Key, root : RootKey]
Fate ==
  [to : Peer, m : Message, why : {"shown", "stale", "unreadable", "missing", "skip"}]

\* Every variable stays in its type; the map of skipped keys is within its limit, and
\* nothing is on its way without a link.
TypeOK ==
  /\ st \in [Peer -> Session]
  /\ \A p \in Peer : Len(st[p].skipped) <= 2 * MaxSkip
  /\ made \in [Peer -> Nat]
  /\ task \in [Peer -> [1..Handlers -> Task]]
  /\ net \in [Peer -> Seq(Message)]
  /\ link # "up" => \A p \in Peer : net[p] = <<>>
  /\ link \in {"up", "down", "answered"}
  /\ links \in 1..(MaxLinks + 1)
  /\ hasKem \in BOOLEAN
  /\ sends \in [Peer -> Nat]
  /\ drops \in 0..MaxDrops
  /\ reloads \in 0..MaxReloads
  /\ wire \in SUBSET [to : Peer, m : Message]
  /\ fate \in SUBSET Fate

(* With one handler at a time at each end *)

\* On the connection the session began with, every message that an end handles
\* is shown, whatever the interleaving of the two ends' sends and DH steps, as
\* long as the adapters have not dropped more than MAX_SKIP messages.
FirstLinkDelivers ==
  \A f \in fate :
    f.m.over = 1 /\ f.why # "shown" => f.why = "skip" /\ drops > MaxSkip

\* No two messages, of either end, on any connection, share a message key.
FreshMessageKeys ==
  \A a, b \in wire : a # b => a.m.ck # b.m.ck

\* Reconnection puts the chains at odds with root, indices and announced keys,
\* but the two roots stay on one ladder, so the next DH step of either end
\* heals it: a message on a chain born of a DH step is always read, unless too
\* many before it were dropped.
HealedChainsDeliver ==
  \A f \in fate :
    Len(f.m.ck.dhs) > 1 /\ f.why # "shown" => f.why = "skip" /\ drops > MaxSkip

\* That ladder: one end's root is the other's with one more DH output.
OneAhead(r, s) ==
  Len(r.dhs) = Len(s.dhs) + 1 /\ r = AdvanceRoot(s, r.dhs[Len(r.dhs)])

OneLadder ==
  LET h == st[Host].root  g == st[Guest].root IN
  h # NoRoot /\ g # NoRoot => OneAhead(h, g) \/ OneAhead(g, h)

\* Forward secrecy: once a message has been shown no end holds a key its
\* message key follows from, in a chain or among the skipped keys.
Yields(ck, m) ==
  /\ [ck EXCEPT !.n = 0] = [m.ck EXCEPT !.n = 0]
  /\ ck.n <= m.ck.n

ReadKeysAreGone ==
  \A f \in fate, p \in Peer :
    f.why = "shown" =>
      /\ ~Yields(st[p].send, f.m)
      /\ ~Yields(st[p].recv, f.m)
      /\ \A k \in DOMAIN st[p].skipped : st[p].skipped[k].ck # f.m.ck

(* With handlers overlapping *)

\* An end shows messages in the order they were written, none twice.
ShownInOrder ==
  [][\A f \in fate' \ fate, e \in fate :
       f.to = e.to /\ f.why = "shown" /\ e.why = "shown" => f.m.ctr > e.m.ctr]_vars

-----------------------------------------------------------------------------
(* The promise: Conversation, with messages known by their counters *)

WrittenTo(p) == {w.m.ctr : w \in {x \in wire : x.to = p}}
ShownBy(p) == {f.m.ctr : f \in {x \in fate : x.to = p /\ x.why = "shown"}}

C == INSTANCE Conversation WITH
       Parties <- Peer,
       Numbers <- 1..(MaxHostSends + MaxGuestSends),
       written <- [p \in Peer |-> WrittenTo(p)],
       shown <- [p \in Peer |-> ShownBy(p)],
       newest <- [p \in Peer |-> st[p].received]

\* However handlers overlap, links break and pages reload, an end shows only what the
\* other wrote, and nothing older than what it remembers to have shown.
KeepsConversation == C!Spec

\* Why it does: a send has a counter of its end, whatever an end has off the channel
\* came over the wire, and so did all it has dealt with.
Sending == {"advance", "encrypt"}

CountersRight ==
  \A p \in Peer : st[p].counter <= sends[p] /\ sends[p] <= MaxSends(p)
SendsNumbered ==
  \A p \in Peer, i \in 1..Handlers :
    task[p][i].at \in Sending => task[p][i].m.ctr \in 1..MaxSends(p)
ReceivesCame ==
  \A p \in Peer, i \in 1..Handlers :
    task[p][i].at \notin Sending \cup {"idle"} => [to |-> p, m |-> task[p][i].m] \in wire
NetCame ==
  \A p \in Peer : \A k \in DOMAIN net[p] : [to |-> p, m |-> net[p][k]] \in wire
WireNumbered == \A w \in wire : w.m.ctr \in 1..MaxSends(Other(w.to))
FatesCame == \A f \in fate : [to |-> f.to, m |-> f.m] \in wire

\* Messages flow: each of these at once.
FlowInv ==
  /\ CountersRight /\ SendsNumbered /\ ReceivesCame
  /\ NetCame /\ WireNumbered /\ FatesCame
=============================================================================
