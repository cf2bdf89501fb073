----------------------- MODULE ControlProtocolProofs -----------------------
(***************************************************************************)
(* Theorems about ControlProtocol, for any titles, any number of edits,    *)
(* connections and handlers at work at once.                               *)
(***************************************************************************)
EXTENDS ControlProtocol, SequenceFacts

-----------------------------------------------------------------------------
(* What is under way, by kinds *)

Encs(p) == ToSet(enc[p])
Ways(p) == ToSet(queue[p])
Decs(p) == ToSet(dec[p])

\* Where a confirmation or a request is, somebody asked, or agreed; a confirmation
\* that has left its end has left it without its session.
WishInv ==
  \A p \in Ends :
    /\ Confirm \in Encs(p) => agreed[p] /\ asked[Other(p)]
    /\ Request \in Encs(p) => asked[p]
    /\ Confirm \in Ways(p) \cup Decs(p) =>
         asked[p] /\ agreed[Other(p)] /\ ~here[Other(p)]
    /\ Request \in Ways(p) \cup Decs(p) => asked[Other(p)]
    /\ dialog[p] => asked[Other(p)]

-----------------------------------------------------------------------------
(* Titles on their way *)

IsTitle(m) == m.kind = "title"
HasTitle(s) == \E i \in 1..Len(s) : IsTitle(s[i])

\* The last title of s, if there is one, is x.
Latest(s, x) ==
  \A i \in 1..Len(s) :
    IsTitle(s[i]) /\ (\A j \in 1..Len(s) : j > i => ~IsTitle(s[j])) => s[i].title = x

\* A title of p is under way to the other end.
Sending(p) == HasTitle(enc[p]) \/ HasTitle(queue[Other(p)]) \/ HasTitle(dec[Other(p)])

\* Nothing happens before the first connection.
Before ==
  links = 0 =>
    /\ link = "none"
    /\ \A p \in Ends : /\ status[p] = "waiting" /\ ~open[p] /\ ~dialog[p]
                       /\ enc[p] = <<>> /\ queue[p] = <<>> /\ dec[p] = <<>>

\* An end handles one message at a time as long as it reads all of them.
OneAtATime == ~garbled => \A p \in Ends : Handled(p) <= 1

\* The last title of p that is under way is the one p shows.
LastSent(p) ==
  /\ HasTitle(enc[p]) => Latest(enc[p], title[p])
  /\ ~HasTitle(enc[p]) => Latest(queue[Other(p)], title[p])
  /\ ~HasTitle(enc[p]) /\ ~HasTitle(queue[Other(p)]) => Latest(dec[Other(p)], title[p])

\* No title under way is empty.
Named(s) == \A i \in 1..Len(s) : IsTitle(s[i]) => s[i].title # None

\* An end that has not noticed the link yet sends nothing, and the other, if it has,
\* has sent the title it shows.
Quiet(p) ==
  status[p] = "waiting" =>
    /\ ~Sending(p) /\ enc[p] = <<>> /\ dec[p] = <<>> /\ ~dialog[p]
    /\ status[Other(p)] = "connected" /\ ~Sending(Other(p)) => title[Other(p)] = None

\* The titles of a link that is up, where nothing overlapped and no titles crossed.
Undisturbed == link = "up" /\ ~garbled /\ ~apart
TitlesInv ==
  Undisturbed =>
    /\ \A p \in Ends : /\ status[p] \in {"waiting", "connected"}
                       /\ Quiet(p) /\ LastSent(p)
                       /\ Named(enc[p]) /\ Named(queue[p]) /\ Named(dec[p])
    /\ ~(Sending(Host) /\ Sending(Guest))
    /\ (\A p \in Ends : status[p] = "connected" /\ ~Sending(p)) => title[Host] = title[Guest]

-----------------------------------------------------------------------------
(* Types *)

USE DEF Host, Guest, None

LEMMA TypedSeqs ==
  ASSUME TypeOK, NEW p \in Ends
  PROVE  /\ enc[p] \in Seq(Message) /\ Len(enc[p]) \in Nat
         /\ queue[p] \in Seq(Message) /\ Len(queue[p]) \in Nat
         /\ dec[p] \in Seq(Message) /\ Len(dec[p]) \in Nat
         /\ DOMAIN enc[p] = 1..Len(enc[p]) /\ DOMAIN dec[p] = 1..Len(dec[p])
         /\ Handled(p) = Len(enc[p]) + Len(dec[p]) /\ Handled(p) <= Handlers
         /\ Handlers \in Nat /\ Handled(p) \in Nat
<1>1. enc[p] \in Seq(Message) /\ queue[p] \in Seq(Message) /\ dec[p] \in Seq(Message)
  BY DEF TypeOK
<1> QED BY <1>1, LenProperties, BoundsAssumption DEF TypeOK, Handled

LEMMA Messages ==
  /\ Confirm \in Message /\ Request \in Message
  /\ Confirm # Request /\ ~IsTitle(Confirm) /\ ~IsTitle(Request)
  /\ \A t \in Titles \cup {None} : /\ Title(t) \in Message /\ IsTitle(Title(t))
                                   /\ Title(t).title = t
                                   /\ Title(t) # Confirm /\ Title(t) # Request
BY DEF Confirm, Request, Title, Message, IsTitle

LEMMA TheOther == \A p \in Ends : /\ Other(p) \in Ends /\ Other(p) # p
                                  /\ Other(Other(p)) = p /\ Ends = {p, Other(p)}
BY DEF Ends, Other

\* A handler more, and a handler less.
LEMMA Counting ==
  \A a, b, h \in Nat : /\ a + b < h => (a + 1) + b <= h /\ a + (b + 1) <= h
                       /\ a + b <= h => (a - 1) + b <= h /\ a + (b - 1) <= h
OBVIOUS

\* A message more to encrypt.
LEMMA EncryptFacts ==
  ASSUME TypeOK, NEW p \in Ends, NEW m \in Message, Encrypt(p, m)
  PROVE  /\ enc' \in [Ends -> Seq(Message)]
         /\ enc'[p] = Append(enc[p], m) /\ enc'[Other(p)] = enc[Other(p)]
         /\ Len(enc'[p]) = Len(enc[p]) + 1
         /\ Handled(p) < Handlers
         /\ ToSet(enc'[p]) = Encs(p) \cup {m}
         /\ garbled' \in BOOLEAN /\ (~garbled' => ~garbled /\ Handled(p) = 0)
<1>1. /\ enc' = [enc EXCEPT ![p] = Append(@, m)]
      /\ garbled' = (garbled \/ Busy(p))
      /\ Handled(p) < Handlers
  BY Zenon DEF Encrypt
<1>2. enc \in [Ends -> Seq(Message)] /\ garbled \in BOOLEAN
  BY DEF TypeOK
<1>3. /\ Append(enc[p], m) \in Seq(Message) /\ Len(Append(enc[p], m)) = Len(enc[p]) + 1
      /\ ToSet(Append(enc[p], m)) = Encs(p) \cup {m}
  <2>1. enc[p] \in Seq(Message)
    BY TypedSeqs
  <2> QED BY <2>1, AppendFacts DEF Encs
<1>4. /\ garbled' \in BOOLEAN
      /\ ~garbled' => ~garbled /\ Handled(p) = 0
  <2>1. Handled(p) \in Nat
    BY TypedSeqs
  <2>2. ~Busy(p) => Handled(p) = 0
    BY <2>1 DEF Busy
  <2>3. garbled' \in BOOLEAN /\ (~garbled' => ~garbled /\ ~Busy(p))
    BY <1>1, <1>2, Zenon
  <2> QED BY <2>2, <2>3
<1> QED BY <1>1, <1>2, <1>3, <1>4, TheOther

\* What is lost of what is on its way is a tail.
LEMMA PrefixedFacts ==
  ASSUME NEW s \in Seq(Message), NEW q \in Prefixed(s)
  PROVE  q \in Seq(Message) /\ ToSet(q) \subseteq ToSet(s) /\ (s = <<>> => q = <<>>)
<1>1. PICK n \in 0..Len(s) : q = SubSeq(s, 1, n)
  BY DEF Prefixed
<1> QED BY <1>1, PrefixFacts

LEMMA NoMessages == <<>> \in Seq(Message) /\ ToSet(<<>>) = {} /\ Len(<<>>) = 0
BY EmptySeq DEF ToSet

LEMMA EmptyToSet == ASSUME NEW s \in Seq(Message), ToSet(s) = {} PROVE s = <<>>
<1>1. Len(s) \in Nat /\ ToSet(s) = {s[i] : i \in 1..Len(s)}
  BY LenProperties, ToSetDef
<1>2. Len(s) # 0 => s[1] \in ToSet(s)
  <2>1. Len(s) # 0 => 1 \in 1..Len(s)
    BY <1>1
  <2> QED BY <1>1, <2>1
<1> QED BY <1>1, <1>2, EmptySeq

LEMMA CloseFacts ==
  ASSUME TypeOK, NEW p \in Ends, Close(p)
  PROVE  /\ open' = [open EXCEPT ![p] = FALSE]
         /\ status' = [status EXCEPT ![p] = IF @ = "connected" THEN "disconnected" ELSE @]
         /\ links' = links
         /\ link' = IF open[p] THEN "down" ELSE link
         /\ queue' \in [Ends -> Seq(Message)]
         /\ queue'[p] = <<>>
         /\ \A q \in Ends : /\ ToSet(queue'[q]) \subseteq Ways(q)
                            /\ queue[q] = <<>> => queue'[q] = <<>>
<1>1. queue \in [Ends -> Seq(Message)] /\ (~open[p] => queue[p] = <<>>)
  BY DEF TypeOK
<1>2. CASE open[p]
  <2>1. PICK q \in Prefixed(queue[Other(p)]) :
          queue' = [queue EXCEPT ![p] = <<>>, ![Other(p)] = q]
    BY <1>2 DEF Close
  <2>2. q \in Seq(Message) /\ ToSet(q) \subseteq Ways(Other(p))
        /\ (queue[Other(p)] = <<>> => q = <<>>)
    BY <1>1, <2>1, PrefixedFacts, TheOther DEF Ways
  <2>3. queue' \in [Ends -> Seq(Message)] /\ queue'[p] = <<>> /\ queue'[Other(p)] = q
    BY <1>1, <2>1, <2>2, NoMessages, TheOther
  <2> QED BY <1>2, <2>2, <2>3, NoMessages, TheOther DEF Close, Ways
<1>3. CASE ~open[p]
  BY <1>1, <1>3 DEF Close, Ways
<1> QED BY <1>2, <1>3

\* A message is decrypted.
LEMMA DecryptsFacts ==
  ASSUME TypeOK, NEW p \in Ends, NEW i, Decrypts(p, i)
  PROVE  /\ dec' \in [Ends -> Seq(Message)]
         /\ dec'[p] = RemoveAt(dec[p], i) /\ dec'[Other(p)] = dec[Other(p)]
         /\ Len(dec'[p]) = Len(dec[p]) - 1
         /\ i \in 1..Len(dec[p]) /\ dec[p][i] \in Message /\ dec[p][i] \in Decs(p)
         /\ ToSet(dec'[p]) \subseteq Decs(p)
         /\ ~dialog[p]
         /\ UNCHANGED <<enc, acts, links, garbled, apart, wishes>>
<1>1. dec \in [Ends -> Seq(Message)]
  BY DEF TypeOK
<1>2. /\ i \in DOMAIN dec[p] /\ dec' = [dec EXCEPT ![p] = RemoveAt(@, i)]
      /\ ~dialog[p] /\ UNCHANGED <<enc, acts, links, garbled, apart, wishes>>
  BY DEF Decrypts
<1>3. i \in 1..Len(dec[p]) /\ dec[p][i] \in Message
  BY <1>2, TypedSeqs, ElementOfSeq
<1>4. /\ RemoveAt(dec[p], i) \in Seq(Message)
      /\ Len(RemoveAt(dec[p], i)) = Len(dec[p]) - 1
      /\ dec[p][i] \in Decs(p) /\ ToSet(RemoveAt(dec[p], i)) \subseteq Decs(p)
  BY <1>2, TypedSeqs, RemoveAtFacts DEF Decs
<1> QED BY <1>1, <1>2, <1>3, <1>4, TheOther

\* A message is encrypted.
LEMMA EncryptedFacts ==
  ASSUME TypeOK, NEW p \in Ends, NEW i, Encrypted(p, i)
  PROVE  /\ enc' \in [Ends -> Seq(Message)]
         /\ enc'[p] = RemoveAt(enc[p], i) /\ enc'[Other(p)] = enc[Other(p)]
         /\ Len(enc'[p]) = Len(enc[p]) - 1
         /\ i \in 1..Len(enc[p]) /\ enc[p][i] \in Message /\ enc[p][i] \in Encs(p)
         /\ ToSet(enc'[p]) \subseteq Encs(p)
         /\ queue' \in [Ends -> Seq(Message)]
         /\ ToSet(queue'[p]) \subseteq Ways(p)
         /\ ToSet(queue'[Other(p)]) \subseteq
              Ways(Other(p)) \cup (IF open[p] /\ link = "up" THEN {enc[p][i]} ELSE {})
         /\ open[p] /\ enc[p][i] = Confirm => queue'[p] = <<>>
         /\ ~open[p] => queue' = queue
<1> DEFINE m == enc[p][i]
           o == Other(p)
           sent == IF link = "up" THEN Append(queue[o], m) ELSE queue[o]
<1>1. /\ enc \in [Ends -> Seq(Message)] /\ queue \in [Ends -> Seq(Message)]
      /\ p \in Ends /\ o \in Ends /\ o # p /\ Ends = {p, o}
  BY TheOther DEF TypeOK
<1>2. i \in DOMAIN enc[p] /\ enc' = [enc EXCEPT ![p] = RemoveAt(@, i)]
  BY DEF Encrypted
<1>3. i \in 1..Len(enc[p]) /\ m \in Message
  BY <1>2, TypedSeqs, ElementOfSeq
<1>4. /\ RemoveAt(enc[p], i) \in Seq(Message)
      /\ Len(RemoveAt(enc[p], i)) = Len(enc[p]) - 1
      /\ m \in Encs(p) /\ ToSet(RemoveAt(enc[p], i)) \subseteq Encs(p)
  BY <1>2, TypedSeqs, RemoveAtFacts DEF Encs
<1>5. /\ sent \in Seq(Message)
      /\ ToSet(sent) \subseteq Ways(o) \cup (IF link = "up" THEN {m} ELSE {})
  BY <1>1, <1>3, AppendFacts DEF Ways
<1>6. /\ enc' \in [Ends -> Seq(Message)]
      /\ enc'[p] = RemoveAt(enc[p], i) /\ enc'[o] = enc[o]
  BY <1>1, <1>2, <1>4
<1>7. CASE open[p] /\ m = Confirm
  <2>1. PICK q \in Prefixed(sent) : queue' = [queue EXCEPT ![p] = <<>>, ![o] = q]
    BY <1>7 DEF Encrypted
  <2>2. q \in Seq(Message) /\ ToSet(q) \subseteq ToSet(sent)
    BY <1>5, <2>1, PrefixedFacts
  <2>3. queue' \in [Ends -> Seq(Message)] /\ queue'[p] = <<>> /\ queue'[o] = q
    BY <1>1, <2>1, <2>2, NoMessages
  <2> QED BY <1>3, <1>4, <1>5, <1>6, <1>7, <2>2, <2>3, NoMessages
<1>8. CASE ~(open[p] /\ m = Confirm)
  <2>1. queue' = IF open[p] THEN [queue EXCEPT ![o] = sent] ELSE queue
    BY <1>8 DEF Encrypted, Delete, Close
  <2> HIDE DEF sent, o, m
  <2>2. /\ queue' \in [Ends -> Seq(Message)] /\ queue'[p] = queue[p]
        /\ queue'[o] = IF open[p] THEN sent ELSE queue[o]
    BY <1>1, <1>5, <2>1
  <2>3. ToSet(queue'[o]) \subseteq Ways(o) \cup (IF open[p] /\ link = "up" THEN {m} ELSE {})
    BY <1>5, <2>2 DEF Ways
  <2>4. ToSet(queue'[p]) \subseteq Ways(p) /\ (~open[p] => queue' = queue)
    BY <2>1, <2>2 DEF Ways
  <2> QED BY <1>3, <1>4, <1>6, <1>8, <2>2, <2>3, <2>4 DEF o, m
<1> QED BY <1>7, <1>8

-----------------------------------------------------------------------------
(* Type correctness, one lemma per action that does more than change a flag *)

\* What a step does to the queues of an end keeps the bound on what it handles.
LEMMA FewerHandled ==
  ASSUME TypeOK, enc' \in [Ends -> Seq(Message)], dec' \in [Ends -> Seq(Message)],
         \A q \in Ends : Len(enc'[q]) + Len(dec'[q]) <= Handlers
  PROVE  \A q \in Ends : Handled(q)' <= Handlers
BY DEF Handled

LEMMA CloseType ==
  ASSUME TypeOK, NEW p \in Ends, Close(p), here' \in [Ends -> BOOLEAN],
         \A q \in Ends : ~here'[q] => ~here[q] \/ q = p
  PROVE  /\ status' \in [Ends -> {"waiting", "connected", "disconnected"}]
         /\ link' \in {"none", "up", "down"} /\ open' \in [Ends -> BOOLEAN]
         /\ queue' \in [Ends -> Seq(Message)] /\ links' = links
         /\ \A q \in Ends : ~here'[q] => ~open'[q]
         /\ \A q \in Ends : ~open'[q] => queue'[q] = <<>> /\ link' # "up"
<1>1. /\ open' = [open EXCEPT ![p] = FALSE]
      /\ status' = [status EXCEPT ![p] = IF @ = "connected" THEN "disconnected" ELSE @]
      /\ links' = links /\ link' = IF open[p] THEN "down" ELSE link
      /\ queue' \in [Ends -> Seq(Message)] /\ queue'[p] = <<>>
      /\ \A q \in Ends : queue[q] = <<>> => queue'[q] = <<>>
  BY CloseFacts
<1>2. /\ status \in [Ends -> {"waiting", "connected", "disconnected"}]
      /\ link \in {"none", "up", "down"} /\ open \in [Ends -> BOOLEAN]
      /\ \A q \in Ends : ~here[q] => ~open[q]
      /\ \A q \in Ends : ~open[q] => queue[q] = <<>> /\ link # "up"
  BY DEF TypeOK
<1> QED BY <1>1, <1>2

LEMMA LinkType == ASSUME TypeOK, Link PROVE TypeOK'
<1>1. links + 1 \in 0..MaxLinks
  BY BoundsAssumption DEF TypeOK, Link
<1> QED BY <1>1 DEF TypeOK, Link, Handled, wishes

LEMMA LinkLostType == ASSUME TypeOK, LinkLost PROVE TypeOK'
<1>1. PICK h \in Prefixed(queue[Host]), g \in Prefixed(queue[Guest]) :
        queue' = [queue EXCEPT ![Host] = h, ![Guest] = g]
  BY DEF LinkLost
<1>2. h \in Seq(Message) /\ g \in Seq(Message)
  BY <1>1, TypedSeqs, PrefixedFacts DEF Ends
<1>3. link = "up" /\ \A q \in Ends : open[q]
  BY DEF TypeOK, LinkLost
<1>4. queue' \in [Ends -> Seq(Message)]
  BY <1>1, <1>2 DEF TypeOK
<1>5. /\ link' = "down"
      /\ UNCHANGED <<title, here, status, open, links, enc, dec, dialog, acts, garbled, apart,
                     asked, agreed, alone>>
  BY DEF LinkLost, wishes
<1> QED BY <1>3, <1>4, <1>5 DEF TypeOK, Handled

LEMMA NoticedType == ASSUME TypeOK, NEW p \in Ends, Noticed(p) PROVE TypeOK'
BY CloseType DEF TypeOK, Noticed, Handled, wishes

LEMMA DisconnectType == ASSUME TypeOK, NEW p \in Ends, Disconnect(p) PROVE TypeOK'
BY CloseType DEF TypeOK, Disconnect, Handled, wishes

LEMMA DeleteType ==
  ASSUME TypeOK, NEW p \in Ends, Delete(p)
  PROVE  /\ here' = [here EXCEPT ![p] = FALSE]
         /\ here' \in [Ends -> BOOLEAN]
         /\ status' \in [Ends -> {"waiting", "connected", "disconnected"}]
         /\ link' \in {"none", "up", "down"} /\ open' \in [Ends -> BOOLEAN]
         /\ queue' \in [Ends -> Seq(Message)] /\ links' = links
         /\ \A q \in Ends : ~here'[q] => ~open'[q]
         /\ \A q \in Ends : ~open'[q] => queue'[q] = <<>> /\ link' # "up"
<1>1. here' = [here EXCEPT ![p] = FALSE] /\ here' \in [Ends -> BOOLEAN] /\ Close(p)
  BY DEF Delete, TypeOK
<1> QED BY <1>1, CloseType DEF TypeOK

LEMMA DeleteLocalType == ASSUME TypeOK, NEW p \in Ends, DeleteLocal(p) PROVE TypeOK'
<1>1. /\ Delete(p) /\ ~dialog[p]
      /\ alone' = [alone EXCEPT ![p] = TRUE]
      /\ UNCHANGED <<title, enc, dec, dialog, acts, garbled, apart, asked, agreed>>
  BY DEF DeleteLocal
<1>2. alone' \in [Ends -> BOOLEAN]
  BY <1>1 DEF TypeOK
<1>3. /\ here' = [here EXCEPT ![p] = FALSE] /\ here' \in [Ends -> BOOLEAN]
      /\ status' \in [Ends -> {"waiting", "connected", "disconnected"}]
      /\ link' \in {"none", "up", "down"} /\ open' \in [Ends -> BOOLEAN]
      /\ queue' \in [Ends -> Seq(Message)] /\ links' = links
      /\ \A q \in Ends : ~here'[q] => ~open'[q]
      /\ \A q \in Ends : ~open'[q] => queue'[q] = <<>> /\ link' # "up"
  BY <1>1, DeleteType
<1> QED BY <1>1, <1>2, <1>3 DEF TypeOK, Handled

\* Where an end encrypts one message more.
LEMMA EncryptType ==
  ASSUME TypeOK, NEW p \in Ends, NEW m \in Message, Encrypt(p, m), dec' = dec
  PROVE  /\ enc' \in [Ends -> Seq(Message)] /\ garbled' \in BOOLEAN
         /\ \A q \in Ends : Handled(q)' <= Handlers
<1>1. /\ enc' \in [Ends -> Seq(Message)] /\ garbled' \in BOOLEAN
      /\ Len(enc'[p]) = Len(enc[p]) + 1 /\ Handled(p) < Handlers
      /\ enc'[Other(p)] = enc[Other(p)]
  BY EncryptFacts
<1>2. \A q \in Ends : Len(enc'[q]) + Len(dec'[q]) <= Handlers
  <2>1. Len(enc'[p]) + Len(dec'[p]) <= Handlers
    <3>1. /\ Len(enc[p]) \in Nat /\ Len(dec[p]) \in Nat /\ Handlers \in Nat
          /\ Len(enc[p]) + Len(dec[p]) <= Handlers
          /\ Handled(p) = Len(enc[p]) + Len(dec[p])
      BY TypedSeqs
    <3> QED BY <1>1, <3>1, Counting
  <2>2. Len(enc'[Other(p)]) + Len(dec'[Other(p)]) <= Handlers
    <3>1. Len(enc[Other(p)]) + Len(dec[Other(p)]) <= Handlers
      BY TypedSeqs, TheOther
    <3> QED BY <1>1, <3>1
  <2> QED BY <2>1, <2>2, TheOther
<1> QED BY <1>1, <1>2, FewerHandled DEF TypeOK

LEMMA SendTitleType ==
  ASSUME TypeOK, NEW p \in Ends, NEW t \in Titles \cup {None}, SendTitle(p, t), dec' = dec
  PROVE  /\ title' \in [Ends -> Titles \cup {None}] /\ apart' \in BOOLEAN
         /\ enc' \in [Ends -> Seq(Message)] /\ garbled' \in BOOLEAN
         /\ \A q \in Ends : Handled(q)' <= Handlers
<1>1. title' \in [Ends -> Titles \cup {None}]
  BY DEF SendTitle, TypeOK
<1>2. apart' \in BOOLEAN
  BY DEF SendTitle, TypeOK
<1>3. CASE status[p] = "connected"
  BY <1>1, <1>2, <1>3, EncryptType, Messages DEF SendTitle
<1>4. CASE status[p] # "connected"
  BY <1>1, <1>2, <1>4 DEF SendTitle, TypeOK, Handled
<1> QED BY <1>3, <1>4

LEMMA SaveTitleType ==
  ASSUME TypeOK, NEW p \in Ends, NEW t \in Titles \cup {None}, SaveTitle(p, t)
  PROVE  TypeOK'
<1>1. /\ title' \in [Ends -> Titles \cup {None}] /\ apart' \in BOOLEAN
      /\ enc' \in [Ends -> Seq(Message)] /\ garbled' \in BOOLEAN
      /\ \A q \in Ends : Handled(q)' <= Handlers
  BY SendTitleType DEF SaveTitle
<1>2. acts' \in [Ends -> 0..MaxActs]
  BY BoundsAssumption DEF SaveTitle, TypeOK
<1> QED BY <1>1, <1>2 DEF TypeOK, SaveTitle, channel, wishes

LEMMA ConnectedType == ASSUME TypeOK, NEW p \in Ends, Connected(p) PROVE TypeOK'
<1>1. /\ apart' \in BOOLEAN /\ enc' \in [Ends -> Seq(Message)] /\ garbled' \in BOOLEAN
      /\ \A q \in Ends : Handled(q)' <= Handlers
  <2>1. CASE title[p] # None
    <3>1. Title(title[p]) \in Message
      BY Messages DEF TypeOK
    <3>2. apart' \in BOOLEAN
      BY <2>1 DEF Connected, TypeOK
    <3> QED BY <2>1, <3>1, <3>2, EncryptType DEF Connected
  <2>2. CASE title[p] = None
    BY <2>2 DEF Connected, TypeOK, Handled
  <2> QED BY <2>1, <2>2
<1>2. status' \in [Ends -> {"waiting", "connected", "disconnected"}]
  BY DEF Connected, TypeOK
<1> QED BY <1>1, <1>2 DEF TypeOK, Connected, channel, wishes

LEMMA RequestDeleteType == ASSUME TypeOK, NEW p \in Ends, RequestDelete(p) PROVE TypeOK'
<1>1. /\ enc' \in [Ends -> Seq(Message)] /\ garbled' \in BOOLEAN
      /\ \A q \in Ends : Handled(q)' <= Handlers
  <2>1. CASE status[p] = "connected"
    BY <2>1, EncryptType, Messages DEF RequestDelete
  <2>2. CASE status[p] # "connected"
    BY <2>2 DEF RequestDelete, TypeOK, Handled
  <2> QED BY <2>1, <2>2
<1>2. acts' \in [Ends -> 0..MaxActs] /\ asked' \in [Ends -> BOOLEAN]
  BY BoundsAssumption DEF RequestDelete, TypeOK
<1> QED BY <1>1, <1>2, SMTT(30) DEF TypeOK, RequestDelete, channel

LEMMA EncryptedType == ASSUME TypeOK, NEW p \in Ends, NEW i, Encrypted(p, i) PROVE TypeOK'
<1>1. /\ enc' \in [Ends -> Seq(Message)] /\ queue' \in [Ends -> Seq(Message)]
      /\ Len(enc'[p]) = Len(enc[p]) - 1 /\ enc'[Other(p)] = enc[Other(p)]
      /\ open[p] /\ enc[p][i] = Confirm => queue'[p] = <<>>
      /\ ~open[p] => queue' = queue
      /\ ToSet(queue'[p]) \subseteq Ways(p)
      /\ ToSet(queue'[Other(p)]) \subseteq
           Ways(Other(p)) \cup (IF open[p] /\ link = "up" THEN {enc[p][i]} ELSE {})
  BY EncryptedFacts
<1>2. UNCHANGED <<title, links, dec, dialog, acts, garbled, apart, asked, agreed, alone>>
  BY DEF Encrypted, wishes
<1>3. \A q \in Ends : Handled(q)' <= Handlers
  <2>1. \A q \in Ends : Len(enc'[q]) + Len(dec'[q]) <= Handlers
    <3>1. Len(enc'[p]) + Len(dec'[p]) <= Handlers
      <4>1. /\ Len(enc[p]) \in Nat /\ Len(dec[p]) \in Nat /\ Handlers \in Nat
            /\ Len(enc[p]) + Len(dec[p]) <= Handlers
            /\ Handled(p) = Len(enc[p]) + Len(dec[p])
        BY TypedSeqs
      <4> QED BY <1>1, <1>2, <4>1, Counting
    <3>2. Len(enc'[Other(p)]) + Len(dec'[Other(p)]) <= Handlers
      <4>1. Len(enc[Other(p)]) + Len(dec[Other(p)]) <= Handlers
        BY TypedSeqs, TheOther
      <4> QED BY <1>1, <1>2, <4>1
    <3> QED BY <3>1, <3>2, TheOther
  <2> QED BY <1>1, <1>2, <2>1, FewerHandled DEF TypeOK
<1>4. /\ here' \in [Ends -> BOOLEAN] /\ open' \in [Ends -> BOOLEAN]
      /\ status' \in [Ends -> {"waiting", "connected", "disconnected"}]
      /\ link' \in {"none", "up", "down"}
      /\ \A q \in Ends : ~here'[q] => ~open'[q] /\ ~dialog[q]
  <2>1. CASE ~open[p] /\ enc[p][i] = Confirm /\ Delete(p)
    <3>1. ~dialog[p]
      BY DEF Encrypted
    <3>2. /\ here' = [here EXCEPT ![p] = FALSE] /\ open' = [open EXCEPT ![p] = FALSE]
          /\ link' = link
      BY <2>1, CloseFacts DEF Delete
    <3>3. status' \in [Ends -> {"waiting", "connected", "disconnected"}]
      BY <2>1, CloseFacts DEF Delete, TypeOK
    <3>4. \A q \in Ends : ~here'[q] => ~open'[q] /\ ~dialog[q]
      <4> SUFFICES ASSUME NEW q \in Ends, ~here'[q] PROVE ~open'[q] /\ ~dialog[q]
        OBVIOUS
      <4>1. CASE q = p
        BY <3>1, <3>2, <4>1, ZenonT(30) DEF TypeOK
      <4>2. CASE q # p
        BY <3>2, <4>2, ZenonT(30) DEF TypeOK
      <4> QED BY <4>1, <4>2
    <3> QED BY <3>2, <3>3, <3>4, ZenonT(30) DEF TypeOK
  <2>2. CASE ~(~open[p] /\ enc[p][i] = Confirm /\ Delete(p))
    BY <2>2, ZenonT(40) DEF Encrypted, TypeOK
  <2> QED BY <2>1, <2>2
<1>5. \A q \in Ends : ~open'[q] => queue'[q] = <<>> /\ link' # "up"
  <2> TAKE q \in Ends
  <2>1. CASE open[p] /\ enc[p][i] = Confirm
    <3>1. open' = [open EXCEPT ![p] = FALSE] /\ link' = "down" /\ queue'[p] = <<>>
      BY <1>1, <2>1 DEF Encrypted
    <3>2. q = Other(p) /\ ~open[q] => queue'[q] = <<>>
      <4> SUFFICES ASSUME q = Other(p), ~open[q] PROVE queue'[q] = <<>>
        OBVIOUS
      <4>1. Ways(q) = {} /\ link # "up"
        BY NoMessages DEF TypeOK, Ways
      <4>2. ToSet(queue'[q]) = {} /\ queue'[q] \in Seq(Message)
        BY <1>1, <4>1
      <4> QED BY <4>2, EmptyToSet
    <3> QED BY <3>1, <3>2, TheOther DEF TypeOK
  <2>2. CASE ~(open[p] /\ enc[p][i] = Confirm)
    <3>1. open' = open /\ link' = link
      <4>1. CASE ~open[p] /\ Delete(p)
        <5>1. open' = [open EXCEPT ![p] = FALSE] /\ link' = link
          BY <4>1, CloseFacts DEF Delete
        <5> QED BY <4>1, <5>1 DEF TypeOK
      <4>2. CASE ~(~open[p] /\ Delete(p))
        BY <2>2, <4>2, ZenonT(40) DEF Encrypted
      <4> QED BY <4>1, <4>2
    <3>2. ~open[q] => queue'[q] = <<>>
      <4> SUFFICES ASSUME ~open[q] PROVE queue'[q] = <<>>
        OBVIOUS
      <4>1. queue[q] = <<>> /\ Ways(q) = {} /\ link # "up"
        BY NoMessages DEF TypeOK, Ways
      <4>2. ToSet(queue'[q]) = {} /\ queue'[q] \in Seq(Message)
        BY <1>1, <4>1, TheOther
      <4> QED BY <4>2, EmptyToSet
    <3> QED BY <3>1, <3>2 DEF TypeOK
  <2> QED BY <2>1, <2>2
<1> QED BY <1>1, <1>2, <1>3, <1>4, <1>5 DEF TypeOK

LEMMA DeliverFacts ==
  ASSUME TypeOK, NEW p \in Ends, Deliver(p)
  PROVE  /\ queue[p] # <<>> /\ Head(queue[p]) \in Message /\ Head(queue[p]) \in Ways(p)
         /\ queue' = [queue EXCEPT ![p] = Tail(@)]
         /\ queue' \in [Ends -> Seq(Message)] /\ ToSet(queue'[p]) \subseteq Ways(p)
         /\ dec' \in [Ends -> Seq(Message)]
         /\ dec'[p] = Append(dec[p], Head(queue[p])) /\ dec'[Other(p)] = dec[Other(p)]
         /\ Len(dec'[p]) = Len(dec[p]) + 1
         /\ ToSet(dec'[p]) = Decs(p) \cup {Head(queue[p])}
         /\ Handled(p) < Handlers
         /\ garbled' \in BOOLEAN /\ (~garbled' => ~garbled /\ Handled(p) = 0)
<1>1. /\ queue[p] # <<>> /\ queue' = [queue EXCEPT ![p] = Tail(@)]
      /\ dec' = [dec EXCEPT ![p] = Append(@, Head(queue[p]))]
      /\ Handled(p) < Handlers
      /\ garbled' = (garbled \/ Busy(p))
  BY Zenon DEF Deliver
<1>2. /\ queue \in [Ends -> Seq(Message)] /\ dec \in [Ends -> Seq(Message)]
      /\ garbled \in BOOLEAN
  BY DEF TypeOK
<1>3. /\ Head(queue[p]) \in Message /\ Tail(queue[p]) \in Seq(Message)
      /\ Head(queue[p]) \in Ways(p) /\ ToSet(Tail(queue[p])) \subseteq Ways(p)
  BY <1>1, <1>2, HeadTailFacts DEF Ways
<1>4. /\ Append(dec[p], Head(queue[p])) \in Seq(Message)
      /\ Len(Append(dec[p], Head(queue[p]))) = Len(dec[p]) + 1
      /\ ToSet(Append(dec[p], Head(queue[p]))) = Decs(p) \cup {Head(queue[p])}
  BY <1>2, <1>3, AppendFacts DEF Decs
<1>5. garbled' \in BOOLEAN /\ (~garbled' => ~garbled /\ Handled(p) = 0)
  <2>1. Handled(p) \in Nat
    BY TypedSeqs
  <2>2. ~Busy(p) => Handled(p) = 0
    BY <2>1 DEF Busy
  <2>3. garbled' \in BOOLEAN /\ (~garbled' => ~garbled /\ ~Busy(p))
    BY <1>1, <1>2, Zenon
  <2> QED BY <2>2, <2>3
<1> QED BY <1>1, <1>2, <1>3, <1>4, <1>5, TheOther

LEMMA DeliverType == ASSUME TypeOK, NEW p \in Ends, Deliver(p) PROVE TypeOK'
<1>1. /\ queue' = [queue EXCEPT ![p] = Tail(@)] /\ queue' \in [Ends -> Seq(Message)]
      /\ dec' \in [Ends -> Seq(Message)] /\ Len(dec'[p]) = Len(dec[p]) + 1
      /\ dec'[Other(p)] = dec[Other(p)] /\ Handled(p) < Handlers /\ garbled' \in BOOLEAN
  BY DeliverFacts
<1>2. /\ UNCHANGED <<title, here, status, link, open, links, enc, dialog, acts, apart,
                     asked, agreed, alone>>
      /\ open[p]
  BY DEF Deliver, wishes
<1>3. \A q \in Ends : Len(enc'[q]) + Len(dec'[q]) <= Handlers
  <2>1. Len(enc'[p]) + Len(dec'[p]) <= Handlers
    <3>1. /\ Len(enc[p]) \in Nat /\ Len(dec[p]) \in Nat /\ Handlers \in Nat
          /\ Len(enc[p]) + Len(dec[p]) <= Handlers
          /\ Handled(p) = Len(enc[p]) + Len(dec[p])
      BY TypedSeqs
    <3> QED BY <1>1, <1>2, <3>1, Counting
  <2>2. Len(enc'[Other(p)]) + Len(dec'[Other(p)]) <= Handlers
    <3>1. Len(enc[Other(p)]) + Len(dec[Other(p)]) <= Handlers
      BY TypedSeqs, TheOther
    <3> QED BY <1>1, <1>2, <3>1
  <2> QED BY <2>1, <2>2, TheOther
<1>4. \A q \in Ends : Handled(q)' <= Handlers
  BY <1>1, <1>2, <1>3, FewerHandled DEF TypeOK
<1> QED BY <1>1, <1>2, <1>4 DEF TypeOK

LEMMA HandleType == ASSUME TypeOK, NEW p \in Ends, NEW i, Handle(p, i) PROVE TypeOK'
<1>1. Decrypts(p, i)
  BY DEF Handle, Unreadable, HandleTitle, HandleRequest, HandleConfirm
<1>2. /\ dec' \in [Ends -> Seq(Message)] /\ Len(dec'[p]) = Len(dec[p]) - 1
      /\ dec'[Other(p)] = dec[Other(p)] /\ dec[p][i] \in Message /\ ~dialog[p]
      /\ UNCHANGED <<enc, acts, links, garbled, apart, wishes>>
  BY <1>1, DecryptsFacts
<1>3. \A q \in Ends : Len(enc'[q]) + Len(dec'[q]) <= Handlers
  <2>1. Len(enc'[p]) + Len(dec'[p]) <= Handlers
    <3>1. /\ Len(enc[p]) \in Nat /\ Len(dec[p]) \in Nat /\ Handlers \in Nat
          /\ Len(enc[p]) + Len(dec[p]) <= Handlers
          /\ Handled(p) = Len(enc[p]) + Len(dec[p])
      BY TypedSeqs
    <3> QED BY <1>2, <3>1, Counting
  <2>2. Len(enc'[Other(p)]) + Len(dec'[Other(p)]) <= Handlers
    <3>1. Len(enc[Other(p)]) + Len(dec[Other(p)]) <= Handlers
      BY TypedSeqs, TheOther
    <3> QED BY <1>2, <3>1
  <2> QED BY <2>1, <2>2, TheOther
<1>4. \A q \in Ends : Handled(q)' <= Handlers
  BY <1>2, <1>3, FewerHandled DEF TypeOK
<1>5. CASE Unreadable(p, i)
  BY <1>2, <1>4, <1>5 DEF Unreadable, TypeOK, wishes
<1>6. CASE HandleTitle(p, i)
  <2>1. title' \in [Ends -> Titles \cup {None}]
    BY <1>2, <1>6 DEF HandleTitle, TypeOK, Message
  <2> QED BY <1>2, <1>4, <1>6, <2>1 DEF HandleTitle, TypeOK, wishes
<1>7. CASE HandleRequest(p, i)
  BY <1>2, <1>4, <1>7 DEF HandleRequest, TypeOK, wishes
<1>8. CASE HandleConfirm(p, i)
  <2>1. CASE here[p]
    BY <1>2, <1>4, <1>8, <2>1, DeleteType, SMTT(30) DEF HandleConfirm, TypeOK, wishes
  <2>2. CASE ~here[p]
    BY <1>2, <1>4, <1>8, <2>2 DEF HandleConfirm, TypeOK, wishes
  <2> QED BY <2>1, <2>2
<1> QED BY <1>5, <1>6, <1>7, <1>8 DEF Handle

LEMMA AnswerType == ASSUME TypeOK, NEW p \in Ends, Answer(p) PROVE TypeOK'
<1>1. /\ dialog' = [dialog EXCEPT ![p] = FALSE]
      /\ UNCHANGED <<title, links, dec, acts, apart, asked, alone>>
  BY DEF Answer
<1>2. PICK yes \in BOOLEAN :
        /\ agreed' = [agreed EXCEPT ![p] = @ \/ yes]
        /\ \/ ~yes /\ UNCHANGED <<here, status, link, open, queue, enc, garbled>>
           \/ /\ yes /\ status[p] = "connected"
              /\ Encrypt(p, Confirm)
              /\ UNCHANGED <<here, status, link, open, queue>>
           \/ /\ yes /\ status[p] # "connected"
              /\ Delete(p)
              /\ UNCHANGED <<enc, garbled>>
  BY DEF Answer
<1>3. agreed' \in [Ends -> BOOLEAN] /\ dialog' \in [Ends -> BOOLEAN]
  BY <1>1, <1>2 DEF TypeOK
<1>4. CASE UNCHANGED <<here, status, link, open, queue, enc, garbled>>
  BY <1>1, <1>3, <1>4 DEF TypeOK, Handled
<1>5. CASE Encrypt(p, Confirm) /\ UNCHANGED <<here, status, link, open, queue>>
  <2>1. /\ enc' \in [Ends -> Seq(Message)] /\ garbled' \in BOOLEAN
        /\ \A q \in Ends : Handled(q)' <= Handlers
    BY <1>1, <1>5, EncryptType, Messages
  <2> QED BY <1>1, <1>3, <1>5, <2>1 DEF TypeOK
<1>6. CASE Delete(p) /\ UNCHANGED <<enc, garbled>>
  <2>1. /\ here' = [here EXCEPT ![p] = FALSE] /\ here' \in [Ends -> BOOLEAN]
        /\ status' \in [Ends -> {"waiting", "connected", "disconnected"}]
        /\ link' \in {"none", "up", "down"} /\ open' \in [Ends -> BOOLEAN]
        /\ queue' \in [Ends -> Seq(Message)] /\ links' = links
        /\ \A q \in Ends : ~here'[q] => ~open'[q]
        /\ \A q \in Ends : ~open'[q] => queue'[q] = <<>> /\ link' # "up"
    BY <1>6, DeleteType
  <2> QED BY <1>1, <1>3, <1>6, <2>1 DEF TypeOK, Handled
<1> QED BY <1>2, <1>4, <1>5, <1>6

LEMMA TypeStep == TypeOK /\ [Next]_vars => TypeOK'
<1> SUFFICES ASSUME TypeOK, [Next]_vars PROVE TypeOK'
  OBVIOUS
<1>1. CASE Link
  BY <1>1, LinkType
<1>2. CASE LinkLost
  BY <1>2, LinkLostType
<1>3. ASSUME NEW p \in Ends, Noticed(p) \/ Disconnect(p) \/ Connected(p) PROVE TypeOK'
  BY <1>3, NoticedType, DisconnectType, ConnectedType
<1>4. ASSUME NEW p \in Ends, NEW t \in Titles \cup {None}, SaveTitle(p, t) PROVE TypeOK'
  BY <1>4, SaveTitleType
<1>5. ASSUME NEW p \in Ends, RequestDelete(p) \/ DeleteLocal(p) \/ Answer(p) \/ Deliver(p)
      PROVE  TypeOK'
  BY <1>5, RequestDeleteType, DeleteLocalType, AnswerType, DeliverType
<1>6. ASSUME NEW p \in Ends, NEW i \in 1..Handlers, Encrypted(p, i) \/ Handle(p, i)
      PROVE  TypeOK'
  BY <1>6, EncryptedType, HandleType
<1>7. CASE UNCHANGED vars
  BY <1>7 DEF TypeOK, Handled, vars, channel, wishes
<1> QED BY <1>1, <1>2, <1>3, <1>4, <1>5, <1>6, <1>7 DEF Next

LEMMA TypeInit == Init => TypeOK
<1> SUFFICES ASSUME Init PROVE TypeOK
  OBVIOUS
<1>1. title \in [Ends -> Titles \cup {None}]
  BY TitlesAssumption DEF Init
<1>2. \A q \in Ends : Handled(q) <= Handlers
  BY BoundsAssumption, NoMessages DEF Init, Handled
<1>3. {enc, queue, dec} \subseteq [Ends -> Seq(Message)]
  BY NoMessages DEF Init
<1>4. links \in 0..MaxLinks /\ acts \in [Ends -> 0..MaxActs]
  BY BoundsAssumption DEF Init
<1> QED BY <1>1, <1>2, <1>3, <1>4 DEF Init, TypeOK

\* Every variable stays in its range, an end without its entry has no open channel
\* and asks nothing, and nothing is on its way to an end whose channel is closed.
THEOREM TypeCorrect == Spec => []TypeOK
BY TypeInit, TypeStep, PTL DEF Spec

-----------------------------------------------------------------------------
(* Deletions *)

\* A step takes no wish back and brings no session back; what it brings about, of
\* deletions, confirmations, requests and dialogs, it has the reason for.
Wishes ==
  \A p \in Ends :
    /\ asked[p] => asked'[p]
    /\ agreed[p] => agreed'[p]
    /\ alone[p] => alone'[p]
    /\ here'[p] => here[p]
Deletions ==
  \A p \in Ends :
    here[p] /\ ~here'[p] =>
      alone'[p] \/ agreed'[p] \/ (asked'[p] /\ agreed'[Other(p)] /\ ~here'[Other(p)])
Papers ==
  \A p \in Ends :
    /\ Confirm \in Encs(p)' => Confirm \in Encs(p) \/ (agreed'[p] /\ asked'[Other(p)])
    /\ Request \in Encs(p)' => Request \in Encs(p) \/ asked'[p]
    /\ Confirm \in Ways(p)' \cup Decs(p)' =>
         \/ Confirm \in Ways(p) \cup Decs(p)
         \/ asked'[p] /\ agreed'[Other(p)] /\ ~here'[Other(p)]
    /\ Request \in Ways(p)' \cup Decs(p)' =>
         Request \in Ways(p) \cup Decs(p) \/ asked'[Other(p)]
    /\ dialog'[p] => dialog[p] \/ asked'[Other(p)]

WishStep == Wishes /\ Deletions /\ Papers

LEMMA WishKept ==
  ASSUME WishInv, DeletedByWish, WishStep PROVE WishInv' /\ DeletedByWish'
<1>1. WishInv'
  <2> SUFFICES ASSUME NEW p \in Ends
               PROVE  /\ Confirm \in Encs(p)' => agreed'[p] /\ asked'[Other(p)]
                      /\ Request \in Encs(p)' => asked'[p]
                      /\ Confirm \in Ways(p)' \cup Decs(p)' =>
                           asked'[p] /\ agreed'[Other(p)] /\ ~here'[Other(p)]
                      /\ Request \in Ways(p)' \cup Decs(p)' => asked'[Other(p)]
                      /\ dialog'[p] => asked'[Other(p)]
    BY DEF WishInv, Confirm, Request
  <2>1. Other(p) \in Ends
    BY TheOther
  <2> QED BY <2>1 DEF WishInv, WishStep, Wishes, Papers
<1>2. DeletedByWish'
  <2> SUFFICES ASSUME NEW p \in Ends, ~here'[p]
               PROVE  \/ alone'[p] \/ agreed'[p]
                      \/ asked'[p] /\ agreed'[Other(p)] /\ ~here'[Other(p)]
    BY DEF DeletedByWish
  <2>1. Other(p) \in Ends
    BY TheOther
  <2>2. CASE here[p]
    BY <2>2 DEF WishStep, Deletions
  <2>3. CASE ~here[p]
    BY <2>1, <2>3 DEF DeletedByWish, WishStep, Wishes
  <2> QED BY <2>2, <2>3
<1> QED BY <1>1, <1>2

\* Closing brings nothing about.
LEMMA CloseWish ==
  ASSUME TypeOK, NEW p \in Ends, Close(p)
  PROVE  \A q \in Ends : Ways(q)' \subseteq Ways(q)
BY CloseFacts DEF Ways

\* An end encrypts a confirmation or a request.
LEMMA EncryptWish ==
  ASSUME TypeOK, NEW p \in Ends, NEW m \in Message, Encrypt(p, m)
  PROVE  Encs(p)' = Encs(p) \cup {m} /\ Encs(Other(p))' = Encs(Other(p))
BY EncryptFacts DEF Encs

LEMMA LinkWish == ASSUME TypeOK, Link PROVE WishStep
BY DEF Link, WishStep, Wishes, Deletions, Papers, wishes, Encs, Ways, Decs

LEMMA LinkLostWish == ASSUME TypeOK, LinkLost PROVE WishStep
<1>1. PICK h \in Prefixed(queue[Host]), g \in Prefixed(queue[Guest]) :
        queue' = [queue EXCEPT ![Host] = h, ![Guest] = g]
  BY DEF LinkLost
<1>2. ToSet(h) \subseteq ToSet(queue[Host]) /\ ToSet(g) \subseteq ToSet(queue[Guest])
  BY <1>1, TypedSeqs, PrefixedFacts DEF Ends
<1>3. \A q \in Ends : Ways(q)' \subseteq Ways(q)
  BY <1>1, <1>2 DEF TypeOK, Ends, Ways
<1>4. UNCHANGED <<here, enc, dec, dialog, asked, agreed, alone>>
  BY DEF LinkLost, wishes
<1> QED BY <1>3, <1>4 DEF WishStep, Wishes, Deletions, Papers, Encs, Decs

LEMMA ClosedWish ==
  ASSUME TypeOK, NEW p \in Ends, Noticed(p) \/ Disconnect(p) PROVE WishStep
<1>1. Close(p) /\ UNCHANGED <<here, enc, dec, dialog, asked, agreed, alone>>
  BY DEF Noticed, Disconnect, wishes
<1>2. \A q \in Ends : Ways(q)' \subseteq Ways(q)
  BY <1>1, CloseWish
<1> QED BY <1>1, <1>2 DEF WishStep, Wishes, Deletions, Papers, Encs, Decs

LEMMA SentTitleWish ==
  ASSUME TypeOK, NEW p \in Ends,
         Connected(p) \/ \E t \in Titles \cup {None} : SaveTitle(p, t)
  PROVE  WishStep
<1>1. UNCHANGED <<here, queue, dec, dialog, asked, agreed, alone>>
  BY DEF Connected, SaveTitle, channel, wishes
<1>2. \/ enc' = enc
      \/ \E t \in Titles \cup {None} : Encrypt(p, Title(t))
  BY DEF Connected, SaveTitle, SendTitle, TypeOK
<1>3. \A q \in Ends : /\ Confirm \in Encs(q)' => Confirm \in Encs(q)
                      /\ Request \in Encs(q)' => Request \in Encs(q)
  <2>1. CASE enc' = enc
    BY <2>1 DEF Encs
  <2>2. ASSUME NEW t \in Titles \cup {None}, Encrypt(p, Title(t))
        PROVE  \A q \in Ends : /\ Confirm \in Encs(q)' => Confirm \in Encs(q)
                               /\ Request \in Encs(q)' => Request \in Encs(q)
    <3>1. /\ Title(t) \in Message /\ Title(t) # Confirm /\ Title(t) # Request
      BY Messages
    <3>2. Encs(p)' = Encs(p) \cup {Title(t)} /\ Encs(Other(p))' = Encs(Other(p))
      BY <2>2, <3>1, EncryptWish
    <3> QED BY <3>1, <3>2, TheOther
  <2> QED BY <1>2, <2>1, <2>2
<1> QED BY <1>1, <1>3 DEF WishStep, Wishes, Deletions, Papers, Ways, Decs

LEMMA RequestDeleteWish ==
  ASSUME TypeOK, NEW p \in Ends, RequestDelete(p) PROVE WishStep
<1>1. UNCHANGED <<here, queue, dec, dialog, agreed, alone>>
  BY DEF RequestDelete, channel
<1>2. asked' = [asked EXCEPT ![p] = TRUE] /\ asked \in [Ends -> BOOLEAN]
  BY DEF RequestDelete, TypeOK
<1>3. \/ enc' = enc
      \/ Encrypt(p, Request)
  BY DEF RequestDelete
<1>4. \A q \in Ends : /\ Confirm \in Encs(q)' => Confirm \in Encs(q)
                      /\ Request \in Encs(q)' => Request \in Encs(q) \/ q = p
  <2>1. CASE enc' = enc
    BY <2>1 DEF Encs
  <2>2. CASE Encrypt(p, Request)
    <3>1. Encs(p)' = Encs(p) \cup {Request} /\ Encs(Other(p))' = Encs(Other(p))
      BY <2>2, EncryptWish, Messages
    <3> QED BY <3>1, TheOther, Messages
  <2> QED BY <1>3, <2>1, <2>2
<1> QED BY <1>1, <1>2, <1>4 DEF WishStep, Wishes, Deletions, Papers, Ways, Decs

LEMMA DeleteLocalWish ==
  ASSUME TypeOK, NEW p \in Ends, DeleteLocal(p) PROVE WishStep
<1>1. /\ Close(p) /\ here' = [here EXCEPT ![p] = FALSE]
      /\ alone' = [alone EXCEPT ![p] = TRUE]
      /\ UNCHANGED <<enc, dec, dialog, asked, agreed>>
  BY DEF DeleteLocal, Delete
<1>2. \A q \in Ends : Ways(q)' \subseteq Ways(q)
  BY <1>1, CloseWish
<1>3. here \in [Ends -> BOOLEAN] /\ alone \in [Ends -> BOOLEAN]
  BY DEF TypeOK
<1> QED BY <1>1, <1>2, <1>3 DEF WishStep, Wishes, Deletions, Papers, Encs, Decs

\* The confirmation leaves its end, whose session goes with it.
LEMMA EncryptedWish ==
  ASSUME TypeOK, WishInv, NEW p \in Ends, NEW i, Encrypted(p, i) PROVE WishStep
<1> DEFINE m == enc[p][i]
           o == Other(p)
<1>1. /\ m \in Encs(p) /\ Encs(p)' \subseteq Encs(p) /\ Encs(o)' = Encs(o)
      /\ Ways(p)' \subseteq Ways(p)
      /\ Ways(o)' \subseteq Ways(o) \cup (IF open[p] /\ link = "up" THEN {m} ELSE {})
  BY EncryptedFacts DEF Encs, Ways
<1>2. UNCHANGED <<dec, dialog, asked, agreed, alone>>
  BY DEF Encrypted, wishes
<1>3. /\ o \in Ends /\ Ends = {p, o} /\ o # p /\ Other(o) = p
  BY TheOther
<1>4. /\ here' = here \/ (m = Confirm /\ here' = [here EXCEPT ![p] = FALSE])
      /\ open[p] /\ m = Confirm => here' = [here EXCEPT ![p] = FALSE]
  <2>1. CASE m = Confirm /\ Delete(p)
    BY <2>1 DEF Delete
  <2>2. CASE ~(m = Confirm /\ Delete(p))
    BY <2>2 DEF Encrypted
  <2> QED BY <2>1, <2>2
<1>5. Wishes
  BY <1>2, <1>4 DEF Wishes, TypeOK
<1>6. m = Confirm => agreed[p] /\ asked[o]
  BY <1>1 DEF WishInv
<1>7. m = Request => asked[p]
  BY <1>1 DEF WishInv
<1>8. Deletions
  BY <1>2, <1>3, <1>4, <1>6 DEF Deletions, TypeOK
<1> HIDE DEF m, o
<1>9. Papers
  <2>1. \A q \in Ends : Decs(q)' = Decs(q)
    BY <1>2 DEF Decs
  <2>2. \A q \in Ends : Encs(q)' \subseteq Encs(q)
    BY <1>1, <1>3
  <2>3. Confirm \in Ways(o)' => Confirm \in Ways(o) \/ (asked[o] /\ agreed[p] /\ ~here'[p])
    BY <1>1, <1>4, <1>6 DEF TypeOK
  <2>4. Request \in Ways(o)' => Request \in Ways(o) \/ asked[p]
    BY <1>1, <1>7
  <2>5. \A q \in Ends : q = p \/ q = o
    BY <1>3
  <2> QED BY <1>1, <1>2, <1>3, <2>1, <2>2, <2>3, <2>4, <2>5 DEF Papers, o
<1> QED BY <1>5, <1>8, <1>9 DEF WishStep

LEMMA DeliverWish ==
  ASSUME TypeOK, NEW p \in Ends, Deliver(p) PROVE WishStep
<1>1. /\ Ways(p)' \subseteq Ways(p) /\ Ways(Other(p))' = Ways(Other(p))
      /\ Head(queue[p]) \in Ways(p)
      /\ Decs(p)' = Decs(p) \cup {Head(queue[p])} /\ Decs(Other(p))' = Decs(Other(p))
  <2>1. /\ queue' = [queue EXCEPT ![p] = Tail(@)] /\ ToSet(queue'[p]) \subseteq Ways(p)
        /\ Head(queue[p]) \in Ways(p)
        /\ ToSet(dec'[p]) = Decs(p) \cup {Head(queue[p])} /\ dec'[Other(p)] = dec[Other(p)]
    BY DeliverFacts
  <2>2. queue'[Other(p)] = queue[Other(p)]
    BY <2>1, TheOther DEF TypeOK
  <2> QED BY <2>1, <2>2 DEF Ways, Decs
<1>2. UNCHANGED <<here, enc, dialog, asked, agreed, alone>>
  BY DEF Deliver, wishes
<1>3. \A q \in Ends : Ways(q)' \cup Decs(q)' \subseteq Ways(q) \cup Decs(q)
  BY <1>1, TheOther
<1> QED BY <1>2, <1>3 DEF WishStep, Wishes, Deletions, Papers, Encs

LEMMA HandleWish ==
  ASSUME TypeOK, WishInv, NEW p \in Ends, NEW i, Handle(p, i) PROVE WishStep
<1> DEFINE m == dec[p][i]
<1>1. Decrypts(p, i)
  BY DEF Handle, Unreadable, HandleTitle, HandleRequest, HandleConfirm
<1>2. /\ m \in Decs(p) /\ Decs(p)' \subseteq Decs(p) /\ Decs(Other(p))' = Decs(Other(p))
      /\ UNCHANGED <<enc, asked, agreed, alone>>
  BY <1>1, DecryptsFacts DEF Decs, wishes
<1>3. \A q \in Ends : Decs(q)' \subseteq Decs(q)
  BY <1>2, TheOther
<1>4. m = Confirm => asked[p] /\ agreed[Other(p)] /\ ~here[Other(p)]
  BY <1>2 DEF WishInv
<1>5. m = Request => asked[Other(p)]
  BY <1>2 DEF WishInv
<1>6. CASE Unreadable(p, i) \/ HandleTitle(p, i)
  <2>1. UNCHANGED <<here, queue, dialog>>
    BY <1>6 DEF Unreadable, HandleTitle
  <2> QED BY <1>2, <1>3, <2>1 DEF WishStep, Wishes, Deletions, Papers, Encs, Ways
<1>7. CASE HandleRequest(p, i)
  <2>1. UNCHANGED <<here, queue>> /\ dialog' = [dialog EXCEPT ![p] = here[p]] /\ m = Request
    BY <1>7 DEF HandleRequest
  <2>2. \A q \in Ends : dialog'[q] => dialog[q] \/ asked[Other(q)]
    BY <1>5, <2>1 DEF TypeOK
  <2> QED BY <1>2, <1>3, <2>1, <2>2 DEF WishStep, Wishes, Deletions, Papers, Encs, Ways
<1>8. CASE HandleConfirm(p, i)
  <2>1. m = Confirm /\ UNCHANGED dialog
    BY <1>8 DEF HandleConfirm
  <2>2. CASE here[p]
    <3>1. Close(p) /\ here' = [here EXCEPT ![p] = FALSE]
      BY <1>8, <2>2 DEF HandleConfirm, Delete
    <3>2. \A q \in Ends : Ways(q)' \subseteq Ways(q)
      BY <3>1, CloseWish
    <3>3. Wishes /\ Deletions
      BY <1>2, <1>4, <2>1, <3>1, TheOther DEF Wishes, Deletions, TypeOK
    <3> QED BY <1>2, <1>3, <2>1, <3>2, <3>3 DEF WishStep, Papers, Encs
  <2>3. CASE ~here[p]
    <3>1. UNCHANGED <<here, queue>>
      BY <1>8, <2>3 DEF HandleConfirm
    <3> QED BY <1>2, <1>3, <2>1, <3>1 DEF WishStep, Wishes, Deletions, Papers, Encs, Ways
  <2> QED BY <2>2, <2>3
<1> QED BY <1>6, <1>7, <1>8 DEF Handle

LEMMA AnswerWish ==
  ASSUME TypeOK, WishInv, NEW p \in Ends, Answer(p) PROVE WishStep
<1>1. /\ dialog[p] /\ dialog' = [dialog EXCEPT ![p] = FALSE]
      /\ UNCHANGED <<dec, asked, alone>>
  BY DEF Answer
<1>2. PICK yes \in BOOLEAN :
        /\ agreed' = [agreed EXCEPT ![p] = @ \/ yes]
        /\ \/ ~yes /\ UNCHANGED <<here, queue, enc>>
           \/ yes /\ Encrypt(p, Confirm) /\ UNCHANGED <<here, queue>>
           \/ yes /\ Delete(p) /\ UNCHANGED enc
  BY DEF Answer
<1>3. agreed \in [Ends -> BOOLEAN] /\ here \in [Ends -> BOOLEAN] /\ dialog \in [Ends -> BOOLEAN]
  BY DEF TypeOK
<1>4. /\ \A q \in Ends : (agreed[q] => agreed'[q]) /\ (dialog'[q] => dialog[q])
      /\ yes => agreed'[p]
  BY <1>1, <1>2, <1>3
<1>5. asked[Other(p)]
  BY <1>1 DEF WishInv
<1>6. CASE UNCHANGED <<here, queue, enc>>
  BY <1>1, <1>4, <1>6 DEF WishStep, Wishes, Deletions, Papers, Encs, Ways, Decs
<1>7. CASE yes /\ Encrypt(p, Confirm) /\ UNCHANGED <<here, queue>>
  <2>1. Encs(p)' = Encs(p) \cup {Confirm} /\ Encs(Other(p))' = Encs(Other(p))
    BY <1>7, EncryptWish, Messages
  <2>2. \A q \in Ends : /\ Confirm \in Encs(q)' => Confirm \in Encs(q) \/ q = p
                        /\ Request \in Encs(q)' => Request \in Encs(q)
    BY <2>1, TheOther, Messages
  <2> QED BY <1>1, <1>4, <1>5, <1>7, <2>2
      DEF WishStep, Wishes, Deletions, Papers, Ways, Decs
<1>8. CASE yes /\ Delete(p) /\ UNCHANGED enc
  <2>1. Close(p) /\ here' = [here EXCEPT ![p] = FALSE]
    BY <1>8 DEF Delete
  <2>2. \A q \in Ends : Ways(q)' \subseteq Ways(q)
    BY <2>1, CloseWish
  <2> QED BY <1>1, <1>3, <1>4, <1>8, <2>1, <2>2
      DEF WishStep, Wishes, Deletions, Papers, Encs, Decs
<1> QED BY <1>2, <1>6, <1>7, <1>8

LEMMA WishInduction ==
  TypeOK /\ WishInv /\ DeletedByWish /\ [Next]_vars => WishInv' /\ DeletedByWish'
<1> SUFFICES ASSUME TypeOK, WishInv, DeletedByWish, [Next]_vars PROVE WishStep
  BY WishKept
<1>1. CASE Link
  BY <1>1, LinkWish
<1>2. CASE LinkLost
  BY <1>2, LinkLostWish
<1>3. ASSUME NEW p \in Ends, Noticed(p) \/ Disconnect(p) PROVE WishStep
  BY <1>3, ClosedWish
<1>4. ASSUME NEW p \in Ends, Connected(p) \/ \E t \in Titles \cup {None} : SaveTitle(p, t)
      PROVE  WishStep
  BY <1>4, SentTitleWish
<1>5. ASSUME NEW p \in Ends, RequestDelete(p) \/ DeleteLocal(p) \/ Answer(p) \/ Deliver(p)
      PROVE  WishStep
  BY <1>5, RequestDeleteWish, DeleteLocalWish, AnswerWish, DeliverWish
<1>6. ASSUME NEW p \in Ends, NEW i \in 1..Handlers, Encrypted(p, i) \/ Handle(p, i)
      PROVE  WishStep
  BY <1>6, EncryptedWish, HandleWish
<1>7. CASE UNCHANGED vars
  BY <1>7 DEF WishStep, Wishes, Deletions, Papers, Encs, Ways, Decs, vars, channel, wishes
<1> QED BY <1>1, <1>2, <1>3, <1>4, <1>5, <1>6, <1>7 DEF Next

\* A session goes only by its own user's wish, or after its user asked for that and
\* the other end's agreed; and then the other end's has gone before.
THEOREM OnlyByWish == Spec => []DeletedByWish
<1>1. Init => WishInv /\ DeletedByWish
  BY NoMessages DEF Init, WishInv, DeletedByWish, Encs, Ways, Decs
<1> QED BY <1>1, TypeInit, TypeStep, WishInduction, PTL DEF Spec

-----------------------------------------------------------------------------
(* Titles *)

LEMMA NoTitle ==
  /\ ~HasTitle(<<>>) /\ Named(<<>>) /\ \A x : Latest(<<>>, x)
  /\ \A s, x : ~HasTitle(s) => Latest(s, x) /\ Named(s)
<1>1. \A s, x : ~HasTitle(s) => Latest(s, x) /\ Named(s)
  BY DEF HasTitle, Latest, Named
<1>2. ~HasTitle(<<>>)
  BY NoMessages DEF HasTitle
<1> QED BY <1>1, <1>2

LEMMA TitleAppend ==
  ASSUME NEW s \in Seq(Message), NEW e \in Message
  PROVE  /\ HasTitle(Append(s, e)) <=> HasTitle(s) \/ IsTitle(e)
         /\ IsTitle(e) => Latest(Append(s, e), e.title)
         /\ \A x : ~IsTitle(e) /\ Latest(s, x) => Latest(Append(s, e), x)
         /\ Named(s) /\ (IsTitle(e) => e.title # None) => Named(Append(s, e))
<1> DEFINE a == Append(s, e)
           n == Len(s)
<1>1. /\ n \in Nat /\ Len(a) = n + 1
      /\ \A j \in 1..n : a[j] = s[j]
      /\ a[n + 1] = e
  BY AppendFacts, LenProperties
<1>2. \A j \in 1..n + 1 : j \in 1..n \/ j = n + 1
  BY <1>1
<1>3. \A j \in 1..n : j \in 1..n + 1 /\ n + 1 > j
  BY <1>1
<1>4. n + 1 \in 1..n + 1
  BY <1>1
<1> HIDE DEF a, n
<1>5. HasTitle(a) <=> HasTitle(s) \/ IsTitle(e)
  BY <1>1, <1>2, <1>3, <1>4 DEF HasTitle, n
<1>6. ASSUME IsTitle(e) PROVE Latest(a, e.title)
  BY <1>1, <1>2, <1>3, <1>4, <1>6 DEF Latest
<1>7. ASSUME NEW x, ~IsTitle(e), Latest(s, x) PROVE Latest(a, x)
  <2> SUFFICES ASSUME NEW i \in 1..n + 1, IsTitle(a[i]),
                      \A j \in 1..n + 1 : j > i => ~IsTitle(a[j])
               PROVE  a[i].title = x
    BY <1>1 DEF Latest
  <2>1. i \in 1..n
    BY <1>1, <1>2, <1>7
  <2>2. \A j \in 1..n : j > i => ~IsTitle(s[j])
    BY <1>1, <1>3
  <2> QED BY <1>1, <1>7, <2>1, <2>2 DEF Latest, n
<1>8. ASSUME Named(s), IsTitle(e) => e.title # None PROVE Named(a)
  BY <1>1, <1>2, <1>8 DEF Named, n
<1> QED BY <1>5, <1>6, <1>7, <1>8 DEF a

LEMMA TitleTail ==
  ASSUME NEW s \in Seq(Message), s # <<>>
  PROVE  /\ HasTitle(s) <=> HasTitle(Tail(s)) \/ IsTitle(Head(s))
         /\ \A x : Latest(s, x) =>
              /\ Latest(Tail(s), x)
              /\ ~HasTitle(Tail(s)) /\ IsTitle(Head(s)) => Head(s).title = x
         /\ Named(s) => Named(Tail(s)) /\ (IsTitle(Head(s)) => Head(s).title # None)
<1> DEFINE t == Tail(s)
           n == Len(s) - 1
<1>1. /\ n \in Nat /\ Len(t) = n /\ Len(s) = n + 1
      /\ \A j \in 1..n : t[j] = s[j + 1]
      /\ Head(s) = s[1]
  <2>1. 1 \in 1..Len(s) /\ Len(s) \in Nat
    BY HeadTailFacts, LenProperties
  <2> QED BY <2>1, HeadTailFacts
<1>2. \A j \in 1..n + 1 : j = 1 \/ (j - 1 \in 1..n /\ (j - 1) + 1 = j)
  BY <1>1
<1>3. \A j \in 1..n : j + 1 \in 1..n + 1
  BY <1>1
<1>4. 1 \in 1..n + 1 /\ \A j \in 1..n + 1 : j > 1 => j # 1
  BY <1>1
<1> HIDE DEF t, n
<1>5. HasTitle(s) <=> HasTitle(t) \/ IsTitle(Head(s))
  <2>1. ASSUME NEW i \in 1..n + 1, IsTitle(s[i]), i # 1 PROVE HasTitle(t)
    <3>1. i - 1 \in 1..n /\ t[i - 1] = s[i]
      BY <1>1, <1>2, <2>1
    <3> QED BY <1>1, <2>1, <3>1 DEF HasTitle
  <2>2. HasTitle(s) => HasTitle(t) \/ IsTitle(Head(s))
    BY <1>1, <2>1 DEF HasTitle
  <2>3. HasTitle(t) \/ IsTitle(Head(s)) => HasTitle(s)
    BY <1>1, <1>3, <1>4 DEF HasTitle
  <2> QED BY <2>2, <2>3
<1>6. ASSUME NEW x, Latest(s, x) PROVE Latest(t, x)
  <2> SUFFICES ASSUME NEW i \in 1..n, IsTitle(t[i]),
                      \A j \in 1..n : j > i => ~IsTitle(t[j])
               PROVE  t[i].title = x
    BY <1>1 DEF Latest
  <2>1. i + 1 \in 1..n + 1 /\ s[i + 1] = t[i]
    BY <1>1, <1>3
  <2>2. ASSUME NEW j \in 1..n + 1, j > i + 1 PROVE ~IsTitle(s[j])
    <3>1. j - 1 \in 1..n /\ j - 1 > i /\ t[j - 1] = s[j]
      BY <1>1, <1>2, <2>2
    <3> QED BY <3>1
  <2> QED BY <1>1, <1>6, <2>1, <2>2 DEF Latest
<1>7. ASSUME NEW x, Latest(s, x), ~HasTitle(t), IsTitle(Head(s)) PROVE Head(s).title = x
  <2>1. ASSUME NEW j \in 1..n + 1, j > 1 PROVE ~IsTitle(s[j])
    <3>1. j - 1 \in 1..n /\ t[j - 1] = s[j]
      BY <1>1, <1>2, <1>4, <2>1
    <3> QED BY <1>1, <1>7, <3>1 DEF HasTitle
  <2> QED BY <1>1, <1>4, <1>7, <2>1 DEF Latest
<1>8. ASSUME Named(s) PROVE Named(t) /\ (IsTitle(Head(s)) => Head(s).title # None)
  BY <1>1, <1>3, <1>4, <1>8 DEF Named
<1> QED BY <1>5, <1>6, <1>7, <1>8 DEF t

\* The only message an end handles.
LEMMA TitleOnly ==
  ASSUME NEW s \in Seq(Message), Len(s) <= 1, NEW i \in 1..Len(s)
  PROVE  /\ RemoveAt(s, i) = <<>>
         /\ HasTitle(s) <=> IsTitle(s[i])
         /\ \A x : Latest(s, x) /\ IsTitle(s[i]) => s[i].title = x
         /\ Named(s) /\ IsTitle(s[i]) => s[i].title # None
<1>1. Len(s) = 1 /\ i = 1
  <2>1. Len(s) \in Nat
    BY LenProperties
  <2>2. \A n \in Nat : \A j \in 1..n : n <= 1 => n = 1 /\ j = 1
    OBVIOUS
  <2> QED BY <2>1, <2>2
<1>2. DOMAIN s = 1..Len(s)
  BY LenProperties
<1>3. RemoveAt(s, i) \in Seq(Message) /\ Len(RemoveAt(s, i)) = 0
  BY <1>1, <1>2, RemoveAtFacts
<1>4. \A j \in 1..Len(s) : j = 1 /\ ~(j > i)
  BY <1>1
<1> QED BY <1>1, <1>3, <1>4, EmptySeq DEF HasTitle, Latest, Named

\* The same titles, in a sequence instead of another.
Carries(s, r) ==
  /\ HasTitle(r) <=> HasTitle(s)
  /\ \A x : Latest(s, x) => Latest(r, x)
  /\ Named(s) => Named(r)

LEMMA SameTitles ==
  ASSUME TypeOK, TitlesInv, Undisturbed' => Undisturbed, title' = title, status' = status,
         \A p \in Ends : /\ Carries(enc[p], enc'[p]) /\ Carries(queue[p], queue'[p])
                         /\ Carries(dec[p], dec'[p])
                         /\ status[p] = "waiting" =>
                              /\ enc'[p] = enc[p] /\ dec'[p] = dec[p]
                              /\ dialog'[p] => dialog[p]
  PROVE  TitlesInv'
<1> SUFFICES ASSUME Undisturbed'
             PROVE  /\ \A p \in Ends :
                         /\ status'[p] \in {"waiting", "connected"}
                         /\ Quiet(p)' /\ LastSent(p)'
                         /\ Named(enc'[p]) /\ Named(queue'[p]) /\ Named(dec'[p])
                    /\ ~(Sending(Host)' /\ Sending(Guest)')
                    /\ (\A p \in Ends : status'[p] = "connected" /\ ~Sending(p)')
                         => title'[Host] = title'[Guest]
  BY DEF TitlesInv
<1>1. /\ \A p \in Ends : /\ status[p] \in {"waiting", "connected"}
                         /\ Quiet(p) /\ LastSent(p)
                         /\ Named(enc[p]) /\ Named(queue[p]) /\ Named(dec[p])
      /\ ~(Sending(Host) /\ Sending(Guest))
      /\ (\A p \in Ends : status[p] = "connected" /\ ~Sending(p)) => title[Host] = title[Guest]
  BY DEF TitlesInv
<1>2. \A p \in Ends : Sending(p)' <=> Sending(p)
  BY TheOther DEF Sending, Carries
<1>3. Host \in Ends /\ Guest \in Ends
  BY DEF Ends
<1>4. ASSUME NEW p \in Ends PROVE LastSent(p)'
  <2>1. LastSent(p) /\ Other(p) \in Ends
    BY <1>1, TheOther
  <2> QED BY <2>1 DEF LastSent, Carries
<1>5. ASSUME NEW p \in Ends PROVE Quiet(p)'
  <2>1. Quiet(p) /\ Other(p) \in Ends
    BY <1>1, TheOther
  <2> QED BY <1>2, <2>1 DEF Quiet
<1> QED BY <1>1, <1>2, <1>3, <1>4, <1>5 DEF Carries

LEMMA CarriesSelf == \A s : Carries(s, s)
BY DEF Carries

LEMMA TitlesParts ==
  TitlesInv <=>
    (Undisturbed =>
      /\ \A p \in Ends : /\ status[p] \in {"waiting", "connected"}
                         /\ Quiet(p) /\ LastSent(p)
                         /\ Named(enc[p]) /\ Named(queue[p]) /\ Named(dec[p])
      /\ \A p \in Ends : ~(Sending(p) /\ Sending(Other(p)))
      /\ \A p \in Ends : /\ status[p] = "connected" /\ ~Sending(p)
                         /\ status[Other(p)] = "connected" /\ ~Sending(Other(p))
                         => title[p] = title[Other(p)])
<1>1. /\ Ends = {Host, Guest} /\ Other(Host) = Guest /\ Other(Guest) = Host
  BY DEF Ends, Other
<1> QED BY <1>1 DEF TitlesInv

\* What of the last lemma the next states owe, for an end p and the other.
LEMMA TitlesGoal ==
  ASSUME NEW p \in Ends,
         \A q \in Ends : /\ status'[q] \in {"waiting", "connected"}
                         /\ Quiet(q)' /\ LastSent(q)'
                         /\ Named(enc'[q]) /\ Named(queue'[q]) /\ Named(dec'[q]),
         ~(Sending(p)' /\ Sending(Other(p))'),
         /\ status'[p] = "connected" /\ ~Sending(p)'
         /\ status'[Other(p)] = "connected" /\ ~Sending(Other(p))'
         => title'[p] = title'[Other(p)]
  PROVE  TitlesInv'
<1>1. CASE p = Host
  <2>1. Other(p) = Guest
    BY <1>1 DEF Other
  <2> QED BY <1>1, <2>1 DEF TitlesInv, Ends
<1>2. CASE p = Guest
  <2>1. Other(p) = Host
    BY <1>2 DEF Other
  <2> QED BY <1>2, <2>1 DEF TitlesInv, Ends
<1> QED BY <1>1, <1>2 DEF Ends

LEMMA UpFacts ==
  ASSUME TypeOK, link = "up" PROVE \A p \in Ends : open[p] /\ here[p]
BY DEF TypeOK

LEMMA ClosedDown ==
  ASSUME TypeOK, NEW p \in Ends, Close(p) PROVE link' # "up"
BY CloseFacts DEF TypeOK

LEMMA NotUp == link' # "up" => TitlesInv'
BY DEF TitlesInv, Undisturbed

\* An end sends the title it shows, while none of the other is under way.
LEMMA TitleSent ==
  ASSUME TypeOK, TitlesInv, Undisturbed, NEW p \in Ends, NEW t \in Titles \cup {None},
         t # None, Encrypt(p, Title(t)), ~garbled', ~Sending(Other(p)),
         title'[p] = t, title'[Other(p)] = title[Other(p)],
         status'[p] = "connected", status'[Other(p)] = status[Other(p)],
         UNCHANGED <<queue, dec, dialog>>
  PROVE  TitlesInv'
<1> DEFINE o == Other(p)
           m == Title(t)
<1>1. /\ m \in Message /\ IsTitle(m) /\ m.title = t
      /\ o \in Ends /\ Other(o) = p /\ Ends = {p, o}
  BY Messages, TheOther
<1>2. enc'[p] = Append(enc[p], m) /\ enc'[o] = enc[o] /\ enc[p] \in Seq(Message)
  BY <1>1, EncryptFacts, TypedSeqs
<1>3. /\ \A q \in Ends : /\ status[q] \in {"waiting", "connected"}
                         /\ Quiet(q) /\ LastSent(q)
                         /\ Named(enc[q]) /\ Named(queue[q]) /\ Named(dec[q])
  BY TitlesParts
<1> HIDE DEF o, m
<1>4. HasTitle(enc'[p]) /\ Latest(enc'[p], t) /\ Named(enc'[p])
  BY <1>1, <1>2, <1>3, TitleAppend
<1>5. Sending(p)' /\ ~Sending(o)'
  BY <1>1, <1>2, <1>4 DEF Sending, o
<1>6. LastSent(p)' /\ LastSent(o)'
  <2>1. LastSent(p)'
    BY <1>4 DEF LastSent
  <2>2. LastSent(o)'
    BY <1>1, <1>2, <1>3 DEF LastSent, o
  <2> QED BY <2>1, <2>2
<1>7. Quiet(p)' /\ Quiet(o)'
  <2>1. Quiet(p)'
    BY DEF Quiet
  <2>2. Quiet(o)'
    BY <1>1, <1>2, <1>3, <1>5 DEF Quiet, o
  <2> QED BY <2>1, <2>2
<1>8. \A q \in Ends : /\ status'[q] \in {"waiting", "connected"}
                      /\ Quiet(q)' /\ LastSent(q)'
                      /\ Named(enc'[q]) /\ Named(queue'[q]) /\ Named(dec'[q])
  BY <1>1, <1>2, <1>3, <1>4, <1>6, <1>7 DEF o
<1> QED BY <1>5, <1>8, TitlesGoal DEF o

\* An end without a title connects.
LEMMA ConnectedUntitled ==
  ASSUME TypeOK, TitlesInv, Undisturbed, NEW p \in Ends, title[p] = None,
         status[p] = "waiting",
         status' = [status EXCEPT ![p] = "connected"],
         UNCHANGED <<title, enc, queue, dec, dialog>>
  PROVE  TitlesInv'
<1> DEFINE o == Other(p)
<1>1. o \in Ends /\ o # p /\ Other(o) = p /\ Ends = {p, o}
  BY TheOther
<1>2. /\ \A q \in Ends : /\ status[q] \in {"waiting", "connected"}
                         /\ Quiet(q) /\ LastSent(q)
                         /\ Named(enc[q]) /\ Named(queue[q]) /\ Named(dec[q])
      /\ ~(Sending(p) /\ Sending(o))
  BY TitlesParts
<1>3. status'[p] = "connected" /\ status'[o] = status[o]
  BY <1>1 DEF TypeOK
<1> HIDE DEF o
<1>4. \A q \in Ends : (Sending(q)' <=> Sending(q)) /\ LastSent(q)'
  BY <1>2 DEF Sending, LastSent
<1>5. Quiet(p)'
  BY <1>3 DEF Quiet
<1>6. Quiet(o)'
  BY <1>1, <1>2, <1>3, <1>4 DEF Quiet, o
<1>7. /\ status'[p] = "connected" /\ ~Sending(p)' /\ status'[o] = "connected" /\ ~Sending(o)'
      => title'[p] = title'[o]
  BY <1>1, <1>2, <1>3, <1>4 DEF Quiet, o
<1>8. \A q \in Ends : /\ status'[q] \in {"waiting", "connected"}
                      /\ Quiet(q)' /\ LastSent(q)'
                      /\ Named(enc'[q]) /\ Named(queue'[q]) /\ Named(dec'[q])
  BY <1>1, <1>2, <1>3, <1>4, <1>5, <1>6
<1> QED BY <1>1, <1>2, <1>4, <1>7, <1>8, TitlesGoal DEF o

\* An end that is not connected changes its title.
LEMMA TitleSaved ==
  ASSUME TypeOK, TitlesInv, Undisturbed, NEW p \in Ends, NEW t,
         status[p] # "connected",
         title' = [title EXCEPT ![p] = t],
         UNCHANGED <<status, enc, queue, dec, dialog>>
  PROVE  TitlesInv'
<1> DEFINE o == Other(p)
<1>1. o \in Ends /\ o # p /\ Other(o) = p /\ Ends = {p, o}
  BY TheOther
<1>2. /\ \A q \in Ends : /\ status[q] \in {"waiting", "connected"}
                         /\ Quiet(q) /\ LastSent(q)
                         /\ Named(enc[q]) /\ Named(queue[q]) /\ Named(dec[q])
      /\ ~(Sending(p) /\ Sending(o))
  BY TitlesParts
<1>3. title'[o] = title[o] /\ status[p] = "waiting"
  BY <1>1, <1>2 DEF TypeOK
<1> HIDE DEF o
<1>4. \A q \in Ends : (Sending(q)' <=> Sending(q))
  BY DEF Sending
<1>5. Quiet(p)' /\ Quiet(o)'
  BY <1>1, <1>2, <1>3, <1>4 DEF Quiet, o
<1>6. LastSent(p)'
  BY <1>2, <1>3, NoTitle DEF Quiet, LastSent, Sending
<1>7. LastSent(o)'
  BY <1>1, <1>2, <1>3 DEF LastSent, o
<1>8. \A q \in Ends : /\ status'[q] \in {"waiting", "connected"}
                      /\ Quiet(q)' /\ LastSent(q)'
                      /\ Named(enc'[q]) /\ Named(queue'[q]) /\ Named(dec'[q])
  BY <1>1, <1>2, <1>5, <1>6, <1>7
<1>9. status'[p] # "connected" /\ ~(Sending(p)' /\ Sending(o)')
  BY <1>1, <1>2, <1>3, <1>4
<1> QED BY <1>8, <1>9, TitlesGoal DEF o

\* An end sends something else.
LEMMA OtherSent ==
  ASSUME TypeOK, TitlesInv, NEW p \in Ends, NEW m \in Message, ~IsTitle(m),
         status[p] = "connected", Encrypt(p, m),
         \A q \in Ends : dialog'[q] => dialog[q],
         UNCHANGED <<title, status, link, queue, dec, apart>>
  PROVE  TitlesInv'
<1>1. /\ enc'[p] = Append(enc[p], m) /\ enc'[Other(p)] = enc[Other(p)]
      /\ enc[p] \in Seq(Message) /\ (~garbled' => ~garbled)
  BY EncryptFacts, TypedSeqs
<1>2. Carries(enc[p], enc'[p])
  BY <1>1, TitleAppend DEF Carries
<1>3. \A q \in Ends : /\ Carries(enc[q], enc'[q]) /\ Carries(queue[q], queue'[q])
                      /\ Carries(dec[q], dec'[q])
                      /\ status[q] = "waiting" =>
                           enc'[q] = enc[q] /\ dec'[q] = dec[q] /\ (dialog'[q] => dialog[q])
  BY <1>1, <1>2, CarriesSelf, TheOther
<1>4. Undisturbed' => Undisturbed
  BY <1>1 DEF Undisturbed
<1> QED BY <1>3, <1>4, SameTitles

\* The next state is one of a link that is up and undisturbed: so was the last one.
LEMMA LinkTitles == ASSUME TypeOK, Before, Link PROVE TitlesInv'
<1> SUFFICES ASSUME Undisturbed' PROVE TitlesInv'
  BY DEF TitlesInv
<1>1. links = 0
  <2>1. links \in Nat
    BY DEF TypeOK
  <2>2. ~garbled' /\ garbled' = (links > 0)
    BY Zenon DEF Undisturbed, Link
  <2>3. ~(links > 0)
    BY <2>2, Zenon
  <2> QED BY <2>1, <2>3
<1>2. \A q \in Ends : enc'[q] = <<>> /\ queue'[q] = <<>> /\ dec'[q] = <<>> /\ ~dialog'[q]
  BY <1>1 DEF Before, Link
<1>3. \A q \in Ends : status'[q] = "waiting"
  BY DEF Link
<1>4. \A q \in Ends : ~Sending(q)'
  BY <1>2, NoTitle, TheOther DEF Sending
<1>5. \A q \in Ends : LastSent(q)'
  BY <1>2, NoTitle, TheOther DEF LastSent
<1>6. \A q \in Ends : Quiet(q)'
  BY <1>2, <1>3, <1>4, TheOther DEF Quiet
<1>7. Host \in Ends
  BY DEF Ends
<1>8. \A q \in Ends : /\ status'[q] \in {"waiting", "connected"}
                      /\ Quiet(q)' /\ LastSent(q)'
                      /\ Named(enc'[q]) /\ Named(queue'[q]) /\ Named(dec'[q])
  BY <1>2, <1>3, <1>5, <1>6, NoTitle
<1>9. status'[Host] # "connected"
  BY <1>3, <1>7
<1> QED BY <1>4, <1>7, <1>8, <1>9, TitlesGoal

LEMMA ClosedTitles ==
  ASSUME TypeOK, NEW p \in Ends, Noticed(p) \/ Disconnect(p) \/ DeleteLocal(p)
  PROVE  TitlesInv'
<1>1. Close(p)
  BY DEF Noticed, Disconnect, DeleteLocal, Delete
<1> QED BY <1>1, ClosedDown, NotUp

\* Whether a title is under way is looked up in what is.
LEMMA UnderWay == ASSUME TypeOK, NEW p \in Ends, Sending(p) PROVE TitleUnderWay(p)
<1> DEFINE o == Other(p)
           all == enc[p] \o queue[o] \o dec[o]
<1>1. /\ o \in Ends /\ enc[p] \in Seq(Message)
      /\ queue[o] \in Seq(Message) /\ dec[o] \in Seq(Message)
  BY TypedSeqs, TheOther
<1>2. ToSet(all) = ToSet(enc[p]) \cup ToSet(queue[o]) \cup ToSet(dec[o])
  <2>1. /\ enc[p] \o queue[o] \in Seq(Message)
        /\ ToSet(enc[p] \o queue[o]) = ToSet(enc[p]) \cup ToSet(queue[o])
    BY <1>1, ConcatFacts
  <2>2. ToSet(all) = ToSet(enc[p] \o queue[o]) \cup ToSet(dec[o])
    <3> DEFINE both == enc[p] \o queue[o]
    <3>1. both \in Seq(Message) /\ dec[o] \in Seq(Message)
      BY <1>1, <2>1
    <3> HIDE DEF both
    <3>2. ToSet(both \o dec[o]) = ToSet(both) \cup ToSet(dec[o])
      BY <3>1, ConcatFacts
    <3> QED BY <3>2 DEF both
  <2> QED BY <2>1, <2>2
<1>3. \A s \in Seq(Message) : HasTitle(s) => \E m \in ToSet(s) : IsTitle(m)
  <2> TAKE s \in Seq(Message)
  <2>1. ToSet(s) = {s[i] : i \in 1..Len(s)}
    BY ToSetDef
  <2> QED BY <2>1 DEF HasTitle
<1>4. \E m \in ToSet(all) : IsTitle(m)
  BY <1>1, <1>2, <1>3 DEF Sending
<1> QED BY <1>4 DEF TitleUnderWay, IsTitle

LEMMA SaveTitleTitles ==
  ASSUME TypeOK, TitlesInv, NEW p \in Ends, NEW t \in Titles \cup {None}, SaveTitle(p, t)
  PROVE  TitlesInv'
<1> SUFFICES ASSUME Undisturbed' PROVE TitlesInv'
  BY DEF TitlesInv
<1>1. /\ title' = [title EXCEPT ![p] = t]
      /\ IF status[p] = "connected" THEN Encrypt(p, Title(t)) ELSE UNCHANGED <<enc, garbled>>
      /\ apart' = (apart \/ t = None \/ TitleUnderWay(Other(p)))
      /\ UNCHANGED <<status, link, queue, dec, dialog>>
  BY DEF SaveTitle, SendTitle, channel
<1>2. ~apart /\ t # None /\ ~Sending(Other(p))
  <2>1. ~apart'
    BY DEF Undisturbed
  <2>2. ~apart /\ t # None /\ ~TitleUnderWay(Other(p))
    BY <1>1, <2>1
  <2> QED BY <2>2, UnderWay, TheOther
<1>3. title'[p] = t /\ title'[Other(p)] = title[Other(p)]
  BY <1>1, TheOther DEF TypeOK
<1>4. CASE status[p] = "connected"
  <2>1. Encrypt(p, Title(t)) /\ ~garbled'
    BY <1>1, <1>4 DEF Undisturbed
  <2>2. ~garbled
    BY <2>1, EncryptFacts, Messages
  <2>3. Undisturbed
    BY <1>1, <1>2, <2>2 DEF Undisturbed
  <2> QED BY <1>1, <1>2, <1>3, <1>4, <2>1, <2>3, TitleSent
<1>5. CASE status[p] # "connected"
  <2>1. UNCHANGED <<enc, garbled>>
    BY <1>1, <1>5
  <2>2. Undisturbed
    BY <1>1, <1>2, <2>1 DEF Undisturbed
  <2> QED BY <1>1, <1>5, <2>1, <2>2, TitleSaved
<1> QED BY <1>4, <1>5

LEMMA ConnectedTitles ==
  ASSUME TypeOK, TitlesInv, NEW p \in Ends, Connected(p) PROVE TitlesInv'
<1> SUFFICES ASSUME Undisturbed' PROVE TitlesInv'
  BY DEF TitlesInv
<1>1. /\ status[p] = "waiting" /\ status' = [status EXCEPT ![p] = "connected"]
      /\ IF title[p] # None
         THEN /\ Encrypt(p, Title(title[p]))
              /\ apart' = (apart \/ TitleUnderWay(Other(p)))
         ELSE UNCHANGED <<enc, garbled, apart>>
      /\ UNCHANGED <<title, link, queue, dec, dialog>>
  BY DEF Connected, channel
<1>2. ~apart' /\ ~garbled' /\ link' = "up"
  BY DEF Undisturbed
<1>3. /\ status'[p] = "connected" /\ status'[Other(p)] = status[Other(p)]
      /\ title[p] \in Titles \cup {None}
  BY <1>1, TheOther DEF TypeOK
<1>4. CASE title[p] # None
  <2>1. Encrypt(p, Title(title[p])) /\ apart' = (apart \/ TitleUnderWay(Other(p)))
    BY <1>1, <1>4
  <2>2. ~apart /\ ~Sending(Other(p))
    BY <1>2, <2>1, UnderWay, TheOther
  <2>3. ~garbled
    BY <1>2, <1>3, <2>1, EncryptFacts, Messages
  <2>4. Undisturbed
    BY <1>1, <1>2, <2>2, <2>3 DEF Undisturbed
  <2> QED BY <1>1, <1>2, <1>3, <1>4, <2>1, <2>2, <2>4, TitleSent
<1>5. CASE title[p] = None
  <2>1. UNCHANGED <<enc, garbled, apart>>
    BY <1>1, <1>5
  <2>2. Undisturbed
    BY <1>1, <1>2, <2>1 DEF Undisturbed
  <2> QED BY <1>1, <1>5, <2>1, <2>2, ConnectedUntitled
<1> QED BY <1>4, <1>5

\* Nothing that bears on the titles changes.
LEMMA TitlesUnchanged ==
  ASSUME TypeOK, TitlesInv, UNCHANGED <<title, status, link, enc, queue, dec, garbled, apart>>,
         \A q \in Ends : dialog'[q] => dialog[q]
  PROVE  TitlesInv'
<1>1. Undisturbed' => Undisturbed
  BY DEF Undisturbed
<1> QED BY <1>1, SameTitles, CarriesSelf

LEMMA RequestDeleteTitles ==
  ASSUME TypeOK, TitlesInv, NEW p \in Ends, RequestDelete(p) PROVE TitlesInv'
<1>1. /\ IF status[p] = "connected" THEN Encrypt(p, Request) ELSE UNCHANGED <<enc, garbled>>
      /\ UNCHANGED <<title, status, link, queue, dec, dialog, apart>>
  BY DEF RequestDelete, channel
<1>2. CASE status[p] = "connected"
  BY <1>1, <1>2, OtherSent, Messages
<1>3. CASE status[p] # "connected"
  BY <1>1, <1>3, TitlesUnchanged
<1> QED BY <1>2, <1>3

LEMMA AnswerTitles ==
  ASSUME TypeOK, TitlesInv, NEW p \in Ends, Answer(p) PROVE TitlesInv'
<1>1. /\ dialog' = [dialog EXCEPT ![p] = FALSE]
      /\ UNCHANGED <<title, dec, apart>>
      /\ \/ UNCHANGED <<status, link, queue, enc, garbled>>
         \/ /\ status[p] = "connected" /\ Encrypt(p, Confirm)
            /\ UNCHANGED <<status, link, queue>>
         \/ Close(p)
  BY DEF Answer, Delete
<1>2. \A q \in Ends : dialog'[q] => dialog[q]
  BY <1>1 DEF TypeOK
<1>3. CASE UNCHANGED <<status, link, queue, enc, garbled>>
  BY <1>1, <1>2, <1>3, TitlesUnchanged
<1>4. CASE /\ status[p] = "connected" /\ Encrypt(p, Confirm)
           /\ UNCHANGED <<status, link, queue>>
  BY <1>1, <1>2, <1>4, OtherSent, Messages
<1>5. CASE Close(p)
  BY <1>5, ClosedDown, NotUp
<1> QED BY <1>1, <1>3, <1>4, <1>5

\* An end that handles one message at a time.
LEMMA OneOf ==
  ASSUME TypeOK, OneAtATime, ~garbled, NEW p \in Ends
  PROVE  /\ Len(enc[p]) <= 1 /\ Len(dec[p]) <= 1
         /\ Handled(p) = 0 => enc[p] = <<>> /\ dec[p] = <<>>
<1>1. /\ Len(enc[p]) \in Nat /\ Len(dec[p]) \in Nat
      /\ Handled(p) = Len(enc[p]) + Len(dec[p])
      /\ enc[p] \in Seq(Message) /\ dec[p] \in Seq(Message)
  BY TypedSeqs
<1>2. Handled(p) <= 1
  BY DEF OneAtATime
<1>3. \A a, b \in Nat : /\ a + b <= 1 => a <= 1 /\ b <= 1
                        /\ a + b = 0 => a = 0 /\ b = 0
  OBVIOUS
<1>4. Len(enc[p]) + Len(dec[p]) <= 1
  BY <1>1, <1>2
<1> QED BY <1>1, <1>3, <1>4, EmptySeq

\* A message leaves its end.
LEMMA EncryptedTitles ==
  ASSUME TypeOK, OneAtATime, TitlesInv, NEW p \in Ends, NEW i, Encrypted(p, i)
  PROVE  TitlesInv'
<1> SUFFICES ASSUME Undisturbed' PROVE TitlesInv'
  BY DEF TitlesInv
<1> DEFINE o == Other(p)
           m == enc[p][i]
<1>1. link' = "up" /\ UNCHANGED <<title, dec, dialog, garbled, apart>>
  BY DEF Undisturbed, Encrypted
<1>2. ~(open[p] /\ m = Confirm) /\ ~Delete(p)
  <2>1. ~(open[p] /\ m = Confirm)
    BY <1>1 DEF Encrypted
  <2>2. ~Delete(p)
    BY <1>1, ClosedDown DEF Delete
  <2> QED BY <2>1, <2>2
<1>3. /\ UNCHANGED <<status, link>>
      /\ enc' = [enc EXCEPT ![p] = RemoveAt(@, i)] /\ i \in DOMAIN enc[p]
      /\ queue' = IF open[p]
                  THEN [queue EXCEPT ![o] = IF link = "up" THEN Append(queue[o], m)
                                            ELSE queue[o]]
                  ELSE queue
  BY <1>2 DEF Encrypted
<1>4. Undisturbed /\ open[p]
  BY <1>1, <1>3, UpFacts DEF Undisturbed
<1>5. /\ o \in Ends /\ o # p /\ Other(o) = p /\ Ends = {p, o}
      /\ queue[o] \in Seq(Message) /\ enc[p] \in Seq(Message)
      /\ i \in 1..Len(enc[p]) /\ m \in Message
  BY EncryptedFacts, TypedSeqs, TheOther
<1>6. Len(enc[p]) <= 1 /\ enc[p] # <<>>
  <2>1. Len(enc[p]) <= 1
    BY <1>4, OneOf DEF Undisturbed
  <2>2. enc[p] # <<>>
    BY <1>5, NoMessages
  <2> QED BY <2>1, <2>2
<1>7. /\ RemoveAt(enc[p], i) = <<>>
      /\ HasTitle(enc[p]) <=> IsTitle(m)
      /\ \A x : Latest(enc[p], x) /\ IsTitle(m) => m.title = x
      /\ Named(enc[p]) /\ IsTitle(m) => m.title # None
  BY <1>5, <1>6, TitleOnly
<1> HIDE DEF o, m
<1>8. /\ enc'[p] = <<>> /\ enc'[o] = enc[o]
      /\ queue'[o] = Append(queue[o], m) /\ queue'[p] = queue[p]
  BY <1>1, <1>3, <1>4, <1>5, <1>7 DEF TypeOK
<1>9. /\ \A q \in Ends : /\ status[q] \in {"waiting", "connected"}
                         /\ Quiet(q) /\ LastSent(q)
                         /\ Named(enc[q]) /\ Named(queue[q]) /\ Named(dec[q])
      /\ ~(Sending(p) /\ Sending(o))
  BY <1>4, <1>5, TitlesParts DEF o
<1>10. status[p] = "connected"
  BY <1>6, <1>9 DEF Quiet
<1>11. CASE ~IsTitle(m)
  <2>1. Carries(enc[p], enc'[p])
    BY <1>7, <1>8, <1>11, NoTitle DEF Carries
  <2>2. Carries(queue[o], queue'[o])
    BY <1>5, <1>8, <1>11, TitleAppend DEF Carries
  <2>3. \A q \in Ends : /\ Carries(enc[q], enc'[q]) /\ Carries(queue[q], queue'[q])
                        /\ Carries(dec[q], dec'[q])
                        /\ status[q] = "waiting" =>
                             enc'[q] = enc[q] /\ dec'[q] = dec[q] /\ (dialog'[q] => dialog[q])
    BY <1>1, <1>5, <1>8, <1>10, <2>1, <2>2, CarriesSelf
  <2> QED BY <1>1, <1>3, <1>4, <2>3, SameTitles
<1>12. CASE IsTitle(m)
  <2>1. m.title = title[p] /\ m.title # None /\ HasTitle(enc[p])
    BY <1>7, <1>9, <1>12 DEF LastSent
  <2>2. HasTitle(queue'[o]) /\ Latest(queue'[o], title[p]) /\ Named(queue'[o])
    BY <1>5, <1>8, <1>9, <1>12, <2>1, TitleAppend
  <2>3. Sending(p)' /\ ~Sending(o)' /\ ~Sending(o)
    BY <1>1, <1>5, <1>8, <1>9, <2>1, <2>2 DEF Sending, o
  <2>4. LastSent(p)'
    BY <1>1, <1>8, <2>2, NoTitle DEF LastSent, o
  <2>5. LastSent(o)'
    BY <1>1, <1>5, <1>8, <1>9 DEF LastSent, o
  <2>6. Quiet(p)' /\ Quiet(o)'
    BY <1>1, <1>3, <1>5, <1>8, <1>9, <1>10, <2>3 DEF Quiet, o
  <2>7. \A q \in Ends : /\ status'[q] \in {"waiting", "connected"}
                        /\ Quiet(q)' /\ LastSent(q)'
                        /\ Named(enc'[q]) /\ Named(queue'[q]) /\ Named(dec'[q])
    BY <1>1, <1>3, <1>5, <1>8, <1>9, <2>2, <2>4, <2>5, <2>6, NoTitle
  <2> QED BY <2>3, <2>7, TitlesGoal DEF o
<1> QED BY <1>11, <1>12

\* A message is taken from its way.
LEMMA DeliverTitles ==
  ASSUME TypeOK, OneAtATime, TitlesInv, NEW p \in Ends, Deliver(p)
  PROVE  TitlesInv'
<1> SUFFICES ASSUME Undisturbed' PROVE TitlesInv'
  BY DEF TitlesInv
<1> DEFINE o == Other(p)
           h == Head(queue[p])
<1>1. status[p] = "connected" /\ UNCHANGED <<title, status, link, enc, dialog, apart>>
  BY DEF Deliver
<1>2. /\ queue[p] # <<>> /\ h \in Message /\ queue' = [queue EXCEPT ![p] = Tail(@)]
      /\ dec'[p] = Append(dec[p], h) /\ dec'[o] = dec[o]
      /\ ~garbled' => ~garbled /\ Handled(p) = 0
  BY DeliverFacts
<1>3. Undisturbed /\ Handled(p) = 0
  BY <1>1, <1>2 DEF Undisturbed
<1>4. /\ o \in Ends /\ o # p /\ Other(o) = p /\ Ends = {p, o}
      /\ queue[p] \in Seq(Message)
  BY TypedSeqs, TheOther
<1>5. enc[p] = <<>> /\ dec[p] = <<>>
  BY <1>3, OneOf DEF Undisturbed
<1>6. /\ HasTitle(queue[p]) <=> HasTitle(Tail(queue[p])) \/ IsTitle(h)
      /\ \A x : Latest(queue[p], x) =>
           /\ Latest(Tail(queue[p]), x)
           /\ ~HasTitle(Tail(queue[p])) /\ IsTitle(h) => h.title = x
      /\ Named(queue[p]) => Named(Tail(queue[p])) /\ (IsTitle(h) => h.title # None)
  BY <1>2, <1>4, TitleTail
<1> HIDE DEF o, h
<1>7. queue'[p] = Tail(queue[p]) /\ queue'[o] = queue[o]
  BY <1>2, <1>4 DEF TypeOK
<1>8. /\ HasTitle(dec'[p]) <=> IsTitle(h)
      /\ IsTitle(h) => Latest(dec'[p], h.title)
      /\ \A x : ~IsTitle(h) => Latest(dec'[p], x)
      /\ (IsTitle(h) => h.title # None) => Named(dec'[p])
  BY <1>2, <1>5, TitleAppend, NoTitle, NoMessages
<1>9. /\ \A q \in Ends : /\ status[q] \in {"waiting", "connected"}
                         /\ Quiet(q) /\ LastSent(q)
                         /\ Named(enc[q]) /\ Named(queue[q]) /\ Named(dec[q])
      /\ ~(Sending(p) /\ Sending(o))
  BY <1>3, <1>4, TitlesParts DEF o
<1>10. (Sending(p)' <=> Sending(p)) /\ (Sending(o)' <=> Sending(o))
  BY <1>1, <1>2, <1>4, <1>5, <1>6, <1>7, <1>8, NoTitle DEF Sending, o
<1>11. LastSent(p)'
  BY <1>1, <1>2, <1>4, <1>7, <1>9 DEF LastSent, o
<1>12. LastSent(o)'
  <2>1. /\ HasTitle(enc[o]) => Latest(enc[o], title[o])
        /\ ~HasTitle(enc[o]) => Latest(queue[p], title[o])
    BY <1>4, <1>9 DEF LastSent
  <2>2. ~HasTitle(enc[o]) => Latest(queue'[p], title[o])
    BY <1>6, <1>7, <2>1
  <2>3. ~HasTitle(enc[o]) /\ ~HasTitle(queue'[p]) => Latest(dec'[p], title[o])
    BY <1>6, <1>7, <1>8, <2>1
  <2> QED BY <1>1, <1>4, <2>1, <2>2, <2>3 DEF LastSent
<1>13. Quiet(p)' /\ Quiet(o)'
  BY <1>1, <1>2, <1>4, <1>7, <1>9, <1>10 DEF Quiet, o
<1>14. \A q \in Ends : /\ status'[q] \in {"waiting", "connected"}
                       /\ Quiet(q)' /\ LastSent(q)'
                       /\ Named(enc'[q]) /\ Named(queue'[q]) /\ Named(dec'[q])
  BY <1>1, <1>2, <1>4, <1>6, <1>7, <1>8, <1>9, <1>11, <1>12, <1>13
<1>15. /\ status'[p] = "connected" /\ ~Sending(p)' /\ status'[o] = "connected" /\ ~Sending(o)'
       => title'[p] = title'[o]
  BY <1>1, <1>3, <1>10, TitlesParts DEF o
<1> QED BY <1>9, <1>10, <1>14, <1>15, TitlesGoal DEF o

\* The one message an end decrypts.
LEMMA DecryptsOne ==
  ASSUME TypeOK, OneAtATime, ~garbled, NEW p \in Ends, NEW i, Decrypts(p, i)
  PROVE  /\ dec[p] # <<>> /\ dec[p] \in Seq(Message)
         /\ dec'[p] = <<>> /\ dec'[Other(p)] = dec[Other(p)]
         /\ HasTitle(dec[p]) <=> IsTitle(dec[p][i])
         /\ \A x : Latest(dec[p], x) /\ IsTitle(dec[p][i]) => dec[p][i].title = x
<1>1. /\ dec'[p] = RemoveAt(dec[p], i) /\ dec'[Other(p)] = dec[Other(p)]
      /\ i \in 1..Len(dec[p]) /\ dec[p] \in Seq(Message)
  BY DecryptsFacts, TypedSeqs
<1>2. Len(dec[p]) <= 1
  BY OneOf
<1>3. dec[p] # <<>>
  BY <1>1, NoMessages
<1> QED BY <1>1, <1>2, <1>3, TitleOnly

\* The title of the other end arrives, and is shown.
LEMMA HandleTitleTitles ==
  ASSUME TypeOK, OneAtATime, TitlesInv, NEW p \in Ends, NEW i, HandleTitle(p, i)
  PROVE  TitlesInv'
<1> SUFFICES ASSUME Undisturbed' PROVE TitlesInv'
  BY DEF TitlesInv
<1> DEFINE o == Other(p)
           m == dec[p][i]
<1>1. /\ Decrypts(p, i) /\ IsTitle(m)
      /\ title' = [title EXCEPT ![p] = IF here[p] /\ m.title # None THEN m.title ELSE @]
      /\ UNCHANGED <<status, link, queue, dialog>>
  BY DEF HandleTitle, IsTitle
<1>2. UNCHANGED <<enc, garbled, apart>>
  BY <1>1, DecryptsFacts
<1>3. Undisturbed /\ ~garbled /\ link = "up"
  BY <1>1, <1>2 DEF Undisturbed
<1>4. /\ dec[p] # <<>> /\ dec'[p] = <<>> /\ dec'[o] = dec[o] /\ HasTitle(dec[p])
      /\ \A x : Latest(dec[p], x) => m.title = x
      /\ dec[p] \in Seq(Message) /\ i \in 1..Len(dec[p])
  BY <1>1, <1>3, DecryptsOne, DecryptsFacts
<1>5. o \in Ends /\ o # p /\ Other(o) = p /\ Ends = {p, o} /\ here[p]
  BY <1>3, TheOther, UpFacts
<1>6. /\ \A q \in Ends : /\ status[q] \in {"waiting", "connected"}
                         /\ Quiet(q) /\ LastSent(q)
                         /\ Named(enc[q]) /\ Named(queue[q]) /\ Named(dec[q])
      /\ ~(Sending(p) /\ Sending(o))
  BY <1>3, <1>5, TitlesParts
<1>7. m.title # None
  BY <1>1, <1>4, <1>6 DEF Named
<1> HIDE DEF o, m
<1>8. title'[p] = m.title /\ title'[o] = title[o]
  BY <1>1, <1>5, <1>7 DEF TypeOK
<1>9. Sending(o) /\ ~Sending(p) /\ ~Sending(p)'
  BY <1>1, <1>2, <1>4, <1>5, <1>6 DEF Sending, o
<1>10. status[p] = "connected" /\ status[o] = "connected"
  BY <1>4, <1>5, <1>6, <1>9 DEF Quiet
<1>11. LastSent(p)'
  BY <1>9, NoTitle DEF LastSent, Sending
<1>12. LastSent(o)'
  BY <1>1, <1>2, <1>4, <1>5, <1>6, <1>8, NoTitle DEF LastSent
<1>13. Quiet(p)' /\ Quiet(o)'
  BY <1>1, <1>10 DEF Quiet
<1>14. \A q \in Ends : /\ status'[q] \in {"waiting", "connected"}
                       /\ Quiet(q)' /\ LastSent(q)'
                       /\ Named(enc'[q]) /\ Named(queue'[q]) /\ Named(dec'[q])
  BY <1>1, <1>2, <1>4, <1>5, <1>6, <1>11, <1>12, <1>13, NoTitle
<1>15. ~Sending(o)' => title'[p] = title'[o]
  <2>1. ~Sending(o)' => ~HasTitle(enc[o]) /\ ~HasTitle(queue[p])
    BY <1>1, <1>2, <1>5 DEF Sending
  <2>2. ~HasTitle(enc[o]) /\ ~HasTitle(queue[p]) => Latest(dec[p], title[o])
    BY <1>5, <1>6 DEF LastSent
  <2> QED BY <1>4, <1>8, <2>1, <2>2
<1> QED BY <1>9, <1>14, <1>15, TitlesGoal DEF o

LEMMA HandleTitles ==
  ASSUME TypeOK, OneAtATime, TitlesInv, NEW p \in Ends, NEW i, Handle(p, i)
  PROVE  TitlesInv'
<1>1. CASE Unreadable(p, i)
  <2>1. garbled /\ garbled' = garbled
    BY <1>1, DecryptsFacts DEF Unreadable
  <2> QED BY <2>1 DEF TitlesInv, Undisturbed
<1>2. CASE HandleTitle(p, i)
  BY <1>2, HandleTitleTitles
<1>3. CASE HandleRequest(p, i)
  <2> SUFFICES ASSUME Undisturbed' PROVE TitlesInv'
    BY DEF TitlesInv
  <2>1. /\ Decrypts(p, i) /\ dec[p][i] = Request
        /\ dialog' = [dialog EXCEPT ![p] = here[p]]
        /\ UNCHANGED <<title, status, link, queue>>
    BY <1>3 DEF HandleRequest
  <2>2. UNCHANGED <<enc, garbled, apart>>
    BY <2>1, DecryptsFacts
  <2>3. Undisturbed
    BY <2>1, <2>2 DEF Undisturbed
  <2>4. /\ dec[p] # <<>> /\ dec'[p] = <<>> /\ dec'[Other(p)] = dec[Other(p)]
        /\ ~HasTitle(dec[p])
    BY <2>1, <2>3, DecryptsOne, Messages DEF Undisturbed
  <2>5. Carries(dec[p], dec'[p])
    BY <2>4, NoTitle DEF Carries
  <2>6. status[p] # "waiting"
    BY <2>3, <2>4 DEF TitlesInv, Quiet
  <2>7. dialog'[Other(p)] => dialog[Other(p)]
    BY <2>1, TheOther DEF TypeOK
  <2>8. \A q \in Ends : /\ Carries(enc[q], enc'[q]) /\ Carries(queue[q], queue'[q])
                        /\ Carries(dec[q], dec'[q])
                        /\ status[q] = "waiting" =>
                             enc'[q] = enc[q] /\ dec'[q] = dec[q] /\ (dialog'[q] => dialog[q])
    BY <2>1, <2>2, <2>4, <2>5, <2>6, <2>7, CarriesSelf, TheOther
  <2> QED BY <2>1, <2>3, <2>8, SameTitles
<1>4. CASE HandleConfirm(p, i)
  <2>1. CASE here[p]
    BY <1>4, <2>1, ClosedDown, NotUp DEF HandleConfirm, Delete
  <2>2. CASE ~here[p]
    <3>1. link' = link
      BY <1>4, <2>2 DEF HandleConfirm
    <3> QED BY <2>2, <3>1, UpFacts, NotUp
  <2> QED BY <2>1, <2>2
<1> QED BY <1>1, <1>2, <1>3, <1>4 DEF Handle

LEMMA TitlesStep ==
  TypeOK /\ Before /\ OneAtATime /\ TitlesInv /\ [Next]_vars => TitlesInv'
<1> SUFFICES ASSUME TypeOK, Before, OneAtATime, TitlesInv, [Next]_vars PROVE TitlesInv'
  OBVIOUS
<1>1. CASE Link
  BY <1>1, LinkTitles
<1>2. CASE LinkLost
  BY <1>2, NotUp DEF LinkLost
<1>3. ASSUME NEW p \in Ends, Noticed(p) \/ Disconnect(p) \/ Connected(p) PROVE TitlesInv'
  BY <1>3, ClosedTitles, ConnectedTitles
<1>4. ASSUME NEW p \in Ends, NEW t \in Titles \cup {None}, SaveTitle(p, t) PROVE TitlesInv'
  BY <1>4, SaveTitleTitles
<1>5. ASSUME NEW p \in Ends, RequestDelete(p) \/ DeleteLocal(p) \/ Answer(p) \/ Deliver(p)
      PROVE  TitlesInv'
  BY <1>5, RequestDeleteTitles, ClosedTitles, AnswerTitles, DeliverTitles
<1>6. ASSUME NEW p \in Ends, NEW i \in 1..Handlers, Encrypted(p, i) \/ Handle(p, i)
      PROVE  TitlesInv'
  BY <1>6, EncryptedTitles, HandleTitles
<1>7. CASE UNCHANGED vars
  <2>1. UNCHANGED <<title, status, link, enc, queue, dec, garbled, apart, dialog>>
    BY <1>7 DEF vars, channel
  <2> QED BY <2>1, TitlesUnchanged
<1> QED BY <1>1, <1>2, <1>3, <1>4, <1>5, <1>6, <1>7 DEF Next

-----------------------------------------------------------------------------
(* Before the first link, and one at a time *)

LEMMA BeforeStep == TypeOK /\ Before /\ [Next]_vars => Before'
<1> SUFFICES ASSUME TypeOK, Before, [Next]_vars, links' = 0 PROVE Before'
  BY DEF Before
<1>1. CASE Link
  <2>1. links \in Nat /\ links' = links + 1
    BY <1>1 DEF TypeOK, Link
  <2> QED BY <2>1
<1> SUFFICES ASSUME links = 0 PROVE Before'
  <2>1. CASE LinkLost
    BY <2>1 DEF LinkLost
  <2>2. ASSUME NEW p \in Ends, Close(p) PROVE links' = links
    BY <2>2 DEF Close
  <2>3. ASSUME NEW p \in Ends,
               Noticed(p) \/ Disconnect(p) \/ DeleteLocal(p) PROVE links' = links
    BY <2>2, <2>3 DEF Noticed, Disconnect, DeleteLocal, Delete
  <2>4. ASSUME NEW p \in Ends,
               \/ Connected(p) \/ RequestDelete(p) \/ Answer(p) \/ Deliver(p)
               \/ \E t \in Titles \cup {None} : SaveTitle(p, t)
        PROVE  links' = links
    BY <2>4 DEF Connected, SaveTitle, RequestDelete, Answer, Deliver, channel
  <2>5. ASSUME NEW p \in Ends, NEW i, Encrypted(p, i) \/ Decrypts(p, i) PROVE links' = links
    BY <2>5 DEF Encrypted, Decrypts
  <2>6. ASSUME NEW p \in Ends, NEW i, Handle(p, i) PROVE links' = links
    BY <2>5, <2>6 DEF Handle, Unreadable, HandleTitle, HandleRequest, HandleConfirm
  <2>7. CASE UNCHANGED vars
    BY <2>7 DEF vars, channel
  <2> QED BY <1>1, <2>1, <2>3, <2>4, <2>5, <2>6, <2>7 DEF Next
<1>2. /\ link = "none"
      /\ \A p \in Ends : /\ status[p] = "waiting" /\ ~open[p] /\ ~dialog[p]
                         /\ enc[p] = <<>> /\ queue[p] = <<>> /\ dec[p] = <<>>
  BY DEF Before
<1>3. CASE LinkLost
  BY <1>2, <1>3 DEF LinkLost
<1>4. ASSUME NEW p \in Ends,
             \/ Noticed(p) \/ Disconnect(p) \/ Connected(p) \/ Answer(p) \/ Deliver(p)
      PROVE  FALSE
  BY <1>2, <1>4 DEF Noticed, Disconnect, Connected, Answer, Deliver
<1>5. ASSUME NEW p \in Ends, NEW i, Encrypted(p, i) \/ Handle(p, i) PROVE FALSE
  <2>1. i \in 1..Len(enc[p]) \/ i \in 1..Len(dec[p])
    BY <1>5, EncryptedFacts, DecryptsFacts
       DEF Handle, Unreadable, HandleTitle, HandleRequest, HandleConfirm
  <2> QED BY <1>2, <2>1, NoMessages
<1>6. ASSUME NEW p \in Ends, NEW t, SaveTitle(p, t) PROVE Before'
  <2>1. UNCHANGED <<status, link, open, queue, enc, dec, dialog>>
    BY <1>2, <1>6 DEF SaveTitle, SendTitle, channel
  <2> QED BY <1>2, <2>1 DEF Before
<1>7. ASSUME NEW p \in Ends, RequestDelete(p) PROVE Before'
  <2>1. UNCHANGED <<status, link, open, queue, enc, dec, dialog>>
    BY <1>2, <1>7 DEF RequestDelete, channel
  <2> QED BY <1>2, <2>1 DEF Before
<1>8. ASSUME NEW p \in Ends, DeleteLocal(p) PROVE Before'
  <2>1. Close(p) /\ UNCHANGED <<enc, dec, dialog>>
    BY <1>8 DEF DeleteLocal, Delete
  <2>2. /\ open' = [open EXCEPT ![p] = FALSE] /\ link' = link
        /\ status' = [status EXCEPT ![p] = IF @ = "connected" THEN "disconnected" ELSE @]
        /\ \A q \in Ends : queue[q] = <<>> => queue'[q] = <<>>
    BY <1>2, <2>1, CloseFacts
  <2> QED BY <1>2, <2>1, <2>2 DEF Before, TypeOK
<1>9. CASE UNCHANGED vars
  BY <1>2, <1>9 DEF vars, channel, Before
<1> QED BY <1>1, <1>3, <1>4, <1>5, <1>6, <1>7, <1>8, <1>9 DEF Next

\* A step in which an end handles a message more, having handled none, or none more.
LEMMA OneMore ==
  ASSUME TypeOK, OneAtATime, ~garbled', ~garbled, NEW p \in Ends,
         enc'[Other(p)] = enc[Other(p)], dec'[Other(p)] = dec[Other(p)],
         \/ Handled(p) = 0 /\ Len(enc'[p]) = Len(enc[p]) + 1 /\ dec'[p] = dec[p]
         \/ Handled(p) = 0 /\ Len(dec'[p]) = Len(dec[p]) + 1 /\ enc'[p] = enc[p]
         \/ Len(enc'[p]) = Len(enc[p]) - 1 /\ dec'[p] = dec[p]
         \/ Len(dec'[p]) = Len(dec[p]) - 1 /\ enc'[p] = enc[p]
  PROVE  OneAtATime'
<1>1. /\ Len(enc[p]) \in Nat /\ Len(dec[p]) \in Nat
      /\ Handled(p) = Len(enc[p]) + Len(dec[p])
  BY TypedSeqs
<1>2. \A a, b \in Nat : /\ a + b = 0 => (a + 1) + b <= 1 /\ a + (b + 1) <= 1
                        /\ a + b <= 1 => (a - 1) + b <= 1 /\ a + (b - 1) <= 1
  OBVIOUS
<1>3. Len(enc[p]) + Len(dec[p]) <= 1
  BY <1>1 DEF OneAtATime
<1>4. Len(enc'[p]) + Len(dec'[p]) <= 1
  BY <1>1, <1>2, <1>3
<1>5. Len(enc'[Other(p)]) + Len(dec'[Other(p)]) <= 1
  BY TheOther DEF OneAtATime, Handled
<1> QED BY <1>4, <1>5, TheOther DEF OneAtATime, Handled

LEMMA OneStep == TypeOK /\ Before /\ OneAtATime /\ [Next]_vars => OneAtATime'
<1> SUFFICES ASSUME TypeOK, Before, OneAtATime, [Next]_vars, ~garbled' PROVE OneAtATime'
  BY DEF OneAtATime
<1>1. ASSUME UNCHANGED <<enc, dec, garbled>> PROVE OneAtATime'
  BY <1>1 DEF OneAtATime, Handled
<1>2. ASSUME NEW p \in Ends, NEW m \in Message, Encrypt(p, m), UNCHANGED dec
      PROVE  OneAtATime'
  <2>1. /\ enc'[Other(p)] = enc[Other(p)] /\ Len(enc'[p]) = Len(enc[p]) + 1
        /\ ~garbled /\ Handled(p) = 0
    BY <1>2, EncryptFacts
  <2> QED BY <1>2, <2>1, OneMore
<1>3. CASE Link
  <2>1. links = 0
    <3>1. links \in Nat
      BY DEF TypeOK
    <3>2. garbled' = (links > 0)
      BY <1>3, Zenon DEF Link
    <3>3. ~(links > 0)
      BY <3>2, Zenon
    <3> QED BY <3>1, <3>3
  <2>2. \A q \in Ends : enc'[q] = <<>> /\ dec'[q] = <<>>
    BY <1>3, <2>1 DEF Link, Before
  <2>3. \A q \in Ends : Len(enc'[q]) + Len(dec'[q]) <= 1
    <3>1. Len(<<>>) + Len(<<>>) <= 1
      BY NoMessages
    <3> QED BY <2>2, <3>1
  <2> QED BY <2>3 DEF OneAtATime, Handled
<1>4. CASE LinkLost
  BY <1>1, <1>4 DEF LinkLost
<1>5. ASSUME NEW p \in Ends, Noticed(p) \/ Disconnect(p) \/ DeleteLocal(p)
      PROVE  OneAtATime'
  BY <1>1, <1>5 DEF Noticed, Disconnect, DeleteLocal
<1>6. ASSUME NEW p \in Ends, NEW t \in Titles \cup {None}, SaveTitle(p, t)
      PROVE  OneAtATime'
  <2>1. UNCHANGED dec /\ (Encrypt(p, Title(t)) \/ UNCHANGED <<enc, garbled>>)
    BY <1>6 DEF SaveTitle, SendTitle
  <2> QED BY <1>1, <1>2, <2>1, Messages
<1>7. ASSUME NEW p \in Ends, Connected(p) PROVE OneAtATime'
  <2>1. /\ UNCHANGED dec
        /\ Encrypt(p, Title(title[p])) \/ UNCHANGED <<enc, garbled>>
    BY <1>7 DEF Connected
  <2>2. Title(title[p]) \in Message
    BY Messages DEF TypeOK
  <2> QED BY <1>1, <1>2, <2>1, <2>2
<1>8. ASSUME NEW p \in Ends, RequestDelete(p) PROVE OneAtATime'
  <2>1. UNCHANGED dec /\ (Encrypt(p, Request) \/ UNCHANGED <<enc, garbled>>)
    BY <1>8 DEF RequestDelete
  <2> QED BY <1>1, <1>2, <2>1, Messages
<1>9. ASSUME NEW p \in Ends, Answer(p) PROVE OneAtATime'
  <2>1. UNCHANGED dec /\ (Encrypt(p, Confirm) \/ UNCHANGED <<enc, garbled>>)
    BY <1>9 DEF Answer
  <2> QED BY <1>1, <1>2, <2>1, Messages
<1>10. ASSUME NEW p \in Ends, Deliver(p) PROVE OneAtATime'
  <2>1. /\ dec'[Other(p)] = dec[Other(p)] /\ Len(dec'[p]) = Len(dec[p]) + 1
        /\ ~garbled /\ Handled(p) = 0
    BY <1>10, DeliverFacts
  <2>2. UNCHANGED enc
    BY <1>10 DEF Deliver
  <2> QED BY <2>1, <2>2, OneMore
<1>11. ASSUME NEW p \in Ends, NEW i, Encrypted(p, i) PROVE OneAtATime'
  <2>1. enc'[Other(p)] = enc[Other(p)] /\ Len(enc'[p]) = Len(enc[p]) - 1
    BY <1>11, EncryptedFacts
  <2>2. UNCHANGED <<dec, garbled>>
    BY <1>11 DEF Encrypted
  <2> QED BY <2>1, <2>2, OneMore
<1>12. ASSUME NEW p \in Ends, NEW i, Handle(p, i) PROVE OneAtATime'
  <2>1. Decrypts(p, i)
    BY <1>12 DEF Handle, Unreadable, HandleTitle, HandleRequest, HandleConfirm
  <2>2. /\ dec'[Other(p)] = dec[Other(p)] /\ Len(dec'[p]) = Len(dec[p]) - 1
        /\ UNCHANGED <<enc, garbled>>
    BY <2>1, DecryptsFacts
  <2> QED BY <2>2, OneMore
<1>13. CASE UNCHANGED vars
  BY <1>1, <1>13 DEF vars
<1> QED BY <1>3, <1>4, <1>5, <1>6, <1>7, <1>8, <1>9, <1>10, <1>11, <1>12, <1>13 DEF Next

\* On a first connection where no two handlers of an end overlap, the two ends show
\* the same title once everything sent has arrived, unless two titles crossed or one
\* was made empty.
THEOREM SameTitle == Spec => []TitlesAgree
<1> DEFINE Inv == TypeOK /\ Before /\ OneAtATime /\ TitlesInv
<1>1. Init => Inv
  <2> SUFFICES ASSUME Init PROVE Before /\ OneAtATime /\ TitlesInv
    BY TypeInit
  <2>1. Before
    BY DEF Init, Before
  <2>2. OneAtATime
    BY NoMessages DEF Init, OneAtATime, Handled
  <2>3. TitlesInv
    BY DEF Init, TitlesInv, Undisturbed
  <2> QED BY <2>1, <2>2, <2>3
<1>2. Inv /\ [Next]_vars => Inv'
  BY TypeStep, BeforeStep, OneStep, TitlesStep
<1>3. Inv => TitlesAgree
  <2> SUFFICES ASSUME Inv, link = "up", ~garbled, ~apart,
                      \A p \in Ends : status[p] = "connected" /\ ~Busy(p) /\ queue[p] = <<>>
               PROVE  title[Host] = title[Guest]
    BY DEF TitlesAgree
  <2>1. ASSUME NEW p \in Ends PROVE enc[p] = <<>> /\ dec[p] = <<>>
    <3>1. Handled(p) \in Nat /\ ~(Handled(p) > 0)
      BY TypedSeqs DEF Busy
    <3>2. Handled(p) = 0
      BY <3>1
    <3> QED BY <3>2, OneOf
  <2>2. \A p \in Ends : ~Sending(p)
    BY <2>1, NoTitle, TheOther DEF Sending
  <2> QED BY <2>2 DEF TitlesInv, Undisturbed
<1> HIDE DEF Inv
<1> QED BY <1>1, <1>2, <1>3, PTL DEF Spec
=============================================================================
