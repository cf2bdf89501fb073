-------------------------- MODULE ControlProtocol --------------------------
(***************************************************************************)
(* The control messages of one session, between its two ends: sendTitle,   *)
(* requestDelete, confirmDelete and _handleControl of SessionManager.js,   *)
(* with the state listener that sends the title, and the delete dialogs of *)
(* app.js, which block their page while they are open.                     *)
(*                                                                         *)
(* A message is encrypted, which takes time, is on its way, and is         *)
(* decrypted, which takes time.  What the keys do meanwhile is the matter  *)
(* of Ratchet: here a message may be unreadable on a link on which two     *)
(* handlers of an end have overlapped, or which is a reconnection.         *)
(***************************************************************************)
EXTENDS Naturals, SequencesExt

CONSTANTS
  Titles,
  HostTitles,   \* those createSession gives, or "none"
  MaxActs,      \* bounds: titles each user sets and deletions it asks of the other,
  MaxLinks,     \* connections,
  Handlers      \* and messages an end encrypts or decrypts at once

None == "none"

ASSUME TitlesAssumption == HostTitles \subseteq Titles \cup {None}
ASSUME BoundsAssumption ==
  /\ {MaxActs, MaxLinks} \subseteq Nat
  /\ Handlers \in Nat \ {0}

Host == "host"
Guest == "guest"
Ends == {Host, Guest}
Other(p) == IF p = Host THEN Guest ELSE Host

VARIABLES
  title,     \* session.title
  here,      \* whether the end still has its entry
  status,    \* "waiting", "connected" or "disconnected"
  link,      \* "none", "up" or "down"
  open,      \* whether the end's channel is open, as far as it has noticed
  enc,       \* messages an end encrypts
  queue,     \* messages on their way to an end
  dec,       \* messages an end decrypts
  dialog,    \* the question whether to delete is on the screen
  links, acts,
  \* for the properties:
  garbled,   \* messages of this link may be unreadable
  apart,     \* an edit crossed one of the other end, or made a title empty
  asked,     \* the end's user asked the other to delete,
  agreed,    \* agreed to delete,
  alone      \* or deleted without asking

channel == <<link, open, queue, links>>
wishes == <<asked, agreed, alone>>
vars == <<title, here, status, channel, enc, dec, dialog, acts, garbled, apart, wishes>>

Title(t) == [kind |-> "title", title |-> t]
Request == [kind |-> "delete_req", title |-> None]
Confirm == [kind |-> "delete_ack", title |-> None]

Init ==
  /\ \E t \in HostTitles : title = [p \in Ends |-> IF p = Host THEN t ELSE None]
  /\ here = [p \in Ends |-> TRUE]
  /\ status = [p \in Ends |-> "waiting"]
  /\ link = "none"
  /\ open = [p \in Ends |-> FALSE]
  /\ enc = [p \in Ends |-> <<>>]
  /\ queue = [p \in Ends |-> <<>>]
  /\ dec = [p \in Ends |-> <<>>]
  /\ dialog = [p \in Ends |-> FALSE]
  /\ links = 0
  /\ acts = [p \in Ends |-> 0]
  /\ garbled = FALSE
  /\ apart = FALSE
  /\ asked = [p \in Ends |-> FALSE]
  /\ agreed = [p \in Ends |-> FALSE]
  /\ alone = [p \in Ends |-> FALSE]

-----------------------------------------------------------------------------
(* The channel *)

Prefixed(q) == {SubSeq(q, 1, n) : n \in 0..Len(q)}

\* close of the transport, which calls the state listener: what is on its way to
\* the end is lost, and of what it sent any tail may be.
Close(p) ==
  /\ open' = [open EXCEPT ![p] = FALSE]
  /\ status' = [status EXCEPT ![p] = IF @ = "connected" THEN "disconnected" ELSE @]
  /\ IF open[p]
     THEN /\ link' = "down"
          /\ \E q \in Prefixed(queue[Other(p)]) :
               queue' = [queue EXCEPT ![p] = <<>>, ![Other(p)] = q]
     ELSE UNCHANGED <<link, queue>>
  /\ UNCHANGED links

\* Mutated: the transport stays open.
DeleteOpen(p) ==
  /\ here' = [here EXCEPT ![p] = FALSE]
  /\ UNCHANGED <<status, channel>>

\* deleteSession.
Delete(p) ==
  /\ here' = [here EXCEPT ![p] = FALSE]
  /\ Close(p)

\* The handshake, or a reconnection, brings the two ends together.
Link ==
  /\ links < MaxLinks
  /\ \A p \in Ends : here[p] /\ ~open[p] /\ ~dialog[p]
  /\ links' = links + 1
  /\ link' = "up"
  /\ open' = [p \in Ends |-> TRUE]
  /\ status' = [p \in Ends |-> "waiting"]
  /\ garbled' = (links > 0)
  /\ UNCHANGED <<title, here, queue, enc, dec, dialog, acts, apart, wishes>>

\* The network fails.
LinkLost ==
  /\ link = "up"
  /\ link' = "down"
  /\ \E h \in Prefixed(queue[Host]), g \in Prefixed(queue[Guest]) :
       queue' = [queue EXCEPT ![Host] = h, ![Guest] = g]
  /\ UNCHANGED <<title, here, status, open, links, enc, dec, dialog, acts, garbled, apart,
                 wishes>>

\* An end notices: the state listener, on "disconnected".
Noticed(p) ==
  /\ link = "down"
  /\ open[p]
  /\ ~dialog[p]
  /\ Close(p)
  /\ UNCHANGED <<title, here, enc, dec, dialog, acts, garbled, apart, wishes>>

\* Disconnect, by the end's user.
Disconnect(p) ==
  /\ here[p]
  /\ status[p] = "connected"
  /\ ~dialog[p]
  /\ Close(p)
  /\ UNCHANGED <<title, here, enc, dec, dialog, acts, garbled, apart, wishes>>

-----------------------------------------------------------------------------
(* Sending *)

Handled(p) == Len(enc[p]) + Len(dec[p])
Busy(p) == Handled(p) > 0

\* _ratchetEncrypt of message m begins.
Encrypt(p, m) ==
  /\ Handled(p) < Handlers
  /\ enc' = [enc EXCEPT ![p] = Append(@, m)]
  /\ garbled' = (garbled \/ Busy(p))

\* A title of end p is on its way to the other.
TitleUnderWay(p) ==
  \E m \in ToSet(enc[p] \o queue[Other(p)] \o dec[Other(p)]) : m.kind = "title"

\* sendTitle, to its first await.
SendTitle(p, t) ==
  /\ title' = [title EXCEPT ![p] = t]
  /\ IF status[p] = "connected" THEN Encrypt(p, Title(t))
     ELSE UNCHANGED <<enc, garbled>>
  /\ apart' = (apart \/ t = None \/ TitleUnderWay(Other(p)))

\* The user saves a title, or an empty one.
SaveTitle(p, t) ==
  /\ here[p]
  /\ ~dialog[p]
  /\ acts[p] < MaxActs
  /\ acts' = [acts EXCEPT ![p] = @ + 1]
  /\ SendTitle(p, t)
  /\ UNCHANGED <<here, status, channel, dec, dialog, wishes>>

\* The channel opens: the state listener, on "connected".
Connected(p) ==
  /\ open[p]
  /\ status[p] = "waiting"
  /\ ~dialog[p]
  /\ status' = [status EXCEPT ![p] = "connected"]
  /\ IF title[p] # None
     THEN /\ Encrypt(p, Title(title[p]))
          /\ apart' = (apart \/ TitleUnderWay(Other(p)))
     ELSE UNCHANGED <<enc, garbled, apart>>
  /\ UNCHANGED <<title, here, channel, dec, dialog, acts, wishes>>

\* requestDelete.
RequestDelete(p) ==
  /\ here[p]
  /\ ~dialog[p]
  /\ acts[p] < MaxActs
  /\ acts' = [acts EXCEPT ![p] = @ + 1]
  /\ asked' = [asked EXCEPT ![p] = TRUE]
  /\ IF status[p] = "connected" THEN Encrypt(p, Request) ELSE UNCHANGED <<enc, garbled>>
  /\ UNCHANGED <<title, here, status, channel, dec, dialog, apart, agreed, alone>>

\* Delete, by the end's user.
DeleteLocal(p) ==
  /\ here[p]
  /\ ~dialog[p]
  /\ alone' = [alone EXCEPT ![p] = TRUE]
  /\ Delete(p)
  /\ UNCHANGED <<title, enc, dec, dialog, acts, garbled, apart, asked, agreed>>

\* Mutated: the confirmation goes out and the session stays.
EncryptedKept(p, i) ==
  /\ i \in DOMAIN enc[p]
  /\ ~dialog[p]
  /\ enc' = [enc EXCEPT ![p] = RemoveAt(@, i)]
  /\ queue' = IF open[p] /\ link = "up" THEN [queue EXCEPT ![Other(p)] = Append(@, enc[p][i])]
              ELSE queue
  /\ UNCHANGED <<title, here, status, link, open, links, dec, dialog, acts, garbled, apart,
                 wishes>>

\* The message is encrypted and sent.  Where the channel is closed by then,
\* WebRtcTransportAdapter throws, as the manager does where the transport is gone:
\* sendTitle ignores that, and of confirmDelete it takes away the deletion that
\* follows.  SharedWorkerTransportAdapter says nothing, and the deletion follows.
Encrypted(p, i) ==
  LET m == enc[p][i]
      sent == IF link = "up" THEN Append(queue[Other(p)], m) ELSE queue[Other(p)]
  IN
  /\ i \in DOMAIN enc[p]
  /\ ~dialog[p]
  /\ enc' = [enc EXCEPT ![p] = RemoveAt(@, i)]
  /\ \/ /\ open[p] /\ m = Confirm
        /\ here' = [here EXCEPT ![p] = FALSE]
        /\ open' = [open EXCEPT ![p] = FALSE]
        /\ status' = [status EXCEPT ![p] = "disconnected"]
        /\ link' = "down"
        /\ \E q \in Prefixed(sent) :
             queue' = [queue EXCEPT ![p] = <<>>, ![Other(p)] = q]
     \/ ~open[p] /\ m = Confirm /\ Delete(p)
     \/ /\ ~open[p] \/ m # Confirm
        /\ queue' = IF open[p] THEN [queue EXCEPT ![Other(p)] = sent] ELSE queue
        /\ UNCHANGED <<here, open, status, link>>
  /\ UNCHANGED <<title, links, dec, dialog, acts, garbled, apart, wishes>>

-----------------------------------------------------------------------------
(* Receiving *)

\* onMessage, to its first await.
Deliver(p) ==
  /\ open[p]
  /\ status[p] = "connected"
  /\ ~dialog[p]
  /\ queue[p] # <<>>
  /\ Handled(p) < Handlers
  /\ queue' = [queue EXCEPT ![p] = Tail(@)]
  /\ dec' = [dec EXCEPT ![p] = Append(@, Head(queue[p]))]
  /\ garbled' = (garbled \/ Busy(p))
  /\ UNCHANGED <<title, here, status, link, open, links, enc, dialog, acts, apart, wishes>>

Decrypts(p, i) ==
  /\ i \in DOMAIN dec[p]
  /\ ~dialog[p]
  /\ dec' = [dec EXCEPT ![p] = RemoveAt(@, i)]
  /\ UNCHANGED <<enc, acts, links, garbled, apart, wishes>>

\* It does not decrypt.
Unreadable(p, i) ==
  /\ garbled
  /\ Decrypts(p, i)
  /\ UNCHANGED <<title, here, status, link, open, queue, dialog>>

\* Mutated: the title of an end that has one stays.
HandleTitleFirst(p, i) ==
  LET m == dec[p][i] IN
  /\ Decrypts(p, i)
  /\ m.kind = "title"
  /\ title' = [title EXCEPT ![p] = IF here[p] /\ @ = None THEN m.title ELSE @]
  /\ UNCHANGED <<here, status, link, open, queue, dialog>>

\* _handleControl, TITLE: an empty one is passed over.
HandleTitle(p, i) ==
  LET m == dec[p][i] IN
  /\ Decrypts(p, i)
  /\ m.kind = "title"
  /\ title' = [title EXCEPT ![p] = IF here[p] /\ m.title # None THEN m.title ELSE @]
  /\ UNCHANGED <<here, status, link, open, queue, dialog>>

\* Mutated: the request is shown only where there is no title.
HandleRequestLate(p, i) ==
  /\ Decrypts(p, i)
  /\ dec[p][i] = Request
  /\ dialog' = [dialog EXCEPT ![p] = here[p] /\ title[p] = None]
  /\ UNCHANGED <<title, here, status, link, open, queue>>

\* DELETE_REQUEST: onControl of app.js asks the user.
HandleRequest(p, i) ==
  /\ Decrypts(p, i)
  /\ dec[p][i] = Request
  /\ dialog' = [dialog EXCEPT ![p] = here[p]]
  /\ UNCHANGED <<title, here, status, link, open, queue>>

\* DELETE_CONFIRM: whether the end has asked is not looked at.
HandleConfirm(p, i) ==
  /\ Decrypts(p, i)
  /\ dec[p][i] = Confirm
  /\ IF here[p] THEN Delete(p) ELSE UNCHANGED <<here, status, link, open, queue>>
  /\ UNCHANGED <<title, dialog>>

\* Mutated: the confirmation goes out whatever the user says.
AnswerAnyway(p) ==
  /\ dialog[p]
  /\ dialog' = [dialog EXCEPT ![p] = FALSE]
  /\ \E yes \in BOOLEAN :
       /\ agreed' = [agreed EXCEPT ![p] = @ \/ yes]
       /\ Encrypt(p, Confirm)
       /\ UNCHANGED <<here, status, link, open, queue>>
  /\ UNCHANGED <<title, links, dec, acts, apart, asked, alone>>

\* The user answers; confirmDelete, to its first await, where the page has not yet
\* noticed what became of the link while the dialog was open.
Answer(p) ==
  /\ dialog[p]
  /\ dialog' = [dialog EXCEPT ![p] = FALSE]
  /\ \E yes \in BOOLEAN :
       /\ agreed' = [agreed EXCEPT ![p] = @ \/ yes]
       /\ \/ ~yes /\ UNCHANGED <<here, status, link, open, queue, enc, garbled>>
          \/ /\ yes /\ status[p] = "connected"
             /\ Encrypt(p, Confirm)
             /\ UNCHANGED <<here, status, link, open, queue>>
          \/ /\ yes /\ status[p] # "connected"
             /\ Delete(p)
             /\ UNCHANGED <<enc, garbled>>
  /\ UNCHANGED <<title, links, dec, acts, apart, asked, alone>>

-----------------------------------------------------------------------------
Handle(p, i) ==
  Unreadable(p, i) \/ HandleTitle(p, i) \/ HandleRequest(p, i) \/ HandleConfirm(p, i)

Next ==
  \/ Link
  \/ LinkLost
  \/ \E p \in Ends :
       \/ Noticed(p) \/ Disconnect(p) \/ Connected(p)
       \/ \E t \in Titles \cup {None} : SaveTitle(p, t)
       \/ RequestDelete(p) \/ DeleteLocal(p) \/ Answer(p)
       \/ Deliver(p)
       \/ \E i \in 1..Handlers : Encrypted(p, i) \/ Handle(p, i)

\* What its event loop has to do for an end: what is under way goes on.
Pending(p) ==
  \/ Connected(p) \/ Noticed(p) \/ Deliver(p)
  \/ \E i \in 1..Handlers : Encrypted(p, i) \/ Handle(p, i)

\* An end that has something to do does something.
Fairness == \A p \in Ends : WF_vars(Pending(p))

Spec == Init /\ [][Next]_vars /\ Fairness

-----------------------------------------------------------------------------
(* Properties *)

Message == [kind : {"title", "delete_req", "delete_ack"}, title : Titles \cup {None}]

\* Every variable stays in its range; an end without its entry has no open channel
\* and asks nothing, and nothing is on its way to an end whose channel is closed.
TypeOK ==
  /\ title \in [Ends -> Titles \cup {None}] /\ here \in [Ends -> BOOLEAN]
  /\ status \in [Ends -> {"waiting", "connected", "disconnected"}]
  /\ link \in {"none", "up", "down"} /\ open \in [Ends -> BOOLEAN]
  /\ {enc, queue, dec} \subseteq [Ends -> Seq(Message)]
  /\ \A p \in Ends : Handled(p) <= Handlers
  /\ dialog \in [Ends -> BOOLEAN]
  /\ links \in 0..MaxLinks /\ acts \in [Ends -> 0..MaxActs]
  /\ garbled \in BOOLEAN /\ apart \in BOOLEAN
  /\ {asked, agreed, alone} \subseteq [Ends -> BOOLEAN]
  /\ \A p \in Ends : ~here[p] => ~open[p] /\ ~dialog[p]
  /\ \A p \in Ends : ~open[p] => queue[p] = <<>> /\ link # "up"

\* On a first connection where no two handlers of an end overlap, the two ends show
\* the same title once everything sent has arrived, unless two titles crossed (each
\* end then keeps the other's) or one was made empty (the other end keeps its own).
TitlesAgree ==
  (/\ link = "up" /\ ~garbled /\ ~apart
   /\ \A p \in Ends : status[p] = "connected" /\ ~Busy(p) /\ queue[p] = <<>>)
  => title[Host] = title[Guest]

\* A session goes only by its own user's wish, or after its user asked for that and
\* the other end's agreed; and then the other end's has gone before.
DeletedByWish ==
  \A p \in Ends :
    \/ here[p]
    \/ alone[p]
    \/ agreed[p]
    \/ asked[p] /\ agreed[Other(p)] /\ ~here[Other(p)]

\* An end whose user has agreed to a deletion while it was connected carries it out,
\* as long as the link is up and no further dialog is open: confirmDelete sends first,
\* and a link that is gone by then may take the deletion with it.
AgreedIsDeleted ==
  \A p \in Ends : Confirm \in ToSet(enc[p]) ~> ~here[p] \/ link # "up" \/ dialog[p]

\* A request to delete reaches the other end's user, as long as the link is up and its
\* messages are readable.
RequestIsPut ==
  \A p \in Ends :
    Request \in ToSet(enc[p]) ~> \/ dialog[Other(p)] \/ ~here[Other(p)]
                                 \/ link # "up" \/ garbled
=============================================================================
