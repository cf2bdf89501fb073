-------------------------- MODULE SessionLifecycle --------------------------
(***************************************************************************)
(* One chat session as its two browsers see it: the status machine of      *)
(* Session.js, the SessionManager operations that drive it on the host and *)
(* on the guest, the WebRTC adapter under each side, the codes the users   *)
(* copy by hand between the two, session expiry, and reloads of the page.  *)
(*                                                                         *)
(* A transport is named by a number, fresh for each adapter an end         *)
(* creates; 0 is null.  The guest makes one transport and one KEM          *)
(* encapsulation in the same operation, so a shared key has the number of  *)
(* the guest transport it was made with.  A code is the offer of a host    *)
(* transport or the answer of a guest transport.                           *)
(***************************************************************************)
EXTENDS Naturals

CONSTANTS MaxHostTransports,   \* bounds: transports the host,
          MaxGuestTransports   \* and the guest, may create

ASSUME BoundsAssumption ==
  /\ MaxHostTransports \in Nat \ {0}
  /\ MaxGuestTransports \in Nat \ {0}

Host == "host"
Guest == "guest"
Peer == {Host, Guest}

MaxTransports ==
  IF MaxHostTransports > MaxGuestTransports THEN MaxHostTransports
  ELSE MaxGuestTransports

Bound(p) == IF p = Host THEN MaxHostTransports ELSE MaxGuestTransports

Ids == 1..MaxTransports
Id0 == 0..MaxTransports

\* "none": the manager holds no entry for the session ("created" is local to
\* createSession and joinSession, and nothing here sets "error").
Status == {"none", "awaiting_answer", "awaiting_finalize", "connecting",
           "connected", "disconnected", "expired"}

\* VALID_TRANSITIONS, restricted to these.
ValidNext ==
  [s \in Status |->
     CASE s \in {"awaiting_answer", "awaiting_finalize"} -> {"connecting", "expired"}
       [] s = "connecting" -> {"connected", "disconnected"}
       [] s = "connected" -> {"disconnected"}
       [] s = "disconnected" -> {"connecting"}
       [] OTHER -> {}]

\* A transport: not made; negotiating; channel open; lost before it opened
\* (ICE may still recover and open it); lost after; closed by its own end.
TState == {"none", "connecting", "connected", "interrupted", "dropped", "closed"}

Rec == [status : Status, pending : Id0]
NoRec == [status |-> "none", pending |-> 0]

VARIABLES
  status,     \* session.status of each end
  conn,       \* entry.transport
  used,       \* transports each end has created
  tp,         \* state of each transport
  wired,      \* listener sets SessionManager has put on each transport
  key,        \* session.sharedKey: the guest transport it was made with
  keyPair,    \* the host still holds its KEM private key in memory
  pending,    \* entry.pendingSignal: the transport whose code is stored
  codes,      \* transports whose code the user has been shown
  offerOf,    \* guest transport -> host transport whose offer it accepted
  joins,      \* guest transports made by joinSession
  accepted,   \* host transport -> guest transport whose answer it accepted
  form,       \* the paste form on the host's screen
  old,        \* session.isExpired, by each end's clock
  saving,     \* snapshot handed to storage, not durable yet
  disk        \* durable session record

vars == <<status, conn, used, tp, wired, key, keyPair, pending, codes, offerOf,
          joins, accepted, form, old, saving, disk>>

TypeOK ==
  /\ status \in [Peer -> Status]
  /\ conn \in [Peer -> Id0]
  /\ used \in [Peer -> Id0]
  /\ tp \in [Peer -> [Ids -> TState]]
  /\ wired \in [Peer -> [Ids -> Nat]]
  /\ key \in [Peer -> Id0]
  /\ keyPair \in BOOLEAN
  /\ pending \in [Peer -> Id0]
  /\ codes \in [Peer -> SUBSET Ids]
  /\ offerOf \in [Ids -> Id0]
  /\ joins \in SUBSET Ids
  /\ accepted \in [Ids -> Id0]
  /\ form \in {"none", "answer", "reconnect"}
  /\ old \in [Peer -> BOOLEAN]
  /\ saving \in [Peer -> Rec]
  /\ disk \in [Peer -> Rec]

Init ==
  /\ status = [p \in Peer |-> "none"]
  /\ conn = [p \in Peer |-> 0]
  /\ used = [p \in Peer |-> 0]
  /\ tp = [p \in Peer |-> [t \in Ids |-> "none"]]
  /\ wired = [p \in Peer |-> [t \in Ids |-> 0]]
  /\ key = [p \in Peer |-> 0]
  /\ keyPair = FALSE
  /\ pending = [p \in Peer |-> 0]
  /\ codes = [p \in Peer |-> {}]
  /\ offerOf = [t \in Ids |-> 0]
  /\ joins = {}
  /\ accepted = [t \in Ids |-> 0]
  /\ form = "none"
  /\ old = [p \in Peer |-> FALSE]
  /\ saving = [p \in Peer |-> NoRec]
  /\ disk = [p \in Peer |-> NoRec]

-----------------------------------------------------------------------------
\* Session.transition(new): whether it throws, and the status it leaves.
Throws(p, new) ==
  \/ old[p] /\ status[p] # "disconnected"
  \/ new \notin ValidNext[status[p]]

Transition(p, new) ==
  IF old[p] /\ status[p] # "disconnected" THEN "expired"
  ELSE IF new \in ValidNext[status[p]] THEN new ELSE status[p]

\* _persistSession snapshots the session when it is called.
Save(p, s, pend) ==
  saving' = [saving EXCEPT ![p] = [status |-> s, pending |-> pend]]

\* transport.close() on the end's current transport, if it has one.
CloseCurrent(p) ==
  [t \in Ids |-> IF t = conn[p] THEN "closed" ELSE tp[p][t]]

\* Listeners act only for the entry's current transport.
Hears(p, t) == conn[p] = t /\ wired[p][t] > 0

Fresh(p) == used[p] + 1

-----------------------------------------------------------------------------
\* createSession: a fresh session with its offer; one per session id.
CreateSession ==
  /\ used[Host] = 0
  /\ status' = [status EXCEPT ![Host] = "awaiting_answer"]
  /\ conn' = [conn EXCEPT ![Host] = 1]
  /\ used' = [used EXCEPT ![Host] = 1]
  /\ tp' = [tp EXCEPT ![Host][1] = "connecting"]
  /\ keyPair' = TRUE
  /\ pending' = [pending EXCEPT ![Host] = 1]
  /\ codes' = [codes EXCEPT ![Host] = {1}]
  /\ form' = "answer"
  /\ Save(Host, "awaiting_answer", 1)
  /\ UNCHANGED <<wired, key, offerOf, joins, accepted, old, disk>>

\* joinSession: any time the invite is fresh, also over an existing entry,
\* whose transport is then neither closed nor unhooked.
JoinSession ==
  LET g == Fresh(Guest) IN
  /\ g <= Bound(Guest)
  /\ 1 \in codes[Host]
  /\ ~old[Guest]
  /\ status' = [status EXCEPT ![Guest] = "awaiting_finalize"]
  /\ conn' = [conn EXCEPT ![Guest] = g]
  /\ used' = [used EXCEPT ![Guest] = g]
  /\ tp' = [tp EXCEPT ![Guest][g] = "connecting"]
  /\ wired' = [wired EXCEPT ![Guest][g] = 1]
  /\ key' = [key EXCEPT ![Guest] = g]
  /\ pending' = [pending EXCEPT ![Guest] = g]
  /\ codes' = [codes EXCEPT ![Guest] = @ \cup {g}]
  /\ offerOf' = [offerOf EXCEPT ![g] = 1]
  /\ joins' = joins \cup {g}
  /\ Save(Guest, "awaiting_finalize", g)
  /\ UNCHANGED <<keyPair, accepted, form, old, disk>>

\* transport.acceptAnswer succeeds once, on a peer connection still there.
CanAccept(h) == h # 0 /\ tp[Host][h] # "closed" /\ accepted[h] = 0

\* Mutated: a session that has a shared key keeps it.
TakeFirstKey(g) ==
  /\ g \in codes[Guest]
  /\ keyPair
  /\ key' = [key EXCEPT ![Host] = IF @ = 0 THEN g ELSE @]

\* The part of finalizeSession and finalizeReconnect up to acceptAnswer: the
\* shared key is replaced first (without the private key, decapsulation throws
\* before that), and stays replaced when acceptAnswer throws.
TakeAnswer(g) ==
  /\ g \in codes[Guest]
  /\ keyPair
  /\ key' = [key EXCEPT ![Host] = g]

RejectAnswer(g) ==
  /\ form # "none"
  /\ form = "answer" => g \in joins
  /\ TakeAnswer(g)
  /\ ~CanAccept(conn[Host])
  /\ UNCHANGED <<status, conn, used, tp, wired, keyPair, pending, codes, offerOf,
                 joins, accepted, form, old, saving, disk>>

\* finalizeSession: the transition comes after acceptAnswer, and the listeners,
\* the save and the end of the form's button only after the transition.
FinalizeSession(g) ==
  LET h == conn[Host]
      new == Transition(Host, "connecting")
  IN
  /\ form = "answer"
  /\ g \in joins
  /\ TakeAnswer(g)
  /\ CanAccept(h)
  /\ accepted' = [accepted EXCEPT ![h] = g]
  /\ pending' = [pending EXCEPT ![Host] = 0]
  /\ status' = [status EXCEPT ![Host] = new]
  /\ \/ /\ Throws(Host, "connecting")
        /\ UNCHANGED <<wired, form, saving>>
     \/ /\ ~Throws(Host, "connecting")
        /\ wired' = [wired EXCEPT ![Host][h] = @ + 1]
        /\ form' = "none"
        /\ Save(Host, new, 0)
  /\ UNCHANGED <<conn, used, tp, keyPair, codes, offerOf, joins, old, disk>>

\* finalizeReconnect: no transition.
FinalizeReconnect(g) ==
  LET h == conn[Host] IN
  /\ form = "reconnect"
  /\ TakeAnswer(g)
  /\ CanAccept(h)
  /\ accepted' = [accepted EXCEPT ![h] = g]
  /\ pending' = [pending EXCEPT ![Host] = 0]
  /\ wired' = [wired EXCEPT ![Host][h] = @ + 1]
  /\ form' = "none"
  /\ Save(Host, status[Host], 0)
  /\ UNCHANGED <<status, conn, used, tp, keyPair, codes, offerOf, joins, old, disk>>

-----------------------------------------------------------------------------
\* Reconnection.  Each side closes its transport, makes another and awaits its
\* description; the session is updated when the description is there.

\* Mutated: also with an earlier offer's form on the screen.
ReconnectAsHostAgain ==
  LET t == Fresh(Host) IN
  /\ status[Host] \in {"disconnected", "connecting"}
  /\ t <= Bound(Host)
  /\ tp' = [tp EXCEPT ![Host] = [CloseCurrent(Host) EXCEPT ![t] = "connecting"]]
  /\ conn' = [conn EXCEPT ![Host] = t]
  /\ used' = [used EXCEPT ![Host] = t]
  /\ UNCHANGED <<status, wired, key, keyPair, pending, codes, offerOf, joins,
                 accepted, form, old, saving, disk>>

\* reconnectAsHost up to createOffer; the button is there while disconnected,
\* also while an earlier call still gathers its offer.
ReconnectAsHost ==
  LET t == Fresh(Host) IN
  /\ status[Host] = "disconnected"
  /\ form = "none"
  /\ t <= Bound(Host)
  /\ tp' = [tp EXCEPT ![Host] = [CloseCurrent(Host) EXCEPT ![t] = "connecting"]]
  /\ conn' = [conn EXCEPT ![Host] = t]
  /\ used' = [used EXCEPT ![Host] = t]
  /\ UNCHANGED <<status, wired, key, keyPair, pending, codes, offerOf, joins,
                 accepted, form, old, saving, disk>>

\* Mutated: a description that was there already comes again.
GatheringAgain(p) ==
  /\ conn[p] # 0
  /\ tp[p][conn[p]] # "closed"

\* An offer or answer being gathered fails once its transport is closed.
Gathering(p) ==
  /\ conn[p] # 0
  /\ conn[p] \notin codes[p]
  /\ tp[p][conn[p]] # "closed"

\* reconnectAsHost after createOffer.
ReconnectOfferReady ==
  LET h == conn[Host]
      new == Transition(Host, "connecting")
  IN
  /\ Gathering(Host)
  /\ pending' = [pending EXCEPT ![Host] = h]
  /\ codes' = [codes EXCEPT ![Host] = @ \cup {h}]
  /\ status' = [status EXCEPT ![Host] = new]
  /\ IF Throws(Host, "connecting")
     THEN UNCHANGED <<form, saving>>
     ELSE form' = "reconnect" /\ Save(Host, new, h)
  /\ UNCHANGED <<conn, used, tp, wired, key, keyPair, offerOf, joins, accepted,
                 old, disk>>

\* reconnectAsGuest up to acceptOffer; any offer of the session is taken.
ReconnectAsGuest(h) ==
  LET g == Fresh(Guest) IN
  /\ status[Guest] = "disconnected"
  /\ g <= Bound(Guest)
  /\ h \in codes[Host]
  /\ tp' = [tp EXCEPT ![Guest] = [CloseCurrent(Guest) EXCEPT ![g] = "connecting"]]
  /\ conn' = [conn EXCEPT ![Guest] = g]
  /\ used' = [used EXCEPT ![Guest] = g]
  /\ offerOf' = [offerOf EXCEPT ![g] = h]
  /\ UNCHANGED <<status, wired, key, keyPair, pending, codes, joins, accepted,
                 form, old, saving, disk>>

\* reconnectAsGuest after acceptOffer: a fresh encapsulation, then the status.
ReconnectAnswerReady ==
  LET g == conn[Guest]
      new == Transition(Guest, "connecting")
  IN
  /\ Gathering(Guest)
  /\ key' = [key EXCEPT ![Guest] = g]
  /\ pending' = [pending EXCEPT ![Guest] = g]
  /\ codes' = [codes EXCEPT ![Guest] = @ \cup {g}]
  /\ status' = [status EXCEPT ![Guest] = new]
  /\ IF Throws(Guest, "connecting")
     THEN UNCHANGED <<wired, saving>>
     ELSE /\ wired' = [wired EXCEPT ![Guest][g] = @ + 1]
          /\ Save(Guest, new, g)
  /\ UNCHANGED <<conn, used, tp, keyPair, offerOf, joins, accepted, form, old, disk>>

-----------------------------------------------------------------------------
\* The peer connection.  Two transports reach each other when the host's took
\* the guest's answer to the host's own offer.
Linked(h, g) == h # 0 /\ g # 0 /\ accepted[h] = g /\ offerOf[g] = h

Facing(p, t, u) == IF p = Host THEN Linked(t, u) ELSE Linked(u, t)

Other(p) == IF p = Host THEN Guest ELSE Host

PeerThere(p, t) == \E u \in Ids : Facing(p, t, u) /\ tp[Other(p)][u] # "closed"

\* Mutated: without the expiry test of Session.transition.
OnConnectedLate(p) ==
  IF status[p] \in {"awaiting_answer", "awaiting_finalize", "connecting"}
  THEN "connected" ELSE status[p]

\* Mutated: the listener does not know the awaiting statuses.
OnConnectedFromConnecting(p) ==
  IF status[p] # "connecting" THEN status[p]
  ELSE IF old[p] THEN "expired" ELSE "connected"

\* Mutated: without the test of the status.
OnDisconnectedAlways(p) == "disconnected"

\* Mutated: only while connecting.
OnDisconnectedConnecting(p) ==
  IF status[p] = "connecting" THEN "disconnected" ELSE status[p]

\* The status after the listener for 'connected' (an awaiting session makes two
\* transitions in a row) and after the one for 'disconnected'.
OnConnected(p) ==
  IF status[p] \notin {"awaiting_answer", "awaiting_finalize", "connecting"}
  THEN status[p]
  ELSE IF old[p] THEN "expired" ELSE "connected"

OnDisconnected(p) ==
  IF status[p] \in {"connected", "connecting"} THEN "disconnected" ELSE status[p]

\* A transport that joinSession left with the entry it replaced: its listeners go on
\* with that entry, but what they save is the session's new one.
SavesNewEntry(p, t) ==
  /\ conn[p] # t
  /\ wired[p][t] > 0
  /\ status[p] # "none"
  /\ Save(p, status[p], pending[p])

\* dc.onopen.  A transition that throws leaves the stored code and saves nothing.
ChannelOpens(p, t) ==
  LET throws == OnConnected(p) = "expired" /\ status[p] # "expired" IN
  /\ tp[p][t] \in {"connecting", "interrupted"}
  /\ PeerThere(p, t)
  /\ tp' = [tp EXCEPT ![p][t] = "connected"]
  /\ status' = [status EXCEPT ![p] = IF Hears(p, t) THEN OnConnected(p) ELSE @]
  /\ IF Hears(p, t) /\ ~throws
     THEN pending' = [pending EXCEPT ![p] = 0] /\ Save(p, OnConnected(p), 0)
     ELSE /\ UNCHANGED pending
          /\ UNCHANGED saving \/ SavesNewEntry(p, t)
  /\ UNCHANGED <<conn, used, wired, key, keyPair, codes, offerOf, joins, accepted,
                 form, old, disk>>

\* dc.onclose, dc.onerror, or connectionState disconnected/failed.  The guest's
\* ICE runs once it has answered.
ChannelLost(p, t) ==
  /\ \/ /\ tp[p][t] = "connecting"
        /\ IF p = Host THEN accepted[t] # 0 ELSE t \in codes[Guest]
        /\ tp' = [tp EXCEPT ![p][t] = "interrupted"]
     \/ /\ tp[p][t] = "connected"
        /\ tp' = [tp EXCEPT ![p][t] = "dropped"]
  /\ IF Hears(p, t) /\ status[p] # OnDisconnected(p)
     THEN /\ status' = [status EXCEPT ![p] = OnDisconnected(p)]
          /\ Save(p, OnDisconnected(p), pending[p])
     ELSE /\ UNCHANGED status
          /\ UNCHANGED saving \/ SavesNewEntry(p, t)
  /\ UNCHANGED <<conn, used, wired, key, keyPair, pending, codes, offerOf, joins,
                 accepted, form, old, disk>>

-----------------------------------------------------------------------------
\* disconnect: offered while connected.
Disconnect(p) ==
  /\ status[p] = "connected"
  /\ tp' = [tp EXCEPT ![p] = CloseCurrent(p)]
  /\ conn' = [conn EXCEPT ![p] = 0]
  /\ status' = [status EXCEPT ![p] = "disconnected"]
  /\ Save(p, "disconnected", pending[p])
  /\ UNCHANGED <<used, wired, key, keyPair, pending, codes, offerOf, joins,
                 accepted, form, old, disk>>

\* deleteSession: entry and record go.
DeleteSession(p) ==
  /\ status[p] # "none"
  /\ tp' = [tp EXCEPT ![p] = CloseCurrent(p)]
  /\ conn' = [conn EXCEPT ![p] = 0]
  /\ status' = [status EXCEPT ![p] = "none"]
  /\ key' = [key EXCEPT ![p] = 0]
  /\ pending' = [pending EXCEPT ![p] = 0]
  /\ keyPair' = (keyPair /\ p # Host)
  /\ form' = IF p = Host THEN "none" ELSE form
  /\ saving' = [saving EXCEPT ![p] = NoRec]
  /\ disk' = [disk EXCEPT ![p] = NoRec]
  /\ UNCHANGED <<used, wired, codes, offerOf, joins, accepted, old>>

\* The latest snapshot becomes durable.
SaveDone(p) ==
  /\ saving[p] # NoRec
  /\ disk' = [disk EXCEPT ![p] = saving[p]]
  /\ saving' = [saving EXCEPT ![p] = NoRec]
  /\ UNCHANGED <<status, conn, used, tp, wired, key, keyPair, pending, codes,
                 offerOf, joins, accepted, form, old>>

\* Mutated: a restored session starts over.
RestoredNew(rec) == "created"

\* Mutated: the stored status as it is.
RestoredAsStored(rec) == rec.status

\* fromSerializable.
Restored(rec) == IF rec.status = "connected" THEN "disconnected" ELSE rec.status

\* The page goes and loadSessions reads what is durable: no transport, no key
\* pair, no shared key.
Reload(p) ==
  /\ \E t \in Ids : tp[p][t] # "none"
  /\ status' = [status EXCEPT ![p] = Restored(disk[p])]
  /\ pending' = [pending EXCEPT ![p] = disk[p].pending]
  /\ conn' = [conn EXCEPT ![p] = 0]
  /\ tp' = [tp EXCEPT ![p] = [t \in Ids |-> IF tp[p][t] = "none" THEN "none" ELSE "closed"]]
  /\ key' = [key EXCEPT ![p] = 0]
  /\ keyPair' = (keyPair /\ p # Host)
  /\ form' = IF p = Host THEN "none" ELSE form
  /\ saving' = [saving EXCEPT ![p] = NoRec]
  /\ UNCHANGED <<used, wired, codes, offerOf, joins, accepted, old, disk>>

\* Five minutes after createdAt, by each end's clock.
Expire(p) ==
  /\ used[Host] > 0
  /\ ~old[p]
  /\ old' = [old EXCEPT ![p] = TRUE]
  /\ UNCHANGED <<status, conn, used, tp, wired, key, keyPair, pending, codes,
                 offerOf, joins, accepted, form, saving, disk>>

\* The host opens a waiting session from the list, or leaves a paste form.
OpenAnswerForm ==
  /\ status[Host] = "awaiting_answer"
  /\ form = "none"
  /\ form' = "answer"
  /\ UNCHANGED <<status, conn, used, tp, wired, key, keyPair, pending, codes,
                 offerOf, joins, accepted, old, saving, disk>>

LeaveForm ==
  /\ form # "none"
  /\ form' = "none"
  /\ UNCHANGED <<status, conn, used, tp, wired, key, keyPair, pending, codes,
                 offerOf, joins, accepted, old, saving, disk>>

Next ==
  \/ CreateSession
  \/ JoinSession
  \/ \E g \in Ids : FinalizeSession(g) \/ FinalizeReconnect(g) \/ RejectAnswer(g)
  \/ ReconnectAsHost
  \/ ReconnectOfferReady
  \/ \E h \in Ids : ReconnectAsGuest(h)
  \/ ReconnectAnswerReady
  \/ \E p \in Peer, t \in Ids : ChannelOpens(p, t) \/ ChannelLost(p, t)
  \/ \E p \in Peer :
       Disconnect(p) \/ DeleteSession(p) \/ SaveDone(p) \/ Reload(p) \/ Expire(p)
  \/ OpenAnswerForm
  \/ LeaveForm

Spec == Init /\ [][Next]_vars

\* WebRTC opens a channel both ends have described, and tells an end whose
\* peer closed; the user who has the matching answer pastes it while the form
\* is there.  Nothing else is promised: links may drop, users may walk away.
PasteMatching ==
  \E g \in Ids : offerOf[g] = conn[Host] /\ FinalizeReconnect(g)

PeerGone(p, t) == ~PeerThere(p, t) /\ ChannelLost(p, t)

Fairness ==
  /\ \A p \in Peer, t \in Ids : WF_vars(ChannelOpens(p, t)) /\ WF_vars(PeerGone(p, t))
  /\ WF_vars(PasteMatching)

FairSpec == Spec /\ Fairness

-----------------------------------------------------------------------------
(* Safety *)

\* A session shown as connected has a transport, that transport's channel is
\* open, and the manager listens to it: no path through reconnection, reload,
\* deletion or a lost channel leaves "connected" over something dead.
ConnectedOverLiveTransport ==
  \A p \in Peer : status[p] = "connected" =>
    /\ conn[p] # 0
    /\ tp[p][conn[p]] = "connected"
    /\ wired[p][conn[p]] > 0

\* Two ends connected to each other hold the same shared key, whatever codes,
\* stale or repeated, were pasted on the way (finalizeSession and
\* finalizeReconnect replace the key before they know the answer is accepted).
KeyAgreement ==
  /\ status[Host] = "connected"
  /\ status[Guest] = "connected"
  /\ Linked(conn[Host], conn[Guest])
  => key[Host] = key[Guest]

\* A transport gets one set of listeners at most; two sets would hand every
\* message to the ratchet twice.
SingleWiring == \A p \in Peer, t \in Ids : wired[p][t] <= 1

\* An open reconnect form always belongs to the transport whose offer the host
\* last showed, so the answer pasted into it meets the right peer connection.
ReconnectFormIsCurrent ==
  form = "reconnect" =>
    /\ conn[Host] \in codes[Host]
    /\ pending[Host] \in {0, conn[Host]}
    /\ status[Host] = "connecting"

\* What keeps these true.  Before the session is created the host has nothing of
\* it.  A transport not made yet carries nothing; one with
\* listeners had its code shown; the host's transport has no listeners while a
\* form or the waiting status still lets an answer in; and once an end listens
\* on its transport, its key is the one of that transport's link.
UnusedIsBlank ==
  \A p \in Peer, t \in Ids : t > used[p] =>
    wired[p][t] = 0 /\ t \notin codes[p] /\ (p = Guest => t \notin joins)

CurrentIsUsed == \A p \in Peer : conn[p] <= used[p]

NothingBeforeCreation ==
  used[Host] = 0 =>
    status[Host] = "none" /\ conn[Host] = 0 /\ \A t \in Ids : tp[Host][t] = "none"

WiredWasShown == \A p \in Peer, t \in Ids : wired[p][t] > 0 => t \in codes[p]

FormMeansUnwired ==
  /\ form # "none" \/ status[Host] = "awaiting_answer"
  /\ conn[Host] # 0
  => /\ conn[Host] \in codes[Host]
     /\ wired[Host][conn[Host]] = 0

WiredHasKey ==
  /\ conn[Guest] # 0 /\ wired[Guest][conn[Guest]] > 0 => key[Guest] = conn[Guest]
  /\ conn[Host] # 0 /\ wired[Host][conn[Host]] > 0 => key[Host] = accepted[conn[Host]]

WiringInv ==
  /\ UnusedIsBlank
  /\ CurrentIsUsed
  /\ NothingBeforeCreation
  /\ WiredWasShown
  /\ FormMeansUnwired
  /\ WiredHasKey
  /\ SingleWiring
  /\ ReconnectFormIsCurrent
  /\ ConnectedOverLiveTransport

(* Action properties *)

\* Session.transition's expiry test: a session past its five minutes never
\* becomes connected, by any path.
NoLateConnection ==
  [][\A p \in Peer :
       old[p] /\ status[p] # "connected" => status'[p] # "connected"]_vars

\* While the page lives, an expired entry stays expired: only deleting it, or
\* joining again over it, ends that.
ExpiredIsFinal ==
  [][\A p \in Peer : status[p] = "expired" /\ status'[p] # "expired" =>
       \/ conn'[p] = 0
       \/ p = Guest /\ conn'[p] \in joins' \ joins]_vars

(* Liveness *)

\* The end's link is there, as far as it lasts, and its session young enough.
Undisturbed(p) ==
  tp[p][conn[p]] \notin {"interrupted", "dropped"} /\ ~old[p]

\* Both ends have the codes of each other's current transport, and one of them
\* does not show "connected" yet.
OneStillWaits ==
  /\ \A p \in Peer :
       /\ conn[p] # 0
       /\ status[p] \in {"awaiting_finalize", "connecting", "connected"}
       /\ Undisturbed(p)
  /\ Linked(conn[Host], conn[Guest])
  /\ \E p \in Peer : status[p] # "connected"

\* No wait is for ever: of two ends that have each other's codes both become
\* connected, unless the link is lost, an end leaves it or the session grows old.
\* The numbers of transports are not used again, so a wait that lasts is that of
\* one pair of transports.
WaitingConnects == []<>~OneStillWaits

\* The end shows "connected" while the transport on the other side is closed.
ConnectedToNone(p) == status[p] = "connected" /\ ~PeerThere(p, conn[p])

\* No end goes on showing "connected" for ever when its peer's transport is closed.
PeerCloseIsNoticed == \A p \in Peer : []<>~ConnectedToNone(p)

(* Claims of the repository the code does not keep *)

Reconnecting(p) ==
  /\ status[p] = "connecting"
  /\ conn[p] # 0
  /\ IF p = Host THEN conn[p] # 1 ELSE conn[p] \notin joins

\* Session.js:87: established sessions skip the expiry check, "DISCONNECTED can
\* reconnect".
ReconnectIgnoresExpiry ==
  [][\A p \in Peer : Reconnecting(p) => status'[p] # "expired"]_vars

\* SessionManager.js:107: without a restored shared key, the "reconnect flow
\* will regenerate it": the host that has its peer's answer gets a key.
ReconnectRegeneratesKey ==
  (form = "reconnect" /\ \E g \in codes[Guest] : offerOf[g] = conn[Host])
    ~> (key[Host] # 0 \/ form # "reconnect")
=============================================================================
