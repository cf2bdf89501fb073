----------------------- MODULE SessionLifecycleProofs -----------------------
(***************************************************************************)
(* Proofs about SessionLifecycle, for any number of transports.            *)
(***************************************************************************)
EXTENDS SessionLifecycle, TLAPS

LEMMA BoundsFit ==
  /\ MaxTransports \in Nat \ {0}
  /\ MaxHostTransports <= MaxTransports
  /\ MaxGuestTransports <= MaxTransports
BY BoundsAssumption DEF MaxTransports

\* What the proofs need of transport numbers.
LEMMA IdFacts ==
  /\ Ids \subseteq Nat \ {0}
  /\ Id0 = Ids \cup {0}
  /\ 1 \in Ids
  /\ \A n \in Id0, p \in Peer : n + 1 <= Bound(p) => n + 1 \in Ids
BY BoundsFit, BoundsAssumption DEF Ids, Id0, Bound, Peer

LEMMA PeersDiffer == Host \in Peer /\ Guest \in Peer /\ Host # Guest
BY DEF Peer, Host, Guest

\* A transition leaves a status of the machine.
LEMMA TransitionType ==
  ASSUME TypeOK, NEW p \in Peer, NEW new \in Status
  PROVE  Transition(p, new) \in Status
BY DEF Transition, TypeOK, Status

LEMMA RestoredType ==
  ASSUME NEW rec \in Rec
  PROVE  Restored(rec) \in Status \ {"connected"}
BY DEF Restored, Rec, Status

\* What the two channel events may change at their end.
LEMMA OpensEffect ==
  ASSUME NEW p \in Peer, NEW t \in Ids, ChannelOpens(p, t)
  PROVE  /\ status' = [status EXCEPT ![p] = IF Hears(p, t) THEN OnConnected(p) ELSE @]
         /\ \/ saving' = saving /\ pending' = pending
            \/ pending' = [pending EXCEPT ![p] = 0] /\ Save(p, OnConnected(p), 0)
            \/ pending' = pending /\ Save(p, status[p], pending[p])
BY DEF ChannelOpens, SavesNewEntry

LEMMA LostEffect ==
  ASSUME NEW p \in Peer, NEW t \in Ids, ChannelLost(p, t)
  PROVE  \/ /\ status' = status
            /\ saving' = saving \/ Save(p, status[p], pending[p])
            /\ Hears(p, t) => status[p] = OnDisconnected(p)
         \/ /\ Hears(p, t)
            /\ status' = [status EXCEPT ![p] = OnDisconnected(p)]
            /\ Save(p, OnDisconnected(p), pending[p])
<1>1. CASE Hears(p, t) /\ status[p] # OnDisconnected(p)
  BY <1>1 DEF ChannelLost
<1>2. CASE ~(Hears(p, t) /\ status[p] # OnDisconnected(p))
  BY <1>2 DEF ChannelLost, SavesNewEntry
<1> QED
  BY <1>1, <1>2

LEMMA OpensType ==
  ASSUME TypeOK, NEW p \in Peer, NEW t \in Ids, ChannelOpens(p, t)
  PROVE  status' \in [Peer -> Status] /\ saving' \in [Peer -> Rec]
         /\ pending' \in [Peer -> Id0]
<1>1. OnConnected(p) \in Status
  BY DEF OnConnected, TypeOK, Status
<1>2. 0 \in Id0 /\ [status |-> OnConnected(p), pending |-> 0] \in Rec
  BY <1>1, IdFacts DEF Rec
<1>3. status' \in [Peer -> Status]
  <2>1. status' = [status EXCEPT ![p] = IF Hears(p, t) THEN OnConnected(p) ELSE @]
    BY OpensEffect
  <2>2. CASE Hears(p, t)
    BY <2>1, <2>2, <1>1 DEF TypeOK
  <2>3. CASE ~Hears(p, t)
    BY <2>1, <2>3 DEF TypeOK
  <2> QED
    BY <2>2, <2>3
<1>4. CASE saving' = saving /\ pending' = pending
  BY <1>3, <1>4 DEF TypeOK
<1>5. CASE pending' = [pending EXCEPT ![p] = 0] /\ Save(p, OnConnected(p), 0)
  BY <1>2, <1>3, <1>5 DEF TypeOK, Save
<1>6. CASE pending' = pending /\ Save(p, status[p], pending[p])
  <2>1. [status |-> status[p], pending |-> pending[p]] \in Rec
    BY DEF TypeOK, Rec
  <2> QED
    BY <1>3, <1>6, <2>1 DEF TypeOK, Save
<1> QED
  BY <1>4, <1>5, <1>6, OpensEffect

LEMMA LostType ==
  ASSUME TypeOK, NEW p \in Peer, NEW t \in Ids, ChannelLost(p, t)
  PROVE  status' \in [Peer -> Status] /\ saving' \in [Peer -> Rec]
<1>1. OnDisconnected(p) \in Status
  BY DEF OnDisconnected, TypeOK, Status
<1>2. [status |-> OnDisconnected(p), pending |-> pending[p]] \in Rec
  BY <1>1 DEF Rec, TypeOK
<1>3. CASE status' = status /\ saving' = saving
  BY <1>3 DEF TypeOK
<1>5. CASE status' = status /\ Save(p, status[p], pending[p])
  <2>1. [status |-> status[p], pending |-> pending[p]] \in Rec
    BY DEF TypeOK, Rec
  <2> QED
    BY <1>5, <2>1 DEF TypeOK, Save
<1>4. CASE /\ status' = [status EXCEPT ![p] = OnDisconnected(p)]
           /\ Save(p, OnDisconnected(p), pending[p])
  BY <1>1, <1>2, <1>4 DEF TypeOK, Save
<1> QED
  BY <1>3, <1>4, <1>5, LostEffect

\* Every step keeps every variable in its domain.
LEMMA TypeStep == TypeOK /\ [Next]_vars => TypeOK'
<1> SUFFICES ASSUME TypeOK, [Next]_vars PROVE TypeOK'
  OBVIOUS
<1> USE DEF TypeOK
<1>0. "awaiting_answer" \in Status /\ "awaiting_finalize" \in Status
      /\ "connecting" \in Status /\ "connected" \in Status
      /\ "disconnected" \in Status /\ "expired" \in Status /\ "none" \in Status
  BY DEF Status
<1>t. "connecting" \in TState /\ "closed" \in TState /\ "none" \in TState
      /\ "connected" \in TState /\ "interrupted" \in TState /\ "dropped" \in TState
  BY DEF TState
<1>i. 0 \in Id0 /\ 1 \in Ids /\ 1 \in Id0 /\ \A t \in Ids : t \in Id0
  BY IdFacts
<1>f. \A p \in Peer : Fresh(p) <= Bound(p) => Fresh(p) \in Ids /\ Fresh(p) \in Id0
  BY IdFacts DEF Fresh
<1>n. NoRec \in Rec
  BY <1>0, <1>i DEF NoRec, Rec
<1>r. \A s \in Status, i \in Id0 : [status |-> s, pending |-> i] \in Rec
  BY DEF Rec
<1>c. Transition(Host, "connecting") \in Status /\ Transition(Guest, "connecting") \in Status
  BY <1>0, TransitionType, PeersDiffer
<1>v. \A p \in Peer : CloseCurrent(p) \in [Ids -> TState]
  BY <1>t DEF CloseCurrent
<1>h. Host \in Peer /\ Guest \in Peer
  BY PeersDiffer
<1>1. CASE CreateSession
  BY <1>1, <1>0, <1>t, <1>r, <1>i, <1>h DEF CreateSession, Save
<1>2. CASE JoinSession
  BY <1>2, <1>0, <1>t, <1>r, <1>i, <1>f, <1>h DEF JoinSession, Save
<1>3. ASSUME NEW g \in Ids, FinalizeSession(g) PROVE TypeOK'
  <2> DEFINE h == conn[Host]
  <2>1. h \in Ids
    BY <1>3, <1>h, IdFacts DEF FinalizeSession, CanAccept
  <2>2. wired' \in [Peer -> [Ids -> Nat]] /\ saving' \in [Peer -> Rec]
        /\ form' \in {"none", "answer", "reconnect"}
    <3>1. CASE Throws(Host, "connecting")
      BY <1>3, <3>1 DEF FinalizeSession
    <3>2. CASE ~Throws(Host, "connecting")
      <4>1. /\ wired' = [wired EXCEPT ![Host][h] = @ + 1]
            /\ form' = "none"
            /\ Save(Host, Transition(Host, "connecting"), 0)
        BY <1>3, <3>2 DEF FinalizeSession
      <4> QED
        BY <4>1, <2>1, <1>h, <1>c, <1>r, <1>i DEF Save
    <3> QED
      BY <3>1, <3>2
  <2> QED
    BY <1>3, <2>2, <1>h, <1>c, <1>i DEF FinalizeSession, TakeAnswer
<1>4. ASSUME NEW g \in Ids, FinalizeReconnect(g) PROVE TypeOK'
  <2> DEFINE h == conn[Host]
  <2>1. h \in Ids
    BY <1>4, <1>h, IdFacts DEF FinalizeReconnect, CanAccept
  <2>2. wired' \in [Peer -> [Ids -> Nat]]
    BY <1>4, <2>1, <1>h DEF FinalizeReconnect
  <2> QED
    BY <1>4, <2>2, <1>h, <1>r, <1>i DEF FinalizeReconnect, TakeAnswer, Save
<1>5. ASSUME NEW g \in Ids, RejectAnswer(g) PROVE TypeOK'
  BY <1>5, <1>h, <1>i DEF RejectAnswer, TakeAnswer
<1>6. CASE ReconnectAsHost
  BY <1>6, <1>t, <1>v, <1>h, <1>f DEF ReconnectAsHost
<1>7. CASE ReconnectOfferReady
  <2>1. conn[Host] \in Ids
    BY <1>7, <1>h, IdFacts DEF ReconnectOfferReady, Gathering
  <2> QED
    BY <1>7, <2>1, <1>h, <1>i, <1>r, <1>c DEF ReconnectOfferReady, Save
<1>8. ASSUME NEW h \in Ids, ReconnectAsGuest(h) PROVE TypeOK'
  BY <1>8, <1>t, <1>v, <1>h, <1>f, <1>i DEF ReconnectAsGuest
<1>9. CASE ReconnectAnswerReady
  <2> DEFINE g == conn[Guest]
  <2>1. g \in Ids
    BY <1>9, <1>h, IdFacts DEF ReconnectAnswerReady, Gathering
  <2>2. wired' \in [Peer -> [Ids -> Nat]]
    BY <1>9, <2>1, <1>h DEF ReconnectAnswerReady
  <2>3. saving' \in [Peer -> Rec]
    <3>1. saving' = saving \/ Save(Guest, Transition(Guest, "connecting"), g)
      BY <1>9 DEF ReconnectAnswerReady
    <3>2. [status |-> Transition(Guest, "connecting"), pending |-> g] \in Rec
      BY <2>1, <1>i, <1>c DEF Rec
    <3> QED
      BY <3>1, <3>2, <1>h DEF Save
  <2> QED
    BY <1>9, <2>1, <2>2, <2>3, <1>h, <1>i, <1>c DEF ReconnectAnswerReady
<1>10. ASSUME NEW p \in Peer, NEW t \in Ids, ChannelOpens(p, t) PROVE TypeOK'
  <2>1. tp' \in [Peer -> [Ids -> TState]]
    BY <1>10, <1>t DEF ChannelOpens
  <2> QED
    BY <1>10, <2>1, OpensType DEF ChannelOpens
<1>11. ASSUME NEW p \in Peer, NEW t \in Ids, ChannelLost(p, t) PROVE TypeOK'
  <2>1. tp' \in [Peer -> [Ids -> TState]]
    <3>1. CASE tp' = [tp EXCEPT ![p][t] = "interrupted"]
      BY <3>1, <1>t
    <3>2. CASE tp' = [tp EXCEPT ![p][t] = "dropped"]
      BY <3>2, <1>t
    <3> QED
      BY <1>11, <3>1, <3>2 DEF ChannelLost
  <2> QED
    BY <1>11, <2>1, LostType DEF ChannelLost
<1>12. ASSUME NEW p \in Peer, Disconnect(p) PROVE TypeOK'
  BY <1>12, <1>0, <1>r, <1>v, <1>i DEF Disconnect, Save
<1>13. ASSUME NEW p \in Peer, DeleteSession(p) PROVE TypeOK'
  BY <1>13, <1>0, <1>n, <1>v, <1>i DEF DeleteSession
<1>14. ASSUME NEW p \in Peer, SaveDone(p) PROVE TypeOK'
  BY <1>14, <1>n DEF SaveDone
<1>15. ASSUME NEW p \in Peer, Reload(p) PROVE TypeOK'
  <2>1. Restored(disk[p]) \in Status /\ disk[p].pending \in Id0
    BY RestoredType DEF Rec
  <2>2. tp' \in [Peer -> [Ids -> TState]]
    BY <1>15, <1>t DEF Reload
  <2> QED
    BY <1>15, <2>1, <2>2, <1>n, <1>i DEF Reload
<1>16. ASSUME NEW p \in Peer, Expire(p) PROVE TypeOK'
  BY <1>16 DEF Expire
<1>17. CASE OpenAnswerForm
  BY <1>17 DEF OpenAnswerForm
<1>18. CASE LeaveForm
  BY <1>18 DEF LeaveForm
<1>19. CASE UNCHANGED vars
  BY <1>19 DEF vars
<1> QED
  BY <1>1, <1>2, <1>3, <1>4, <1>5, <1>6, <1>7, <1>8, <1>9, <1>10, <1>11, <1>12,
     <1>13, <1>14, <1>15, <1>16, <1>17, <1>18, <1>19 DEF Next

\* Every variable stays in its domain.
THEOREM TypeCorrect == Spec => []TypeOK
<1>1. Init => TypeOK
  <2> SUFFICES ASSUME Init PROVE TypeOK
    OBVIOUS
  <2>1. 0 \in Id0 /\ "none" \in Status /\ "none" \in TState
    BY IdFacts DEF Status, TState
  <2>2. NoRec \in Rec
    BY <2>1 DEF NoRec, Rec
  <2> QED
    BY <2>1, <2>2 DEF Init, TypeOK
<1> QED
  BY <1>1, TypeStep, PTL DEF Spec

LEMMA IdsAreNats == \A t \in Id0 : t \in Nat /\ (t # 0 => t \in Ids)
BY BoundsFit DEF Ids, Id0

\* A fresh number is unused, and what lies above it lay above the used ones.
LEMMA FreshFacts ==
  ASSUME TypeOK, NEW p \in Peer, Fresh(p) <= Bound(p)
  PROVE  /\ Fresh(p) \in Ids
         /\ Fresh(p) > used[p]
         /\ Fresh(p) <= Fresh(p)
         /\ \A t \in Ids : t > Fresh(p) => t > used[p] /\ t # Fresh(p)
<1>0. used[p] \in Id0
  BY DEF TypeOK
<1>1. used[p] \in Nat /\ used[p] \in Id0 /\ \A t \in Ids : t \in Nat
  BY <1>0, IdsAreNats, IdFacts
<1>2. Fresh(p) \in Ids
  BY <1>1, IdFacts DEF Fresh
<1>3. \A n, t \in Nat : n + 1 > n /\ n + 1 <= n + 1 /\ (t > n + 1 => t > n /\ t # n + 1)
  OBVIOUS
<1> QED
  BY <1>1, <1>2, <1>3 DEF Fresh

\* The current transport, or none, is among those used.
LEMMA CurrentFacts ==
  ASSUME TypeOK, CurrentIsUsed, NEW p \in Peer
  PROVE  0 <= used[p] /\ ~(conn[p] > used[p]) /\ (conn[p] # 0 => conn[p] \in Ids)
<1>0. used[p] \in Id0 /\ conn[p] \in Id0
  BY DEF TypeOK
<1>1. used[p] \in Nat /\ conn[p] \in Nat /\ (conn[p] # 0 => conn[p] \in Ids)
  BY <1>0, IdsAreNats
<1>2. conn[p] <= used[p]
  BY DEF CurrentIsUsed
<1>3. \A m, n \in Nat : 0 <= n /\ (m <= n => ~(m > n))
  OBVIOUS
<1> QED
  BY <1>1, <1>2, <1>3

\* Adding listeners to the transport of a paste form, and nowhere else.
LEMMA WiringEffect ==
  ASSUME TypeOK, CurrentIsUsed, FormMeansUnwired, form # "none", conn[Host] # 0,
         UNCHANGED <<used, codes, joins>>,
         wired' = wired \/ wired' = [wired EXCEPT ![Host][conn[Host]] = @ + 1]
  PROVE  /\ UnusedIsBlank => UnusedIsBlank'
         /\ WiredWasShown => WiredWasShown'
         /\ SingleWiring => SingleWiring'
<1> DEFINE h == conn[Host]
<1>1. h \in Ids /\ ~(h > used[Host]) /\ h \in codes[Host] /\ wired[Host][h] = 0
  BY CurrentFacts, PeersDiffer DEF FormMeansUnwired
<1>2. CASE wired' = wired
  BY <1>2 DEF UnusedIsBlank, WiredWasShown, SingleWiring
<1>3. CASE wired' = [wired EXCEPT ![Host][h] = @ + 1]
  <2>1. \A p \in Peer, t \in Ids :
          wired'[p][t] = IF p = Host /\ t = h THEN 1 ELSE wired[p][t]
    BY <1>1, <1>3, PeersDiffer DEF TypeOK
  <2>2. UnusedIsBlank => UnusedIsBlank'
    BY <1>1, <2>1 DEF UnusedIsBlank
  <2>3. WiredWasShown => WiredWasShown'
    BY <1>1, <2>1 DEF WiredWasShown
  <2>4. SingleWiring => SingleWiring'
    BY <1>1, <2>1 DEF SingleWiring
  <2> QED
    BY <2>2, <2>3, <2>4
<1> QED
  BY <1>2, <1>3

\* Every step keeps the wiring invariant.
LEMMA WiringStep ==
  ASSUME TypeOK, TypeOK', WiringInv, [Next]_vars
  PROVE  WiringInv'
<1>0. /\ UnusedIsBlank /\ CurrentIsUsed /\ NothingBeforeCreation
      /\ WiredWasShown /\ FormMeansUnwired /\ WiredHasKey /\ SingleWiring /\ ReconnectFormIsCurrent
      /\ ConnectedOverLiveTransport
  BY DEF WiringInv
<1>1. CASE CreateSession
  <2>1. SingleWiring' /\ ReconnectFormIsCurrent'
    BY <1>0, <1>1, PeersDiffer DEF SingleWiring, ReconnectFormIsCurrent,
       CreateSession
  <2>2. UnusedIsBlank'
    <3> SUFFICES ASSUME NEW p \in Peer, NEW t \in Ids, t > used'[p]
                 PROVE  /\ wired'[p][t] = 0
                        /\ t \notin codes'[p]
                        /\ p = Guest => t \notin joins'
      BY DEF UnusedIsBlank
    <3>1. used'[p] = (IF p = Host THEN 1 ELSE used[p]) /\ used[Host] = 0
      BY <1>0, <1>1 DEF CreateSession, TypeOK
    <3>2. t \in Nat
      BY IdFacts
    <3>3. t > used[p] /\ (p = Host => t # 1)
      BY <3>1, <3>2
    <3>4. wired[p][t] = 0 /\ t \notin codes[p] /\ (p = Guest => t \notin joins)
      BY <1>0, <3>3 DEF UnusedIsBlank
    <3>5. codes'[p] = IF p = Host THEN {1} ELSE codes[p]
      BY <1>0, <1>1 DEF CreateSession, TypeOK
    <3>6. wired' = wired /\ joins' = joins
      BY <1>0, <1>1 DEF CreateSession
    <3> QED
      BY <3>3, <3>4, <3>5, <3>6
  <2>3. CurrentIsUsed'
    BY <1>0, <1>1, PeersDiffer DEF CurrentIsUsed, CreateSession, TypeOK
  <2>4. NothingBeforeCreation'
    BY <1>0, <1>1, PeersDiffer DEF NothingBeforeCreation, CreateSession, TypeOK
  <2>5. WiredWasShown'
    BY <1>0, <1>1, PeersDiffer, IdFacts DEF WiredWasShown, UnusedIsBlank,
       CreateSession, TypeOK
  <2>6. FormMeansUnwired'
    BY <1>0, <1>1, PeersDiffer, IdFacts DEF FormMeansUnwired, UnusedIsBlank,
       CreateSession, TypeOK
  <2>7. WiredHasKey'
    <3>1. conn'[Host] = 1 /\ wired[Host][1] = 0 /\ conn'[Guest] = conn[Guest]
      BY <1>0, <1>1, IdFacts, PeersDiffer DEF CreateSession, UnusedIsBlank, TypeOK
    <3> QED
      BY <1>0, <1>1, <3>1 DEF WiredHasKey, CreateSession
  <2>8. ConnectedOverLiveTransport'
    BY <1>0, <1>1, PeersDiffer DEF ConnectedOverLiveTransport, CreateSession, TypeOK
  <2> QED
    BY <2>1, <2>2, <2>3, <2>4, <2>5, <2>6, <2>7, <2>8 DEF WiringInv
<1>2. CASE JoinSession
  <2>f. /\ Fresh(Guest) \in Ids
        /\ Fresh(Guest) > used[Guest]
        /\ Fresh(Guest) <= Fresh(Guest)
        /\ \A t \in Ids : t > Fresh(Guest) => t > used[Guest] /\ t # Fresh(Guest)
    BY <1>2, FreshFacts, PeersDiffer DEF JoinSession
  <2>1. /\ NothingBeforeCreation'
        /\ FormMeansUnwired'
        /\ SingleWiring'
        /\ ReconnectFormIsCurrent'
    BY <1>0, <1>2, PeersDiffer DEF NothingBeforeCreation, FormMeansUnwired,
       SingleWiring, ReconnectFormIsCurrent, JoinSession
  <2>2. WiredWasShown' /\ WiredHasKey' /\ ConnectedOverLiveTransport'
    BY <1>0, <1>2, PeersDiffer DEF WiredWasShown, WiredHasKey,
       ConnectedOverLiveTransport, JoinSession, TypeOK
  <2>3. UnusedIsBlank'
    <3> SUFFICES ASSUME NEW p \in Peer, NEW t \in Ids, t > used'[p]
                 PROVE  /\ wired'[p][t] = 0
                        /\ t \notin codes'[p]
                        /\ p = Guest => t \notin joins'
      BY DEF UnusedIsBlank
    <3>0. used'[p] = IF p = Guest THEN Fresh(Guest) ELSE used[p]
      BY <1>0, <1>2, PeersDiffer DEF JoinSession, TypeOK
    <3>1. t > used[p] /\ (p = Guest => t # Fresh(Guest))
      BY <2>f, <3>0
    <3>2. wired[p][t] = 0 /\ t \notin codes[p] /\ (p = Guest => t \notin joins)
      BY <1>0, <3>1 DEF UnusedIsBlank
    <3>3. wired'[p][t] = wired[p][t]
      <4>1. wired' = [wired EXCEPT ![Guest][Fresh(Guest)] = 1]
        BY <1>0, <1>2 DEF JoinSession
      <4> QED
        BY <2>f, <3>1, <4>1, PeersDiffer DEF TypeOK
    <3>4. t \in codes'[p] => t \in codes[p] \/ (p = Guest /\ t = Fresh(Guest))
      <4>1. codes' = [codes EXCEPT ![Guest] = @ \cup {Fresh(Guest)}]
        BY <1>0, <1>2 DEF JoinSession
      <4> QED
        BY <4>1 DEF TypeOK
    <3>5. joins' = joins \cup {Fresh(Guest)}
      BY <1>0, <1>2 DEF JoinSession
    <3> QED
      BY <3>1, <3>2, <3>3, <3>4, <3>5
  <2>4. CurrentIsUsed'
    <3>1. conn'[Guest] = Fresh(Guest) /\ used'[Guest] = Fresh(Guest)
      BY <1>0, <1>2, PeersDiffer DEF JoinSession, TypeOK
    <3>2. \A p \in Peer : p # Guest => conn'[p] = conn[p] /\ used'[p] = used[p]
      BY <1>0, <1>2 DEF JoinSession, TypeOK
    <3> QED
      BY <1>0, <2>f, <3>1, <3>2 DEF CurrentIsUsed
  <2> QED
    BY <2>1, <2>2, <2>3, <2>4 DEF WiringInv
<1>3. ASSUME NEW g \in Ids, FinalizeSession(g) PROVE WiringInv'
  <2>1. UnusedIsBlank' /\ WiredWasShown' /\ SingleWiring'
    <3>1. wired' = wired \/ wired' = [wired EXCEPT ![Host][conn[Host]] = @ + 1]
      BY <1>3 DEF FinalizeSession
    <3>2. form # "none" /\ conn[Host] # 0 /\ UNCHANGED <<used, codes, joins>>
      BY <1>3 DEF FinalizeSession, CanAccept
    <3> QED
      BY <1>0, <3>1, <3>2, WiringEffect
  <2>2. CurrentIsUsed' /\ ReconnectFormIsCurrent'
    BY <1>0, <1>3, PeersDiffer DEF CurrentIsUsed, ReconnectFormIsCurrent,
       FinalizeSession
  <2>3. NothingBeforeCreation'
    BY <1>0, <1>3 DEF NothingBeforeCreation, FinalizeSession, CanAccept
  <2>4. FormMeansUnwired'
    BY <1>0, <1>3, PeersDiffer, IdFacts DEF FormMeansUnwired, FinalizeSession,
       TakeAnswer, CanAccept, Transition, Throws, ValidNext, TypeOK
  <2>5. WiredHasKey'
    BY <1>0, <1>3, PeersDiffer, IdFacts DEF WiredHasKey, FinalizeSession,
       TakeAnswer, CanAccept, Transition, Throws, ValidNext, TypeOK
  <2>6. ConnectedOverLiveTransport'
    BY <1>0, <1>3, PeersDiffer, IdFacts DEF ConnectedOverLiveTransport,
       FinalizeSession, TakeAnswer, CanAccept, Transition, Throws, ValidNext,
       TypeOK
  <2> QED
    BY <2>1, <2>2, <2>3, <2>4, <2>5, <2>6 DEF WiringInv
<1>4. ASSUME NEW g \in Ids, FinalizeReconnect(g) PROVE WiringInv'
  <2>1. UnusedIsBlank' /\ WiredWasShown' /\ SingleWiring'
    <3>1. wired' = wired \/ wired' = [wired EXCEPT ![Host][conn[Host]] = @ + 1]
      BY <1>4 DEF FinalizeReconnect
    <3>2. form # "none" /\ conn[Host] # 0 /\ UNCHANGED <<used, codes, joins>>
      BY <1>4 DEF FinalizeReconnect, CanAccept
    <3> QED
      BY <1>0, <3>1, <3>2, WiringEffect
  <2>2. CurrentIsUsed' /\ NothingBeforeCreation' /\ ReconnectFormIsCurrent'
    BY <1>0, <1>4, PeersDiffer DEF CurrentIsUsed, NothingBeforeCreation,
       ReconnectFormIsCurrent, FinalizeReconnect
  <2>3. ConnectedOverLiveTransport'
    BY <1>0, <1>4, PeersDiffer DEF ConnectedOverLiveTransport,
       FinalizeReconnect, TypeOK
  <2>4. FormMeansUnwired'
    BY <1>0, <1>4, PeersDiffer, IdFacts DEF FormMeansUnwired,
       ReconnectFormIsCurrent, FinalizeReconnect, TakeAnswer, CanAccept, TypeOK
  <2>5. WiredHasKey'
    BY <1>0, <1>4, PeersDiffer, IdFacts DEF WiredHasKey, FinalizeReconnect,
       TakeAnswer, CanAccept, TypeOK
  <2> QED
    BY <2>1, <2>2, <2>3, <2>4, <2>5 DEF WiringInv
<1>5. ASSUME NEW g \in Ids, RejectAnswer(g) PROVE WiringInv'
  <2>1. /\ UnusedIsBlank'
        /\ CurrentIsUsed'
        /\ NothingBeforeCreation'
        /\ WiredWasShown'
        /\ FormMeansUnwired'
        /\ SingleWiring'
        /\ ReconnectFormIsCurrent'
        /\ ConnectedOverLiveTransport'
    BY <1>0, <1>5, PeersDiffer DEF UnusedIsBlank, CurrentIsUsed,
       NothingBeforeCreation, WiredWasShown, FormMeansUnwired, SingleWiring,
       ReconnectFormIsCurrent, ConnectedOverLiveTransport, RejectAnswer
  <2>2. WiredHasKey'
    BY <1>0, <1>5, PeersDiffer, IdFacts DEF WiredHasKey, FormMeansUnwired,
       RejectAnswer, TakeAnswer, CanAccept, TypeOK
  <2> QED
    BY <2>1, <2>2 DEF WiringInv
<1>6. CASE ReconnectAsHost
  <2>f. /\ Fresh(Host) \in Ids
        /\ Fresh(Host) > used[Host]
        /\ Fresh(Host) <= Fresh(Host)
        /\ \A t \in Ids : t > Fresh(Host) => t > used[Host] /\ t # Fresh(Host)
    BY <1>6, FreshFacts, PeersDiffer DEF ReconnectAsHost
  <2>1. /\ WiredWasShown'
        /\ FormMeansUnwired'
        /\ SingleWiring'
        /\ ReconnectFormIsCurrent'
        /\ ConnectedOverLiveTransport'
    BY <1>0, <1>6, PeersDiffer DEF WiredWasShown, FormMeansUnwired,
       SingleWiring, ReconnectFormIsCurrent, ConnectedOverLiveTransport,
       ReconnectAsHost
  <2>2. UnusedIsBlank'
    <3>1. \A p \in Peer, t \in Ids : t > used'[p] => t > used[p]
      BY <1>0, <1>6, <2>f, PeersDiffer DEF ReconnectAsHost, TypeOK
    <3> QED
      BY <1>0, <1>6, <3>1 DEF UnusedIsBlank, ReconnectAsHost
  <2>3. CurrentIsUsed'
    <3>1. conn'[Host] = Fresh(Host) /\ used'[Host] = Fresh(Host)
      BY <1>0, <1>6, PeersDiffer DEF ReconnectAsHost, TypeOK
    <3>2. \A p \in Peer : p # Host => conn'[p] = conn[p] /\ used'[p] = used[p]
      BY <1>0, <1>6 DEF ReconnectAsHost, TypeOK
    <3> QED
      BY <1>0, <2>f, <3>1, <3>2 DEF CurrentIsUsed
  <2>4. NothingBeforeCreation'
    BY <1>0, <1>6, <2>f, IdFacts, PeersDiffer DEF NothingBeforeCreation, ReconnectAsHost, TypeOK
  <2>5. WiredHasKey'
    <3>1. conn'[Host] = Fresh(Host) /\ wired[Host][Fresh(Host)] = 0
      BY <1>0, <1>6, <2>f, PeersDiffer DEF ReconnectAsHost, UnusedIsBlank, TypeOK
    <3> QED
      BY <1>0, <1>6, <3>1, PeersDiffer DEF WiredHasKey, ReconnectAsHost, TypeOK
  <2> QED
    BY <2>1, <2>2, <2>3, <2>4, <2>5 DEF WiringInv
<1>7. CASE ReconnectOfferReady
  <2>1. /\ CurrentIsUsed'
        /\ WiredWasShown'
        /\ WiredHasKey'
        /\ SingleWiring'
    BY <1>0, <1>7, PeersDiffer DEF CurrentIsUsed, WiredWasShown, WiredHasKey,
       SingleWiring, ReconnectOfferReady
  <2>2. UnusedIsBlank'
    <3>1. conn[Host] \in Ids /\ ~(conn[Host] > used[Host])
      BY <1>0, <1>7, CurrentFacts, PeersDiffer DEF ReconnectOfferReady, Gathering
    <3>2. \A p \in Peer, t \in Ids :
            ~(p = Host /\ t = conn[Host]) =>
              wired'[p][t] = wired[p][t] /\ (t \in codes'[p] <=> t \in codes[p])
      BY <1>0, <1>7, <3>1, PeersDiffer DEF ReconnectOfferReady, TypeOK
    <3>3. used' = used /\ joins' = joins
      BY <1>0, <1>7 DEF ReconnectOfferReady
    <3> QED
      BY <1>0, <3>1, <3>2, <3>3 DEF UnusedIsBlank
  <2>3. NothingBeforeCreation'
    BY <1>0, <1>7 DEF NothingBeforeCreation, ReconnectOfferReady, Gathering
  <2>4. FormMeansUnwired'
    BY <1>0, <1>7, PeersDiffer, IdFacts DEF FormMeansUnwired, WiredWasShown,
       ReconnectOfferReady, Gathering, Transition, Throws, ValidNext, TypeOK
  <2>5. ReconnectFormIsCurrent'
    BY <1>0, <1>7, PeersDiffer, IdFacts DEF ReconnectFormIsCurrent,
       ReconnectOfferReady, Gathering, Transition, Throws, ValidNext, TypeOK
  <2>6. ConnectedOverLiveTransport'
    BY <1>0, <1>7, PeersDiffer, IdFacts DEF ConnectedOverLiveTransport,
       ReconnectOfferReady, Gathering, Transition, Throws, ValidNext, TypeOK
  <2> QED
    BY <2>1, <2>2, <2>3, <2>4, <2>5, <2>6 DEF WiringInv
<1>8. ASSUME NEW h \in Ids, ReconnectAsGuest(h) PROVE WiringInv'
  <2>f. /\ Fresh(Guest) \in Ids
        /\ Fresh(Guest) > used[Guest]
        /\ Fresh(Guest) <= Fresh(Guest)
        /\ \A t \in Ids : t > Fresh(Guest) => t > used[Guest] /\ t # Fresh(Guest)
    BY <1>8, FreshFacts, PeersDiffer DEF ReconnectAsGuest
  <2>1. /\ NothingBeforeCreation'
        /\ WiredWasShown'
        /\ FormMeansUnwired'
        /\ SingleWiring'
        /\ ReconnectFormIsCurrent'
        /\ ConnectedOverLiveTransport'
    BY <1>0, <1>8, PeersDiffer DEF NothingBeforeCreation, WiredWasShown,
       FormMeansUnwired, SingleWiring, ReconnectFormIsCurrent,
       ConnectedOverLiveTransport, ReconnectAsGuest
  <2>2. UnusedIsBlank'
    <3>1. \A p \in Peer, t \in Ids : t > used'[p] => t > used[p]
      BY <1>0, <1>8, <2>f, PeersDiffer DEF ReconnectAsGuest, TypeOK
    <3> QED
      BY <1>0, <1>8, <3>1 DEF UnusedIsBlank, ReconnectAsGuest
  <2>3. CurrentIsUsed'
    <3>1. conn'[Guest] = Fresh(Guest) /\ used'[Guest] = Fresh(Guest)
      BY <1>0, <1>8, PeersDiffer DEF ReconnectAsGuest, TypeOK
    <3>2. \A p \in Peer : p # Guest => conn'[p] = conn[p] /\ used'[p] = used[p]
      BY <1>0, <1>8 DEF ReconnectAsGuest, TypeOK
    <3> QED
      BY <1>0, <2>f, <3>1, <3>2 DEF CurrentIsUsed
  <2>4. WiredHasKey'
    <3>1. conn'[Guest] = Fresh(Guest) /\ wired[Guest][Fresh(Guest)] = 0
      BY <1>0, <1>8, <2>f, PeersDiffer DEF ReconnectAsGuest, UnusedIsBlank, TypeOK
    <3> QED
      BY <1>0, <1>8, <3>1, PeersDiffer DEF WiredHasKey, ReconnectAsGuest, TypeOK
  <2> QED
    BY <2>1, <2>2, <2>3, <2>4 DEF WiringInv
<1>9. CASE ReconnectAnswerReady
  <2>1. CurrentIsUsed' /\ NothingBeforeCreation' /\ ReconnectFormIsCurrent'
    BY <1>0, <1>9, PeersDiffer DEF CurrentIsUsed, NothingBeforeCreation,
       ReconnectFormIsCurrent, ReconnectAnswerReady
  <2>2. WiredWasShown' /\ FormMeansUnwired' /\ WiredHasKey'
    BY <1>0, <1>9, PeersDiffer DEF WiredWasShown, FormMeansUnwired, WiredHasKey,
       ReconnectAnswerReady, TypeOK
  <2>3. UnusedIsBlank'
    <3>1. conn[Guest] \in Ids /\ ~(conn[Guest] > used[Guest])
      BY <1>0, <1>9, CurrentFacts, PeersDiffer DEF ReconnectAnswerReady, Gathering
    <3>2. \A p \in Peer, t \in Ids :
            ~(p = Guest /\ t = conn[Guest]) =>
              wired'[p][t] = wired[p][t] /\ (t \in codes'[p] <=> t \in codes[p])
      BY <1>0, <1>9, <3>1, PeersDiffer DEF ReconnectAnswerReady, TypeOK
    <3>3. used' = used /\ joins' = joins
      BY <1>0, <1>9 DEF ReconnectAnswerReady
    <3> QED
      BY <1>0, <3>1, <3>2, <3>3 DEF UnusedIsBlank
  <2>4. SingleWiring'
    <3>1. conn[Guest] \in Ids /\ wired[Guest][conn[Guest]] = 0
      BY <1>0, <1>9, CurrentFacts, PeersDiffer DEF ReconnectAnswerReady, Gathering, WiredWasShown, TypeOK
    <3>2. \A p \in Peer, t \in Ids :
            wired'[p][t] = wired[p][t] \/ wired'[p][t] = 1
      BY <1>0, <1>9, <3>1, PeersDiffer DEF ReconnectAnswerReady, TypeOK
    <3> QED
      BY <1>0, <3>2 DEF SingleWiring
  <2>5. ConnectedOverLiveTransport'
    BY <1>0, <1>9, PeersDiffer, IdFacts DEF ConnectedOverLiveTransport,
       ReconnectAnswerReady, Gathering, Transition, Throws, ValidNext, TypeOK
  <2> QED
    BY <2>1, <2>2, <2>3, <2>4, <2>5 DEF WiringInv
<1>10. ASSUME NEW p \in Peer, NEW t \in Ids, ChannelOpens(p, t) PROVE WiringInv'
  <2>1. /\ UnusedIsBlank'
        /\ CurrentIsUsed'
        /\ NothingBeforeCreation'
        /\ WiredWasShown'
        /\ WiredHasKey'
        /\ SingleWiring'
    BY <1>0, <1>10, PeersDiffer DEF UnusedIsBlank, CurrentIsUsed,
       NothingBeforeCreation, WiredWasShown, WiredHasKey, SingleWiring,
       ChannelOpens
  <2>2. FormMeansUnwired'
    BY <1>0, <1>10, PeersDiffer, IdFacts DEF FormMeansUnwired, ChannelOpens,
       Hears, OnConnected, TypeOK
  <2>3. ReconnectFormIsCurrent'
    BY <1>0, <1>10, PeersDiffer, IdFacts DEF ReconnectFormIsCurrent,
       FormMeansUnwired, ChannelOpens, Hears, OnConnected, TypeOK
  <2>4. ConnectedOverLiveTransport'
    BY <1>0, <1>10, PeersDiffer, IdFacts DEF ConnectedOverLiveTransport,
       ChannelOpens, Hears, OnConnected, TypeOK
  <2> QED
    BY <2>1, <2>2, <2>3, <2>4 DEF WiringInv
<1>11. ASSUME NEW p \in Peer, NEW t \in Ids, ChannelLost(p, t) PROVE WiringInv'
  <2>1. /\ UnusedIsBlank'
        /\ CurrentIsUsed'
        /\ WiredWasShown'
        /\ WiredHasKey'
        /\ SingleWiring'
    BY <1>0, <1>11, PeersDiffer DEF UnusedIsBlank, CurrentIsUsed, WiredWasShown,
       WiredHasKey, SingleWiring, ChannelLost
  <2>2. NothingBeforeCreation'
    BY <1>0, <1>11, PeersDiffer DEF NothingBeforeCreation, ChannelLost, TypeOK
  <2>3. FormMeansUnwired'
    BY <1>0, <1>11, PeersDiffer, IdFacts DEF FormMeansUnwired, ChannelLost,
       Hears, OnDisconnected, TypeOK
  <2>4. ReconnectFormIsCurrent'
    BY <1>0, <1>11, PeersDiffer, IdFacts DEF ReconnectFormIsCurrent,
       FormMeansUnwired, ChannelLost, Hears, OnDisconnected, TypeOK
  <2>5. ConnectedOverLiveTransport'
    BY <1>0, <1>11, PeersDiffer, IdFacts DEF ConnectedOverLiveTransport,
       ChannelLost, Hears, OnDisconnected, TypeOK
  <2> QED
    BY <2>1, <2>2, <2>3, <2>4, <2>5 DEF WiringInv
<1>12. ASSUME NEW p \in Peer, Disconnect(p) PROVE WiringInv'
  <2>1. /\ UnusedIsBlank'
        /\ NothingBeforeCreation'
        /\ WiredWasShown'
        /\ FormMeansUnwired'
        /\ WiredHasKey'
        /\ SingleWiring'
        /\ ReconnectFormIsCurrent'
    BY <1>0, <1>12, PeersDiffer DEF UnusedIsBlank, NothingBeforeCreation,
       WiredWasShown, FormMeansUnwired, WiredHasKey, SingleWiring,
       ReconnectFormIsCurrent, Disconnect
  <2>2. ConnectedOverLiveTransport'
    BY <1>0, <1>12, PeersDiffer DEF ConnectedOverLiveTransport, Disconnect,
       TypeOK
  <2>3. CurrentIsUsed'
    <3>1. \A q \in Peer : conn'[q] = 0 \/ conn'[q] = conn[q]
      BY <1>0, <1>12 DEF Disconnect, TypeOK
    <3>2. used' = used
      BY <1>0, <1>12 DEF Disconnect
    <3> QED
      BY <1>0, <3>1, <3>2, CurrentFacts DEF CurrentIsUsed
  <2> QED
    BY <2>1, <2>2, <2>3 DEF WiringInv
<1>13. ASSUME NEW p \in Peer, DeleteSession(p) PROVE WiringInv'
  <2>1. /\ UnusedIsBlank'
        /\ NothingBeforeCreation'
        /\ WiredWasShown'
        /\ FormMeansUnwired'
        /\ SingleWiring'
        /\ ReconnectFormIsCurrent'
    BY <1>0, <1>13, PeersDiffer DEF UnusedIsBlank, NothingBeforeCreation,
       WiredWasShown, FormMeansUnwired, SingleWiring, ReconnectFormIsCurrent,
       DeleteSession
  <2>2. WiredHasKey' /\ ConnectedOverLiveTransport'
    BY <1>0, <1>13, PeersDiffer DEF WiredHasKey, ConnectedOverLiveTransport,
       DeleteSession, TypeOK
  <2>3. CurrentIsUsed'
    <3>1. \A q \in Peer : conn'[q] = 0 \/ conn'[q] = conn[q]
      BY <1>0, <1>13 DEF DeleteSession, TypeOK
    <3>2. used' = used
      BY <1>0, <1>13 DEF DeleteSession
    <3> QED
      BY <1>0, <3>1, <3>2, CurrentFacts DEF CurrentIsUsed
  <2> QED
    BY <2>1, <2>2, <2>3 DEF WiringInv
<1>14. ASSUME NEW p \in Peer, SaveDone(p) PROVE WiringInv'
  BY <1>0, <1>14 DEF WiringInv, UnusedIsBlank, CurrentIsUsed,
     NothingBeforeCreation, WiredWasShown, FormMeansUnwired, WiredHasKey,
     SingleWiring, ReconnectFormIsCurrent, ConnectedOverLiveTransport, SaveDone
<1>15. ASSUME NEW p \in Peer, Reload(p) PROVE WiringInv'
  <2>1. /\ UnusedIsBlank'
        /\ NothingBeforeCreation'
        /\ WiredWasShown'
        /\ SingleWiring'
        /\ ReconnectFormIsCurrent'
    BY <1>0, <1>15, PeersDiffer DEF UnusedIsBlank, NothingBeforeCreation,
       WiredWasShown, SingleWiring, ReconnectFormIsCurrent, Reload
  <2>2. FormMeansUnwired' /\ WiredHasKey'
    BY <1>0, <1>15, PeersDiffer DEF FormMeansUnwired, WiredHasKey, Reload,
       TypeOK
  <2>3. CurrentIsUsed'
    <3>1. \A q \in Peer : conn'[q] = 0 \/ conn'[q] = conn[q]
      BY <1>0, <1>15 DEF Reload, TypeOK
    <3>2. used' = used
      BY <1>0, <1>15 DEF Reload
    <3> QED
      BY <1>0, <3>1, <3>2, CurrentFacts DEF CurrentIsUsed
  <2>4. ConnectedOverLiveTransport'
    BY <1>0, <1>15, PeersDiffer, IdFacts DEF ConnectedOverLiveTransport, Reload,
       Restored, TypeOK
  <2> QED
    BY <2>1, <2>2, <2>3, <2>4 DEF WiringInv
<1>16. ASSUME NEW p \in Peer, Expire(p) PROVE WiringInv'
  BY <1>0, <1>16 DEF WiringInv, UnusedIsBlank, CurrentIsUsed,
     NothingBeforeCreation, WiredWasShown, FormMeansUnwired, WiredHasKey,
     SingleWiring, ReconnectFormIsCurrent, ConnectedOverLiveTransport, Expire
<1>17. CASE OpenAnswerForm
  BY <1>0, <1>17 DEF WiringInv, UnusedIsBlank, CurrentIsUsed,
     NothingBeforeCreation, WiredWasShown, FormMeansUnwired, WiredHasKey,
     SingleWiring, ReconnectFormIsCurrent, ConnectedOverLiveTransport,
     OpenAnswerForm
<1>18. CASE LeaveForm
  BY <1>0, <1>18 DEF WiringInv, UnusedIsBlank, CurrentIsUsed,
     NothingBeforeCreation, WiredWasShown, FormMeansUnwired, WiredHasKey,
     SingleWiring, ReconnectFormIsCurrent, ConnectedOverLiveTransport, LeaveForm
<1>19. CASE UNCHANGED vars
  BY <1>0, <1>19 DEF WiringInv, UnusedIsBlank, CurrentIsUsed,
     NothingBeforeCreation, WiredWasShown, FormMeansUnwired, WiredHasKey,
     SingleWiring, ReconnectFormIsCurrent, ConnectedOverLiveTransport, vars
<1> QED
  BY <1>1, <1>2, <1>3, <1>4, <1>5, <1>6, <1>7, <1>8, <1>9, <1>10, <1>11, <1>12,
     <1>13, <1>14, <1>15, <1>16, <1>17, <1>18, <1>19 DEF Next

\* The wiring invariant, and with it what it says of a connected session: see
\* SessionLifecycle for the properties and the code they are about.
THEOREM WiringCorrect == Spec => []WiringInv
<1>1. Init => WiringInv
  BY PeersDiffer DEF Init, WiringInv, UnusedIsBlank, CurrentIsUsed,
     NothingBeforeCreation, WiredWasShown, FormMeansUnwired, WiredHasKey, SingleWiring, ReconnectFormIsCurrent,
     ConnectedOverLiveTransport
<1>2. TypeOK /\ TypeOK' /\ WiringInv /\ [Next]_vars => WiringInv'
  BY WiringStep
<1> QED
  BY <1>1, <1>2, TypeCorrect, PTL DEF Spec

\* A session shown as connected is so over a live transport it listens to,
\* after any interleaving of reconnections, reloads, deletions and losses.
THEOREM ConnectedIsLive == Spec => []ConnectedOverLiveTransport
<1>1. WiringInv => ConnectedOverLiveTransport
  BY DEF WiringInv
<1> QED
  BY <1>1, WiringCorrect, PTL

\* Two ends connected to each other hold the same shared key, whatever stale
\* or repeated answers were pasted before.
THEOREM KeysAgree == Spec => []KeyAgreement
<1>1. WiringInv => KeyAgreement
  BY PeersDiffer DEF WiringInv, KeyAgreement, WiredHasKey, ConnectedOverLiveTransport,
     Linked
<1> QED
  BY <1>1, WiringCorrect, PTL

\* No transport gets two sets of listeners.
THEOREM OneWiring == Spec => []SingleWiring
<1>1. WiringInv => SingleWiring
  BY DEF WiringInv
<1> QED
  BY <1>1, WiringCorrect, PTL

\* An open reconnect form is for the offer the host last showed.
THEOREM FormIsCurrent == Spec => []ReconnectFormIsCurrent
<1>1. WiringInv => ReconnectFormIsCurrent
  BY DEF WiringInv
<1> QED
  BY <1>1, WiringCorrect, PTL

\* No step connects an end whose five minutes are over.
LEMMA NoLateStep ==
  ASSUME TypeOK, [Next]_vars, NEW q \in Peer, old[q], status[q] # "connected"
  PROVE  status'[q] # "connected"
<1>1. CASE CreateSession
  BY <1>1 DEF CreateSession, TypeOK
<1>2. CASE JoinSession
  BY <1>2 DEF JoinSession, TypeOK
<1>3. ASSUME NEW g \in Ids, FinalizeSession(g) PROVE status'[q] # "connected"
  BY <1>3 DEF FinalizeSession, Transition, TypeOK
<1>4. CASE ReconnectOfferReady
  BY <1>4 DEF ReconnectOfferReady, Transition, TypeOK
<1>5. CASE ReconnectAnswerReady
  BY <1>5 DEF ReconnectAnswerReady, Transition, TypeOK
<1>6. ASSUME NEW p \in Peer, NEW t \in Ids, ChannelOpens(p, t)
      PROVE  status'[q] # "connected"
  BY <1>6 DEF ChannelOpens, OnConnected, TypeOK
<1>7. ASSUME NEW p \in Peer, NEW t \in Ids, ChannelLost(p, t)
      PROVE  status'[q] # "connected"
  BY <1>7 DEF ChannelLost, OnDisconnected, TypeOK
<1>8. ASSUME NEW p \in Peer, Disconnect(p) \/ DeleteSession(p)
      PROVE  status'[q] # "connected"
  BY <1>8 DEF Disconnect, DeleteSession, TypeOK
<1>9. ASSUME NEW p \in Peer, Reload(p) PROVE status'[q] # "connected"
  BY <1>9 DEF Reload, Restored, TypeOK
<1>10. ASSUME status' = status PROVE status'[q] # "connected"
  BY <1>10
<1>11. ASSUME NEW g \in Ids, \/ FinalizeReconnect(g) \/ RejectAnswer(g)
                             \/ ReconnectAsGuest(g)
       PROVE  status' = status
  BY <1>11 DEF FinalizeReconnect, RejectAnswer, ReconnectAsGuest
<1>12. ASSUME NEW p \in Peer, SaveDone(p) \/ Expire(p) PROVE status' = status
  BY <1>12 DEF SaveDone, Expire
<1>13. ASSUME \/ ReconnectAsHost \/ OpenAnswerForm \/ LeaveForm \/ UNCHANGED vars
       PROVE  status' = status
  BY <1>13 DEF ReconnectAsHost, OpenAnswerForm, LeaveForm, vars
<1> QED
  BY <1>1, <1>2, <1>3, <1>4, <1>5, <1>6, <1>7, <1>8, <1>9, <1>10, <1>11, <1>12,
     <1>13 DEF Next

\* A session past its five minutes never becomes connected, by any path.
THEOREM NeverLate == Spec => NoLateConnection
<1>1. TypeOK /\ [Next]_vars =>
        [\A p \in Peer :
           old[p] /\ status[p] # "connected" => status'[p] # "connected"]_vars
  BY NoLateStep
<1> QED
  BY <1>1, TypeCorrect, PTL DEF Spec, NoLateConnection

\* Only a deletion, a reload or a new join takes an expired entry away.
LEMMA ExpiredStep ==
  ASSUME TypeOK, WiringInv, [Next]_vars, NEW q \in Peer,
         status[q] = "expired", status'[q] # "expired"
  PROVE  \/ conn'[q] = 0
         \/ q = Guest /\ conn'[q] \in joins' \ joins
<1> DEFINE Goal == conn'[q] = 0 \/ (q = Guest /\ conn'[q] \in joins' \ joins)
<1>1. CASE CreateSession
  <2>1. status[Host] = "none"
    BY <1>1 DEF CreateSession, WiringInv, NothingBeforeCreation
  <2> QED
    BY <1>1, <2>1 DEF CreateSession, TypeOK
<1>2. CASE JoinSession
  <2>1. q = Guest
    BY <1>2 DEF JoinSession, TypeOK
  <2>2. Fresh(Guest) \in Ids /\ Fresh(Guest) > used[Guest]
    BY <1>2, FreshFacts, PeersDiffer DEF JoinSession
  <2>3. Fresh(Guest) \notin joins
    BY <2>2, PeersDiffer DEF WiringInv, UnusedIsBlank
  <2>4. conn'[Guest] = Fresh(Guest) /\ joins' = joins \cup {Fresh(Guest)}
    BY <1>2, PeersDiffer DEF JoinSession, TypeOK
  <2> QED
    BY <2>1, <2>3, <2>4
<1>3. ASSUME NEW g \in Ids, FinalizeSession(g) PROVE Goal
  BY <1>3 DEF FinalizeSession, Transition, ValidNext, Status, TypeOK
<1>4. CASE ReconnectOfferReady
  BY <1>4 DEF ReconnectOfferReady, Transition, ValidNext, Status, TypeOK
<1>5. CASE ReconnectAnswerReady
  BY <1>5 DEF ReconnectAnswerReady, Transition, ValidNext, Status, TypeOK
<1>6. ASSUME NEW p \in Peer, NEW t \in Ids, ChannelOpens(p, t) PROVE Goal
  BY <1>6 DEF ChannelOpens, OnConnected, TypeOK
<1>7. ASSUME NEW p \in Peer, NEW t \in Ids, ChannelLost(p, t) PROVE Goal
  BY <1>7 DEF ChannelLost, OnDisconnected, TypeOK
<1>8. ASSUME NEW p \in Peer, Disconnect(p) \/ DeleteSession(p) \/ Reload(p)
      PROVE  Goal
  BY <1>8 DEF Disconnect, DeleteSession, Reload, TypeOK
<1>10. ASSUME status' = status PROVE Goal
  BY <1>10
<1>11. ASSUME NEW g \in Ids, \/ FinalizeReconnect(g) \/ RejectAnswer(g)
                             \/ ReconnectAsGuest(g)
       PROVE  status' = status
  BY <1>11 DEF FinalizeReconnect, RejectAnswer, ReconnectAsGuest
<1>12. ASSUME NEW p \in Peer, SaveDone(p) \/ Expire(p) PROVE status' = status
  BY <1>12 DEF SaveDone, Expire
<1>13. ASSUME \/ ReconnectAsHost \/ OpenAnswerForm \/ LeaveForm \/ UNCHANGED vars
       PROVE  status' = status
  BY <1>13 DEF ReconnectAsHost, OpenAnswerForm, LeaveForm, vars
<1> QED
  BY <1>1, <1>2, <1>3, <1>4, <1>5, <1>6, <1>7, <1>8, <1>10, <1>11, <1>12, <1>13
  DEF Next

\* While the page lives an expired entry stays expired.
THEOREM ExpiredStays == Spec => ExpiredIsFinal
<1>1. TypeOK /\ WiringInv /\ [Next]_vars =>
        [\A p \in Peer : status[p] = "expired" /\ status'[p] # "expired" =>
           \/ conn'[p] = 0
           \/ p = Guest /\ conn'[p] \in joins' \ joins]_vars
  BY ExpiredStep
<1> QED
  BY <1>1, TypeCorrect, WiringCorrect, PTL DEF Spec, ExpiredIsFinal
=============================================================================
