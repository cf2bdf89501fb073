----------------------------- MODULE RtcWorker -----------------------------
(***************************************************************************)
(* The shared worker that holds the peer connections of a session, and the *)
(* pages (tabs, and the loads of one tab after another) that drive it      *)
(* through their MessagePort: rtc.worker.js, the WorkerRouter of           *)
(* composition-root.js, SharedWorkerTransportAdapter.js, boot in ui/app.js *)
(* and the operations of SessionManager.js on such a transport.            *)
(*                                                                         *)
(* One session, which is stored and has no connection when the model       *)
(* begins: the worker keeps sessions apart.  Every attempt to connect has  *)
(* a number, of the adapter the page makes for it and of the peer          *)
(* connection the worker makes when the command arrives.                   *)
(***************************************************************************)
EXTENDS Naturals, Sequences, FiniteSets

CONSTANTS
  Pages,      \* page loads
  MaxStarts,  \* bounds: attempts to connect,
  MaxTalk     \* and messages the pages send

ASSUME BoundsAssumption ==
  /\ IsFiniteSet(Pages)
  /\ MaxStarts \in Nat
  /\ MaxTalk \in Nat

Attempts == 1..MaxStarts
None == 0

ASSUME PagesAssumption == None \notin Pages

VARIABLES
  (* of the worker *)
  role,       \* this end's role in the session
  noWebRtc,   \* RTCPeerConnection is missing in the worker
  conn,       \* the session's entry in sessions
  pcs,        \* the peer connections
  (* of the pages *)
  phase,      \* how far boot has come
  port,       \* the page's connection to the worker
  router,     \* _initSessions is there, and _dead
  entry,      \* the manager holds the session
  status,     \* its status
  ad,         \* the adapter in entry.transport
  form,       \* the form for the peer's answer is open
  (* between them *)
  from, to,   \* what the port carries from and to the page
  starts, talk,
  (* for the properties *)
  shown,      \* attempts whose code a user has seen
  overlaid,   \* <<a connection, the one put over it without closing it>>
  closer      \* the page that closed the session last

workerVars == <<role, noWebRtc, conn, pcs, overlaid, closer>>
pageVars == <<phase, port, router, entry, status, ad, form>>
vars == <<workerVars, pageVars, from, to, starts, talk, shown>>

NoConn == [there |-> FALSE, pc |-> None, dc |-> None, obj |-> None,
           state |-> "none", ports |-> {}]
NoPc == [st |-> "none", by |-> None, obj |-> None, busy |-> FALSE]
NoAdapter == [on |-> FALSE, own |-> None, got |-> None, state |-> "new",
              waiting |-> FALSE, wired |-> FALSE, clean |-> TRUE]

Init ==
  /\ role \in {"host", "guest"}
  /\ noWebRtc \in BOOLEAN
  /\ conn = NoConn
  /\ pcs = [k \in Attempts |-> NoPc]
  /\ phase = [p \in Pages |-> "unborn"]
  /\ port = [p \in Pages |-> "none"]
  /\ router = [p \in Pages |-> [init |-> FALSE, dead |-> FALSE]]
  /\ entry = [p \in Pages |-> FALSE]
  /\ status = [p \in Pages |-> "disconnected"]
  /\ ad = [p \in Pages |-> NoAdapter]
  /\ form = [p \in Pages |-> FALSE]
  /\ from = [p \in Pages |-> <<>>]
  /\ to = [p \in Pages |-> <<>>]
  /\ starts = 0
  /\ talk = 0
  /\ shown = {}
  /\ overlaid = {}
  /\ closer = None

-----------------------------------------------------------------------------
\* A command of a page, and a message of the worker.
Cmd(c, k) == [cmd |-> c, pc |-> k]
Msg(t, s, k) == [type |-> t, state |-> s, pc |-> k]

\* postMessage to every port in P; nobody reads the port of a page that is gone.
Post(P, m) ==
  [p \in Pages |-> IF p \in P /\ phase[p] # "gone" THEN Append(to[p], m) ELSE to[p]]

\* Mutated: the events of a deleted session are not left out.
SetStateUnchecked(s) ==
  IF conn.state = s
  THEN UNCHANGED <<conn, to>>
  ELSE /\ conn' = [conn EXCEPT !.state = s]
       /\ to' = Post(conn.ports, Msg("state", s, None))

\* setState: by session, whatever connection the event is of.
SetState(s) ==
  IF ~conn.there \/ conn.state = s
  THEN UNCHANGED <<conn, to>>
  ELSE /\ conn' = [conn EXCEPT !.state = s]
       /\ to' = Post(conn.ports, Msg("state", s, None))

-----------------------------------------------------------------------------
(* Boot *)

\* Mutated: only the init message is asked for.
InitSeen(r) == r.init

\* isAlive.
Alive(r) == r.init /\ ~r.dead

\* A page is loaded: new SharedWorker, new WorkerRouter, boot to its await.
OpenPage(p) ==
  /\ phase[p] = "unborn"
  /\ phase' = [phase EXCEPT ![p] = "booting"]
  /\ port' = [port EXCEPT ![p] = "opening"]
  /\ UNCHANGED <<workerVars, router, entry, status, ad, form, from, to,
                 starts, talk, shown>>

\* The worker's connect event.
Connect(p) ==
  /\ port[p] = "opening"
  /\ port' = [port EXCEPT ![p] = "open"]
  /\ conn' = IF conn.there THEN [conn EXCEPT !.ports = @ \cup {p}] ELSE conn
  /\ to' = Post({p}, Msg("init", conn.state, None))
  /\ UNCHANGED <<role, noWebRtc, pcs, overlaid, closer, phase, router, entry, status,
                 ad, form, from, starts, talk, shown>>

\* The worker does not load: onerror of the SharedWorker.
LoadError(p) ==
  /\ port[p] = "opening"
  /\ phase[p] # "gone"
  /\ port' = [port EXCEPT ![p] = "failed"]
  /\ router' = [router EXCEPT ![p].dead = TRUE]
  /\ UNCHANGED <<workerVars, phase, entry, status, ad, form, from, to, starts,
                 talk, shown>>

\* The 300 ms are over before the init message.
BootTimeout(p) ==
  /\ phase[p] = "booting"
  /\ phase' = [phase EXCEPT ![p] = "loading"]
  /\ router' = [router EXCEPT ![p].dead = TRUE]
  /\ UNCHANGED <<workerVars, port, entry, status, ad, form, from, to, starts,
                 talk, shown>>

Take(p, type) ==
  /\ phase[p] # "gone"
  /\ to[p] # <<>>
  /\ Head(to[p]).type = type
  /\ to' = [to EXCEPT ![p] = Tail(@)]

\* _dispatch of the init message.  boot's callback rehydrates while it waits:
\* rehydrateConnection returns if the manager has no entry for the session.
\* Otherwise it makes an adapter, which subscribes, and wires it.
ReceiveInit(p) ==
  LET m == Head(to[p])
      r == [init |-> TRUE, dead |-> router[p].dead \/ noWebRtc]
      attach == /\ phase[p] = "booting" /\ Alive(r)
                /\ m.state \in {"connected", "connecting"}
                /\ entry[p]
  IN
  /\ Take(p, "init")
  /\ router' = [router EXCEPT ![p] = r]
  /\ phase' = [phase EXCEPT ![p] = IF @ = "booting" THEN "loading" ELSE @]
  /\ ad' = IF attach
           THEN [ad EXCEPT ![p] = [NoAdapter EXCEPT !.on = TRUE, !.wired = TRUE]]
           ELSE ad
  /\ status' = IF attach THEN [status EXCEPT ![p] = m.state] ELSE status
  /\ from' = IF attach THEN [from EXCEPT ![p] = Append(@, Cmd("subscribe", None))]
             ELSE from
  /\ UNCHANGED <<workerVars, port, entry, form, starts, talk, shown>>

\* loadSessions, and boot is over: a session that was connected comes back
\* disconnected.
LoadSessions(p) ==
  /\ phase[p] = "loading"
  /\ phase' = [phase EXCEPT ![p] = "up"]
  /\ entry' = [entry EXCEPT ![p] = TRUE]
  /\ UNCHANGED <<workerVars, port, router, status, ad, form, from, to, starts,
                 talk, shown>>

\* The page is closed or left for a reload.  What it posted is delivered.
ClosePage(p) ==
  /\ phase[p] \in {"booting", "loading", "up"}
  /\ phase' = [phase EXCEPT ![p] = "gone"]
  /\ entry' = [entry EXCEPT ![p] = FALSE]
  /\ status' = [status EXCEPT ![p] = "disconnected"]
  /\ ad' = [ad EXCEPT ![p] = NoAdapter]
  /\ form' = [form EXCEPT ![p] = FALSE]
  /\ to' = [to EXCEPT ![p] = <<>>]
  /\ UNCHANGED <<workerVars, port, router, from, starts, talk, shown>>

-----------------------------------------------------------------------------
(* Operations of the manager on a worker transport *)

Using(p) == phase[p] = "up" /\ entry[p] /\ Alive(router[p])

\* Nothing of an earlier attempt of p is under way.
NothingUnderWay(p) ==
  /\ ~ad[p].waiting
  /\ \A k \in Attempts : pcs[k].by = p => ~pcs[k].busy
  /\ \A i \in DOMAIN from[p] : from[p][i].cmd # "start"
  /\ \A i \in DOMAIN to[p] : to[p][i].type # "description"

\* Mutated: the old adapter is dropped without closing it.
StartUnclosed(p) ==
  LET k == starts + 1 IN
  /\ Using(p)
  /\ status[p] = "disconnected"
  /\ k \in Attempts
  /\ starts' = k
  /\ from' = [from EXCEPT ![p] = Append(@, Cmd("start", k))]
  /\ ad' = [ad EXCEPT ![p] = [NoAdapter EXCEPT !.on = TRUE, !.own = k, !.waiting = TRUE,
                                               !.clean = NothingUnderWay(p)]]
  /\ form' = [form EXCEPT ![p] = FALSE]
  /\ UNCHANGED <<workerVars, phase, port, router, entry, status, to, talk, shown>>

\* reconnectAsHost and reconnectAsGuest to the await of the description: the old
\* adapter is closed, which posts "close" and takes its route away; a new one
\* takes the route and posts create-offer or accept-offer.
StartConnection(p) ==
  LET k == starts + 1
      closing == IF ad[p].on THEN <<Cmd("close", None)>> ELSE <<>>
  IN
  /\ Using(p)
  /\ status[p] = "disconnected"
  /\ k \in Attempts
  /\ starts' = k
  /\ from' = [from EXCEPT ![p] = @ \o closing \o <<Cmd("start", k)>>]
  /\ ad' = [ad EXCEPT ![p] = [NoAdapter EXCEPT !.on = TRUE, !.own = k, !.waiting = TRUE,
                                               !.clean = NothingUnderWay(p)]]
  /\ form' = [form EXCEPT ![p] = FALSE]
  /\ UNCHANGED <<workerVars, phase, port, router, entry, status, to, talk, shown>>

\* finalizeReconnect with the answer to any code that was shown.  acceptAnswer
\* only posts a command, so it does not throw.
FinalizeReconnect(p) ==
  /\ Using(p)
  /\ form[p]
  /\ form' = [form EXCEPT ![p] = FALSE]
  /\ \E k \in shown : from' = [from EXCEPT ![p] = Append(@, Cmd("answer", k))]
  /\ ad' = [ad EXCEPT ![p].wired = TRUE]
  /\ UNCHANGED <<workerVars, phase, port, router, entry, status, to, starts,
                 talk, shown>>

Disconnect(p) ==
  /\ Using(p)
  /\ status[p] = "connected"
  /\ from' = [from EXCEPT ![p] = Append(@, Cmd("close", None))]
  /\ ad' = [ad EXCEPT ![p] = NoAdapter]
  /\ status' = [status EXCEPT ![p] = "disconnected"]
  /\ UNCHANGED <<workerVars, phase, port, router, entry, form, to, starts, talk,
                 shown>>

DeleteSession(p) ==
  /\ Using(p)
  /\ from' = IF ad[p].on THEN [from EXCEPT ![p] = Append(@, Cmd("close", None))] ELSE from
  /\ ad' = [ad EXCEPT ![p] = NoAdapter]
  /\ entry' = [entry EXCEPT ![p] = FALSE]
  /\ status' = [status EXCEPT ![p] = "disconnected"]
  /\ form' = [form EXCEPT ![p] = FALSE]
  /\ UNCHANGED <<workerVars, phase, port, router, to, starts, talk, shown>>

\* The transport's part of sendMessage.
Send(p) ==
  /\ Using(p)
  /\ status[p] = "connected"
  /\ talk < MaxTalk
  /\ talk' = talk + 1
  /\ from' = [from EXCEPT ![p] = Append(@, Cmd("send", None))]
  /\ UNCHANGED <<workerVars, pageVars, to, starts, shown>>

-----------------------------------------------------------------------------
(* _onWorkerMessage of the adapter whose route it is, if there is one *)

\* The manager's state listener.
Listener(old, s) ==
  CASE s = "connected" /\ old = "connecting" -> "connected"
    [] s = "disconnected" /\ old \in {"connected", "connecting"} -> "disconnected"
    [] OTHER -> old

ReceiveState(p) ==
  LET s == Head(to[p]).state IN
  /\ Take(p, "state")
  /\ ad' = IF ad[p].on THEN [ad EXCEPT ![p].state = s] ELSE ad
  /\ status' = IF ad[p].wired /\ ad[p].state # s
               THEN [status EXCEPT ![p] = Listener(@, s)] ELSE status
  /\ UNCHANGED <<workerVars, phase, port, router, entry, form, from, starts,
                 talk, shown>>

\* An offer or answer settles the promise of the adapter that has the route, and
\* the operation goes on: the code is shown, and a guest's listeners are put.
ReceiveDescription(p) ==
  LET k == Head(to[p]).pc
      settles == ad[p].on /\ ad[p].waiting
  IN
  /\ Take(p, "description")
  /\ ad' = IF settles
           THEN [ad EXCEPT ![p].waiting = FALSE, ![p].got = k, ![p].wired = role = "guest"]
           ELSE ad
  /\ status' = IF settles THEN [status EXCEPT ![p] = "connecting"] ELSE status
  /\ form' = IF settles THEN [form EXCEPT ![p] = role = "host"] ELSE form
  /\ shown' = IF settles THEN shown \cup {k} ELSE shown
  /\ UNCHANGED <<workerVars, phase, port, router, entry, from, starts, talk>>

ReceiveError(p) ==
  /\ Take(p, "error")
  /\ ad' = [ad EXCEPT ![p].waiting = FALSE]
  /\ UNCHANGED <<workerVars, phase, port, router, entry, status, form, from,
                 starts, talk, shown>>

-----------------------------------------------------------------------------
(* handleCmd in the worker *)

Handle(p, cmd) ==
  /\ port[p] = "open"
  /\ from[p] # <<>>
  /\ Head(from[p]).cmd = cmd
  /\ from' = [from EXCEPT ![p] = Tail(@)]

Live == {"gathering", "offered", "linked", "open"}

\* Mutated: the command does not enter the page's port.
HandleStartUnheard(p) ==
  LET k == Head(from[p]).pc
      ports == conn.ports
  IN
  /\ Handle(p, "start")
  /\ conn' = [there |-> TRUE, pc |-> k, dc |-> IF role = "host" THEN k ELSE conn.dc,
              obj |-> IF conn.there THEN conn.obj ELSE k,
              state |-> "connecting", ports |-> ports]
  /\ pcs' = [pcs EXCEPT ![k] = [st |-> "gathering", by |-> p, obj |-> conn'.obj,
                                busy |-> TRUE]]
  /\ overlaid' = IF conn.there THEN overlaid \cup {<<conn.pc, k>>} ELSE overlaid
  /\ to' = IF conn.state = "connecting" THEN to
           ELSE Post(ports, Msg("state", "connecting", None))
  /\ UNCHANGED <<role, noWebRtc, closer, pageVars, starts, talk, shown>>

\* create-offer and accept-offer to their first await.  An entry that is there
\* gets the new connection in place of its old one; a guest's data channel comes
\* later.
HandleStart(p) ==
  LET k == Head(from[p]).pc
      ports == conn.ports \cup {p}
  IN
  /\ Handle(p, "start")
  /\ conn' = [there |-> TRUE, pc |-> k, dc |-> IF role = "host" THEN k ELSE conn.dc,
              obj |-> IF conn.there THEN conn.obj ELSE k,
              state |-> "connecting", ports |-> ports]
  /\ pcs' = [pcs EXCEPT ![k] = [st |-> "gathering", by |-> p, obj |-> conn'.obj,
                                busy |-> TRUE]]
  /\ overlaid' = IF conn.there THEN overlaid \cup {<<conn.pc, k>>} ELSE overlaid
  /\ to' = IF conn.state = "connecting" THEN to
           ELSE Post(ports, Msg("state", "connecting", None))
  /\ UNCHANGED <<role, noWebRtc, closer, pageVars, starts, talk, shown>>

\* Mutated: the description goes to every page of the session.
DescribedToAll(k) ==
  LET pc == pcs[k] IN
  /\ pc.busy
  /\ pcs' = [pcs EXCEPT ![k].busy = FALSE,
                        ![k].st = IF @ # "gathering" THEN @
                                  ELSE IF role = "host" THEN "offered" ELSE "linked"]
  /\ to' = Post(conn.ports \cup {pc.by}, Msg("description", "none", k))
  /\ UNCHANGED <<role, noWebRtc, conn, overlaid, closer, pageVars, from, starts, talk,
                 shown>>

\* Mutated: nothing is answered for a connection that was closed meanwhile.
DescribedIfAlive(k) ==
  LET pc == pcs[k] IN
  /\ pc.busy
  /\ pcs' = [pcs EXCEPT ![k].busy = FALSE,
                        ![k].st = IF @ # "gathering" THEN @
                                  ELSE IF role = "host" THEN "offered" ELSE "linked"]
  /\ to' = IF pc.st = "closed" THEN to ELSE Post({pc.by}, Msg("description", "none", k))
  /\ UNCHANGED <<role, noWebRtc, conn, overlaid, closer, pageVars, from, starts, talk,
                 shown>>

\* The rest of them, when ICE gathering is complete or its 5 s are over: also for
\* a connection that was closed meanwhile.
Described(k) ==
  LET pc == pcs[k] IN
  /\ pc.busy
  /\ pcs' = [pcs EXCEPT ![k].busy = FALSE,
                        ![k].st = IF @ # "gathering" THEN @
                                  ELSE IF role = "host" THEN "offered" ELSE "linked"]
  /\ to' = Post({pc.by}, Msg("description", "none", k))
  /\ UNCHANGED <<role, noWebRtc, conn, overlaid, closer, pageVars, from, starts, talk,
                 shown>>

\* Or a step of them throws: the connection was closed, or the peer's offer is bad.
DescriptionFails(k) ==
  LET pc == pcs[k] IN
  /\ pc.busy
  /\ pc.st = "closed" \/ role = "guest"
  /\ pcs' = [pcs EXCEPT ![k].busy = FALSE,
                        ![k].st = IF @ = "gathering" THEN "failed" ELSE @]
  /\ to' = Post({pc.by}, Msg("error", "none", None))
  /\ UNCHANGED <<role, noWebRtc, conn, overlaid, closer, pageVars, from, starts, talk,
                 shown>>

\* accept-answer, for the session's connection of this moment.  One whose local
\* offer is set and that has no answer takes any: the answer to another offer is
\* taken but connects nothing.  A code is shown when gathering is over, so what a
\* gathering connection gets is such an answer.
HandleAnswer(p) ==
  LET k == Head(from[p]).pc
      st == pcs[conn.pc].st
  IN
  /\ Handle(p, "answer")
  /\ \/ ~conn.there /\ UNCHANGED <<pcs, to>>
     \/ /\ conn.there /\ st = "offered" /\ k = conn.pc
        /\ pcs' = [pcs EXCEPT ![conn.pc].st = "linked"]
        /\ UNCHANGED to
     \/ /\ conn.there /\ st \in {"gathering", "offered"} /\ k # conn.pc
        /\ pcs' = [pcs EXCEPT ![conn.pc].st = "failed"]
        /\ UNCHANGED to
     \/ /\ conn.there /\ st # "offered"
        /\ to' = Post({p}, Msg("error", "none", None))
        /\ UNCHANGED pcs
  /\ UNCHANGED <<role, noWebRtc, conn, overlaid, closer, pageVars, starts, talk, shown>>

\* Mutated: the peer connection is not closed.
HandleCloseKept(p) ==
  /\ Handle(p, "close")
  /\ conn' = NoConn
  /\ closer' = IF conn.there THEN p ELSE closer
  /\ UNCHANGED <<role, noWebRtc, pcs, overlaid, pageVars, to, starts, talk, shown>>

\* The entry goes before broadcastAll looks it up, so no port hears of it.
HandleClose(p) ==
  /\ Handle(p, "close")
  /\ conn' = NoConn
  /\ pcs' = [k \in Attempts |->
               IF k = conn.pc THEN [pcs[k] EXCEPT !.st = "closed"]
               ELSE IF k = conn.dc /\ pcs[k].st = "open" THEN [pcs[k] EXCEPT !.st = "closing"]
               ELSE pcs[k]]
  /\ closer' = IF conn.there THEN p ELSE closer
  /\ UNCHANGED <<role, noWebRtc, overlaid, pageVars, to, starts, talk, shown>>

\* send, which says nothing if the channel is not open, and subscribe.
HandleOther(p) ==
  LET subscribed == Head(from[p]).cmd = "subscribe" /\ conn.there IN
  /\ Handle(p, "send") \/ Handle(p, "subscribe")
  /\ conn' = IF subscribed THEN [conn EXCEPT !.ports = @ \cup {p}] ELSE conn
  /\ to' = IF subscribed THEN Post({p}, Msg("state", conn.state, None)) ELSE to
  /\ UNCHANGED <<role, noWebRtc, pcs, overlaid, closer, pageVars, starts, talk, shown>>

-----------------------------------------------------------------------------
(* Events of the peer connections *)

\* onopen, once the peer has this end's code; after ondatachannel on a guest,
\* which enters the channel in the entry the connection was made for.
ChannelOpens(k) ==
  LET mine == conn.there /\ conn.obj = pcs[k].obj
      dc == IF mine /\ role = "guest" THEN k ELSE conn.dc
  IN
  /\ pcs[k].st = "linked"
  /\ ~pcs[k].busy
  /\ k \in shown
  /\ pcs' = [pcs EXCEPT ![k].st = "open"]
  /\ conn' = IF conn.there THEN [conn EXCEPT !.state = "connected", !.dc = dc] ELSE conn
  /\ to' = IF conn.there /\ conn.state # "connected"
           THEN Post(conn.ports, Msg("state", "connected", None)) ELSE to
  /\ UNCHANGED <<role, noWebRtc, overlaid, closer, pageVars, from, starts, talk, shown>>

\* onclose, onerror, and a connection state of failed.
ChannelLost(k) ==
  /\ pcs[k].st \in {"linked", "open", "closing"}
  /\ pcs' = [pcs EXCEPT ![k].st = "lost"]
  /\ SetState("disconnected")
  /\ UNCHANGED <<role, noWebRtc, overlaid, closer, pageVars, from, starts, talk, shown>>

\* The same events where they change nothing of the connection: one that ICE
\* interrupts and recovers, which nothing says; one that was closed, whose onclose
\* comes when the session may have its next entry; one that took a wrong answer.
Reported(k) ==
  /\ \/ pcs[k].st \in {"linked", "open", "closed"}
     \/ pcs[k].st = "failed" /\ role = "host"
  /\ SetState("disconnected")
  /\ UNCHANGED <<role, noWebRtc, pcs, overlaid, closer, pageVars, from, starts, talk,
                 shown>>

-----------------------------------------------------------------------------
Receive(p) ==
  \/ ReceiveInit(p) \/ ReceiveState(p) \/ ReceiveDescription(p) \/ ReceiveError(p)

Work(p) ==
  \/ HandleStart(p) \/ HandleAnswer(p) \/ HandleClose(p) \/ HandleOther(p)

Boot(p) == BootTimeout(p) \/ LoadSessions(p)

User(p) ==
  \/ OpenPage(p) \/ ClosePage(p)
  \/ StartConnection(p) \/ FinalizeReconnect(p) \/ Disconnect(p) \/ DeleteSession(p)
  \/ Send(p)

Event(k) ==
  \/ Described(k) \/ DescriptionFails(k)
  \/ ChannelOpens(k) \/ ChannelLost(k) \/ Reported(k)

Next ==
  \/ \E p \in Pages :
       Connect(p) \/ LoadError(p) \/ Boot(p) \/ Receive(p) \/ Work(p) \/ User(p)
  \/ \E k \in Attempts : Event(k)

Spec == Init /\ [][Next]_vars

-----------------------------------------------------------------------------
(* Properties *)

Commands == [cmd : {"start", "answer"}, pc : Attempts]
            \cup [cmd : {"close", "send", "subscribe"}, pc : {None}]
States == {"connecting", "connected", "disconnected"}
Messages == [type : {"init"}, state : States \cup {"none"}, pc : {None}]
            \cup [type : {"state"}, state : States, pc : {None}]
            \cup [type : {"description"}, state : {"none"}, pc : Attempts]
            \cup [type : {"error"}, state : {"none"}, pc : {None}]

\* Every variable stays in its range: in particular an entry of the worker always
\* has a peer connection, for createOffer and acceptOffer put one in before
\* their first await.
TypeOK ==
  /\ role \in {"host", "guest"} /\ noWebRtc \in BOOLEAN
  /\ conn \in [there : BOOLEAN, pc : Attempts \cup {None}, dc : Attempts \cup {None},
               obj : Attempts \cup {None}, ports : SUBSET Pages,
               state : States \cup {"none"}]
  /\ conn.there <=> conn.pc # None
  /\ conn.there <=> conn.state # "none"
  /\ conn.there => pcs[conn.pc].st # "none"
  /\ pcs \in [Attempts -> [st : Live \cup {"none", "closed", "closing", "lost", "failed"},
                           by : Pages \cup {None}, obj : Attempts \cup {None},
                           busy : BOOLEAN]]
  /\ \A k \in Attempts : pcs[k].st # "none" => pcs[k].by \in Pages
  /\ phase \in [Pages -> {"unborn", "booting", "loading", "up", "gone"}]
  /\ port \in [Pages -> {"none", "opening", "open", "failed"}]
  /\ router \in [Pages -> [init : BOOLEAN, dead : BOOLEAN]]
  /\ entry \in [Pages -> BOOLEAN] /\ form \in [Pages -> BOOLEAN]
  /\ status \in [Pages -> {"disconnected", "connecting", "connected"}]
  /\ ad \in [Pages -> [on : BOOLEAN, own : Attempts \cup {None},
                      got : Attempts \cup {None},
                      state : States \cup {"new"},
                      waiting : BOOLEAN, wired : BOOLEAN, clean : BOOLEAN]]
  /\ from \in [Pages -> Seq(Commands)] /\ to \in [Pages -> Seq(Messages)]
  /\ starts \in 0..MaxStarts /\ talk \in 0..MaxTalk /\ shown \subseteq Attempts
  /\ overlaid \subseteq Attempts \X Attempts /\ closer \in Pages \cup {None}

\* p has an adapter, made with nothing of its last one under way; its start has
\* been handled and what the worker said of the state has been taken.
Settled(p) ==
  /\ ad[p].on /\ ad[p].clean
  /\ \A i \in DOMAIN from[p] : from[p][i].cmd # "start"
  /\ \A i \in DOMAIN to[p] : to[p][i].type # "state"

Under == {o[1] : o \in overlaid}
Over == {o[2] : o \in overlaid}

\* A page's adapter has its session in the worker and shows its state, in whatever
\* order several pages start it, unless another page closed it: "close" deletes
\* the entry before it tells the ports (rtc.worker.js:67).  The state lags for a
\* start put over another: if that one connects already, nothing is posted.
StateMirrored ==
  \A p \in Pages : Settled(p) /\ closer \in {None, p} =>
    /\ conn.there /\ p \in conn.ports
    /\ ad[p].own \notin Over => ad[p].state = conn.state

\* A session that is shown as connected can send: the channel of its entry is the
\* one of its connection, and open, also when a late event of a connection that was
\* closed has told the entry of the next one that it is disconnected.  setState
\* goes by the session, so this fails where one was put over another that lives.
ConnectedMeansOpen ==
  \A p \in Pages :
    /\ Settled(p) /\ status[p] = "connected"
    /\ conn.there /\ p \in conn.ports
    /\ \A k \in Under : pcs[k].st \notin Live
    => pcs[conn.pc].st = "open" /\ conn.dc = conn.pc

\* A connection that is not the session's is closed, unless another page's start
\* was put over it: a page closes its own before it makes the next, and the
\* worker takes its commands in order.
NoLeakByOnePage ==
  \A k \in Attempts : pcs[k].st \in Live /\ k # conn.pc =>
    \E j \in Attempts : <<k, j>> \in overlaid /\ pcs[k].by # pcs[j].by

\* The code a page shows is of its own last attempt, not of another page's, whose
\* start may be handled in between.  It takes that nothing of an earlier attempt
\* of the page was under way: a late offer settles the new adapter's promise, for
\* the worker's messages name the session only (SharedWorkerTransportAdapter.js:52).
CodeIsOwn ==
  \A p \in Pages : ad[p].clean /\ ad[p].got # None => ad[p].got = ad[p].own

\* A page whose boot gave the worker up, or whose worker failed, drives no session
\* through it later, when the init message comes after the 300 ms.
FallbackIsFinal ==
  \A p \in Pages : router[p].dead => ~ad[p].on /\ from[p] = <<>>

\* No page waits for a description in vain: while createOffer or acceptOffer is
\* pending, the command, the gathering or an answer to it is on its way, also
\* when another page closes the session meanwhile.  The adapter has no timeout.
\* This is about the adapter a page has: if the page makes another one meanwhile,
\* the promise of the first is never settled.
AnswerOnItsWay ==
  \A p \in Pages : ad[p].waiting =>
    \/ \E i \in DOMAIN from[p] : from[p][i] = Cmd("start", ad[p].own)
    \/ pcs[ad[p].own].busy
    \/ \E i \in DOMAIN to[p] : to[p][i].type \in {"description", "error"}

-----------------------------------------------------------------------------
(* What the repository says of its worker, and the code does not do *)

\* "Live connections survive page reloads as long as any tab is open"
\* (rtc.worker.js:5), and boot is to "rehydrate any connections that survived"
\* (app.js:1041).  So a page that boots, and whose init message tells of a connection
\* that lives while the page that made it is gone and another tab is open, attaches
\* to it.  It does not: boot rehydrates before loadSessions, when the manager holds
\* no session.
ReattachesSurvivors ==
  [][\A p \in Pages :
       /\ phase[p] = "booting" /\ phase'[p] = "loading" /\ Alive(router'[p])
       /\ Head(to[p]).state = "connected"
       /\ conn.state = "connected" /\ pcs[conn.pc].st = "open"
       /\ phase[pcs[conn.pc].by] = "gone"
       /\ \E q \in Pages : phase[q] = "up" /\ Alive(router[q])
       => ad'[p].on]_vars

=============================================================================
