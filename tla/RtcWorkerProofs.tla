-------------------------- MODULE RtcWorkerProofs --------------------------
(***************************************************************************)
(* Theorems about RtcWorker, for any set of pages, any number of attempts  *)
(* to connect and of messages.                                             *)
(***************************************************************************)
EXTENDS RtcWorker, SequenceFacts

-----------------------------------------------------------------------------
(* The inductive invariant, in parts *)

\* A page that has not come so far has nothing to do with the session, and the init
\* message, which comes once, is the first that its port carries.
BootAt(p) ==
  /\ phase[p] = "unborn" => port[p] = "none"
  /\ phase[p] \in {"unborn", "booting", "loading"} => ~entry[p]
  /\ phase[p] # "up" => ~ad[p].on
  /\ ~router[p].init \/ router[p].dead \/ phase[p] \in {"unborn", "booting", "loading"}
       => ~ad[p].on /\ from[p] = <<>>
  /\ port[p] # "open" => to[p] = <<>> /\ ~router[p].init /\ p \notin conn.ports
  /\ phase[p] = "gone" => to[p] = <<>>
  /\ \A i \in 1..Len(to[p]) : to[p][i].type = "init" => i = 1 /\ ~router[p].init
  /\ ad[p].on => ad[p].own # None
  /\ \A i \in 1..Len(from[p]) : from[p][i].cmd # "subscribe"
  /\ status[p] # "disconnected" => ad[p].on
BootInv ==
  /\ \A p \in Pages : BootAt(p)
  /\ \A k \in Attempts : pcs[k].st # "none" => port[pcs[k].by] = "open"
  /\ ~conn.there => conn = NoConn

\* The numbers of the attempts: each is started, and made a connection of, once.
NumberInv ==
  /\ \A k \in Attempts : pcs[k].st # "none" => k <= starts
  /\ \A k \in Attempts : pcs[k].busy => pcs[k].st # "none"
  /\ \A p \in Pages : \A i \in 1..Len(from[p]) : from[p][i].cmd = "start" =>
       from[p][i].pc <= starts /\ pcs[from[p][i].pc].st = "none"
  /\ \A p, q \in Pages : \A i \in 1..Len(from[p]), j \in 1..Len(from[q]) :
       /\ from[p][i].cmd = "start" /\ from[q][j].cmd = "start"
       /\ from[p][i].pc = from[q][j].pc
       => p = q /\ i = j
  /\ \A o \in overlaid : pcs[o[1]].st # "none" /\ pcs[o[2]].st # "none"

\* The start of a page's adapter is the last it has posted, after the close of the one
\* before it, and is handled or on its way.
OwnAt(p) ==
  ad[p].on =>
    /\ ad[p].own \in Attempts /\ ad[p].own <= starts
    /\ \/ /\ pcs[ad[p].own].st # "none" /\ pcs[ad[p].own].by = p
          /\ \A i \in 1..Len(from[p]) : from[p][i].cmd \notin {"start", "close"}
       \/ \E i \in 1..Len(from[p]) :
            /\ from[p][i] = Cmd("start", ad[p].own)
            /\ \A j \in 1..Len(from[p]) : j > i => from[p][j].cmd \notin {"start", "close"}
OwnInv == \A p \in Pages : OwnAt(p)

\* p holds the connection of the session.
Mine(p) == conn.there /\ pcs[conn.pc].by = p

\* What precedes place n in the port s of a page leaves the session without a
\* connection of the page, which holds it now or does not.
Cleared(s, held, n) ==
  \/ \E j \in 1..Len(s) :
       /\ j < n /\ s[j].cmd = "close"
       /\ \A m \in 1..Len(s) : j < m /\ m < n => s[m].cmd # "start"
  \/ /\ \A m \in 1..Len(s) : m < n => s[m].cmd # "start"
     /\ ~held

\* So it is wherever p starts, and whenever p has no adapter.
ClearedAt(p) ==
  /\ \A i \in 1..Len(from[p]) : from[p][i].cmd = "start" => Cleared(from[p], Mine(p), i)
  /\ phase[p] # "gone" /\ ~ad[p].on => Cleared(from[p], Mine(p), Len(from[p]) + 1)
ClearedInv == \A p \in Pages : ClearedAt(p)

\* As long as the start of an adapter has not been handled, none of its answers is there.
CleanAt(p) ==
  /\ ~ad[p].on => ad[p].got = None /\ ~ad[p].waiting
  /\ ad[p].on /\ ad[p].clean =>
       /\ \A i \in 1..Len(from[p]) :
            from[p][i].cmd = "start" => from[p][i].pc = ad[p].own
       /\ \A k \in Attempts : pcs[k].busy /\ pcs[k].by = p => k = ad[p].own
       /\ \A i \in 1..Len(to[p]) : to[p][i].type = "description" => to[p][i].pc = ad[p].own
       /\ ad[p].got # None => ad[p].got = ad[p].own
       /\ pcs[ad[p].own].st = "none" =>
            /\ status[p] = "disconnected"
            /\ \A i \in 1..Len(to[p]) : to[p][i].type # "description"
CleanInv == \A p \in Pages : CleanAt(p)

-----------------------------------------------------------------------------
(* Types *)

USE DEF None, Attempts

LEMMA Typed ==
  ASSUME TypeOK, NEW p \in Pages
  PROVE  /\ from[p] \in Seq(Commands) /\ Len(from[p]) \in Nat
         /\ to[p] \in Seq(Messages) /\ Len(to[p]) \in Nat
         /\ starts \in Nat /\ MaxStarts \in Nat
<1>1. from[p] \in Seq(Commands) /\ to[p] \in Seq(Messages)
  BY DEF TypeOK
<1> QED BY <1>1, LenProperties, BoundsAssumption DEF TypeOK

LEMMA CommandFacts ==
  ASSUME NEW c \in Commands
  PROVE  /\ c.cmd \in {"start", "answer", "close", "send", "subscribe"}
         /\ c.cmd \in {"start", "answer"} => c.pc \in Attempts
         /\ c = Cmd(c.cmd, c.pc)
BY DEF Commands, Cmd

LEMMA MessageFacts ==
  ASSUME NEW m \in Messages
  PROVE  /\ m.type \in {"init", "state", "description", "error"}
         /\ m.type = "init" => m.state \in States \cup {"none"}
         /\ m.type = "state" => m.state \in States
         /\ m.type = "description" => m.pc \in Attempts
BY DEF Messages

LEMMA Made ==
  /\ \A k \in Attempts : Cmd("start", k) \in Commands /\ Cmd("answer", k) \in Commands
                         /\ Msg("description", "none", k) \in Messages
  /\ Cmd("close", None) \in Commands /\ Cmd("send", None) \in Commands
  /\ Cmd("subscribe", None) \in Commands
  /\ \A s \in States : Msg("state", s, None) \in Messages
  /\ \A s \in States \cup {"none"} : Msg("init", s, None) \in Messages
  /\ Msg("error", "none", None) \in Messages
  /\ \A c, k : Cmd(c, k).cmd = c /\ Cmd(c, k).pc = k
  /\ \A t, s, k : Msg(t, s, k).type = t /\ Msg(t, s, k).state = s /\ Msg(t, s, k).pc = k
BY DEF Cmd, Msg, Commands, Messages

\* t is s with m at its end.
Grown(t, s, m) ==
  /\ Len(t) = Len(s) + 1
  /\ \A i \in 1..Len(s) : t[i] = s[i]
  /\ t[Len(s) + 1] = m

\* t is s without its first.
Shrunk(t, s) ==
  /\ s # <<>> /\ Len(t) = Len(s) - 1
  /\ \A i \in 1..Len(s) - 1 : t[i] = s[i + 1]

\* What the worker posts.
LEMMA PostFacts ==
  ASSUME TypeOK, NEW P \in SUBSET Pages, NEW m \in Messages, to' = Post(P, m)
  PROVE  /\ to' \in [Pages -> Seq(Messages)]
         /\ \A q \in Pages : q \in P /\ phase[q] # "gone" => Grown(to'[q], to[q], m)
         /\ \A q \in Pages : ~(q \in P /\ phase[q] # "gone") => to'[q] = to[q]
<1>1. \A q \in Pages : /\ to[q] \in Seq(Messages)
                       /\ Append(to[q], m) \in Seq(Messages)
                       /\ Grown(Append(to[q], m), to[q], m)
  <2> TAKE q \in Pages
  <2>1. to[q] \in Seq(Messages)
    BY Typed
  <2> QED BY <2>1, AppendFacts DEF Grown
<1> QED BY <1>1 DEF Post

\* What the page takes.
LEMMA TakeFacts ==
  ASSUME TypeOK, NEW p \in Pages, NEW type, Take(p, type)
  PROVE  /\ to' \in [Pages -> Seq(Messages)]
         /\ Shrunk(to'[p], to[p])
         /\ Head(to[p]) = to[p][1] /\ Head(to[p]) \in Messages
         /\ to[p][1].type = type /\ 1 \in 1..Len(to[p])
         /\ \A q \in Pages : q # p => to'[q] = to[q]
         /\ phase[p] # "gone"
<1>1. to \in [Pages -> Seq(Messages)] /\ to[p] \in Seq(Messages)
  BY DEF TypeOK
<1>2. to[p] # <<>> /\ phase[p] # "gone" /\ Head(to[p]).type = type
      /\ to' = [to EXCEPT ![p] = Tail(@)]
  BY DEF Take
<1> QED BY <1>1, <1>2, HeadTailFacts DEF Shrunk

\* What the page posts.
LEMMA SaysFacts ==
  ASSUME TypeOK, NEW p \in Pages, NEW c \in Commands,
         from' = [from EXCEPT ![p] = Append(@, c)]
  PROVE  /\ from' \in [Pages -> Seq(Commands)]
         /\ Grown(from'[p], from[p], c)
         /\ \A q \in Pages : q # p => from'[q] = from[q]
<1>1. from \in [Pages -> Seq(Commands)] /\ from[p] \in Seq(Commands)
  BY DEF TypeOK
<1> QED BY <1>1, AppendFacts DEF Grown

\* What the worker handles.
LEMMA HandleFacts ==
  ASSUME TypeOK, NEW p \in Pages, NEW cmd, Handle(p, cmd)
  PROVE  /\ from' \in [Pages -> Seq(Commands)]
         /\ Shrunk(from'[p], from[p])
         /\ Head(from[p]) = from[p][1] /\ Head(from[p]) \in Commands
         /\ from[p][1].cmd = cmd /\ 1 \in 1..Len(from[p])
         /\ \A q \in Pages : q # p => from'[q] = from[q]
         /\ port[p] = "open"
<1>1. from \in [Pages -> Seq(Commands)] /\ from[p] \in Seq(Commands)
  BY DEF TypeOK
<1>2. from[p] # <<>> /\ port[p] = "open" /\ Head(from[p]).cmd = cmd
      /\ from' = [from EXCEPT ![p] = Tail(@)]
  BY DEF Handle
<1> QED BY <1>1, <1>2, HeadTailFacts DEF Shrunk

\* A start, after the close of what was there.
LEMMA StartFacts ==
  ASSUME TypeOK, NEW p \in Pages, StartConnection(p)
  PROVE  /\ starts + 1 \in Attempts
         /\ from' \in [Pages -> Seq(Commands)]
         /\ \A q \in Pages : q # p => from'[q] = from[q]
         /\ \A i \in 1..Len(from[p]) : from'[p][i] = from[p][i]
         /\ ~ad[p].on => Grown(from'[p], from[p], Cmd("start", starts + 1))
         /\ ad[p].on => /\ Len(from'[p]) = Len(from[p]) + 2
                        /\ from'[p][Len(from[p]) + 1] = Cmd("close", None)
                        /\ from'[p][Len(from[p]) + 2] = Cmd("start", starts + 1)
<1> DEFINE f == from[p]
           s == Cmd("start", starts + 1)
           c == Cmd("close", None)
<1>1. from \in [Pages -> Seq(Commands)] /\ f \in Seq(Commands) /\ Len(f) \in Nat
  BY Typed DEF TypeOK
<1>2. /\ starts + 1 \in Attempts
      /\ from' = [from EXCEPT ![p] = @ \o (IF ad[p].on THEN <<c>> ELSE <<>>) \o <<s>>]
  BY DEF StartConnection
<1>3. s \in Commands /\ c \in Commands
  BY <1>2, Made
<1> HIDE DEF f, s, c
<1>4. Append(f, s) \in Seq(Commands) /\ Grown(Append(f, s), f, s)
      /\ f \o <<>> \o <<s>> = Append(f, s)
  BY <1>1, <1>3, AppendFacts DEF Grown
<1>5. /\ f \o <<c>> \o <<s>> = Append(Append(f, c), s)
      /\ Append(f, c) \in Seq(Commands) /\ Grown(Append(f, c), f, c)
      /\ Append(Append(f, c), s) \in Seq(Commands)
      /\ Grown(Append(Append(f, c), s), Append(f, c), s)
  <2>1. Append(f, c) \in Seq(Commands) /\ Grown(Append(f, c), f, c)
    BY <1>1, <1>3, AppendFacts DEF Grown
  <2>2. /\ Append(Append(f, c), s) \in Seq(Commands)
        /\ Grown(Append(Append(f, c), s), Append(f, c), s)
    BY <1>3, <2>1, AppendFacts DEF Grown
  <2>3. f \o <<c>> = Append(f, c) /\ Append(f, c) \o <<s>> = Append(Append(f, c), s)
    BY <1>1, <1>3, <2>1
  <2> QED BY <2>1, <2>2, <2>3
<1>6. CASE ~ad[p].on
  <2>1. from'[p] = Append(f, s) /\ from' \in [Pages -> Seq(Commands)]
        /\ \A q \in Pages : q # p => from'[q] = from[q]
    BY <1>1, <1>2, <1>4, <1>6 DEF f
  <2> QED BY <1>2, <1>4, <1>6, <2>1 DEF f, s, Grown
<1>7. CASE ad[p].on
  <2>1. from'[p] = Append(Append(f, c), s) /\ from' \in [Pages -> Seq(Commands)]
        /\ \A q \in Pages : q # p => from'[q] = from[q]
    BY <1>1, <1>2, <1>5, <1>7 DEF f
  <2>2. /\ Len(from'[p]) = Len(f) + 2
        /\ from'[p][Len(f) + 1] = c /\ from'[p][Len(f) + 2] = s
        /\ \A i \in 1..Len(f) : from'[p][i] = f[i]
    BY <1>1, <1>5, <2>1 DEF Grown
  <2> QED BY <1>2, <1>7, <2>1, <2>2 DEF f, s, c
<1> QED BY <1>6, <1>7

-----------------------------------------------------------------------------
(* Type correctness, one lemma per action *)

\* The parts of TypeOK.
PcStates == Live \cup {"none", "closed", "closing", "lost", "failed"}
Conns == [there : BOOLEAN, pc : Attempts \cup {None}, dc : Attempts \cup {None},
          obj : Attempts \cup {None}, ports : SUBSET Pages, state : States \cup {"none"}]
Pcs == [st : PcStates, by : Pages \cup {None}, obj : Attempts \cup {None}, busy : BOOLEAN]
Adapters == [on : BOOLEAN, own : Attempts \cup {None}, got : Attempts \cup {None},
             state : States \cup {"new"}, waiting : BOOLEAN, wired : BOOLEAN,
             clean : BOOLEAN]

WorkerType ==
  /\ role \in {"host", "guest"} /\ noWebRtc \in BOOLEAN
  /\ conn \in Conns
  /\ conn.there <=> conn.pc # None
  /\ conn.there <=> conn.state # "none"
  /\ conn.there => pcs[conn.pc].st # "none"
  /\ pcs \in [Attempts -> Pcs]
  /\ \A k \in Attempts : pcs[k].st # "none" => pcs[k].by \in Pages
  /\ overlaid \subseteq Attempts \X Attempts /\ closer \in Pages \cup {None}
BootType ==
  /\ phase \in [Pages -> {"unborn", "booting", "loading", "up", "gone"}]
  /\ port \in [Pages -> {"none", "opening", "open", "failed"}]
  /\ router \in [Pages -> [init : BOOLEAN, dead : BOOLEAN]]
  /\ entry \in [Pages -> BOOLEAN]
UseType ==
  /\ status \in [Pages -> {"disconnected", "connecting", "connected"}]
  /\ ad \in [Pages -> Adapters]
  /\ form \in [Pages -> BOOLEAN]
QueueType == from \in [Pages -> Seq(Commands)] /\ to \in [Pages -> Seq(Messages)]
CountType == starts \in 0..MaxStarts /\ talk \in 0..MaxTalk /\ shown \subseteq Attempts

LEMMA TypeParts ==
  /\ TypeOK <=> WorkerType /\ BootType /\ UseType /\ QueueType /\ CountType
  /\ TypeOK' <=> WorkerType' /\ BootType' /\ UseType' /\ QueueType' /\ CountType'
BY DEF TypeOK, WorkerType, BootType, UseType, QueueType, CountType, PcStates, Conns, Pcs,
       Adapters

\* What the steps make of an adapter.
LEMMA AdapterFacts ==
  /\ NoAdapter \in Adapters
  /\ \A a \in Adapters :
       /\ [a EXCEPT !.waiting = FALSE] \in Adapters
       /\ [a EXCEPT !.wired = TRUE] \in Adapters
       /\ \A s \in States : [a EXCEPT !.state = s] \in Adapters
       /\ \A k \in Attempts, w \in BOOLEAN :
            [a EXCEPT !.waiting = FALSE, !.got = k, !.wired = w] \in Adapters
  /\ \A k \in Attempts, c \in BOOLEAN :
       [NoAdapter EXCEPT !.on = TRUE, !.own = k, !.waiting = TRUE, !.clean = c] \in Adapters
  /\ [NoAdapter EXCEPT !.on = TRUE, !.wired = TRUE] \in Adapters
BY DEF Adapters, NoAdapter

LEMMA TypeKept ==
  /\ WorkerType /\ UNCHANGED workerVars => WorkerType'
  /\ WorkerType /\ UNCHANGED <<role, noWebRtc, conn, pcs, overlaid, closer>> => WorkerType'
  /\ BootType /\ UNCHANGED <<phase, port, router, entry>> => BootType'
  /\ UseType /\ UNCHANGED <<status, ad, form>> => UseType'
  /\ QueueType /\ UNCHANGED <<from, to>> => QueueType'
  /\ CountType /\ UNCHANGED <<starts, talk, shown>> => CountType'
BY DEF WorkerType, BootType, UseType, QueueType, CountType, workerVars

\* A step of connections that are there already.
LEMMA PcsMoved ==
  ASSUME TypeOK, conn' \in Conns, conn'.there = conn.there, conn'.pc = conn.pc,
         conn.there => conn'.state # "none", ~conn.there => conn' = conn,
         pcs' \in [Attempts -> Pcs],
         \A j \in Attempts : /\ pcs'[j].by = pcs[j].by
                             /\ pcs'[j].st # "none" <=> pcs[j].st # "none",
         UNCHANGED <<role, noWebRtc, overlaid, closer>>
  PROVE  WorkerType'
<1>1. WorkerType
  BY TypeParts
<1>2. conn.there => conn.pc \in Attempts
  BY <1>1 DEF WorkerType, Conns
<1>3. conn.there => pcs'[conn.pc].st # "none"
  BY <1>1, <1>2 DEF WorkerType
<1>4. \A k \in Attempts : pcs'[k].st # "none" => pcs'[k].by \in Pages
  BY <1>1 DEF WorkerType
<1>5. /\ conn'.there <=> conn'.pc # None
      /\ conn'.there <=> conn'.state # "none"
  BY <1>1 DEF WorkerType
<1> QED BY <1>1, <1>3, <1>4, <1>5 DEF WorkerType

LEMMA ConnectType == ASSUME TypeOK, NEW p \in Pages, Connect(p) PROVE TypeOK'
<1>1. Msg("init", conn.state, None) \in Messages
  BY Made DEF TypeOK
<1>2. to' = Post({p}, Msg("init", conn.state, None))
  BY DEF Connect
<1>3. to' \in [Pages -> Seq(Messages)]
  BY <1>1, <1>2, PostFacts
<1>4. /\ port' = [port EXCEPT ![p] = "open"]
      /\ conn' = IF conn.there THEN [conn EXCEPT !.ports = @ \cup {p}] ELSE conn
      /\ UNCHANGED <<role, noWebRtc, pcs, overlaid, closer, phase, router, entry, status,
                     ad, form, from, starts, talk, shown>>
  BY DEF Connect
<1> QED BY <1>3, <1>4 DEF TypeOK

LEMMA BootStepType ==
  ASSUME TypeOK, NEW p \in Pages,
         \/ OpenPage(p) \/ LoadError(p) \/ BootTimeout(p) \/ LoadSessions(p)
  PROVE  TypeOK'
<1>1. BootType' /\ UNCHANGED <<workerVars, status, ad, form, from, to, starts, talk, shown>>
  <2>1. BootType
    BY TypeParts
  <2>2. CASE OpenPage(p)
    BY <2>1, <2>2 DEF BootType, OpenPage
  <2>3. CASE LoadError(p)
    BY <2>1, <2>3 DEF BootType, LoadError
  <2>4. CASE BootTimeout(p)
    BY <2>1, <2>4 DEF BootType, BootTimeout
  <2>5. CASE LoadSessions(p)
    BY <2>1, <2>5 DEF BootType, LoadSessions
  <2> QED BY <2>2, <2>3, <2>4, <2>5
<1> QED BY <1>1, TypeParts, TypeKept

LEMMA ReceiveInitType == ASSUME TypeOK, NEW p \in Pages, ReceiveInit(p) PROVE TypeOK'
<1> DEFINE m == Head(to[p])
           r == [init |-> TRUE, dead |-> router[p].dead \/ noWebRtc]
           attach == /\ phase[p] = "booting" /\ Alive(r)
                     /\ m.state \in {"connected", "connecting"}
                     /\ entry[p]
<1>1. Take(p, "init")
  BY DEF ReceiveInit
<1>2. to' \in [Pages -> Seq(Messages)] /\ m \in Messages
  BY <1>1, TakeFacts
<1>3. /\ router' = [router EXCEPT ![p] = r]
      /\ phase' = [phase EXCEPT ![p] = IF @ = "booting" THEN "loading" ELSE @]
      /\ ad' = IF attach
               THEN [ad EXCEPT ![p] = [NoAdapter EXCEPT !.on = TRUE, !.wired = TRUE]]
               ELSE ad
      /\ status' = IF attach THEN [status EXCEPT ![p] = m.state] ELSE status
      /\ from' = IF attach THEN [from EXCEPT ![p] = Append(@, Cmd("subscribe", None))]
                 ELSE from
      /\ UNCHANGED <<workerVars, port, entry, form, starts, talk, shown>>
  BY DEF ReceiveInit
<1>4. r \in [init : BOOLEAN, dead : BOOLEAN]
  BY Zenon DEF TypeOK
<1>5. attach => m.state \in {"connected", "connecting"}
  OBVIOUS
<1> HIDE DEF m, r, attach
<1>6. from' \in [Pages -> Seq(Commands)]
  BY <1>3, Made, SaysFacts DEF TypeOK
<1> QED BY <1>2, <1>3, <1>4, <1>5, <1>6, ZenonT(40) DEF TypeOK, NoAdapter, workerVars, States

LEMMA ClosePageType == ASSUME TypeOK, NEW p \in Pages, ClosePage(p) PROVE TypeOK'
<1>1. <<>> \in Seq(Messages)
  OBVIOUS
<1> QED BY <1>1 DEF TypeOK, ClosePage, NoAdapter, workerVars

LEMMA StartConnectionType == ASSUME TypeOK, NEW p \in Pages, StartConnection(p) PROVE TypeOK'
<1>1. from' \in [Pages -> Seq(Commands)] /\ starts + 1 \in Attempts
  BY StartFacts
<1>2. NothingUnderWay(p) \in BOOLEAN
  BY DEF NothingUnderWay
<1>3. /\ starts' = starts + 1
      /\ ad' = [ad EXCEPT ![p] = [NoAdapter EXCEPT !.on = TRUE, !.own = starts + 1,
                                                   !.waiting = TRUE,
                                                   !.clean = NothingUnderWay(p)]]
      /\ form' = [form EXCEPT ![p] = FALSE]
      /\ UNCHANGED <<workerVars, phase, port, router, entry, status, to, talk, shown>>
  BY DEF StartConnection
<1>4. UseType' /\ CountType' /\ QueueType'
  <2>1. [NoAdapter EXCEPT !.on = TRUE, !.own = starts + 1, !.waiting = TRUE,
                          !.clean = NothingUnderWay(p)] \in Adapters
    BY <1>1, <1>2, AdapterFacts
  <2>2. UseType'
    BY <1>3, <2>1, TypeParts DEF UseType
  <2> QED BY <1>1, <1>3, <2>2, TypeParts DEF CountType, QueueType
<1> QED BY <1>3, <1>4, TypeParts, TypeKept

LEMMA FinalizeReconnectType ==
  ASSUME TypeOK, NEW p \in Pages, FinalizeReconnect(p) PROVE TypeOK'
<1>1. PICK k \in shown : from' = [from EXCEPT ![p] = Append(@, Cmd("answer", k))]
  BY DEF FinalizeReconnect
<1>2. Cmd("answer", k) \in Commands
  BY Made DEF TypeOK
<1>3. from' \in [Pages -> Seq(Commands)]
  BY <1>1, <1>2, SaysFacts
<1>4. /\ form' = [form EXCEPT ![p] = FALSE]
      /\ ad' = [ad EXCEPT ![p].wired = TRUE]
      /\ UNCHANGED <<workerVars, phase, port, router, entry, status, to, starts, talk, shown>>
  BY DEF FinalizeReconnect
<1>5. UseType' /\ QueueType'
  BY <1>3, <1>4, AdapterFacts, TypeParts DEF UseType, QueueType
<1> QED BY <1>4, <1>5, TypeParts, TypeKept

LEMMA DisconnectType == ASSUME TypeOK, NEW p \in Pages, Disconnect(p) PROVE TypeOK'
<1>1. from' \in [Pages -> Seq(Commands)]
  BY Made, SaysFacts DEF Disconnect
<1> QED BY <1>1 DEF TypeOK, Disconnect, NoAdapter, workerVars

LEMMA DeleteSessionType == ASSUME TypeOK, NEW p \in Pages, DeleteSession(p) PROVE TypeOK'
<1>1. from' \in [Pages -> Seq(Commands)]
  BY Made, SaysFacts DEF DeleteSession, TypeOK
<1> QED BY <1>1 DEF TypeOK, DeleteSession, NoAdapter, workerVars

LEMMA SendType == ASSUME TypeOK, NEW p \in Pages, Send(p) PROVE TypeOK'
<1>1. from' \in [Pages -> Seq(Commands)]
  BY Made, SaysFacts DEF Send
<1>2. talk' \in 0..MaxTalk
  BY BoundsAssumption DEF TypeOK, Send
<1> QED BY <1>1, <1>2 DEF TypeOK, Send, pageVars, workerVars

LEMMA ReceiveStateType == ASSUME TypeOK, NEW p \in Pages, ReceiveState(p) PROVE TypeOK'
<1> DEFINE s == Head(to[p]).state
<1>1. Take(p, "state")
  BY DEF ReceiveState
<1>2. to' \in [Pages -> Seq(Messages)] /\ s \in States
  BY <1>1, TakeFacts, MessageFacts
<1>3. Listener(status[p], s) \in {"disconnected", "connecting", "connected"}
  BY DEF Listener, TypeOK
<1>4. /\ ad' = IF ad[p].on THEN [ad EXCEPT ![p].state = s] ELSE ad
      /\ status' = IF ad[p].wired /\ ad[p].state # s
                   THEN [status EXCEPT ![p] = Listener(@, s)] ELSE status
      /\ UNCHANGED <<workerVars, phase, port, router, entry, form, from, starts, talk, shown>>
  BY DEF ReceiveState
<1> HIDE DEF s
<1>5. UseType' /\ QueueType'
  BY <1>2, <1>3, <1>4, AdapterFacts, TypeParts DEF UseType, QueueType
<1> QED BY <1>4, <1>5, TypeParts, TypeKept

LEMMA ReceiveDescriptionType ==
  ASSUME TypeOK, NEW p \in Pages, ReceiveDescription(p) PROVE TypeOK'
<1> DEFINE k == Head(to[p]).pc
           settles == ad[p].on /\ ad[p].waiting
<1>1. Take(p, "description")
  BY DEF ReceiveDescription
<1>2. to' \in [Pages -> Seq(Messages)] /\ k \in Attempts
  BY <1>1, TakeFacts, MessageFacts
<1>3. /\ ad' = IF settles
               THEN [ad EXCEPT ![p].waiting = FALSE, ![p].got = k,
                               ![p].wired = role = "guest"]
               ELSE ad
      /\ status' = IF settles THEN [status EXCEPT ![p] = "connecting"] ELSE status
      /\ form' = IF settles THEN [form EXCEPT ![p] = role = "host"] ELSE form
      /\ shown' = IF settles THEN shown \cup {k} ELSE shown
      /\ UNCHANGED <<workerVars, phase, port, router, entry, from, starts, talk>>
  BY DEF ReceiveDescription
<1>4. QueueType' /\ CountType'
  BY <1>2, <1>3 DEF TypeOK, QueueType, CountType
<1>5. UseType'
  <2>1. CASE ~settles
    BY <1>3, <2>1, TypeParts, TypeKept
  <2>2. CASE settles
    <3>1. (role = "guest") \in BOOLEAN /\ ad[p] \in Adapters
      BY TypeParts DEF UseType
    <3>2. [ad[p] EXCEPT !.waiting = FALSE, !.got = k, !.wired = role = "guest"] \in Adapters
      BY <1>2, <3>1, AdapterFacts
    <3>3. ad' = [ad EXCEPT ![p] = [ad[p] EXCEPT !.waiting = FALSE, !.got = k,
                                                !.wired = role = "guest"]]
      BY <1>3, <2>2, TypeParts DEF UseType
    <3> QED BY <1>3, <2>2, <3>2, <3>3, TypeParts DEF UseType
  <2> QED BY <2>1, <2>2
<1> QED BY <1>3, <1>4, <1>5, TypeParts, TypeKept

LEMMA ReceiveErrorType == ASSUME TypeOK, NEW p \in Pages, ReceiveError(p) PROVE TypeOK'
<1>1. to' \in [Pages -> Seq(Messages)]
  BY TakeFacts DEF ReceiveError
<1>2. /\ ad' = [ad EXCEPT ![p].waiting = FALSE]
      /\ UNCHANGED <<workerVars, phase, port, router, entry, status, form, from, starts,
                     talk, shown>>
  BY DEF ReceiveError
<1>3. UseType' /\ QueueType'
  BY <1>1, <1>2, AdapterFacts, TypeParts DEF UseType, QueueType
<1> QED BY <1>2, <1>3, TypeParts, TypeKept

\* The entry and the connection that a start makes.
LEMMA HandleStartFacts ==
  ASSUME TypeOK, NEW p \in Pages, HandleStart(p)
  PROVE  \E k \in Attempts :
           /\ from[p][1] = Cmd("start", k)
           /\ conn'.there /\ conn'.pc = k /\ conn'.state = "connecting"
           /\ conn'.dc = IF role = "host" THEN k ELSE conn.dc
           /\ conn'.obj = IF conn.there THEN conn.obj ELSE k
           /\ conn'.ports = conn.ports \cup {p}
           /\ conn' \in Conns
           /\ pcs' = [pcs EXCEPT ![k] = [st |-> "gathering", by |-> p, obj |-> conn'.obj,
                                         busy |-> TRUE]]
           /\ overlaid' = IF conn.there THEN overlaid \cup {<<conn.pc, k>>} ELSE overlaid
           /\ to' = IF conn.state = "connecting" THEN to
                    ELSE Post(conn.ports \cup {p}, Msg("state", "connecting", None))
           /\ UNCHANGED <<role, noWebRtc, closer, pageVars, starts, talk, shown>>
<1> DEFINE k == Head(from[p]).pc
           ports == conn.ports \cup {p}
<1>1. Handle(p, "start")
  BY DEF HandleStart
<1>2. k \in Attempts /\ from[p][1] = Cmd("start", k)
  BY <1>1, HandleFacts, CommandFacts
<1>3. /\ conn' = [there |-> TRUE, pc |-> k, dc |-> IF role = "host" THEN k ELSE conn.dc,
                  obj |-> IF conn.there THEN conn.obj ELSE k,
                  state |-> "connecting", ports |-> ports]
      /\ pcs' = [pcs EXCEPT ![k] = [st |-> "gathering", by |-> p, obj |-> conn'.obj,
                                    busy |-> TRUE]]
      /\ overlaid' = IF conn.there THEN overlaid \cup {<<conn.pc, k>>} ELSE overlaid
      /\ to' = IF conn.state = "connecting" THEN to
               ELSE Post(ports, Msg("state", "connecting", None))
      /\ UNCHANGED <<role, noWebRtc, closer, pageVars, starts, talk, shown>>
  BY DEF HandleStart
<1> HIDE DEF k
<1>4. conn' \in Conns
  BY <1>2, <1>3 DEF TypeOK, States, Conns
<1> QED BY <1>2, <1>3, <1>4

LEMMA HandleStartType == ASSUME TypeOK, NEW p \in Pages, HandleStart(p) PROVE TypeOK'
<1>1. PICK k \in Attempts :
        /\ conn'.there /\ conn'.pc = k /\ conn'.state = "connecting"
        /\ conn'.obj = IF conn.there THEN conn.obj ELSE k
        /\ conn' \in Conns
        /\ pcs' = [pcs EXCEPT ![k] = [st |-> "gathering", by |-> p, obj |-> conn'.obj,
                                      busy |-> TRUE]]
        /\ overlaid' = IF conn.there THEN overlaid \cup {<<conn.pc, k>>} ELSE overlaid
        /\ to' = IF conn.state = "connecting" THEN to
                 ELSE Post(conn.ports \cup {p}, Msg("state", "connecting", None))
        /\ UNCHANGED <<role, noWebRtc, closer, pageVars, starts, talk, shown>>
  BY HandleStartFacts
<1>2. from' \in [Pages -> Seq(Commands)]
  BY HandleFacts DEF HandleStart
<1>3. to' \in [Pages -> Seq(Messages)]
  <2>1. Msg("state", "connecting", None) \in Messages /\ conn.ports \cup {p} \in SUBSET Pages
    BY Made DEF States, TypeOK
  <2> QED BY <1>1, <2>1, PostFacts DEF TypeOK
<1>4. conn.there => conn.pc \in Attempts
  BY DEF TypeOK
<1>5. overlaid' \subseteq Attempts \X Attempts
  BY <1>1, <1>4 DEF TypeOK
<1>6. /\ pcs' \in [Attempts -> Pcs]
      /\ \A j \in Attempts : pcs'[j].st # "none" => pcs'[j].by \in Pages
  BY <1>1 DEF TypeOK, Live, Pcs, PcStates, Conns
<1>7. WorkerType'
  BY <1>1, <1>5, <1>6 DEF TypeOK, WorkerType
<1>8. QueueType' /\ UNCHANGED <<phase, port, router, entry, status, ad, form, starts, talk, shown>>
  BY <1>1, <1>2, <1>3 DEF QueueType, pageVars
<1> QED BY <1>7, <1>8, TypeParts, TypeKept

LEMMA DescribedFacts ==
  ASSUME TypeOK, NEW k \in Attempts, Described(k) \/ DescriptionFails(k)
  PROVE  /\ to' \in [Pages -> Seq(Messages)]
         /\ pcs' \in [Attempts -> Pcs]
         /\ \A j \in Attempts : pcs'[j].by = pcs[j].by /\ pcs'[j].obj = pcs[j].obj
         /\ \A j \in Attempts : j # k => pcs'[j] = pcs[j]
         /\ pcs[k].busy /\ ~pcs'[k].busy
         /\ pcs[k].st # "gathering" => pcs'[k].st = pcs[k].st
         /\ pcs[k].st = "gathering" => pcs'[k].st \in {"offered", "linked", "failed"}
         /\ \E m \in {Msg("description", "none", k), Msg("error", "none", None)} :
              to' = Post({pcs[k].by} \cap Pages, m) /\ m \in Messages
         /\ UNCHANGED <<role, noWebRtc, conn, overlaid, closer, pageVars, from, starts,
                        talk, shown>>
<1>1. /\ pcs[k].busy
      /\ UNCHANGED <<role, noWebRtc, conn, overlaid, closer, pageVars, from, starts, talk,
                     shown>>
  BY DEF Described, DescriptionFails
<1>2. \E m \in {Msg("description", "none", k), Msg("error", "none", None)} :
        to' = Post({pcs[k].by}, m)
  BY DEF Described, DescriptionFails
<1>3. \A m : Post({pcs[k].by}, m) = Post({pcs[k].by} \cap Pages, m)
  BY DEF Post
<1>4. \E s \in {"offered", "linked", "failed"} :
        pcs' = [pcs EXCEPT ![k].busy = FALSE, ![k].st = IF @ # "gathering" THEN @ ELSE s]
  <2>1. CASE Described(k)
    BY <2>1 DEF Described
  <2>2. CASE DescriptionFails(k)
    <3>1. pcs' = [pcs EXCEPT ![k].busy = FALSE,
                             ![k].st = IF @ # "gathering" THEN @ ELSE "failed"]
      BY <2>2 DEF DescriptionFails
    <3> QED BY <3>1
  <2> QED BY <2>1, <2>2
<1>5. PICK s \in {"offered", "linked", "failed"} :
        pcs' = [pcs EXCEPT ![k].busy = FALSE, ![k].st = IF @ # "gathering" THEN @ ELSE s]
  BY <1>4
<1>6. pcs \in [Attempts -> Pcs]
  BY TypeParts DEF WorkerType
<1>7. /\ pcs' \in [Attempts -> Pcs]
      /\ \A j \in Attempts : pcs'[j].by = pcs[j].by /\ pcs'[j].obj = pcs[j].obj
      /\ \A j \in Attempts : j # k => pcs'[j] = pcs[j]
      /\ ~pcs'[k].busy
      /\ pcs[k].st # "gathering" => pcs'[k].st = pcs[k].st
      /\ pcs[k].st = "gathering" => pcs'[k].st \in {"offered", "linked", "failed"}
  BY <1>5, <1>6 DEF Live, Pcs, PcStates
<1>8. PICK m \in {Msg("description", "none", k), Msg("error", "none", None)} :
        to' = Post({pcs[k].by} \cap Pages, m)
  BY <1>2, <1>3
<1>9. m \in Messages
  BY Made
<1>10. to' \in [Pages -> Seq(Messages)]
  <2>1. {pcs[k].by} \cap Pages \in SUBSET Pages
    OBVIOUS
  <2> QED BY <1>8, <1>9, <2>1, PostFacts
<1> QED BY <1>1, <1>7, <1>8, <1>9, <1>10

LEMMA DescribedType ==
  ASSUME TypeOK, NEW k \in Attempts, Described(k) \/ DescriptionFails(k) PROVE TypeOK'
<1>1. /\ to' \in [Pages -> Seq(Messages)] /\ pcs' \in [Attempts -> Pcs]
      /\ \A j \in Attempts : /\ pcs'[j].by = pcs[j].by
                             /\ pcs'[j].st # "none" <=> pcs[j].st # "none"
      /\ UNCHANGED <<role, noWebRtc, conn, overlaid, closer, pageVars, from, starts, talk,
                     shown>>
  BY DescribedFacts
<1>2. WorkerType' /\ QueueType'
  <2>1. conn \in Conns /\ (conn.there => conn.state # "none")
    BY TypeParts DEF WorkerType
  <2> QED BY <1>1, <2>1, PcsMoved, TypeParts DEF QueueType
<1> QED BY <1>1, <1>2, TypeParts, TypeKept DEF pageVars

LEMMA HandleAnswerFacts ==
  ASSUME TypeOK, NEW p \in Pages, HandleAnswer(p)
  PROVE  /\ from[p][1].cmd = "answer"
         /\ \A j \in Attempts : /\ pcs'[j].by = pcs[j].by /\ pcs'[j].obj = pcs[j].obj
                                /\ pcs'[j].busy = pcs[j].busy
                                /\ pcs[j].st \notin {"gathering", "offered"} => pcs'[j] = pcs[j]
                                /\ pcs'[j] = pcs[j] \/ (j = conn.pc /\ pcs'[j].st \in {"linked", "failed"})
         /\ pcs' \in [Attempts -> Pcs]
         /\ to' \in [Pages -> Seq(Messages)]
         /\ to' = to \/ to' = Post({p}, Msg("error", "none", None))
         /\ UNCHANGED <<role, noWebRtc, conn, overlaid, closer, pageVars, starts, talk,
                        shown>>
<1>1. pcs \in [Attempts -> Pcs] /\ to \in [Pages -> Seq(Messages)]
  BY TypeParts DEF WorkerType, QueueType
<1>2. from[p][1].cmd = "answer"
  BY HandleFacts DEF HandleAnswer
<1>3. UNCHANGED <<role, noWebRtc, conn, overlaid, closer, pageVars, starts, talk, shown>>
  BY DEF HandleAnswer
<1>4. /\ pcs' = pcs
      /\ to' = to \/ to' = Post({p}, Msg("error", "none", None))
      \/ /\ pcs[conn.pc].st \in {"gathering", "offered"} /\ to' = to /\ conn.there
         /\ \E s \in {"linked", "failed"} : pcs' = [pcs EXCEPT ![conn.pc].st = s]
  BY DEF HandleAnswer
<1>5. conn.there => conn.pc \in Attempts
  BY DEF TypeOK
<1>6. to' = Post({p}, Msg("error", "none", None)) => to' \in [Pages -> Seq(Messages)]
  BY Made, PostFacts
<1>7. /\ pcs' \in [Attempts -> Pcs]
      /\ \A j \in Attempts : /\ pcs'[j].by = pcs[j].by /\ pcs'[j].obj = pcs[j].obj
                             /\ pcs'[j].busy = pcs[j].busy
                             /\ pcs[j].st \notin {"gathering", "offered"} => pcs'[j] = pcs[j]
                             /\ pcs'[j] = pcs[j] \/ (j = conn.pc /\ pcs'[j].st \in {"linked", "failed"})
  <2>1. CASE pcs' = pcs
    BY <1>1, <2>1
  <2>2. CASE ~(pcs' = pcs)
    <3>1. PICK s \in {"linked", "failed"} : pcs' = [pcs EXCEPT ![conn.pc].st = s]
      BY <1>4, <2>2
    <3>2. pcs[conn.pc].st \in {"gathering", "offered"} /\ conn.pc \in Attempts
      BY <1>4, <1>5, <2>2
    <3> QED BY <1>1, <3>1, <3>2 DEF Pcs, PcStates, Live
  <2> QED BY <2>1, <2>2
<1> QED BY <1>1, <1>2, <1>3, <1>4, <1>6, <1>7

LEMMA HandleAnswerType == ASSUME TypeOK, NEW p \in Pages, HandleAnswer(p) PROVE TypeOK'
<1>1. /\ to' \in [Pages -> Seq(Messages)] /\ pcs' \in [Attempts -> Pcs]
      /\ \A j \in Attempts : /\ pcs'[j].by = pcs[j].by
                             /\ pcs'[j].st # "none" <=> pcs[j].st # "none"
      /\ UNCHANGED <<role, noWebRtc, conn, overlaid, closer, pageVars, starts, talk, shown>>
  BY HandleAnswerFacts
<1>2. from' \in [Pages -> Seq(Commands)]
  BY HandleFacts DEF HandleAnswer
<1>3. WorkerType' /\ QueueType'
  <2>1. conn \in Conns /\ (conn.there => conn.state # "none")
    BY TypeParts DEF WorkerType
  <2> QED BY <1>1, <1>2, <2>1, PcsMoved, TypeParts DEF QueueType
<1> QED BY <1>1, <1>3, TypeParts, TypeKept DEF pageVars

LEMMA HandleCloseFacts ==
  ASSUME TypeOK, NEW p \in Pages, HandleClose(p)
  PROVE  /\ from[p][1].cmd = "close"
         /\ conn' = NoConn
         /\ \A j \in Attempts :
              /\ pcs'[j].by = pcs[j].by /\ pcs'[j].obj = pcs[j].obj
              /\ pcs'[j].busy = pcs[j].busy
              /\ pcs'[j].st \in {pcs[j].st, "closed", "closing"}
              /\ pcs'[j].st = "closed" /\ pcs[j].st # "closed" => j = conn.pc
              /\ j = conn.pc => pcs'[j].st = "closed"
              /\ pcs'[j].st = "closing" => pcs[j].st \in {"closing", "open"}
         /\ pcs' \in [Attempts -> Pcs]
         /\ closer' = IF conn.there THEN p ELSE closer
         /\ UNCHANGED <<role, noWebRtc, overlaid, pageVars, to, starts, talk, shown>>
<1>1. pcs \in [Attempts -> Pcs]
  BY TypeParts DEF WorkerType
<1>2. from[p][1].cmd = "close"
  BY HandleFacts DEF HandleClose
<1>3. /\ conn' = NoConn
      /\ pcs' = [k \in Attempts |->
                   IF k = conn.pc THEN [pcs[k] EXCEPT !.st = "closed"]
                   ELSE IF k = conn.dc /\ pcs[k].st = "open"
                        THEN [pcs[k] EXCEPT !.st = "closing"]
                   ELSE pcs[k]]
      /\ closer' = IF conn.there THEN p ELSE closer
      /\ UNCHANGED <<role, noWebRtc, overlaid, pageVars, to, starts, talk, shown>>
  BY DEF HandleClose
<1> QED BY <1>1, <1>2, <1>3 DEF Pcs, PcStates, Live

LEMMA HandleCloseType == ASSUME TypeOK, NEW p \in Pages, HandleClose(p) PROVE TypeOK'
<1>1. /\ conn' = NoConn /\ pcs' \in [Attempts -> Pcs]
      /\ closer' = IF conn.there THEN p ELSE closer
      /\ UNCHANGED <<role, noWebRtc, overlaid, pageVars, to, starts, talk, shown>>
      /\ \A j \in Attempts : /\ pcs'[j].by = pcs[j].by
                             /\ pcs'[j].st # "none" => pcs[j].st # "none" \/ j = conn.pc
  BY HandleCloseFacts
<1>2. from' \in [Pages -> Seq(Commands)]
  BY HandleFacts DEF HandleClose
<1>3. \A j \in Attempts : pcs'[j].st # "none" => pcs'[j].by \in Pages
  <2>1. \A j \in Attempts : j = conn.pc => pcs[j].by \in Pages
    BY BoundsAssumption DEF TypeOK
  <2> QED BY <1>1, <2>1 DEF TypeOK
<1>4. WorkerType' /\ QueueType'
  BY <1>1, <1>2, <1>3 DEF TypeOK, WorkerType, QueueType, NoConn, Conns
<1> QED BY <1>1, <1>4, TypeParts, TypeKept DEF pageVars

LEMMA HandleOtherFacts ==
  ASSUME TypeOK, NEW p \in Pages, HandleOther(p)
  PROVE  /\ Handle(p, from[p][1].cmd) /\ from[p][1].cmd \in {"send", "subscribe"}
         /\ IF from[p][1].cmd = "subscribe" /\ conn.there
            THEN /\ conn' = [conn EXCEPT !.ports = @ \cup {p}]
                 /\ to' = Post({p}, Msg("state", conn.state, None))
            ELSE conn' = conn /\ to' = to
         /\ UNCHANGED <<role, noWebRtc, pcs, overlaid, closer, pageVars, starts, talk, shown>>
<1>1. from[p] \in Seq(Commands) /\ Handle(p, Head(from[p]).cmd)
      /\ Head(from[p]).cmd \in {"send", "subscribe"}
  BY Typed DEF HandleOther, Handle
<1>2. Head(from[p]) = from[p][1]
  BY <1>1, HandleFacts
<1> QED BY <1>1, <1>2 DEF HandleOther

LEMMA HandleOtherType == ASSUME TypeOK, NEW p \in Pages, HandleOther(p) PROVE TypeOK'
<1>1. conn.there => Msg("state", conn.state, None) \in Messages
  BY Made DEF TypeOK
<1>2. /\ to' \in [Pages -> Seq(Messages)] /\ from' \in [Pages -> Seq(Commands)]
      /\ UNCHANGED <<role, noWebRtc, pcs, overlaid, closer, pageVars, starts, talk, shown>>
  <2>1. Handle(p, from[p][1].cmd)
    BY HandleOtherFacts
  <2>2. from' \in [Pages -> Seq(Commands)]
    BY <2>1, HandleFacts
  <2>3. \/ to' = to
        \/ conn.there /\ to' = Post({p}, Msg("state", conn.state, None))
    BY HandleOtherFacts
  <2>4. to' \in [Pages -> Seq(Messages)]
    BY <1>1, <2>3, PostFacts, ZenonT(40) DEF TypeOK
  <2> QED BY <2>2, <2>4, HandleOtherFacts
<1>3. WorkerType'
  <2>1. conn' = conn \/ conn' = [conn EXCEPT !.ports = @ \cup {p}]
    BY HandleOtherFacts
  <2>2. conn \in Conns /\ conn.ports \cup {p} \in SUBSET Pages
    BY TypeParts DEF WorkerType, Conns
  <2>3. /\ conn' \in Conns /\ conn'.there = conn.there /\ conn'.pc = conn.pc
        /\ conn'.state = conn.state
    BY <2>1, <2>2 DEF Conns
  <2> QED BY <1>2, <2>3, TypeParts DEF WorkerType
<1> QED BY <1>2, <1>3, TypeParts, TypeKept DEF pageVars, QueueType

\* What setState does, and what it says to the ports.
LEMMA SetStateFacts ==
  ASSUME TypeOK, SetState("disconnected")
  PROVE  /\ to' \in [Pages -> Seq(Messages)]
         /\ \/ (~conn.there \/ conn.state = "disconnected") /\ conn' = conn /\ to' = to
            \/ /\ conn.there /\ conn.state # "disconnected"
               /\ conn' = [conn EXCEPT !.state = "disconnected"]
               /\ to' = Post(conn.ports, Msg("state", "disconnected", None))
               /\ Msg("state", "disconnected", None) \in Messages
               /\ conn.ports \in SUBSET Pages
<1>1. Msg("state", "disconnected", None) \in Messages /\ conn.ports \in SUBSET Pages
      /\ to \in [Pages -> Seq(Messages)]
  BY Made DEF TypeOK, States
<1> QED BY <1>1, PostFacts DEF SetState

\* Events of a connection that the peer's code has linked.
LEMMA EventFacts ==
  ASSUME TypeOK, NEW k \in Attempts, ChannelOpens(k) \/ ChannelLost(k) \/ Reported(k)
  PROVE  /\ to' \in [Pages -> Seq(Messages)] /\ pcs' \in [Attempts -> Pcs]
         /\ conn' \in Conns /\ conn'.there = conn.there
         /\ conn'.pc = conn.pc /\ conn'.obj = conn.obj /\ conn'.ports = conn.ports
         /\ conn.there => conn'.state \in {"connected", "disconnected"}
         /\ ~conn.there => conn' = conn /\ to' = to
         /\ \A j \in Attempts : /\ pcs'[j].by = pcs[j].by /\ pcs'[j].obj = pcs[j].obj
                                /\ pcs'[j].busy = pcs[j].busy
                                /\ j # k => pcs'[j] = pcs[j]
         /\ pcs[k].st # "none" /\ pcs'[k].st # "none"
         /\ pcs'[k].st \in Live => pcs[k].st \in Live
         /\ UNCHANGED <<role, noWebRtc, overlaid, closer, pageVars, from, starts, talk, shown>>
<1>1. /\ pcs \in [Attempts -> Pcs] /\ conn \in Conns /\ to \in [Pages -> Seq(Messages)]
      /\ conn.ports \in SUBSET Pages
  BY TypeParts DEF WorkerType, QueueType, Conns
<1>2. CASE ChannelOpens(k)
  <2>1. /\ pcs[k].st = "linked"
        /\ pcs' = [pcs EXCEPT ![k].st = "open"]
        /\ \E dc \in {k, conn.dc} :
             conn' = IF conn.there THEN [conn EXCEPT !.state = "connected", !.dc = dc]
                     ELSE conn
        /\ to' = IF conn.there /\ conn.state # "connected"
                 THEN Post(conn.ports, Msg("state", "connected", None)) ELSE to
        /\ UNCHANGED <<role, noWebRtc, overlaid, closer, pageVars, from, starts, talk, shown>>
    BY <1>2 DEF ChannelOpens
  <2>2. Msg("state", "connected", None) \in Messages
    BY Made DEF States
  <2>3. to' \in [Pages -> Seq(Messages)]
    BY <1>1, <2>1, <2>2, PostFacts
  <2>4. /\ conn' \in Conns /\ conn'.there = conn.there
        /\ conn'.pc = conn.pc /\ conn'.obj = conn.obj /\ conn'.ports = conn.ports
        /\ conn.there => conn'.state = "connected"
        /\ ~conn.there => conn' = conn /\ to' = to
    BY <1>1, <2>1, ZenonT(40) DEF Conns, States
  <2>5. /\ pcs' \in [Attempts -> Pcs] /\ pcs'[k].st = "open"
        /\ \A j \in Attempts : /\ pcs'[j].by = pcs[j].by /\ pcs'[j].obj = pcs[j].obj
                               /\ pcs'[j].busy = pcs[j].busy
                               /\ j # k => pcs'[j] = pcs[j]
    BY <1>1, <2>1 DEF Pcs, PcStates, Live
  <2> QED BY <2>1, <2>3, <2>4, <2>5 DEF Live
<1>3. CASE ChannelLost(k) \/ Reported(k)
  <2>1. /\ pcs[k].st # "none"
        /\ pcs' = pcs \/ pcs' = [pcs EXCEPT ![k].st = "lost"]
        /\ SetState("disconnected")
        /\ UNCHANGED <<role, noWebRtc, overlaid, closer, pageVars, from, starts, talk, shown>>
    BY <1>3 DEF ChannelLost, Reported
  <2>2. /\ conn' \in Conns /\ conn'.there = conn.there
        /\ conn'.pc = conn.pc /\ conn'.obj = conn.obj /\ conn'.ports = conn.ports
        /\ conn.there => conn'.state = "disconnected"
        /\ ~conn.there => conn' = conn /\ to' = to
    BY <1>1, <2>1, SetStateFacts DEF Conns, States
  <2>3. /\ pcs' \in [Attempts -> Pcs] /\ pcs'[k].st # "none"
        /\ pcs'[k].st \in Live => pcs[k].st \in Live
        /\ \A j \in Attempts : /\ pcs'[j].by = pcs[j].by /\ pcs'[j].obj = pcs[j].obj
                               /\ pcs'[j].busy = pcs[j].busy
                               /\ j # k => pcs'[j] = pcs[j]
    <3>1. CASE pcs' = pcs
      BY <1>1, <2>1, <3>1
    <3>2. CASE pcs' = [pcs EXCEPT ![k].st = "lost"]
      BY <1>1, <3>2 DEF Pcs, PcStates, Live
    <3> QED BY <2>1, <3>1, <3>2
  <2> QED BY <2>1, <2>2, <2>3, SetStateFacts
<1> QED BY <1>2, <1>3

LEMMA EventType ==
  ASSUME TypeOK, NEW k \in Attempts, ChannelOpens(k) \/ ChannelLost(k) \/ Reported(k)
  PROVE  TypeOK'
<1>1. /\ to' \in [Pages -> Seq(Messages)] /\ pcs' \in [Attempts -> Pcs]
      /\ conn' \in Conns /\ conn'.there = conn.there /\ conn'.pc = conn.pc
      /\ conn.there => conn'.state # "none"
      /\ ~conn.there => conn' = conn
      /\ \A j \in Attempts : /\ pcs'[j].by = pcs[j].by
                             /\ pcs'[j].st # "none" <=> pcs[j].st # "none"
      /\ UNCHANGED <<role, noWebRtc, overlaid, closer, pageVars, from, starts, talk, shown>>
  BY EventFacts
<1>2. WorkerType' /\ QueueType'
  <2>1. conn \in Conns /\ (conn.there => conn.state # "none")
    BY TypeParts DEF WorkerType
  <2> QED BY <1>1, <2>1, PcsMoved, TypeParts DEF QueueType
<1> QED BY <1>1, <1>2, TypeParts, TypeKept DEF pageVars

LEMMA TypeInit == Init => TypeOK
<1>1. <<>> \in Seq(Commands) /\ <<>> \in Seq(Messages)
  OBVIOUS
<1>2. MaxStarts \in Nat /\ MaxTalk \in Nat
  BY BoundsAssumption
<1> QED BY <1>1, <1>2 DEF Init, TypeOK, NoConn, NoPc, NoAdapter, States

LEMMA TypeNext == ASSUME TypeOK, [Next]_vars PROVE TypeOK'
<1>1. CASE UNCHANGED vars
  <2>1. UNCHANGED <<workerVars, phase, port, router, entry, status, ad, form, from, to,
                    starts, talk, shown>>
    BY <1>1 DEF vars, pageVars
  <2> QED BY <2>1, TypeParts, TypeKept
<1>2. ASSUME NEW p \in Pages, Connect(p) \/ LoadError(p) \/ Boot(p) \/ Receive(p) PROVE TypeOK'
  BY <1>2, ConnectType, BootStepType, ReceiveInitType, ReceiveStateType, ReceiveDescriptionType,
     ReceiveErrorType DEF Boot, Receive
<1>3. ASSUME NEW p \in Pages, Work(p) PROVE TypeOK'
  BY <1>3, HandleStartType, HandleAnswerType, HandleCloseType, HandleOtherType DEF Work
<1>4. ASSUME NEW p \in Pages, User(p) PROVE TypeOK'
  BY <1>4, BootStepType, ClosePageType, StartConnectionType, FinalizeReconnectType,
     DisconnectType, DeleteSessionType, SendType DEF User
<1>5. ASSUME NEW k \in Attempts, Event(k) PROVE TypeOK'
  BY <1>5, DescribedType, EventType DEF Event
<1> QED BY <1>1, <1>2, <1>3, <1>4, <1>5 DEF Next

\* Every variable stays in its range; in particular the worker's entry for a session
\* always has a connection and a state (createOffer and acceptOffer in rtc.worker.js).
THEOREM TypeCorrect == Spec => []TypeOK
BY TypeInit, TypeNext, PTL DEF Spec

-----------------------------------------------------------------------------
(* How far a page has come *)

\* What every step of the worker does to what a page reads.
Heard(q) ==
  \/ to'[q] = to[q]
  \/ /\ phase[q] # "gone" /\ q \in Pages
     /\ \E m \in Messages : m.type # "init" /\ Grown(to'[q], to[q], m)

\* A page that a step leaves alone, but for what the worker tells it.
LEMMA BootElsewhere ==
  ASSUME TypeOK, NEW q \in Pages, BootAt(q), Heard(q), port[q] = "open" \/ to'[q] = to[q],
         phase'[q] = phase[q], port'[q] = port[q], router'[q] = router[q],
         entry'[q] = entry[q], status'[q] = status[q], ad'[q] = ad[q], from'[q] = from[q],
         q \in conn'.ports => q \in conn.ports \/ port[q] = "open"
  PROVE  BootAt(q)'
<1>1. CASE to'[q] = to[q]
  BY <1>1 DEF BootAt
<1>2. ASSUME NEW m \in Messages, m.type # "init", Grown(to'[q], to[q], m), phase[q] # "gone",
             port[q] = "open"
      PROVE  BootAt(q)'
  <2>1. Len(to[q]) \in Nat
    BY Typed
  <2>2. \A i \in 1..Len(to'[q]) : to'[q][i].type = "init" => i = 1 /\ ~router'[q].init
    <3> SUFFICES ASSUME NEW i \in 1..Len(to'[q]), to'[q][i].type = "init"
                 PROVE  i = 1 /\ ~router[q].init
      OBVIOUS
    <3>1. i \in 1..Len(to[q]) /\ to'[q][i] = to[q][i]
      BY <1>2, <2>1 DEF Grown
    <3> QED BY <3>1 DEF BootAt
  <2> QED BY <1>2, <2>2 DEF BootAt
<1> QED BY <1>1, <1>2 DEF Heard

LEMMA BootConnect ==
  ASSUME TypeOK, BootInv, NEW p \in Pages, Connect(p) PROVE BootInv'
<1>1. Msg("init", conn.state, None) \in Messages
  BY Made DEF TypeOK
<1>2. /\ port[p] = "opening"
      /\ port' = [port EXCEPT ![p] = "open"]
      /\ conn' = IF conn.there THEN [conn EXCEPT !.ports = @ \cup {p}] ELSE conn
      /\ to' = Post({p}, Msg("init", conn.state, None))
      /\ UNCHANGED <<role, noWebRtc, pcs, overlaid, closer, phase, router, entry, status,
                     ad, form, from, starts, talk, shown>>
  BY DEF Connect
<1>3. /\ phase[p] # "gone" => Grown(to'[p], to[p], Msg("init", conn.state, None))
      /\ phase[p] = "gone" => to'[p] = to[p]
      /\ \A q \in Pages : q # p => to'[q] = to[q]
  <2>1. {p} \in SUBSET Pages
    OBVIOUS
  <2>2. /\ \A q \in Pages : q \in {p} /\ phase[q] # "gone" =>
               Grown(to'[q], to[q], Msg("init", conn.state, None))
        /\ \A q \in Pages : ~(q \in {p} /\ phase[q] # "gone") => to'[q] = to[q]
    BY <1>1, <1>2, <2>1, PostFacts
  <2> QED BY <2>2
<1>4. port \in [Pages -> {"none", "opening", "open", "failed"}] /\ conn \in Conns
  BY TypeParts DEF BootType, WorkerType
<1>5. ASSUME NEW q \in Pages, q # p PROVE BootAt(q)'
  <2>1. q \in conn'.ports => q \in conn.ports
    BY <1>2, <1>4, <1>5 DEF Conns
  <2> QED BY <1>2, <1>3, <1>4, <1>5, <2>1, BootElsewhere DEF BootInv, Heard
<1>6. BootAt(p)'
  <2>1. BootAt(p)
    BY DEF BootInv
  <2>2. to[p] = <<>> /\ ~router[p].init /\ phase[p] # "unborn"
    BY <1>2, <2>1 DEF BootAt
  <2>3. \A i \in 1..Len(to'[p]) : i = 1
    <3>1. Len(to[p]) = 0
      BY <2>2
    <3>2. Len(to'[p]) \in {0, 1}
      BY <1>3, <2>2, <3>1 DEF Grown
    <3>3. \A n \in {0, 1} : \A i \in 1..n : i = 1
      OBVIOUS
    <3> QED BY <3>2, <3>3
  <2>4. phase[p] = "gone" => to'[p] = <<>>
    BY <1>3, <2>2
  <2> QED BY <1>2, <1>4, <2>1, <2>2, <2>3, <2>4 DEF BootAt
<1>7. \A k \in Attempts : pcs'[k].st # "none" => port'[pcs'[k].by] = "open"
  <2>1. \A k \in Attempts : pcs[k].st # "none" => pcs[k].by \in Pages
    BY DEF TypeOK
  <2> QED BY <1>2, <1>4, <2>1 DEF BootInv
<1>8. ~conn'.there => conn' = NoConn
  BY <1>2, <1>4 DEF BootInv, Conns
<1> QED BY <1>5, <1>6, <1>7, <1>8 DEF BootInv

\* What a step of page p alone has to show.
LEMMA BootHere ==
  ASSUME TypeOK, BootInv, NEW p \in Pages, BootAt(p)',
         UNCHANGED <<conn, pcs>>, port[p] = "open" => port'[p] = "open",
         \A q \in Pages : q # p =>
           /\ phase'[q] = phase[q] /\ port'[q] = port[q] /\ router'[q] = router[q]
           /\ entry'[q] = entry[q] /\ status'[q] = status[q] /\ ad'[q] = ad[q]
           /\ from'[q] = from[q] /\ to'[q] = to[q]
  PROVE  BootInv'
<1>1. ASSUME NEW q \in Pages, q # p PROVE BootAt(q)'
  BY <1>1, BootElsewhere DEF BootInv, Heard
<1>2. \A k \in Attempts : pcs[k].st # "none" => pcs[k].by \in Pages
  BY DEF TypeOK
<1> QED BY <1>1, <1>2 DEF BootInv

LEMMA BootBoot ==
  ASSUME TypeOK, BootInv, NEW p \in Pages,
         \/ OpenPage(p) \/ LoadError(p) \/ BootTimeout(p) \/ LoadSessions(p)
  PROVE  BootInv'
<1>1. BootAt(p) /\ BootType
  BY TypeParts DEF BootInv
<1>2. CASE OpenPage(p)
  <2>1. BootAt(p)'
    BY <1>1, <1>2 DEF BootType, BootAt, OpenPage, workerVars
  <2>2. /\ UNCHANGED <<conn, pcs, router, entry, status, ad, from, to>> /\ port[p] # "open"
        /\ \A q \in Pages : q # p => phase'[q] = phase[q] /\ port'[q] = port[q]
    BY <1>1, <1>2 DEF BootType, OpenPage, workerVars, BootAt
  <2> QED BY <2>1, <2>2, BootHere
<1>3. CASE LoadError(p)
  <2>1. BootAt(p)'
    BY <1>1, <1>3 DEF BootType, BootAt, LoadError, workerVars
  <2>2. /\ UNCHANGED <<conn, pcs, phase, entry, status, ad, from, to>> /\ port[p] # "open"
        /\ \A q \in Pages : q # p => router'[q] = router[q] /\ port'[q] = port[q]
    BY <1>1, <1>3 DEF BootType, LoadError, workerVars
  <2> QED BY <2>1, <2>2, BootHere
<1>4. CASE BootTimeout(p)
  <2>1. BootAt(p)'
    BY <1>1, <1>4 DEF BootType, BootAt, BootTimeout, workerVars
  <2>2. /\ UNCHANGED <<conn, pcs, port, entry, status, ad, from, to>>
        /\ \A q \in Pages : q # p => router'[q] = router[q] /\ phase'[q] = phase[q]
    BY <1>1, <1>4 DEF BootType, BootTimeout, workerVars
  <2> QED BY <2>1, <2>2, BootHere
<1>5. CASE LoadSessions(p)
  <2>1. BootAt(p)'
    BY <1>1, <1>5 DEF BootType, BootAt, LoadSessions, workerVars
  <2>2. /\ UNCHANGED <<conn, pcs, port, router, status, ad, from, to>>
        /\ \A q \in Pages : q # p => entry'[q] = entry[q] /\ phase'[q] = phase[q]
    BY <1>1, <1>5 DEF BootType, LoadSessions, workerVars
  <2> QED BY <2>1, <2>2, BootHere
<1> QED BY <1>2, <1>3, <1>4, <1>5

\* Messages that a page has taken are gone.
LEMMA BootTaken ==
  ASSUME TypeOK, NEW p \in Pages, BootAt(p), Shrunk(to'[p], to[p])
  PROVE  \A i \in 1..Len(to'[p]) : to'[p][i].type # "init"
<1>1. Len(to[p]) \in Nat
  BY Typed
<1> SUFFICES ASSUME NEW i \in 1..Len(to'[p]) PROVE to'[p][i].type # "init"
  OBVIOUS
<1>2. i + 1 \in 1..Len(to[p]) /\ to'[p][i] = to[p][i + 1] /\ i + 1 # 1
  BY <1>1 DEF Shrunk
<1> QED BY <1>2 DEF BootAt

\* boot asks for the connections before it has a session: it finds none.
LEMMA ReceiveInitFacts ==
  ASSUME TypeOK, NEW p \in Pages, BootAt(p), ReceiveInit(p)
  PROVE  /\ UNCHANGED <<workerVars, port, entry, form, starts, talk, shown, ad, status, from>>
         /\ router' = [router EXCEPT ![p] =
                         [init |-> TRUE, dead |-> router[p].dead \/ noWebRtc]]
         /\ phase' = [phase EXCEPT ![p] = IF @ = "booting" THEN "loading" ELSE @]
         /\ Take(p, "init")
BY DEF BootAt, ReceiveInit

LEMMA BootReceive == ASSUME TypeOK, BootInv, NEW p \in Pages, Receive(p) PROVE BootInv'
<1>1. BootAt(p) /\ BootType /\ UseType
  BY TypeParts DEF BootInv
<1>2. ASSUME NEW type, Take(p, type)
      PROVE  /\ Shrunk(to'[p], to[p]) /\ \A q \in Pages : q # p => to'[q] = to[q]
             /\ \A i \in 1..Len(to'[p]) : to'[p][i].type # "init"
             /\ to[p] # <<>> /\ phase[p] # "gone" /\ port[p] = "open"
             /\ to[p][1].type = type /\ 1 \in 1..Len(to[p])
  <2>1. /\ Shrunk(to'[p], to[p]) /\ \A q \in Pages : q # p => to'[q] = to[q]
        /\ phase[p] # "gone" /\ to[p][1].type = type /\ 1 \in 1..Len(to[p])
    BY <1>2, TakeFacts
  <2>2. to[p] # <<>>
    BY <2>1 DEF Shrunk
  <2> QED BY <1>1, <2>1, <2>2, BootTaken DEF BootAt
<1>3. CASE ReceiveInit(p)
  <2>1. /\ UNCHANGED <<conn, pcs, port, entry, ad, status, from>>
        /\ router' = [router EXCEPT ![p] = [init |-> TRUE, dead |-> router[p].dead \/ noWebRtc]]
        /\ phase' = [phase EXCEPT ![p] = IF @ = "booting" THEN "loading" ELSE @]
        /\ Take(p, "init")
    BY <1>1, <1>3, ReceiveInitFacts DEF workerVars
  <2>2. ~router[p].init
    BY <1>1, <1>2, <2>1 DEF BootAt
  <2>3. /\ router'[p].init
        /\ phase'[p] = IF phase[p] = "booting" THEN "loading" ELSE phase[p]
        /\ \A q \in Pages : q # p => router'[q] = router[q] /\ phase'[q] = phase[q]
    BY <1>1, <2>1 DEF BootType
  <2>4. BootAt(p)'
    BY <1>1, <1>2, <2>1, <2>2, <2>3 DEF BootAt
  <2> QED BY <1>2, <2>1, <2>3, <2>4, BootHere
<1>4. CASE ReceiveState(p)
  <2>1. /\ Take(p, "state")
        /\ UNCHANGED <<conn, pcs, phase, port, router, entry, from>>
        /\ \A q \in Pages : q # p => ad'[q] = ad[q] /\ status'[q] = status[q]
        /\ ad'[p].on = ad[p].on /\ ad'[p].own = ad[p].own
        /\ status[p] = "disconnected" => status'[p] = "disconnected"
    BY <1>1, <1>4 DEF ReceiveState, Listener, UseType, workerVars, Adapters
  <2>2. BootAt(p)'
    BY <1>1, <1>2, <2>1 DEF BootAt
  <2> QED BY <1>2, <2>1, <2>2, BootHere
<1>5. CASE ReceiveDescription(p)
  <2>1. /\ Take(p, "description")
        /\ UNCHANGED <<conn, pcs, phase, port, router, entry, from>>
        /\ \A q \in Pages : q # p => ad'[q] = ad[q] /\ status'[q] = status[q]
        /\ ad'[p].on = ad[p].on /\ ad'[p].own = ad[p].own
        /\ ~ad[p].on => status'[p] = status[p]
    BY <1>1, <1>5 DEF ReceiveDescription, UseType, workerVars, Adapters
  <2>2. BootAt(p)'
    BY <1>1, <1>2, <2>1 DEF BootAt
  <2> QED BY <1>2, <2>1, <2>2, BootHere
<1>6. CASE ReceiveError(p)
  <2>1. /\ Take(p, "error")
        /\ UNCHANGED <<conn, pcs, phase, port, router, entry, from, status>>
        /\ \A q \in Pages : q # p => ad'[q] = ad[q]
        /\ ad'[p].on = ad[p].on /\ ad'[p].own = ad[p].own
    BY <1>1, <1>6 DEF ReceiveError, UseType, workerVars, Adapters
  <2>2. BootAt(p)'
    BY <1>1, <1>2, <2>1 DEF BootAt
  <2> QED BY <1>2, <2>1, <2>2, BootHere
<1> QED BY <1>3, <1>4, <1>5, <1>6 DEF Receive

LEMMA BootClosePage == ASSUME TypeOK, BootInv, NEW p \in Pages, ClosePage(p) PROVE BootInv'
<1>1. BootAt(p) /\ BootType /\ UseType /\ QueueType
  BY TypeParts DEF BootInv
<1>2. /\ phase[p] # "gone" /\ phase'[p] = "gone" /\ ~entry'[p] /\ status'[p] = "disconnected"
      /\ ~ad'[p].on /\ to'[p] = <<>> /\ Len(to'[p]) = 0
      /\ UNCHANGED <<conn, pcs, port, router, from>>
      /\ \A q \in Pages : q # p =>
           /\ phase'[q] = phase[q] /\ entry'[q] = entry[q] /\ status'[q] = status[q]
           /\ ad'[q] = ad[q] /\ to'[q] = to[q]
  BY <1>1 DEF ClosePage, BootType, UseType, QueueType, workerVars, NoAdapter
<1>3. BootAt(p)'
  BY <1>1, <1>2 DEF BootAt
<1> QED BY <1>2, <1>3, BootHere

\* What the user does on a page adds commands that are no subscription.
LEMMA BootUser ==
  ASSUME TypeOK, BootInv, NEW p \in Pages,
         \/ StartConnection(p) \/ FinalizeReconnect(p) \/ Disconnect(p) \/ DeleteSession(p)
         \/ Send(p)
  PROVE  BootInv'
<1>1. BootAt(p) /\ BootType /\ UseType /\ QueueType
  BY TypeParts DEF BootInv
<1>2. /\ Using(p) /\ UNCHANGED <<conn, pcs, phase, port, router, to>>
      /\ \A q \in Pages : q # p => /\ entry'[q] = entry[q] /\ status'[q] = status[q]
                                   /\ ad'[q] = ad[q]
      /\ ad'[p].on => ad'[p].own # None
      /\ status'[p] # "disconnected" => ad'[p].on
  <2>1. CASE StartConnection(p)
    <3>1. starts + 1 \in Attempts
      BY <2>1, StartFacts
    <3>2. starts + 1 # None
      BY <3>1, BoundsAssumption
    <3> QED BY <1>1, <2>1, <3>2 DEF StartConnection, UseType, NoAdapter, workerVars
  <2>2. CASE FinalizeReconnect(p)
    BY <1>1, <2>2 DEF FinalizeReconnect, UseType, workerVars, BootAt, Adapters
  <2>3. CASE Disconnect(p)
    BY <1>1, <2>3 DEF Disconnect, UseType, NoAdapter, workerVars
  <2>4. CASE DeleteSession(p)
    BY <1>1, <2>4 DEF DeleteSession, UseType, BootType, NoAdapter, workerVars
  <2>5. CASE Send(p)
    BY <1>1, <2>5 DEF Send, pageVars, workerVars, BootAt
  <2> QED BY <2>1, <2>2, <2>3, <2>4, <2>5
<1>3. /\ \A q \in Pages : q # p => from'[q] = from[q]
      /\ \A i \in 1..Len(from'[p]) : from'[p][i].cmd # "subscribe"
  <2>1. ASSUME NEW c \in Commands, c.cmd # "subscribe", Grown(from'[p], from[p], c)
        PROVE  \A i \in 1..Len(from'[p]) : from'[p][i].cmd # "subscribe"
    <3>1. Len(from[p]) \in Nat
      BY Typed
    <3>2. \A i \in 1..Len(from'[p]) : i \in 1..Len(from[p]) \/ i = Len(from[p]) + 1
      BY <2>1, <3>1 DEF Grown
    <3> QED BY <1>1, <2>1, <3>2 DEF Grown, BootAt
  <2>2. CASE StartConnection(p)
    <3>1. Len(from[p]) \in Nat
      BY Typed
    <3>2. CASE ~ad[p].on
      <4>1. Cmd("start", starts + 1) \in Commands /\ Cmd("start", starts + 1).cmd = "start"
        BY <2>2, StartFacts, Made
      <4> QED BY <2>1, <2>2, <3>2, <4>1, StartFacts
    <3>3. CASE ad[p].on
      <4>1. \A i \in 1..Len(from'[p]) :
              \/ i \in 1..Len(from[p]) /\ from'[p][i] = from[p][i]
              \/ from'[p][i] \in {Cmd("close", None), Cmd("start", starts + 1)}
        <5>1. /\ Len(from'[p]) = Len(from[p]) + 2
              /\ from'[p][Len(from[p]) + 1] = Cmd("close", None)
              /\ from'[p][Len(from[p]) + 2] = Cmd("start", starts + 1)
              /\ \A i \in 1..Len(from[p]) : from'[p][i] = from[p][i]
          BY <2>2, <3>3, StartFacts
        <5>2. \A i \in 1..Len(from'[p]) :
                i \in 1..Len(from[p]) \/ i = Len(from[p]) + 1 \/ i = Len(from[p]) + 2
          BY <3>1, <5>1
        <5> QED BY <5>1, <5>2
      <4>2. Cmd("close", None).cmd = "close" /\ Cmd("start", starts + 1).cmd = "start"
        BY Made
      <4>3. \A i \in 1..Len(from'[p]) : from'[p][i].cmd # "subscribe"
        BY <1>1, <4>1, <4>2 DEF BootAt
      <4> QED BY <2>2, <4>3, StartFacts
    <3> QED BY <2>2, <3>2, <3>3, StartFacts
  <2>3. CASE FinalizeReconnect(p)
    <3>1. PICK k \in shown : from' = [from EXCEPT ![p] = Append(@, Cmd("answer", k))]
      BY <2>3 DEF FinalizeReconnect
    <3>2. Cmd("answer", k) \in Commands /\ Cmd("answer", k).cmd = "answer"
      BY Made DEF TypeOK
    <3> QED BY <2>1, <3>1, <3>2, SaysFacts
  <2>4. CASE Disconnect(p) \/ DeleteSession(p)
    <3>1. Cmd("close", None) \in Commands /\ Cmd("close", None).cmd = "close"
      BY Made
    <3>2. \/ from' = [from EXCEPT ![p] = Append(@, Cmd("close", None))]
          \/ from' = from
      BY <2>4 DEF Disconnect, DeleteSession
    <3>3. CASE from' = from
      BY <1>1, <3>3 DEF BootAt
    <3>4. CASE from' = [from EXCEPT ![p] = Append(@, Cmd("close", None))]
      BY <2>1, <3>1, <3>4, SaysFacts
    <3> QED BY <3>2, <3>3, <3>4
  <2>5. CASE Send(p)
    <3>1. Cmd("send", None) \in Commands /\ Cmd("send", None).cmd = "send"
      BY Made
    <3>2. from' = [from EXCEPT ![p] = Append(@, Cmd("send", None))]
      BY <2>5 DEF Send
    <3> QED BY <2>1, <3>1, <3>2, SaysFacts
  <2> QED BY <2>2, <2>3, <2>4, <2>5
<1>4. BootAt(p)'
  BY <1>1, <1>2, <1>3 DEF BootAt, Using, Alive
<1> QED BY <1>2, <1>3, <1>4, BootHere

\* The worker posts to no page whose port it has not opened, and no init message but
\* when it opens it.
LEMMA PostHeard ==
  ASSUME TypeOK, BootInv, NEW P \in SUBSET Pages, NEW m \in Messages, m.type # "init",
         to' = Post(P, m) \/ to' = to
  PROVE  \A q \in Pages : Heard(q) /\ (q \notin P => to'[q] = to[q])
<1>1. CASE to' = to
  BY <1>1 DEF Heard
<1>2. CASE to' = Post(P, m)
  <2>1. \A q \in Pages : \/ to'[q] = to[q]
                         \/ phase[q] # "gone" /\ Grown(to'[q], to[q], m)
    BY <1>2, PostFacts
  <2> QED BY <1>2, <2>1, PostFacts DEF Heard
<1> QED BY <1>1, <1>2

\* The ports of the session, the page of a command and the page of a connection
\* are open.
LEMMA PortsOpen ==
  ASSUME TypeOK, BootInv
  PROVE  /\ \A q \in conn.ports : q \in Pages /\ port[q] = "open"
         /\ \A k \in Attempts : pcs[k].st # "none" =>
              pcs[k].by \in Pages /\ port[pcs[k].by] = "open"
BY TypeParts DEF WorkerType, Conns, BootInv, BootAt

\* A step of the worker that adds no port, and no connection, but of a page whose port
\* is open.
LEMMA BootWorker ==
  ASSUME TypeOK, BootInv, UNCHANGED pageVars,
         \A q \in Pages : /\ Heard(q)
                          /\ port[q] # "open" => to'[q] = to[q]
                          /\ q \in conn'.ports => port[q] = "open"
                          /\ from'[q] = from[q] \/ Shrunk(from'[q], from[q]),
         \A k \in Attempts : pcs'[k].st # "none" => port[pcs'[k].by] = "open",
         ~conn'.there => conn' = NoConn
  PROVE  BootInv'
<1>1. ASSUME NEW q \in Pages PROVE BootAt(q)'
  <2>1. CASE from'[q] = from[q]
    BY <2>1, BootElsewhere DEF pageVars, BootInv
  <2>2. CASE Shrunk(from'[q], from[q])
    <3>1. Len(from[q]) \in Nat /\ BootAt(q) /\ Len(to[q]) \in Nat
      BY Typed DEF BootInv
    <3>2. \A i \in 1..Len(from'[q]) : from'[q][i].cmd # "subscribe"
      <4> TAKE i \in 1..Len(from'[q])
      <4>1. i + 1 \in 1..Len(from[q]) /\ from'[q][i] = from[q][i + 1]
        BY <2>2, <3>1 DEF Shrunk
      <4> QED BY <3>1, <4>1 DEF BootAt
    <3>3. from[q] # <<>>
      BY <2>2 DEF Shrunk
    <3>4. \A i \in 1..Len(to'[q]) : to'[q][i].type = "init" => i = 1 /\ ~router[q].init
      <4>1. CASE to'[q] = to[q]
        BY <3>1, <4>1 DEF BootAt
      <4>2. ASSUME NEW m \in Messages, m.type # "init", Grown(to'[q], to[q], m)
            PROVE  \A i \in 1..Len(to'[q]) :
                     to'[q][i].type = "init" => i = 1 /\ ~router[q].init
        <5> TAKE i \in 1..Len(to'[q])
        <5>1. i \in 1..Len(to[q]) \/ i = Len(to[q]) + 1
          BY <3>1, <4>2 DEF Grown
        <5> QED BY <3>1, <4>2, <5>1 DEF Grown, BootAt
      <4> QED BY <4>1, <4>2 DEF Heard
    <3>5. phase[q] = "gone" => to'[q] = to[q]
      BY DEF Heard
    <3> QED BY <3>1, <3>2, <3>3, <3>4, <3>5 DEF pageVars, BootAt
  <2> QED BY <2>1, <2>2
<1> QED BY <1>1 DEF BootInv, pageVars

LEMMA BootWork == ASSUME TypeOK, BootInv, NEW p \in Pages, Work(p) PROVE BootInv'
<1>1. ASSUME NEW cmd, Handle(p, cmd)
      PROVE  /\ port[p] = "open" /\ from[p][1].cmd = cmd /\ from[p][1].cmd # "subscribe"
             /\ \A q \in Pages : from'[q] = from[q] \/ Shrunk(from'[q], from[q])
  BY <1>1, HandleFacts DEF BootInv, BootAt
<1>2. {p} \in SUBSET Pages /\ conn.ports \cup {p} \in SUBSET Pages
  BY TypeParts DEF WorkerType, Conns
<1>3. CASE HandleStart(p)
  <2>1. PICK k \in Attempts :
          /\ conn'.there /\ conn'.ports = conn.ports \cup {p}
          /\ pcs' = [pcs EXCEPT ![k] = [st |-> "gathering", by |-> p, obj |-> conn'.obj,
                                        busy |-> TRUE]]
          /\ to' = IF conn.state = "connecting" THEN to
                   ELSE Post(conn.ports \cup {p}, Msg("state", "connecting", None))
          /\ UNCHANGED pageVars
    BY <1>3, HandleStartFacts
  <2>2. Msg("state", "connecting", None) \in Messages
        /\ Msg("state", "connecting", None).type # "init"
    BY Made DEF States
  <2>3. Handle(p, "start")
    BY <1>3 DEF HandleStart
  <2>4. \A q \in Pages : Heard(q) /\ (q \notin conn.ports \cup {p} => to'[q] = to[q])
    BY <1>2, <2>1, <2>2, PostHeard
  <2>5. \A j \in Attempts : pcs'[j].st # "none" => port[pcs'[j].by] = "open"
    BY <1>1, <2>1, <2>3, PortsOpen, TypeParts DEF WorkerType
  <2> QED BY <1>1, <2>1, <2>3, <2>4, <2>5, PortsOpen, BootWorker
<1>4. CASE HandleAnswer(p)
  <2>1. /\ \A j \in Attempts : /\ pcs'[j].by = pcs[j].by
                               /\ pcs'[j].st # "none" => pcs[j].st # "none"
        /\ to' = to \/ to' = Post({p}, Msg("error", "none", None))
        /\ UNCHANGED <<conn, pageVars>>
    BY <1>4, HandleAnswerFacts
  <2>2. Handle(p, "answer")
    BY <1>4 DEF HandleAnswer
  <2>3. Msg("error", "none", None) \in Messages /\ Msg("error", "none", None).type # "init"
    BY Made
  <2>4. \A q \in Pages : Heard(q) /\ (q # p => to'[q] = to[q])
    BY <1>2, <2>1, <2>3, PostHeard
  <2> QED BY <1>1, <2>1, <2>2, <2>4, PortsOpen, BootWorker DEF BootInv
<1>5. CASE HandleClose(p)
  <2>1. /\ \A j \in Attempts : /\ pcs'[j].by = pcs[j].by
                               /\ pcs'[j].st # "none" => pcs[j].st # "none" \/ j = conn.pc
        /\ conn' = NoConn
        /\ UNCHANGED <<to, pageVars>>
    BY <1>5, HandleCloseFacts
  <2>2. Handle(p, "close")
    BY <1>5 DEF HandleClose
  <2>3. \A j \in Attempts : pcs'[j].st # "none" => pcs[j].st # "none"
    BY <2>1, BoundsAssumption DEF TypeOK
  <2> QED BY <1>1, <2>1, <2>2, <2>3, PortsOpen, BootWorker DEF NoConn, Heard
<1>6. CASE HandleOther(p)
  <2>1. /\ Handle(p, from[p][1].cmd)
        /\ from[p][1].cmd # "subscribe" => conn' = conn /\ to' = to
        /\ UNCHANGED <<pcs, pageVars>>
    BY <1>6, HandleOtherFacts
  <2> QED BY <1>1, <2>1, PortsOpen, BootWorker DEF Heard, BootInv
<1> QED BY <1>3, <1>4, <1>5, <1>6 DEF Work

LEMMA BootEvent == ASSUME TypeOK, BootInv, NumberInv, NEW k \in Attempts, Event(k) PROVE BootInv'
<1>1. CASE Described(k) \/ DescriptionFails(k)
  <2>1. PICK m \in {Msg("description", "none", k), Msg("error", "none", None)} :
          to' = Post({pcs[k].by} \cap Pages, m) /\ m \in Messages
    BY <1>1, DescribedFacts
  <2>2. /\ \A j \in Attempts : /\ pcs'[j].by = pcs[j].by
                               /\ pcs'[j].st # "none" => pcs[j].st # "none"
        /\ pcs[k].busy
        /\ UNCHANGED <<conn, from, pageVars>>
    BY <1>1, DescribedFacts
  <2>3. pcs[k].st # "none"
    BY <2>2 DEF NumberInv
  <2>4. m.type # "init" /\ {pcs[k].by} \cap Pages \in SUBSET Pages
    BY <2>1, Made
  <2>5. \A q \in Pages : Heard(q) /\ (q # pcs[k].by => to'[q] = to[q])
    BY <2>1, <2>4, PostHeard
  <2> QED BY <2>2, <2>3, <2>5, PortsOpen, BootWorker DEF BootInv
<1>2. CASE ChannelOpens(k) \/ ChannelLost(k) \/ Reported(k)
  <2>1. /\ \A j \in Attempts : /\ pcs'[j].by = pcs[j].by
                               /\ pcs'[j].st # "none" => pcs[j].st # "none"
        /\ conn'.there = conn.there /\ conn'.ports = conn.ports /\ (~conn.there => conn' = conn)
        /\ UNCHANGED <<from, pageVars>>
    BY <1>2, EventFacts
  <2>2. PICK s \in {"connected", "disconnected"} :
          to' = to \/ to' = Post(conn.ports, Msg("state", s, None))
    BY <1>2 DEF ChannelOpens, ChannelLost, Reported, SetState
  <2>3. /\ Msg("state", s, None) \in Messages /\ Msg("state", s, None).type # "init"
        /\ conn.ports \in SUBSET Pages
    BY Made, TypeParts DEF States, WorkerType, Conns
  <2>4. \A q \in Pages : Heard(q) /\ (q \notin conn.ports => to'[q] = to[q])
    BY <2>2, <2>3, PostHeard
  <2> QED BY <2>1, <2>4, PortsOpen, BootWorker DEF BootInv
<1> QED BY <1>1, <1>2 DEF Event

-----------------------------------------------------------------------------
(* What the steps do, in the terms of the invariants *)

\* Steps that leave the commands of the pages, and who holds a connection, alone.
QuietStep ==
  \/ \E p \in Pages : Connect(p) \/ LoadError(p) \/ Boot(p) \/ Receive(p) \/ OpenPage(p)
  \/ \E k \in Attempts : Event(k)
  \/ UNCHANGED vars

\* What they and the commands other than start and close leave.
Stays ==
  /\ UNCHANGED <<role, starts, overlaid, closer>>
  /\ conn'.there = conn.there /\ conn'.pc = conn.pc /\ conn'.obj = conn.obj
  /\ \A k \in Attempts : /\ pcs'[k].by = pcs[k].by /\ pcs'[k].obj = pcs[k].obj
                         /\ pcs'[k].st # "none" <=> pcs[k].st # "none"
                         /\ pcs'[k].busy => pcs[k].busy
                         /\ pcs'[k].st \in Live => pcs[k].st \in Live

SameOwner(q) ==
  /\ ad'[q].on = ad[q].on /\ ad'[q].own = ad[q].own /\ ad'[q].clean = ad[q].clean
  /\ phase'[q] = "gone" <=> phase[q] = "gone"

LEMMA PcsStay == UNCHANGED pcs =>
  \A k \in Attempts : /\ pcs'[k].by = pcs[k].by /\ pcs'[k].obj = pcs[k].obj
                      /\ pcs'[k].st # "none" <=> pcs[k].st # "none"
                      /\ pcs'[k].busy => pcs[k].busy
                      /\ pcs'[k].st \in Live => pcs[k].st \in Live
OBVIOUS

LEMMA QuietFacts ==
  ASSUME TypeOK, BootInv, QuietStep
  PROVE  /\ Stays /\ UNCHANGED from
         /\ \A q \in Pages : SameOwner(q)
<1>1. /\ BootType /\ UseType /\ conn \in Conns /\ pcs \in [Attempts -> Pcs]
      /\ \A q \in Pages : BootAt(q)
  BY TypeParts DEF BootInv, WorkerType
<1>2. CASE UNCHANGED vars
  BY <1>2, PcsStay DEF vars, workerVars, pageVars, Stays, SameOwner
<1>3. ASSUME NEW p \in Pages, Connect(p)
      PROVE  Stays /\ UNCHANGED from /\ \A q \in Pages : SameOwner(q)
  <2>1. /\ conn' = conn \/ conn' = [conn EXCEPT !.ports = @ \cup {p}]
        /\ UNCHANGED <<role, noWebRtc, pcs, overlaid, closer, phase, router, entry, status,
                       ad, form, from, starts, talk, shown>>
    BY <1>3 DEF Connect
  <2>2. conn'.there = conn.there /\ conn'.pc = conn.pc /\ conn'.obj = conn.obj
    BY <1>1, <2>1 DEF Conns
  <2> QED BY <2>1, <2>2, PcsStay DEF Stays, SameOwner
<1>4. ASSUME NEW p \in Pages, OpenPage(p) \/ LoadError(p) \/ Boot(p)
      PROVE  Stays /\ UNCHANGED from /\ \A q \in Pages : SameOwner(q)
  <2>1. /\ UNCHANGED <<workerVars, ad, from, starts>>
        /\ \A q \in Pages : phase'[q] = "gone" <=> phase[q] = "gone"
    BY <1>1, <1>4 DEF OpenPage, LoadError, Boot, BootTimeout, LoadSessions, BootType
  <2> QED BY <2>1, PcsStay DEF Stays, SameOwner, workerVars
<1>5. ASSUME NEW p \in Pages, Receive(p)
      PROVE  Stays /\ UNCHANGED from /\ \A q \in Pages : SameOwner(q)
  <2>1. CASE ReceiveInit(p)
    <3>1. /\ UNCHANGED <<workerVars, ad, from, starts>>
          /\ phase' = [phase EXCEPT ![p] = IF @ = "booting" THEN "loading" ELSE @]
      BY <1>1, <2>1, ReceiveInitFacts
    <3>2. \A q \in Pages : phase'[q] = "gone" <=> phase[q] = "gone"
      BY <1>1, <3>1 DEF BootType
    <3> QED BY <3>1, <3>2, PcsStay DEF Stays, SameOwner, workerVars
  <2>2. CASE ReceiveState(p)
    <3>1. /\ UNCHANGED <<workerVars, phase, from, starts>>
          /\ ad' = ad \/ \E s : ad' = [ad EXCEPT ![p].state = s]
      BY <2>2 DEF ReceiveState
    <3>2. \A q \in Pages : SameOwner(q)
      BY <1>1, <3>1 DEF UseType, Adapters, SameOwner
    <3> QED BY <3>1, <3>2, PcsStay DEF Stays, workerVars
  <2>3. CASE ReceiveDescription(p)
    <3>1. /\ UNCHANGED <<workerVars, phase, from, starts>>
          /\ \/ ad' = ad
             \/ \E k, w : ad' = [ad EXCEPT ![p].waiting = FALSE, ![p].got = k, ![p].wired = w]
      BY <2>3 DEF ReceiveDescription
    <3>2. \A q \in Pages : SameOwner(q)
      <4>1. CASE ad' = ad
        BY <3>1, <4>1 DEF SameOwner
      <4>2. ASSUME NEW k, NEW w,
                   ad' = [ad EXCEPT ![p].waiting = FALSE, ![p].got = k, ![p].wired = w]
            PROVE  \A q \in Pages : SameOwner(q)
        <5>1. ad' = [ad EXCEPT ![p] = [ad[p] EXCEPT !.waiting = FALSE, !.got = k, !.wired = w]]
          BY <1>1, <4>2 DEF UseType
        <5>2. /\ ad[p] \in Adapters
              /\ ad'[p] = [ad[p] EXCEPT !.waiting = FALSE, !.got = k, !.wired = w]
              /\ \A q \in Pages : q # p => ad'[q] = ad[q]
          BY <1>1, <5>1 DEF UseType
        <5>3. ad'[p].on = ad[p].on /\ ad'[p].own = ad[p].own /\ ad'[p].clean = ad[p].clean
          BY <5>2 DEF Adapters
        <5> QED BY <3>1, <5>2, <5>3 DEF SameOwner
      <4> QED BY <3>1, <4>1, <4>2
    <3> QED BY <3>1, <3>2, PcsStay DEF Stays, workerVars
  <2>4. CASE ReceiveError(p)
    <3>1. /\ UNCHANGED <<workerVars, phase, from, starts>>
          /\ ad' = [ad EXCEPT ![p].waiting = FALSE]
      BY <2>4 DEF ReceiveError
    <3>2. \A q \in Pages : SameOwner(q)
      BY <1>1, <3>1 DEF UseType, Adapters, SameOwner
    <3> QED BY <3>1, <3>2, PcsStay DEF Stays, workerVars
  <2> QED BY <1>5, <2>1, <2>2, <2>3, <2>4 DEF Receive
<1>6. ASSUME NEW k \in Attempts, Event(k)
      PROVE  Stays /\ UNCHANGED from /\ \A q \in Pages : SameOwner(q)
  <2>1. CASE Described(k) \/ DescriptionFails(k)
    <3>1. /\ \A j \in Attempts : pcs'[j].by = pcs[j].by /\ pcs'[j].obj = pcs[j].obj
          /\ \A j \in Attempts : j # k => pcs'[j] = pcs[j]
          /\ pcs[k].busy
          /\ pcs[k].st # "gathering" => pcs'[k].st = pcs[k].st
          /\ pcs[k].st = "gathering" => pcs'[k].st \in {"offered", "linked", "failed"}
          /\ UNCHANGED <<role, conn, overlaid, closer, pageVars, from, starts>>
      BY <2>1, DescribedFacts
    <3>2. \A j \in Attempts : /\ pcs'[j].st # "none" <=> pcs[j].st # "none"
                              /\ pcs'[j].busy => pcs[j].busy
                              /\ pcs'[j].st \in Live => pcs[j].st \in Live
      <4> TAKE j \in Attempts
      <4>1. CASE j = k
        BY <3>1, <4>1 DEF Live
      <4>2. CASE j # k
        BY <3>1, <4>2
      <4> QED BY <4>1, <4>2
    <3> QED BY <3>1, <3>2 DEF Stays, SameOwner, pageVars
  <2>2. CASE ChannelOpens(k) \/ ChannelLost(k) \/ Reported(k)
    <3>1. /\ \A j \in Attempts : /\ pcs'[j].by = pcs[j].by /\ pcs'[j].obj = pcs[j].obj
                                 /\ pcs'[j].busy = pcs[j].busy
                                 /\ j # k => pcs'[j] = pcs[j]
          /\ conn'.there = conn.there /\ conn'.pc = conn.pc /\ conn'.obj = conn.obj
          /\ UNCHANGED <<role, overlaid, closer, pageVars, from, starts>>
      BY <2>2, EventFacts
    <3>2. /\ pcs[k].st # "none" /\ pcs'[k].st # "none"
          /\ pcs'[k].st \in Live => pcs[k].st \in Live
      BY <2>2, EventFacts
    <3>3. \A j \in Attempts : /\ pcs'[j].st # "none" <=> pcs[j].st # "none"
                              /\ pcs'[j].st \in Live => pcs[j].st \in Live
      <4> TAKE j \in Attempts
      <4>1. CASE j = k
        BY <3>2, <4>1 DEF Live
      <4>2. CASE j # k
        BY <3>1, <4>2
      <4> QED BY <4>1, <4>2
    <3> QED BY <3>1, <3>3 DEF Stays, SameOwner, pageVars
  <2> QED BY <1>6, <2>1, <2>2 DEF Event
<1> QED BY <1>2, <1>3, <1>4, <1>5, <1>6 DEF QuietStep

\* The commands other than start and close.
LEMMA HandledFacts ==
  ASSUME TypeOK, BootInv, NEW p \in Pages, HandleAnswer(p) \/ HandleOther(p)
  PROVE  /\ Stays /\ Shrunk(from'[p], from[p])
         /\ from[p][1].cmd \in {"answer", "send"} /\ 1 \in 1..Len(from[p])
         /\ \A q \in Pages : q # p => from'[q] = from[q]
         /\ \A q \in Pages : SameOwner(q)
         /\ UNCHANGED <<pageVars, shown>>
<1>1. CASE HandleAnswer(p)
  <2>1. /\ Shrunk(from'[p], from[p]) /\ from[p][1].cmd = "answer" /\ 1 \in 1..Len(from[p])
        /\ \A q \in Pages : q # p => from'[q] = from[q]
    BY <1>1, HandleFacts DEF HandleAnswer
  <2>2. /\ \A j \in Attempts : /\ pcs'[j].by = pcs[j].by /\ pcs'[j].obj = pcs[j].obj
                               /\ pcs'[j].busy = pcs[j].busy
                               /\ pcs[j].st \notin {"gathering", "offered"} => pcs'[j] = pcs[j]
                               /\ \/ pcs'[j] = pcs[j]
                                  \/ pcs'[j].st \in {"linked", "failed"}
        /\ UNCHANGED <<role, conn, overlaid, closer, pageVars, starts, shown>>
    BY <1>1, HandleAnswerFacts
  <2>3. \A j \in Attempts : /\ pcs'[j].st # "none" <=> pcs[j].st # "none"
                            /\ pcs'[j].st \in Live => pcs[j].st \in Live
    BY <2>2 DEF Live
  <2> QED BY <2>1, <2>2, <2>3 DEF Stays, SameOwner, pageVars
<1>2. CASE HandleOther(p)
  <2>1. /\ Handle(p, from[p][1].cmd)
        /\ from[p][1].cmd \in {"send", "subscribe"}
        /\ from[p][1].cmd # "subscribe" => conn' = conn /\ to' = to
        /\ UNCHANGED <<role, pcs, overlaid, closer, pageVars, starts, shown>>
    BY <1>2, HandleOtherFacts
  <2>2. /\ Shrunk(from'[p], from[p]) /\ 1 \in 1..Len(from[p])
        /\ \A q \in Pages : q # p => from'[q] = from[q]
    BY <2>1, HandleFacts
  <2>3. from[p][1].cmd = "send"
    BY <2>1, <2>2 DEF BootInv, BootAt
  <2> QED BY <2>1, <2>2, <2>3, PcsStay DEF Stays, SameOwner, pageVars
<1> QED BY <1>1, <1>2

\* The operations of a page that start nothing.
LEMMA UsedFacts ==
  ASSUME TypeOK, NEW p \in Pages,
         FinalizeReconnect(p) \/ Disconnect(p) \/ DeleteSession(p) \/ Send(p)
  PROVE  /\ UNCHANGED <<workerVars, starts, shown, to, phase>> /\ Stays
         /\ \A q \in Pages : q # p => /\ from'[q] = from[q] /\ ad'[q] = ad[q]
                                      /\ status'[q] = status[q]
         /\ phase[p] = "up"
         /\ \/ /\ \E c \in Commands : /\ c.cmd \in {"answer", "send"}
                                      /\ Grown(from'[p], from[p], c)
               /\ ad'[p] = ad[p] \/ ad'[p] = [ad[p] EXCEPT !.wired = TRUE]
               /\ status'[p] = status[p]
            \/ /\ ad'[p] = NoAdapter /\ status'[p] = "disconnected"
               /\ \/ Grown(from'[p], from[p], Cmd("close", None))
                  \/ ~ad[p].on /\ from'[p] = from[p]
<1>1. UseType /\ QueueType
  BY TypeParts
<1>2. /\ UNCHANGED <<workerVars, starts, shown, to, phase>> /\ phase[p] = "up"
  BY DEF FinalizeReconnect, Disconnect, DeleteSession, Send, Using, pageVars
<1>3. Stays
  BY <1>2, PcsStay DEF workerVars, Stays
<1>4. CASE FinalizeReconnect(p)
  <2>1. PICK k \in shown : from' = [from EXCEPT ![p] = Append(@, Cmd("answer", k))]
    BY <1>4 DEF FinalizeReconnect
  <2>2. /\ Cmd("answer", k) \in Commands /\ Cmd("answer", k).cmd = "answer"
    BY Made DEF TypeOK
  <2>3. /\ Grown(from'[p], from[p], Cmd("answer", k))
        /\ \A q \in Pages : q # p => from'[q] = from[q]
    BY <2>1, <2>2, SaysFacts
  <2>4. /\ ad' = [ad EXCEPT ![p].wired = TRUE] /\ status' = status
    BY <1>4 DEF FinalizeReconnect
  <2>5. ad'[p] = [ad[p] EXCEPT !.wired = TRUE] /\ \A q \in Pages : q # p => ad'[q] = ad[q]
    BY <1>1, <2>4 DEF UseType
  <2> QED BY <1>2, <1>3, <2>2, <2>3, <2>4, <2>5
<1>5. CASE Disconnect(p) \/ DeleteSession(p)
  <2>1. /\ \/ from' = [from EXCEPT ![p] = Append(@, Cmd("close", None))]
           \/ ~ad[p].on /\ from' = from
        /\ ad' = [ad EXCEPT ![p] = NoAdapter]
        /\ status' = [status EXCEPT ![p] = "disconnected"]
    BY <1>5 DEF Disconnect, DeleteSession
  <2>2. Cmd("close", None) \in Commands
    BY Made
  <2>3. /\ \/ Grown(from'[p], from[p], Cmd("close", None))
           \/ ~ad[p].on /\ from'[p] = from[p]
        /\ \A q \in Pages : q # p => from'[q] = from[q]
    BY <2>1, <2>2, SaysFacts
  <2>4. /\ ad'[p] = NoAdapter /\ status'[p] = "disconnected"
        /\ \A q \in Pages : q # p => ad'[q] = ad[q] /\ status'[q] = status[q]
    BY <1>1, <2>1 DEF UseType
  <2> QED BY <1>2, <1>3, <2>3, <2>4
<1>6. CASE Send(p)
  <2>1. /\ from' = [from EXCEPT ![p] = Append(@, Cmd("send", None))]
        /\ UNCHANGED <<ad, status>>
    BY <1>6 DEF Send, pageVars
  <2>2. Cmd("send", None) \in Commands /\ Cmd("send", None).cmd = "send"
    BY Made
  <2>3. /\ Grown(from'[p], from[p], Cmd("send", None))
        /\ \A q \in Pages : q # p => from'[q] = from[q]
    BY <2>1, <2>2, SaysFacts
  <2> QED BY <1>2, <1>3, <2>1, <2>2, <2>3
<1> QED BY <1>4, <1>5, <1>6

\* The adapter of a start.
LEMMA StartedFacts ==
  ASSUME TypeOK, NEW p \in Pages, StartConnection(p)
  PROVE  /\ starts' = starts + 1
         /\ UNCHANGED <<workerVars, to, phase, shown, status>>
         /\ phase[p] = "up" /\ status[p] = "disconnected"
         /\ ad'[p].on /\ ad'[p].own = starts + 1 /\ ad'[p].got = None /\ ad'[p].waiting
         /\ ad'[p].clean = NothingUnderWay(p) /\ ad'[p].state = "new" /\ ~ad'[p].wired
         /\ \A q \in Pages : q # p => ad'[q] = ad[q]
<1>1. UseType
  BY TypeParts
<1>2. /\ starts' = starts + 1
      /\ ad' = [ad EXCEPT ![p] = [NoAdapter EXCEPT !.on = TRUE, !.own = starts + 1,
                                                   !.waiting = TRUE,
                                                   !.clean = NothingUnderWay(p)]]
      /\ UNCHANGED <<workerVars, to, phase, shown, status>>
      /\ phase[p] = "up" /\ status[p] = "disconnected"
  BY DEF StartConnection, Using
<1> QED BY <1>1, <1>2 DEF UseType, NoAdapter

LEMMA LeftFacts ==
  ASSUME TypeOK, NEW p \in Pages, ClosePage(p)
  PROVE  /\ UNCHANGED <<workerVars, starts, shown, from>> /\ Stays
         /\ ad'[p] = NoAdapter /\ phase'[p] = "gone" /\ to'[p] = <<>>
         /\ status'[p] = "disconnected"
         /\ \A q \in Pages : q # p => /\ ad'[q] = ad[q] /\ phase'[q] = phase[q]
                                      /\ to'[q] = to[q] /\ status'[q] = status[q]
<1>1. UNCHANGED <<workerVars, starts, shown, from>>
  BY DEF ClosePage
<1>2. Stays
  BY <1>1, PcsStay DEF workerVars, Stays
<1> QED BY <1>1, <1>2, TypeParts DEF ClosePage, BootType, UseType, QueueType

\* Every step is one of these.
LEMMA StepKinds ==
  ASSUME [Next]_vars
  PROVE  \/ QuietStep
         \/ \E p \in Pages :
              \/ HandleAnswer(p) \/ HandleOther(p) \/ HandleStart(p) \/ HandleClose(p)
              \/ FinalizeReconnect(p) \/ Disconnect(p) \/ DeleteSession(p) \/ Send(p)
              \/ StartConnection(p) \/ ClosePage(p)
BY DEF Next, QuietStep, Work, User

-----------------------------------------------------------------------------
(* Numbers of attempts, and the order of a page's commands *)

LEMMA GrownPlaces ==
  ASSUME NEW s, NEW t, NEW m, Len(s) \in Nat, Grown(t, s, m)
  PROVE  /\ \A i \in 1..Len(t) : \/ i \in 1..Len(s) /\ t[i] = s[i]
                                 \/ i = Len(s) + 1 /\ t[i] = m
         /\ \A i \in 1..Len(s) : i \in 1..Len(t) /\ t[i] = s[i] /\ i < Len(s) + 1
         /\ Len(t) = Len(s) + 1 /\ Len(s) + 1 \in 1..Len(t) /\ t[Len(s) + 1] = m
BY DEF Grown

LEMMA ShrunkPlaces ==
  ASSUME NEW s, NEW t, Len(s) \in Nat, Shrunk(t, s), 1 \in 1..Len(s)
  PROVE  /\ \A i \in 1..Len(t) : i + 1 \in 1..Len(s) /\ t[i] = s[i + 1]
         /\ \A i \in 1..Len(s) : i # 1 => i - 1 \in 1..Len(t) /\ t[i - 1] = s[i]
         /\ Len(t) + 1 = Len(s) /\ Len(t) \in Nat
<1>1. /\ Len(t) = Len(s) - 1 /\ \A i \in 1..Len(s) - 1 : t[i] = s[i + 1]
      /\ Len(s) # 0
  BY DEF Shrunk
<1>2. \A n \in Nat : n # 0 =>
        /\ \A i \in 1..n - 1 : i + 1 \in 1..n
        /\ \A i \in 1..n : i # 1 => i - 1 \in 1..n - 1 /\ (i - 1) + 1 = i
        /\ (n - 1) + 1 = n /\ n - 1 \in Nat
  OBVIOUS
<1> QED BY <1>1, <1>2

\* Each start that is under way was so before, or is the new one.
StartsFrom(f, g, q) ==
  \E d \in {0, 1} : \A i \in 1..Len(f[q]) :
    f[q][i].cmd = "start" => i + d \in 1..Len(g[q]) /\ f[q][i] = g[q][i + d]

LEMMA NumberKept ==
  ASSUME TypeOK, NumberInv, \A q \in Pages : StartsFrom(from', from, q),
         UNCHANGED <<starts, overlaid>>,
         \A k \in Attempts : /\ pcs'[k].st # "none" <=> pcs[k].st # "none"
                             /\ pcs'[k].busy => pcs[k].busy
  PROVE  NumberInv'
<1>1. \A k \in Attempts : pcs'[k].st # "none" => k <= starts'
  BY DEF NumberInv
<1>2. \A k \in Attempts : pcs'[k].busy => pcs'[k].st # "none"
  BY DEF NumberInv
<1>3. ASSUME NEW q \in Pages, NEW i \in 1..Len(from'[q]), from'[q][i].cmd = "start"
      PROVE  /\ from'[q][i].pc <= starts' /\ pcs'[from'[q][i].pc].st = "none"
  <2>1. PICK d \in {0, 1} : i + d \in 1..Len(from[q]) /\ from'[q][i] = from[q][i + d]
    BY <1>3 DEF StartsFrom
  <2>2. from'[q][i].pc \in Attempts
    BY <1>3, <2>1, Typed, ElementOfSeq, CommandFacts
  <2> QED BY <1>3, <2>1, <2>2 DEF NumberInv
<1>4. ASSUME NEW p \in Pages, NEW q \in Pages, NEW i \in 1..Len(from'[p]),
             NEW j \in 1..Len(from'[q]), from'[p][i].cmd = "start",
             from'[q][j].cmd = "start", from'[p][i].pc = from'[q][j].pc
      PROVE  p = q /\ i = j
  <2>1. PICK d \in {0, 1} : \A n \in 1..Len(from'[p]) : from'[p][n].cmd = "start" =>
          n + d \in 1..Len(from[p]) /\ from'[p][n] = from[p][n + d]
    BY DEF StartsFrom
  <2>2. PICK e \in {0, 1} : \A n \in 1..Len(from'[q]) : from'[q][n].cmd = "start" =>
          n + e \in 1..Len(from[q]) /\ from'[q][n] = from[q][n + e]
    BY DEF StartsFrom
  <2>3. /\ i + d \in 1..Len(from[p]) /\ from'[p][i] = from[p][i + d]
        /\ j + e \in 1..Len(from[q]) /\ from'[q][j] = from[q][j + e]
    BY <1>4, <2>1, <2>2
  <2>4. p = q
    BY <1>4, <2>3 DEF NumberInv
  <2>5. j + d \in 1..Len(from[p]) /\ from'[p][j] = from[p][j + d]
    BY <1>4, <2>1, <2>4
  <2>6. i + d = j + d
    BY <1>4, <2>3, <2>4, <2>5 DEF NumberInv
  <2>7. i \in Int /\ j \in Int /\ d \in Int
    BY <2>4
  <2> QED BY <2>4, <2>6, <2>7
<1>5. \A o \in overlaid' : pcs'[o[1]].st # "none" /\ pcs'[o[2]].st # "none"
  BY DEF NumberInv, TypeOK
<1> QED BY <1>1, <1>2, <1>3, <1>4, <1>5 DEF NumberInv

LEMMA StartsKept ==
  ASSUME TypeOK, NEW q \in Pages,
         \/ from'[q] = from[q]
         \/ \E c \in Commands : c.cmd # "start" /\ Grown(from'[q], from[q], c)
         \/ Shrunk(from'[q], from[q]) /\ 1 \in 1..Len(from[q])
  PROVE  StartsFrom(from', from, q)
<1>1. Len(from[q]) \in Nat
  BY Typed
<1>2. CASE from'[q] = from[q]
  <2>1. \A i \in 1..Len(from[q]) : i + 0 = i
    BY <1>1
  <2>2. \A i \in 1..Len(from'[q]) : from'[q][i].cmd = "start" =>
          i + 0 \in 1..Len(from[q]) /\ from'[q][i] = from[q][i + 0]
    BY <1>2, <2>1
  <2> QED BY <2>2 DEF StartsFrom
<1>3. ASSUME NEW c \in Commands, c.cmd # "start", Grown(from'[q], from[q], c)
      PROVE  StartsFrom(from', from, q)
  <2>1. \A i \in 1..Len(from'[q]) : from'[q][i].cmd = "start" =>
          i \in 1..Len(from[q]) /\ from'[q][i] = from[q][i]
    BY <1>1, <1>3, GrownPlaces
  <2>2. \A i \in 1..Len(from[q]) : i + 0 = i
    BY <1>1
  <2>3. \A i \in 1..Len(from'[q]) : from'[q][i].cmd = "start" =>
          i + 0 \in 1..Len(from[q]) /\ from'[q][i] = from[q][i + 0]
    BY <2>1, <2>2
  <2> QED BY <2>3 DEF StartsFrom
<1>4. CASE Shrunk(from'[q], from[q]) /\ 1 \in 1..Len(from[q])
  <2>1. \A i \in 1..Len(from'[q]) : i + 1 \in 1..Len(from[q]) /\ from'[q][i] = from[q][i + 1]
    BY <1>1, <1>4, ShrunkPlaces
  <2> QED BY <2>1 DEF StartsFrom
<1> QED BY <1>2, <1>3, <1>4

\* What close leaves of the connections.
LEMMA ClosedFacts ==
  ASSUME TypeOK, NEW p \in Pages, HandleClose(p)
  PROVE  /\ conn' = NoConn /\ ~conn'.there
         /\ \A k \in Attempts : /\ pcs'[k].by = pcs[k].by
                                /\ pcs'[k].busy = pcs[k].busy
                                /\ pcs'[k].st # "none" <=> pcs[k].st # "none"
                                /\ pcs'[k].st \in Live => pcs[k].st \in Live /\ k # conn.pc
         /\ from[p][1].cmd = "close" /\ 1 \in 1..Len(from[p])
         /\ Shrunk(from'[p], from[p])
         /\ \A q \in Pages : q # p => from'[q] = from[q]
         /\ UNCHANGED <<role, overlaid, starts, ad, phase, to, status, shown>>
         /\ closer' = IF conn.there THEN p ELSE closer
<1>1. /\ conn' = NoConn
      /\ \A j \in Attempts :
           /\ pcs'[j].by = pcs[j].by
           /\ pcs'[j].busy = pcs[j].busy
           /\ pcs'[j].st \in {pcs[j].st, "closed", "closing"}
           /\ pcs'[j].st = "closed" /\ pcs[j].st # "closed" => j = conn.pc
           /\ j = conn.pc => pcs'[j].st = "closed"
           /\ pcs'[j].st = "closing" => pcs[j].st \in {"closing", "open"}
      /\ closer' = IF conn.there THEN p ELSE closer
      /\ UNCHANGED <<role, noWebRtc, overlaid, pageVars, to, starts, talk, shown>>
  BY HandleCloseFacts
<1>2. Handle(p, "close")
  BY DEF HandleClose
<1>3. /\ Shrunk(from'[p], from[p]) /\ from[p][1].cmd = "close" /\ 1 \in 1..Len(from[p])
      /\ \A q \in Pages : q # p => from'[q] = from[q]
  BY <1>2, HandleFacts
<1>4. \A j \in Attempts : j = conn.pc => pcs[j].st # "none"
  BY BoundsAssumption DEF TypeOK
<1>5. \A k \in Attempts : /\ pcs'[k].st # "none" <=> pcs[k].st # "none"
                          /\ pcs'[k].st \in Live => pcs[k].st \in Live /\ k # conn.pc
  BY <1>1, <1>4 DEF Live
<1> QED BY <1>1, <1>3, <1>5 DEF NoConn, pageVars

LEMMA HandledStartFacts ==
  ASSUME TypeOK, NumberInv, NEW p \in Pages, HandleStart(p)
  PROVE  \E k \in Attempts :
           /\ from[p][1] = Cmd("start", k) /\ 1 \in 1..Len(from[p])
           /\ Shrunk(from'[p], from[p])
           /\ \A q \in Pages : q # p => from'[q] = from[q]
           /\ pcs[k].st = "none" /\ k <= starts
           /\ conn'.there /\ conn'.pc = k
           /\ pcs'[k].st = "gathering" /\ pcs'[k].by = p /\ pcs'[k].busy
           /\ \A j \in Attempts : j # k => pcs'[j] = pcs[j]
           /\ overlaid' = IF conn.there THEN overlaid \cup {<<conn.pc, k>>} ELSE overlaid
           /\ UNCHANGED <<role, starts, ad, phase, status, shown, closer>>
<1>1. PICK k \in Attempts :
           /\ from[p][1] = Cmd("start", k)
           /\ conn'.there /\ conn'.pc = k
           /\ pcs' = [pcs EXCEPT ![k] = [st |-> "gathering", by |-> p, obj |-> conn'.obj,
                                         busy |-> TRUE]]
           /\ overlaid' = IF conn.there THEN overlaid \cup {<<conn.pc, k>>} ELSE overlaid
           /\ UNCHANGED <<role, noWebRtc, closer, pageVars, starts, talk, shown>>
  BY HandleStartFacts
<1>2. Handle(p, "start")
  BY DEF HandleStart
<1>3. /\ Shrunk(from'[p], from[p]) /\ 1 \in 1..Len(from[p])
      /\ \A q \in Pages : q # p => from'[q] = from[q]
  BY <1>2, HandleFacts
<1>4. pcs[k].st = "none" /\ k <= starts
  <2>1. from[p][1].cmd = "start" /\ from[p][1].pc = k
    BY <1>1, Made
  <2> QED BY <1>3, <2>1 DEF NumberInv
<1>5. /\ pcs'[k].st = "gathering" /\ pcs'[k].by = p /\ pcs'[k].busy
      /\ \A j \in Attempts : j # k => pcs'[j] = pcs[j]
  BY <1>1, TypeParts DEF WorkerType
<1> QED BY <1>1, <1>3, <1>4, <1>5 DEF pageVars

LEMMA NumberStart ==
  ASSUME TypeOK, NumberInv, NEW p \in Pages, StartConnection(p) PROVE NumberInv'
<1> DEFINE L == Len(from[p])
<1>1. L \in Nat /\ starts \in Nat /\ MaxStarts \in Nat
  BY Typed
<1>2. /\ starts' = starts + 1 /\ UNCHANGED <<conn, pcs, overlaid>>
      /\ \A q \in Pages : q # p => from'[q] = from[q]
  BY StartedFacts, StartFacts DEF workerVars
<1>3. starts + 1 \in Attempts /\ pcs[starts + 1].st = "none"
  <2>1. starts + 1 \in Attempts
    BY StartFacts
  <2> QED BY <1>1, <2>1 DEF NumberInv
<1>4. \E n \in {L + 1, L + 2} :
        /\ Len(from'[p]) = n /\ from'[p][n] = Cmd("start", starts + 1)
        /\ \A i \in 1..n : \/ i = n
                           \/ i \in 1..L /\ from'[p][i] = from[p][i]
                           \/ from'[p][i].cmd = "close"
  <2>1. CASE ~ad[p].on
    <3>1. Grown(from'[p], from[p], Cmd("start", starts + 1))
      BY <2>1, StartFacts
    <3> QED BY <1>1, <3>1, GrownPlaces
  <2>2. CASE ad[p].on
    <3>1. /\ Len(from'[p]) = L + 2
          /\ from'[p][L + 1] = Cmd("close", None)
          /\ from'[p][L + 2] = Cmd("start", starts + 1)
          /\ \A i \in 1..L : from'[p][i] = from[p][i]
      BY <2>2, StartFacts
    <3>2. Cmd("close", None).cmd = "close"
      BY Made
    <3>3. \A i \in 1..L + 2 : i = L + 2 \/ i \in 1..L \/ i = L + 1
      BY <1>1
    <3> QED BY <3>1, <3>2, <3>3
  <2> QED BY <2>1, <2>2
<1>5. PICK n \in {L + 1, L + 2} :
        /\ Len(from'[p]) = n /\ from'[p][n] = Cmd("start", starts + 1)
        /\ \A i \in 1..n : \/ i = n
                           \/ i \in 1..L /\ from'[p][i] = from[p][i]
                           \/ from'[p][i].cmd = "close"
  BY <1>4
<1> HIDE DEF L
<1>6. \A q \in Pages : \A i \in 1..Len(from'[q]) : from'[q][i].cmd = "start" =>
        \/ i \in 1..Len(from[q]) /\ from'[q][i] = from[q][i] /\ from[q][i].pc <= starts
           /\ pcs[from[q][i].pc].st = "none" /\ from[q][i].pc \in Attempts
        \/ q = p /\ i = n /\ from'[q][i].pc = starts + 1
  <2> SUFFICES ASSUME NEW q \in Pages, NEW i \in 1..Len(from'[q]),
                      from'[q][i].cmd = "start", ~(q = p /\ i = n)
               PROVE  /\ i \in 1..Len(from[q]) /\ from'[q][i] = from[q][i]
                      /\ from[q][i].pc <= starts /\ pcs[from[q][i].pc].st = "none"
                      /\ from[q][i].pc \in Attempts
    BY <1>5, Made
  <2>1. i \in 1..Len(from[q]) /\ from'[q][i] = from[q][i]
    BY <1>2, <1>5 DEF L
  <2>2. from[q][i] \in Commands
    BY <2>1, Typed, ElementOfSeq
  <2>3. from[q][i].pc \in Attempts
    BY <2>1, <2>2, CommandFacts
  <2> QED BY <2>1, <2>3 DEF NumberInv
<1>7. \A k \in Attempts : pcs'[k].st # "none" => k <= starts'
  BY <1>1, <1>2 DEF NumberInv
<1>8. ASSUME NEW q \in Pages, NEW i \in 1..Len(from'[q]), from'[q][i].cmd = "start"
      PROVE  from'[q][i].pc <= starts' /\ pcs'[from'[q][i].pc].st = "none"
  BY <1>1, <1>2, <1>3, <1>6, <1>8, SMTT(30)
<1>9. ASSUME NEW q \in Pages, NEW r \in Pages, NEW i \in 1..Len(from'[q]),
             NEW j \in 1..Len(from'[r]), from'[q][i].cmd = "start",
             from'[r][j].cmd = "start", from'[q][i].pc = from'[r][j].pc
      PROVE  q = r /\ i = j
  <2>1. CASE q = p /\ i = n /\ from'[q][i].pc = starts + 1
    BY <1>1, <1>6, <1>9, <2>1, SMTT(30)
  <2>2. CASE r = p /\ j = n /\ from'[r][j].pc = starts + 1
    BY <1>1, <1>6, <1>9, <2>2, SMTT(30)
  <2>3. CASE /\ i \in 1..Len(from[q]) /\ from'[q][i] = from[q][i]
             /\ j \in 1..Len(from[r]) /\ from'[r][j] = from[r][j]
    BY <1>9, <2>3 DEF NumberInv
  <2> QED BY <1>6, <1>9, <2>1, <2>2, <2>3
<1> QED BY <1>2, <1>7, <1>8, <1>9 DEF NumberInv

LEMMA NumberHandleStart ==
  ASSUME TypeOK, NumberInv, NEW p \in Pages, HandleStart(p) PROVE NumberInv'
<1>1. PICK k \in Attempts :
           /\ from[p][1] = Cmd("start", k) /\ 1 \in 1..Len(from[p])
           /\ Shrunk(from'[p], from[p])
           /\ \A q \in Pages : q # p => from'[q] = from[q]
           /\ pcs[k].st = "none" /\ k <= starts
           /\ conn'.there /\ conn'.pc = k
           /\ pcs'[k].st = "gathering" /\ pcs'[k].by = p /\ pcs'[k].busy
           /\ \A j \in Attempts : j # k => pcs'[j] = pcs[j]
           /\ overlaid' = IF conn.there THEN overlaid \cup {<<conn.pc, k>>} ELSE overlaid
           /\ UNCHANGED <<role, starts, ad, phase, status, shown, closer>>
  BY HandledStartFacts
<1>2. from[p][1].cmd = "start" /\ from[p][1].pc = k
  BY <1>1, Made
<1>3. /\ \A i \in 1..Len(from'[p]) : i + 1 \in 1..Len(from[p]) /\ from'[p][i] = from[p][i + 1]
      /\ Len(from[p]) \in Nat /\ Len(from'[p]) \in Nat
  BY <1>1, Typed, ShrunkPlaces
<1>4. \A q \in Pages : \A i \in 1..Len(from'[q]) : from'[q][i].cmd = "start" =>
        /\ from'[q][i].pc # k /\ from'[q][i].pc \in Attempts
        /\ from'[q][i].pc <= starts /\ pcs[from'[q][i].pc].st = "none"
  <2> SUFFICES ASSUME NEW q \in Pages, NEW i \in 1..Len(from'[q]), from'[q][i].cmd = "start"
               PROVE  /\ from'[q][i].pc # k /\ from'[q][i].pc \in Attempts
                      /\ from'[q][i].pc <= starts /\ pcs[from'[q][i].pc].st = "none"
    OBVIOUS
  <2>1. CASE q = p
    <3>1. i + 1 \in 1..Len(from[p]) /\ from'[p][i] = from[p][i + 1] /\ i + 1 # 1
      BY <1>3, <2>1
    <3>2. from'[q][i].pc \in Attempts
      BY <2>1, <3>1, Typed, ElementOfSeq, CommandFacts
    <3> QED BY <1>1, <1>2, <2>1, <3>1, <3>2 DEF NumberInv
  <2>2. CASE q # p
    <3>1. i \in 1..Len(from[q]) /\ from'[q][i] = from[q][i]
      BY <1>1, <2>2
    <3>2. from'[q][i].pc \in Attempts
      BY <3>1, Typed, ElementOfSeq, CommandFacts
    <3> QED BY <1>1, <1>2, <2>2, <3>1, <3>2 DEF NumberInv
  <2> QED BY <2>1, <2>2
<1>5. ASSUME NEW q \in Pages, NEW r \in Pages, NEW i \in 1..Len(from'[q]),
             NEW j \in 1..Len(from'[r]), from'[q][i].cmd = "start",
             from'[r][j].cmd = "start", from'[q][i].pc = from'[r][j].pc
      PROVE  q = r /\ i = j
  <2>1. \A s \in Pages : \A m \in 1..Len(from'[s]) :
          \E n \in 1..Len(from[s]) : /\ from'[s][m] = from[s][n]
                                     /\ n = IF s = p THEN m + 1 ELSE m
    BY <1>1, <1>3
  <2>2. PICK a \in 1..Len(from[q]) : from'[q][i] = from[q][a] /\ a = IF q = p THEN i + 1 ELSE i
    BY <2>1
  <2>3. PICK b \in 1..Len(from[r]) : from'[r][j] = from[r][b] /\ b = IF r = p THEN j + 1 ELSE j
    BY <2>1
  <2>4. q = r /\ a = b
    BY <1>5, <2>2, <2>3 DEF NumberInv
  <2>5. q = p => i + 1 = j + 1
    BY <2>2, <2>3, <2>4
  <2> QED BY <1>3, <2>2, <2>3, <2>4, <2>5
<1>6. \A o \in overlaid' : pcs'[o[1]].st # "none" /\ pcs'[o[2]].st # "none"
  <2> SUFFICES ASSUME NEW o \in overlaid'
               PROVE  pcs'[o[1]].st # "none" /\ pcs'[o[2]].st # "none"
    OBVIOUS
  <2>1. CASE o \in overlaid
    <3>1. o[1] \in Attempts /\ o[2] \in Attempts
      BY <2>1 DEF TypeOK
    <3>2. pcs[o[1]].st # "none" /\ pcs[o[2]].st # "none"
      BY <2>1 DEF NumberInv
    <3> QED BY <1>1, <3>1, <3>2
  <2>2. CASE conn.there /\ o = <<conn.pc, k>>
    BY <1>1, <2>2 DEF TypeOK
  <2> QED BY <1>1, <2>1, <2>2
<1>7. /\ \A j \in Attempts : pcs'[j].st # "none" => j <= starts'
      /\ \A j \in Attempts : pcs'[j].busy => pcs'[j].st # "none"
  BY <1>1 DEF NumberInv
<1> QED BY <1>1, <1>4, <1>5, <1>6, <1>7, SMTT(30) DEF NumberInv

LEMMA NumberNext == ASSUME TypeOK, BootInv, NumberInv, [Next]_vars PROVE NumberInv'
<1>1. CASE QuietStep
  BY <1>1, QuietFacts, StartsKept, NumberKept DEF Stays
<1>2. ASSUME NEW p \in Pages, HandleAnswer(p) \/ HandleOther(p) PROVE NumberInv'
  BY <1>2, HandledFacts, StartsKept, NumberKept DEF Stays
<1>3. ASSUME NEW p \in Pages, HandleClose(p) PROVE NumberInv'
  <2>1. /\ \A q \in Pages : StartsFrom(from', from, q)
        /\ \A k \in Attempts : /\ pcs'[k].by = pcs[k].by
                               /\ pcs'[k].busy = pcs[k].busy
                               /\ pcs'[k].st # "none" <=> pcs[k].st # "none"
        /\ UNCHANGED <<overlaid, starts>>
    BY <1>3, ClosedFacts, StartsKept
  <2> QED BY <2>1, NumberKept
<1>4. ASSUME NEW p \in Pages, ClosePage(p) PROVE NumberInv'
  BY <1>4, LeftFacts, StartsKept, NumberKept DEF Stays
<1>5. ASSUME NEW p \in Pages,
             FinalizeReconnect(p) \/ Disconnect(p) \/ DeleteSession(p) \/ Send(p)
      PROVE  NumberInv'
  <2>1. Cmd("close", None) \in Commands /\ Cmd("close", None).cmd # "start"
    BY Made
  <2>2. \A q \in Pages : StartsFrom(from', from, q)
    BY <1>5, <2>1, UsedFacts, StartsKept
  <2> QED BY <1>5, <2>2, UsedFacts, NumberKept DEF Stays
<1> QED BY <1>1, <1>2, <1>3, <1>4, <1>5, StepKinds, NumberStart, NumberHandleStart

-----------------------------------------------------------------------------
(* A page's own attempt *)

\* The page does not start another, and what is before the start in its port goes.
LEMMA OwnKept ==
  ASSUME TypeOK, NEW q \in Pages, OwnAt(q), SameOwner(q), starts' = starts,
         \A k \in Attempts : pcs[k].st # "none" => pcs'[k].st # "none" /\ pcs'[k].by = pcs[k].by,
         \/ from'[q] = from[q]
         \/ \E c \in Commands : c.cmd \notin {"start", "close"} /\ Grown(from'[q], from[q], c)
         \/ Shrunk(from'[q], from[q]) /\ 1 \in 1..Len(from[q]) /\ from[q][1].cmd # "start"
  PROVE  OwnAt(q)'
<1> SUFFICES ASSUME ad[q].on PROVE OwnAt(q)'
  BY DEF OwnAt, SameOwner
<1>1. Len(from[q]) \in Nat /\ ad'[q].own = ad[q].own /\ ad[q].own \in Attempts
      /\ ad[q].own <= starts
  BY Typed DEF SameOwner, OwnAt
<1>2. Cmd("start", ad[q].own).cmd = "start"
  BY Made
<1>3. CASE pcs[ad[q].own].st # "none" /\ pcs[ad[q].own].by = q
           /\ \A i \in 1..Len(from[q]) : from[q][i].cmd \notin {"start", "close"}
  <2>1. \A i \in 1..Len(from'[q]) : from'[q][i].cmd \notin {"start", "close"}
    <3>1. CASE from'[q] = from[q]
      BY <1>3, <3>1
    <3>2. ASSUME NEW c \in Commands, c.cmd \notin {"start", "close"}, Grown(from'[q], from[q], c)
          PROVE  \A i \in 1..Len(from'[q]) : from'[q][i].cmd \notin {"start", "close"}
      BY <1>1, <1>3, <3>2, GrownPlaces
    <3>3. CASE Shrunk(from'[q], from[q]) /\ 1 \in 1..Len(from[q])
      BY <1>1, <1>3, <3>3, ShrunkPlaces
    <3> QED BY <3>1, <3>2, <3>3
  <2>2. pcs'[ad[q].own].st # "none" /\ pcs'[ad[q].own].by = q
    BY <1>1, <1>3
  <2> QED BY <1>1, <2>1, <2>2 DEF OwnAt
<1>4. ASSUME NEW i \in 1..Len(from[q]), from[q][i] = Cmd("start", ad[q].own),
             \A j \in 1..Len(from[q]) : j > i => from[q][j].cmd \notin {"start", "close"}
      PROVE  OwnAt(q)'
  <2>1. CASE from'[q] = from[q]
    BY <1>1, <1>4, <2>1 DEF OwnAt
  <2>2. ASSUME NEW c \in Commands, c.cmd \notin {"start", "close"}, Grown(from'[q], from[q], c)
        PROVE  OwnAt(q)'
    <3>1. i \in 1..Len(from'[q]) /\ from'[q][i] = Cmd("start", ad[q].own)
      BY <1>1, <1>4, <2>2, GrownPlaces
    <3>2. \A j \in 1..Len(from'[q]) : j > i => from'[q][j].cmd \notin {"start", "close"}
      BY <1>1, <1>4, <2>2, GrownPlaces
    <3> QED BY <1>1, <3>1, <3>2 DEF OwnAt
  <2>3. CASE Shrunk(from'[q], from[q]) /\ 1 \in 1..Len(from[q]) /\ from[q][1].cmd # "start"
    <3>1. i # 1
      BY <1>2, <1>4, <2>3
    <3>2. i - 1 \in 1..Len(from'[q]) /\ from'[q][i - 1] = Cmd("start", ad[q].own)
      BY <1>1, <1>4, <2>3, <3>1, ShrunkPlaces
    <3>3. ASSUME NEW j \in 1..Len(from'[q]), j > i - 1
          PROVE  from'[q][j].cmd \notin {"start", "close"}
      <4>1. j + 1 \in 1..Len(from[q]) /\ from'[q][j] = from[q][j + 1] /\ j + 1 > i
        BY <1>1, <2>3, <3>3, ShrunkPlaces
      <4> QED BY <1>4, <4>1
    <3> QED BY <1>1, <3>2, <3>3 DEF OwnAt
  <2> QED BY <2>1, <2>2, <2>3
<1> QED BY <1>3, <1>4 DEF OwnAt

LEMMA OwnStart ==
  ASSUME TypeOK, NEW p \in Pages, StartConnection(p) PROVE OwnAt(p)'
<1>1. Len(from[p]) \in Nat /\ starts \in Nat
  BY Typed
<1>2. ad'[p].on /\ ad'[p].own = starts + 1 /\ starts' = starts + 1 /\ starts + 1 \in Attempts
  BY StartedFacts, StartFacts
<1>3. \E n \in 1..Len(from'[p]) : n = Len(from'[p]) /\ from'[p][n] = Cmd("start", starts + 1)
  <2>1. CASE ~ad[p].on
    <3>1. Grown(from'[p], from[p], Cmd("start", starts + 1))
      BY <2>1, StartFacts
    <3> QED BY <1>1, <3>1, GrownPlaces
  <2>2. CASE ad[p].on
    <3>1. /\ Len(from'[p]) = Len(from[p]) + 2
          /\ from'[p][Len(from[p]) + 2] = Cmd("start", starts + 1)
      BY <2>2, StartFacts
    <3>2. Len(from[p]) + 2 \in 1..Len(from[p]) + 2
      BY <1>1
    <3> QED BY <3>1, <3>2
  <2> QED BY <2>1, <2>2
<1>4. \A n \in Nat : \A j \in 1..n : ~(j > n)
  OBVIOUS
<1>5. Len(from'[p]) \in Nat
  BY StartFacts, LenProperties
<1> QED BY <1>1, <1>2, <1>3, <1>4, <1>5 DEF OwnAt

LEMMA OwnHandleStart ==
  ASSUME TypeOK, NumberInv, OwnInv, NEW p \in Pages, HandleStart(p) PROVE OwnInv'
<1>1. PICK k \in Attempts :
           /\ from[p][1] = Cmd("start", k) /\ 1 \in 1..Len(from[p])
           /\ Shrunk(from'[p], from[p])
           /\ \A q \in Pages : q # p => from'[q] = from[q]
           /\ pcs[k].st = "none" /\ k <= starts
           /\ conn'.there /\ conn'.pc = k
           /\ pcs'[k].st = "gathering" /\ pcs'[k].by = p /\ pcs'[k].busy
           /\ \A j \in Attempts : j # k => pcs'[j] = pcs[j]
           /\ overlaid' = IF conn.there THEN overlaid \cup {<<conn.pc, k>>} ELSE overlaid
           /\ UNCHANGED <<role, starts, ad, phase, status, shown, closer>>
  BY HandledStartFacts
<1>2. \A j \in Attempts : pcs[j].st # "none" => pcs'[j].st # "none" /\ pcs'[j].by = pcs[j].by
  BY <1>1
<1>3. \A q \in Pages : q # p => OwnAt(q)'
  BY <1>1, <1>2, OwnKept DEF OwnInv, SameOwner
<1>4. OwnAt(p)'
  <2> SUFFICES ASSUME ad[p].on PROVE OwnAt(p)'
    BY <1>1 DEF OwnAt
  <2>1. Len(from[p]) \in Nat /\ from[p][1].cmd = "start" /\ OwnAt(p)
    BY <1>1, Typed, Made DEF OwnInv
  <2>2. PICK i \in 1..Len(from[p]) :
          /\ from[p][i] = Cmd("start", ad[p].own)
          /\ \A j \in 1..Len(from[p]) : j > i => from[p][j].cmd \notin {"start", "close"}
    BY <1>1, <2>1 DEF OwnAt
  <2>3. \A j \in 1..Len(from'[p]) :
          j + 1 > i => from'[p][j].cmd \notin {"start", "close"}
    <3> SUFFICES ASSUME NEW j \in 1..Len(from'[p]), j + 1 > i
                 PROVE  from'[p][j].cmd \notin {"start", "close"}
      OBVIOUS
    <3>1. j + 1 \in 1..Len(from[p]) /\ from'[p][j] = from[p][j + 1]
      BY <1>1, <2>1, ShrunkPlaces
    <3> QED BY <2>2, <3>1
  <2>4. ad'[p] = ad[p] /\ ad[p].own \in Attempts /\ ad[p].own <= starts /\ starts' = starts
    BY <1>1, <2>1 DEF OwnAt
  <2>5. CASE i = 1
    <3>1. k = ad[p].own
      BY <1>1, <2>2, <2>5, Made
    <3>2. pcs'[ad[p].own].st # "none" /\ pcs'[ad[p].own].by = p
      BY <1>1, <3>1
    <3>3. \A j \in 1..Len(from'[p]) : from'[p][j].cmd \notin {"start", "close"}
      BY <2>3, <2>5
    <3> QED BY <2>4, <3>2, <3>3 DEF OwnAt
  <2>6. CASE i # 1
    <3>1. i - 1 \in 1..Len(from'[p]) /\ from'[p][i - 1] = Cmd("start", ad[p].own)
      BY <1>1, <2>1, <2>2, <2>6, ShrunkPlaces
    <3>2. \A j \in 1..Len(from'[p]) :
            j > i - 1 => from'[p][j].cmd \notin {"start", "close"}
      BY <2>3
    <3> QED BY <2>4, <3>1, <3>2 DEF OwnAt
  <2> QED BY <2>5, <2>6
<1> QED BY <1>3, <1>4 DEF OwnInv

LEMMA OwnNext ==
  ASSUME TypeOK, BootInv, NumberInv, OwnInv, [Next]_vars PROVE OwnInv'
<1>1. CASE QuietStep
  BY <1>1, QuietFacts, OwnKept DEF Stays, OwnInv
<1>2. ASSUME NEW p \in Pages, HandleAnswer(p) \/ HandleOther(p) PROVE OwnInv'
  BY <1>2, HandledFacts, OwnKept DEF Stays, OwnInv
<1>3. ASSUME NEW p \in Pages, HandleClose(p) PROVE OwnInv'
  <2>1. \A q \in Pages : SameOwner(q)
    BY <1>3, ClosedFacts DEF SameOwner
  <2> QED BY <1>3, <2>1, ClosedFacts, OwnKept DEF OwnInv
<1>4. ASSUME NEW p \in Pages, ClosePage(p) PROVE OwnInv'
  <2>1. \A q \in Pages : q # p => OwnAt(q)'
    <3>1. ASSUME NEW q \in Pages, q # p PROVE OwnAt(q)'
      <4>1. Stays /\ starts' = starts /\ SameOwner(q) /\ from'[q] = from[q]
        BY <1>4, <3>1, LeftFacts DEF SameOwner
      <4>2. \A k \in Attempts :
              pcs[k].st # "none" => pcs'[k].st # "none" /\ pcs'[k].by = pcs[k].by
        BY <4>1 DEF Stays
      <4>3. OwnAt(q)
        BY DEF OwnInv
      <4> QED BY <4>1, <4>2, <4>3, OwnKept
    <3> QED BY <3>1
  <2>2. OwnAt(p)'
    <3>1. ad'[p] = NoAdapter
      BY <1>4, LeftFacts
    <3> QED BY <3>1 DEF OwnAt, NoAdapter
  <2> QED BY <2>1, <2>2 DEF OwnInv
<1>5. ASSUME NEW p \in Pages,
             FinalizeReconnect(p) \/ Disconnect(p) \/ DeleteSession(p) \/ Send(p)
      PROVE  OwnInv'
  <2>1. \A q \in Pages : q # p => OwnAt(q)'
    <3>1. ASSUME NEW q \in Pages, q # p PROVE OwnAt(q)'
      <4>1. /\ Stays /\ starts' = starts /\ phase' = phase /\ from'[q] = from[q]
            /\ ad'[q] = ad[q]
        BY <1>5, <3>1, UsedFacts
      <4>2. SameOwner(q)
        BY <4>1 DEF SameOwner
      <4>3. \A k \in Attempts :
              pcs[k].st # "none" => pcs'[k].st # "none" /\ pcs'[k].by = pcs[k].by
        BY <4>1 DEF Stays
      <4>4. OwnAt(q)
        BY DEF OwnInv
      <4> QED BY <4>1, <4>2, <4>3, <4>4, OwnKept
    <3> QED BY <3>1
  <2>2. OwnAt(p)'
    <3>1. CASE ad'[p] = NoAdapter
      BY <3>1 DEF OwnAt, NoAdapter
    <3>2. CASE /\ \E c \in Commands : /\ c.cmd \in {"answer", "send"}
                                      /\ Grown(from'[p], from[p], c)
               /\ ad'[p] = ad[p] \/ ad'[p] = [ad[p] EXCEPT !.wired = TRUE]
      <4>1. SameOwner(p)
        <5>1. phase' = phase
          BY <1>5, UsedFacts
        <5>2. ad[p] \in Adapters
          BY TypeParts DEF UseType
        <5> QED BY <3>2, <5>1, <5>2 DEF SameOwner, Adapters
      <4> QED BY <1>5, <3>2, <4>1, UsedFacts, OwnKept DEF OwnInv, Stays
    <3> QED BY <1>5, <3>1, <3>2, UsedFacts
  <2> QED BY <2>1, <2>2 DEF OwnInv
<1>6. ASSUME NEW p \in Pages, StartConnection(p) PROVE OwnInv'
  <2>1. UNCHANGED <<pcs, phase>> /\ starts' = starts + 1 /\ starts \in Nat
        /\ \A q \in Pages : q # p => ad'[q] = ad[q] /\ from'[q] = from[q]
    BY <1>6, StartedFacts, StartFacts, Typed DEF workerVars
  <2>2. ASSUME NEW q \in Pages, q # p PROVE OwnAt(q)'
    <3>1. OwnAt(q) /\ ad'[q] = ad[q] /\ from'[q] = from[q] /\ pcs' = pcs
      BY <2>1, <2>2 DEF OwnInv
    <3>2. ad'[q].on => ad'[q].own \in Attempts /\ ad'[q].own <= starts'
      BY <2>1, <3>1, BoundsAssumption DEF OwnAt
    <3> QED BY <3>1, <3>2, SMTT(30) DEF OwnAt
  <2> QED BY <1>6, <2>2, OwnStart DEF OwnInv
<1> QED BY <1>1, <1>2, <1>3, <1>4, <1>5, <1>6, StepKinds, OwnHandleStart

-----------------------------------------------------------------------------
(* A page closes its connection before it starts the next *)

\* What is appended does not touch what is before it.
LEMMA ClearedGrown ==
  ASSUME NEW s, NEW t, NEW c, NEW a \in BOOLEAN, NEW b \in BOOLEAN, Len(s) \in Nat,
         Grown(t, s, c), b => a, NEW n \in 1..Len(s) + 1, Cleared(s, a, n)
  PROVE  Cleared(t, b, n)
<1>1. /\ \A i \in 1..Len(s) : i \in 1..Len(t) /\ t[i] = s[i]
      /\ Len(t) = Len(s) + 1
  BY GrownPlaces
<1>2. \A i \in 1..Len(t) : i < n => i \in 1..Len(s) /\ t[i] = s[i]
  BY <1>1
<1>3. ASSUME NEW j \in 1..Len(s), j < n, s[j].cmd = "close",
             \A m \in 1..Len(s) : j < m /\ m < n => s[m].cmd # "start"
      PROVE  Cleared(t, b, n)
  <2>1. j \in 1..Len(t) /\ t[j].cmd = "close"
    BY <1>1, <1>3
  <2>2. \A m \in 1..Len(t) : j < m /\ m < n => t[m].cmd # "start"
    BY <1>2, <1>3
  <2> QED BY <1>3, <2>1, <2>2 DEF Cleared
<1>4. CASE (\A m \in 1..Len(s) : m < n => s[m].cmd # "start") /\ ~a
  BY <1>2, <1>4 DEF Cleared
<1> QED BY <1>3, <1>4 DEF Cleared

\* A command that starts nothing keeps a page cleared.
LEMMA ClearedLonger ==
  ASSUME NEW s, NEW t, NEW c, NEW a \in BOOLEAN, NEW b \in BOOLEAN, Len(s) \in Nat,
         Grown(t, s, c), b => a, c.cmd # "start", Cleared(s, a, Len(s) + 1)
  PROVE  Cleared(t, b, Len(t) + 1)
<1>1. /\ \A i \in 1..Len(t) : \/ i \in 1..Len(s) /\ t[i] = s[i]
                              \/ i = Len(s) + 1 /\ t[i] = c
      /\ \A i \in 1..Len(s) : i \in 1..Len(t) /\ t[i] = s[i]
      /\ Len(t) = Len(s) + 1
  BY GrownPlaces
<1>2. \A i \in 1..Len(s) : i < Len(s) + 1 /\ i < (Len(s) + 1) + 1
  OBVIOUS
<1>3. ASSUME NEW j \in 1..Len(s), s[j].cmd = "close",
             \A m \in 1..Len(s) : j < m /\ m < Len(s) + 1 => s[m].cmd # "start"
      PROVE  Cleared(t, b, Len(t) + 1)
  <2>1. \A m \in 1..Len(t) : j < m => t[m].cmd # "start"
    BY <1>1, <1>2, <1>3
  <2>2. j \in 1..Len(t) /\ j < Len(t) + 1 /\ t[j].cmd = "close"
    BY <1>1, <1>2, <1>3
  <2> QED BY <2>1, <2>2 DEF Cleared
<1>4. CASE (\A m \in 1..Len(s) : m < Len(s) + 1 => s[m].cmd # "start") /\ ~a
  <2>1. \A m \in 1..Len(t) : t[m].cmd # "start"
    BY <1>1, <1>2, <1>4
  <2> QED BY <1>4, <2>1 DEF Cleared
<1> QED BY <1>3, <1>4 DEF Cleared

\* After a close the page is cleared.
LEMMA ClearedByClose ==
  ASSUME NEW t, NEW b, Len(t) \in Nat, NEW j \in 1..Len(t), t[j].cmd = "close"
  PROVE  Cleared(t, b, j + 1)
<1>1. \A m \in 1..Len(t) : ~(j < m /\ m < j + 1)
  OBVIOUS
<1>2. j < j + 1
  OBVIOUS
<1> QED BY <1>1, <1>2 DEF Cleared

\* What the worker has handled of a page's commands is gone, and did what it says.
LEMMA ClearedShrunk ==
  ASSUME NEW s, NEW t, NEW a \in BOOLEAN, NEW b \in BOOLEAN, Len(s) \in Nat,
         1 \in 1..Len(s), Shrunk(t, s),
         s[1].cmd = "close" => ~b, s[1].cmd # "start" => (b => a),
         NEW n \in 1..Len(t) + 1, Cleared(s, a, n + 1)
  PROVE  Cleared(t, b, n)
<1>1. /\ \A i \in 1..Len(t) : i + 1 \in 1..Len(s) /\ t[i] = s[i + 1]
      /\ \A i \in 1..Len(s) : i # 1 => i - 1 \in 1..Len(t) /\ t[i - 1] = s[i]
      /\ Len(t) \in Nat
  BY ShrunkPlaces
<1>2. n \in Nat /\ n >= 1
  BY <1>1
<1>3. ASSUME NEW j \in 1..Len(s), j < n + 1, s[j].cmd = "close",
             \A m \in 1..Len(s) : j < m /\ m < n + 1 => s[m].cmd # "start"
      PROVE  Cleared(t, b, n)
  <2>1. CASE j = 1
    <3>1. \A m \in 1..Len(t) : m < n => t[m].cmd # "start"
      <4> SUFFICES ASSUME NEW m \in 1..Len(t), m < n PROVE t[m].cmd # "start"
        OBVIOUS
      <4>1. m + 1 \in 1..Len(s) /\ m + 1 < n + 1 /\ j < m + 1
        BY <1>1, <1>2, <2>1
      <4> QED BY <1>1, <1>3, <4>1
    <3> QED BY <1>3, <2>1, <3>1 DEF Cleared
  <2>2. CASE j # 1
    <3>1. j - 1 \in 1..Len(t) /\ t[j - 1].cmd = "close" /\ j - 1 < n
      BY <1>1, <1>2, <1>3, <2>2
    <3>2. \A m \in 1..Len(t) : j - 1 < m /\ m < n => t[m].cmd # "start"
      <4> SUFFICES ASSUME NEW m \in 1..Len(t), j - 1 < m, m < n PROVE t[m].cmd # "start"
        OBVIOUS
      <4>1. m + 1 \in 1..Len(s) /\ m + 1 < n + 1 /\ j < m + 1
        BY <1>1, <1>2
      <4> QED BY <1>1, <1>3, <4>1
    <3> QED BY <3>1, <3>2 DEF Cleared
  <2> QED BY <2>1, <2>2
<1>4. CASE (\A m \in 1..Len(s) : m < n + 1 => s[m].cmd # "start") /\ ~a
  <2>1. s[1].cmd # "start"
    BY <1>2, <1>4
  <2>2. \A m \in 1..Len(t) : m < n => t[m].cmd # "start"
    <3> SUFFICES ASSUME NEW m \in 1..Len(t), m < n PROVE t[m].cmd # "start"
      OBVIOUS
    <3>1. m + 1 \in 1..Len(s) /\ m + 1 < n + 1
      BY <1>1, <1>2
    <3> QED BY <1>1, <1>4, <3>1
  <2> QED BY <1>4, <2>1, <2>2 DEF Cleared
<1> QED BY <1>3, <1>4 DEF Cleared

LEMMA MineBoolean == \A p \in Pages : Mine(p) \in BOOLEAN /\ Mine(p)' \in BOOLEAN
BY TRUE DEF Mine

\* A page whose commands stay.
LEMMA ClearedStays ==
  ASSUME NEW q \in Pages, ClearedAt(q), from'[q] = from[q],
         ad'[q].on = ad[q].on, phase'[q] = "gone" <=> phase[q] = "gone", Mine(q)' => Mine(q)
  PROVE  ClearedAt(q)'
BY DEF ClearedAt, Cleared

\* A page whose first command has been handled.
LEMMA ClearedHandled ==
  ASSUME TypeOK, NEW p \in Pages, ClearedAt(p), 1 \in 1..Len(from[p]),
         Shrunk(from'[p], from[p]),
         from[p][1].cmd = "close" => ~Mine(p)',
         from[p][1].cmd # "start" => (Mine(p)' => Mine(p)),
         ad'[p].on = ad[p].on, phase'[p] = "gone" <=> phase[p] = "gone"
  PROVE  ClearedAt(p)'
<1>1. Len(from[p]) \in Nat /\ Len(from'[p]) + 1 = Len(from[p]) /\ Len(from'[p]) \in Nat
  BY Typed, ShrunkPlaces
<1>2. ASSUME NEW i \in 1..Len(from'[p]), from'[p][i].cmd = "start" PROVE Cleared(from'[p], Mine(p)', i)
  <2>1. i + 1 \in 1..Len(from[p]) /\ from'[p][i] = from[p][i + 1]
    BY <1>1, ShrunkPlaces
  <2>2. Cleared(from[p], Mine(p), i + 1)
    BY <1>2, <2>1 DEF ClearedAt
  <2>3. i \in 1..Len(from'[p]) + 1
    BY <1>1
  <2> QED BY <1>1, <2>2, <2>3, ClearedShrunk, MineBoolean
<1>3. ASSUME phase'[p] # "gone", ~ad'[p].on PROVE Cleared(from'[p], Mine(p)', Len(from'[p]) + 1)
  <2>1. Cleared(from[p], Mine(p), Len(from[p]) + 1)
    BY <1>3 DEF ClearedAt
  <2>2. /\ Len(from'[p]) + 1 \in 1..Len(from'[p]) + 1
        /\ Len(from[p]) + 1 = (Len(from'[p]) + 1) + 1
    BY <1>1
  <2>3. Cleared(from[p], Mine(p), (Len(from'[p]) + 1) + 1)
    BY <2>1, <2>2
  <2> QED BY <1>1, <2>2, <2>3, ClearedShrunk, MineBoolean
<1> QED BY <1>2, <1>3 DEF ClearedAt

LEMMA ClearedStart ==
  ASSUME TypeOK, NEW p \in Pages, ClearedAt(p), StartConnection(p) PROVE ClearedAt(p)'
<1> DEFINE L == Len(from[p])
<1>1. L \in Nat
  BY Typed
<1>2. UNCHANGED <<conn, pcs>> /\ ad'[p].on /\ phase[p] = "up" /\ phase' = phase
  BY StartedFacts DEF workerVars
<1>3. CASE ~ad[p].on
  <2>1. Grown(from'[p], from[p], Cmd("start", starts + 1))
    BY <1>3, StartFacts
  <2>2. Mine(p)' => Mine(p)
    BY <1>2 DEF Mine
  <2>3. ASSUME NEW i \in 1..Len(from'[p]), from'[p][i].cmd = "start"
        PROVE  i \in 1..L + 1 /\ Cleared(from[p], Mine(p), i)
    <3>1. \/ i \in 1..L /\ from'[p][i] = from[p][i]
          \/ i = L + 1
      BY <1>1, <2>1, GrownPlaces
    <3>2. CASE i \in 1..L /\ from'[p][i] = from[p][i]
      BY <1>1, <2>3, <3>2 DEF ClearedAt
    <3>3. CASE i = L + 1
      BY <1>1, <1>2, <1>3, <3>3 DEF ClearedAt
    <3> QED BY <3>1, <3>2, <3>3
  <2>4. \A i \in 1..Len(from'[p]) : from'[p][i].cmd = "start" => Cleared(from'[p], Mine(p)', i)
    BY <1>1, <2>1, <2>2, <2>3, ClearedGrown, MineBoolean
  <2> QED BY <1>2, <2>4 DEF ClearedAt
<1>4. CASE ad[p].on
  <2>1. /\ Len(from'[p]) = L + 2
        /\ from'[p][L + 1] = Cmd("close", None)
        /\ \A i \in 1..L : from'[p][i] = from[p][i]
    BY <1>4, StartFacts
  <2>2. /\ \A i \in 1..L + 2 : i \in 1..L \/ i = L + 1 \/ i = L + 2
        /\ L + 1 \in 1..L + 2 /\ L + 2 \in Nat /\ L + 2 = (L + 1) + 1
        /\ \A i \in 1..L : i \in 1..L + 2
    BY <1>1
  <2>3. from'[p][L + 1].cmd = "close"
    BY <2>1, Made
  <2> HIDE DEF L
  <2>4. ASSUME NEW i \in 1..Len(from'[p]), from'[p][i].cmd = "start" PROVE Cleared(from'[p], Mine(p)', i)
    <3>1. CASE i \in 1..L
      <4>1. Cleared(from[p], Mine(p), i)
        BY <2>1, <2>4, <3>1 DEF ClearedAt, L
      <4>2. \A m \in 1..L + 2 : m < i => m \in 1..L
        BY <1>1, <3>1
      <4>3. Mine(p)' = Mine(p)
        BY <1>2 DEF Mine
      <4>4. CASE \E j \in 1..Len(from[p]) :
                   /\ j < i /\ from[p][j].cmd = "close"
                   /\ \A m \in 1..Len(from[p]) : j < m /\ m < i => from[p][m].cmd # "start"
        BY <2>1, <2>2, <4>2, <4>4 DEF Cleared, L
      <4>5. CASE /\ \A m \in 1..Len(from[p]) : m < i => from[p][m].cmd # "start"
                 /\ ~Mine(p)
        BY <2>1, <2>2, <4>2, <4>3, <4>5 DEF Cleared, L
      <4> QED BY <4>1, <4>4, <4>5 DEF Cleared
    <3>2. CASE i = L + 1
      BY <2>3, <2>4, <3>2
    <3>3. CASE i = L + 2
      BY <2>1, <2>2, <2>3, <3>3, ClearedByClose
    <3> QED BY <2>1, <2>2, <2>4, <3>1, <3>2, <3>3
  <2> QED BY <1>2, <2>4 DEF ClearedAt
<1> QED BY <1>3, <1>4

LEMMA ClearedUsed ==
  ASSUME TypeOK, NEW p \in Pages, ClearedAt(p),
         FinalizeReconnect(p) \/ Disconnect(p) \/ DeleteSession(p) \/ Send(p)
  PROVE  ClearedAt(p)'
<1>1. Len(from[p]) \in Nat
  BY Typed
<1>2. UNCHANGED <<conn, pcs, phase>> /\ (Mine(p)' => Mine(p))
  BY UsedFacts DEF workerVars, Mine
<1>3. ASSUME NEW c, c.cmd # "start", Grown(from'[p], from[p], c)
      PROVE  \A i \in 1..Len(from'[p]) : from'[p][i].cmd = "start" => Cleared(from'[p], Mine(p)', i)
  <2> SUFFICES ASSUME NEW i \in 1..Len(from'[p]), from'[p][i].cmd = "start"
               PROVE  Cleared(from'[p], Mine(p)', i)
    OBVIOUS
  <2>1. i \in 1..Len(from[p]) /\ from'[p][i] = from[p][i]
    BY <1>1, <1>3, GrownPlaces
  <2>2. Cleared(from[p], Mine(p), i) /\ i \in 1..Len(from[p]) + 1
    BY <1>1, <2>1 DEF ClearedAt
  <2> QED BY <1>1, <1>2, <1>3, <2>2, ClearedGrown, MineBoolean
<1>4. CASE /\ \E c \in Commands : /\ c.cmd \in {"answer", "send"}
                                  /\ Grown(from'[p], from[p], c)
           /\ ad'[p] = ad[p] \/ ad'[p] = [ad[p] EXCEPT !.wired = TRUE]
  <2>1. PICK c \in Commands : c.cmd \in {"answer", "send"} /\ Grown(from'[p], from[p], c)
    BY <1>4
  <2>2. ad'[p].on = ad[p].on
    <3>1. ad[p] \in Adapters
      BY TypeParts DEF UseType
    <3> QED BY <1>4, <3>1 DEF Adapters
  <2>3. phase'[p] # "gone" /\ ~ad'[p].on => Cleared(from'[p], Mine(p)', Len(from'[p]) + 1)
    BY <1>1, <1>2, <2>1, <2>2, ClearedLonger, MineBoolean DEF ClearedAt
  <2> QED BY <1>3, <2>1, <2>3 DEF ClearedAt
<1>5. CASE ad'[p] = NoAdapter /\ Grown(from'[p], from[p], Cmd("close", None))
  <2>1. Cmd("close", None).cmd = "close"
    BY Made
  <2>2. /\ Len(from'[p]) = Len(from[p]) + 1
        /\ Len(from[p]) + 1 \in 1..Len(from'[p])
        /\ from'[p][Len(from[p]) + 1] = Cmd("close", None)
    BY <1>1, <1>5, GrownPlaces
  <2>3. /\ Len(from'[p]) \in Nat
        /\ Len(from'[p]) \in 1..Len(from'[p]) /\ from'[p][Len(from'[p])].cmd = "close"
    BY <1>1, <2>1, <2>2
  <2>4. Cleared(from'[p], Mine(p)', Len(from'[p]) + 1)
    BY <2>3, ClearedByClose
  <2> QED BY <1>3, <1>5, <2>1, <2>4 DEF ClearedAt
<1>6. CASE ~ad[p].on /\ ad'[p] = NoAdapter /\ from'[p] = from[p]
  <2>1. ad[p].on = FALSE /\ ad'[p].on = FALSE
    <3>1. ad[p].on \in BOOLEAN
      BY TypeParts DEF UseType, Adapters
    <3> QED BY <1>6, <3>1 DEF NoAdapter
  <2>2. phase' = phase /\ (Mine(p)' => Mine(p)) /\ from'[p] = from[p]
    BY <1>2, <1>6
  <2> QED BY <2>1, <2>2, ClearedStays
<1>7. \/ /\ \E c \in Commands : /\ c.cmd \in {"answer", "send"}
                                /\ Grown(from'[p], from[p], c)
         /\ ad'[p] = ad[p] \/ ad'[p] = [ad[p] EXCEPT !.wired = TRUE]
      \/ /\ ad'[p] = NoAdapter
         /\ \/ Grown(from'[p], from[p], Cmd("close", None))
            \/ ~ad[p].on /\ from'[p] = from[p]
  BY UsedFacts
<1> QED BY <1>4, <1>5, <1>6, <1>7

LEMMA ClearedNext ==
  ASSUME TypeOK, BootInv, NumberInv, ClearedInv, [Next]_vars PROVE ClearedInv'
<1>1. Stays => \A q \in Pages : Mine(q)' => Mine(q)
  <2>1. conn.there => conn.pc \in Attempts
    BY DEF TypeOK
  <2> QED BY <2>1 DEF Stays, Mine
<1>2. CASE QuietStep
  BY <1>1, <1>2, QuietFacts, ClearedStays DEF ClearedInv, SameOwner
<1>3. ASSUME NEW p \in Pages, HandleAnswer(p) \/ HandleOther(p) PROVE ClearedInv'
  <2>1. ClearedAt(p)'
    BY <1>1, <1>3, HandledFacts, ClearedHandled DEF ClearedInv, SameOwner
  <2>2. \A q \in Pages : q # p => ClearedAt(q)'
    BY <1>1, <1>3, HandledFacts, ClearedStays DEF ClearedInv, SameOwner
  <2> QED BY <2>1, <2>2 DEF ClearedInv
<1>4. ASSUME NEW p \in Pages, HandleClose(p) PROVE ClearedInv'
  <2>1. \A q \in Pages : ~Mine(q)'
    BY <1>4, ClosedFacts DEF Mine
  <2>2. ClearedAt(p)'
    BY <1>4, <2>1, ClosedFacts, ClearedHandled DEF ClearedInv
  <2>3. \A q \in Pages : q # p => ClearedAt(q)'
    BY <1>4, <2>1, ClosedFacts, ClearedStays DEF ClearedInv
  <2> QED BY <2>2, <2>3 DEF ClearedInv
<1>5. ASSUME NEW p \in Pages, HandleStart(p) PROVE ClearedInv'
  <2>1. /\ from[p][1].cmd = "start" /\ 1 \in 1..Len(from[p])
        /\ Shrunk(from'[p], from[p])
        /\ \A q \in Pages : q # p => from'[q] = from[q]
        /\ pcs'[conn'.pc].by = p
        /\ UNCHANGED <<ad, phase>>
    BY <1>5, HandledStartFacts, Made
  <2>2. \A q \in Pages : q # p => ~Mine(q)'
    BY <2>1 DEF Mine
  <2>3. ClearedAt(p)'
    BY <2>1, ClearedHandled DEF ClearedInv
  <2>4. \A q \in Pages : q # p => ClearedAt(q)'
    BY <2>1, <2>2, ClearedStays DEF ClearedInv
  <2> QED BY <2>3, <2>4 DEF ClearedInv
<1>6. ASSUME NEW p \in Pages,
             FinalizeReconnect(p) \/ Disconnect(p) \/ DeleteSession(p) \/ Send(p)
      PROVE  ClearedInv'
  <2>1. \A q \in Pages : q # p => ClearedAt(q)'
    BY <1>1, <1>6, UsedFacts, ClearedStays DEF ClearedInv
  <2> QED BY <1>6, <2>1, ClearedUsed DEF ClearedInv
<1>7. ASSUME NEW p \in Pages, StartConnection(p) PROVE ClearedInv'
  <2>1. UNCHANGED <<conn, pcs, phase>>
        /\ \A q \in Pages : q # p => ad'[q] = ad[q] /\ from'[q] = from[q]
    BY <1>7, StartedFacts, StartFacts DEF workerVars
  <2>2. \A q \in Pages : q # p => ClearedAt(q)'
    BY <2>1, ClearedStays DEF ClearedInv, Mine
  <2> QED BY <1>7, <2>2, ClearedStart DEF ClearedInv
<1>8. ASSUME NEW p \in Pages, ClosePage(p) PROVE ClearedInv'
  <2>1. \A q \in Pages : q # p => ClearedAt(q)'
    BY <1>1, <1>8, LeftFacts, ClearedStays DEF ClearedInv
  <2>2. ClearedAt(p)'
    <3>1. UNCHANGED <<conn, pcs, from>> /\ phase'[p] = "gone"
      BY <1>8, LeftFacts DEF workerVars
    <3> QED BY <3>1 DEF ClearedInv, ClearedAt, Mine
  <2> QED BY <2>1, <2>2 DEF ClearedInv
<1> QED BY <1>2, <1>3, <1>4, <1>5, <1>6, <1>7, <1>8, StepKinds

-----------------------------------------------------------------------------
(* What a page hears *)

\* What the port of q carries grows at its end: by the state of the session when that
\* changes, and by a description when the connection of q has one.
Hears(q) ==
  \/ /\ to'[q] = to[q]
     /\ conn'.state = conn.state \/ q \notin conn'.ports \/ phase[q] = "gone"
  \/ \E m \in Messages :
       /\ Grown(to'[q], to[q], m) /\ phase[q] # "gone"
       /\ m.type # "state" => conn'.state = conn.state
       /\ m.type = "state" => m.state = conn'.state
       /\ m.type = "description" =>
            pcs[m.pc].busy /\ pcs[m.pc].by = q /\ ~pcs'[m.pc].busy

LEMMA HearsNothing ==
  ASSUME to' = to, conn'.state = conn.state PROVE \A q \in Pages : Hears(q)
BY DEF Hears

\* A message that is no description.
LEMMA HearsPost ==
  ASSUME TypeOK, NEW P \in SUBSET Pages, NEW m \in Messages, to' = Post(P, m),
         m.type # "description",
         \/ m.type # "state" /\ conn'.state = conn.state
         \/ m.type = "state" /\ m.state = conn'.state /\ conn'.ports \subseteq P
  PROVE  \A q \in Pages : Hears(q)
<1> TAKE q \in Pages
<1>1. /\ q \in P /\ phase[q] # "gone" => Grown(to'[q], to[q], m)
      /\ ~(q \in P /\ phase[q] # "gone") => to'[q] = to[q]
  BY PostFacts
<1>2. CASE q \in P /\ phase[q] # "gone"
  BY <1>1, <1>2 DEF Hears
<1>3. CASE ~(q \in P /\ phase[q] # "gone")
  BY <1>1, <1>3 DEF Hears
<1> QED BY <1>2, <1>3

\* The page's first message is taken.
LEMMA ConnectedFacts ==
  ASSUME TypeOK, BootInv, NEW p \in Pages, Connect(p)
  PROVE  /\ UNCHANGED <<role, pcs, overlaid, closer, status, ad, from, starts, shown, phase>>
         /\ conn'.there = conn.there /\ conn'.pc = conn.pc /\ conn'.dc = conn.dc
         /\ conn'.obj = conn.obj /\ conn'.state = conn.state
         /\ conn'.ports \subseteq conn.ports \cup {p} /\ conn.ports \subseteq conn'.ports
         /\ ~ad[p].on
         /\ \A q \in Pages : Hears(q)
<1>1. /\ port[p] = "opening"
      /\ conn' = IF conn.there THEN [conn EXCEPT !.ports = @ \cup {p}] ELSE conn
      /\ to' = Post({p}, Msg("init", conn.state, None))
      /\ UNCHANGED <<role, pcs, overlaid, closer, status, ad, from, starts, shown, phase>>
  BY DEF Connect
<1>2. /\ conn'.there = conn.there /\ conn'.pc = conn.pc /\ conn'.dc = conn.dc
      /\ conn'.obj = conn.obj /\ conn'.state = conn.state
      /\ conn'.ports \subseteq conn.ports \cup {p} /\ conn.ports \subseteq conn'.ports
  BY <1>1, TypeParts DEF WorkerType, Conns
<1>3. ~ad[p].on
  <2>1. BootAt(p) /\ router[p] \in [init : BOOLEAN, dead : BOOLEAN]
        /\ phase[p] \in {"unborn", "booting", "loading", "up", "gone"}
    BY TypeParts DEF BootInv, BootType
  <2>2. ~router[p].init
    BY <1>1, <2>1 DEF BootAt
  <2> QED BY <2>1, <2>2 DEF BootAt
<1>4. Msg("init", conn.state, None) \in Messages /\ Msg("init", conn.state, None).type = "init"
  BY Made DEF TypeOK
<1>5. {p} \in SUBSET Pages
  OBVIOUS
<1>6. \A q \in Pages : Hears(q)
  BY <1>1, <1>2, <1>4, <1>5, HearsPost
<1> QED BY <1>1, <1>2, <1>3, <1>6

\* A step of boot that concerns nothing of the session.
Still == UNCHANGED <<role, conn, pcs, overlaid, closer, status, ad, from, to, starts, shown>>

LEMMA StillFacts ==
  ASSUME NEW p \in Pages, OpenPage(p) \/ LoadError(p) \/ Boot(p) PROVE Still
BY DEF Still, OpenPage, LoadError, Boot, BootTimeout, LoadSessions, workerVars

\* A page takes the first of its messages.
LEMMA ReceivedFacts ==
  ASSUME TypeOK, BootInv, NEW p \in Pages, Receive(p)
  PROVE  /\ UNCHANGED <<role, conn, pcs, overlaid, closer, from, starts>>
         /\ phase'[p] # "gone" /\ phase[p] # "gone"
         /\ Shrunk(to'[p], to[p]) /\ 1 \in 1..Len(to[p]) /\ to[p][1] \in Messages
         /\ \A q \in Pages : q # p => /\ to'[q] = to[q] /\ ad'[q] = ad[q]
                                      /\ status'[q] = status[q]
         /\ \/ to[p][1].type = "init" /\ ad'[p] = ad[p] /\ status'[p] = status[p]
            \/ /\ to[p][1].type = "state"
               /\ ad'[p] = IF ad[p].on THEN [ad[p] EXCEPT !.state = to[p][1].state] ELSE ad[p]
               /\ status'[p] = IF ad[p].wired /\ ad[p].state # to[p][1].state
                               THEN Listener(status[p], to[p][1].state) ELSE status[p]
            \/ /\ to[p][1].type = "description"
               /\ IF ad[p].on /\ ad[p].waiting
                  THEN /\ ad'[p] = [ad[p] EXCEPT !.waiting = FALSE, !.got = to[p][1].pc,
                                                 !.wired = role = "guest"]
                       /\ status'[p] = "connecting"
                  ELSE ad'[p] = ad[p] /\ status'[p] = status[p]
            \/ /\ to[p][1].type = "error"
               /\ ad'[p] = [ad[p] EXCEPT !.waiting = FALSE] /\ status'[p] = status[p]
<1>1. BootAt(p) /\ UseType /\ BootType
  BY TypeParts DEF BootInv
<1>2. ASSUME NEW type, Take(p, type)
      PROVE  /\ Shrunk(to'[p], to[p]) /\ 1 \in 1..Len(to[p]) /\ to[p][1] \in Messages
             /\ Head(to[p]) = to[p][1] /\ to[p][1].type = type /\ phase[p] # "gone"
             /\ \A q \in Pages : q # p => to'[q] = to[q]
  BY <1>2, TakeFacts
<1>3. CASE ReceiveInit(p)
  <2>1. /\ UNCHANGED <<workerVars, from, starts, ad, status>>
        /\ phase' = [phase EXCEPT ![p] = IF @ = "booting" THEN "loading" ELSE @]
        /\ Take(p, "init")
    BY <1>1, <1>3, ReceiveInitFacts
  <2>2. phase[p] # "gone" => phase'[p] # "gone"
    BY <1>1, <2>1 DEF BootType
  <2> QED BY <1>2, <2>1, <2>2 DEF workerVars
<1>4. CASE ReceiveState(p)
  <2>1. /\ Take(p, "state")
        /\ ad' = IF ad[p].on THEN [ad EXCEPT ![p].state = Head(to[p]).state] ELSE ad
        /\ status' = IF ad[p].wired /\ ad[p].state # Head(to[p]).state
                     THEN [status EXCEPT ![p] = Listener(@, Head(to[p]).state)] ELSE status
        /\ UNCHANGED <<workerVars, phase, from, starts>>
    BY <1>4 DEF ReceiveState
  <2>2. Head(to[p]) = to[p][1]
    BY <1>2, <2>1
  <2>3. /\ ad'[p] = IF ad[p].on THEN [ad[p] EXCEPT !.state = to[p][1].state] ELSE ad[p]
        /\ \A q \in Pages : q # p => ad'[q] = ad[q]
    BY <1>1, <2>1, <2>2 DEF UseType
  <2>4. /\ status'[p] = IF ad[p].wired /\ ad[p].state # to[p][1].state
                        THEN Listener(status[p], to[p][1].state) ELSE status[p]
        /\ \A q \in Pages : q # p => status'[q] = status[q]
    BY <1>1, <2>1, <2>2 DEF UseType
  <2> QED BY <1>2, <2>1, <2>3, <2>4 DEF workerVars
<1>5. CASE ReceiveDescription(p)
  <2>1. /\ Take(p, "description")
        /\ ad' = IF ad[p].on /\ ad[p].waiting
                 THEN [ad EXCEPT ![p].waiting = FALSE, ![p].got = Head(to[p]).pc,
                                 ![p].wired = role = "guest"]
                 ELSE ad
        /\ status' = IF ad[p].on /\ ad[p].waiting
                     THEN [status EXCEPT ![p] = "connecting"] ELSE status
        /\ UNCHANGED <<workerVars, phase, from, starts>>
    BY <1>5 DEF ReceiveDescription
  <2>2. Head(to[p]) = to[p][1]
    BY <1>2, <2>1
  <2>3. CASE ad[p].on /\ ad[p].waiting
    <3>1. ad' = [ad EXCEPT ![p] = [ad[p] EXCEPT !.waiting = FALSE, !.got = to[p][1].pc,
                                                !.wired = role = "guest"]]
      BY <1>1, <2>1, <2>2, <2>3 DEF UseType
    <3>2. /\ ad'[p] = [ad[p] EXCEPT !.waiting = FALSE, !.got = to[p][1].pc,
                                    !.wired = role = "guest"]
          /\ status'[p] = "connecting"
          /\ \A q \in Pages : q # p => ad'[q] = ad[q] /\ status'[q] = status[q]
      BY <1>1, <2>1, <2>3, <3>1 DEF UseType
    <3> QED BY <1>2, <2>1, <2>3, <3>2 DEF workerVars
  <2>4. CASE ~(ad[p].on /\ ad[p].waiting)
    BY <1>2, <2>1, <2>4 DEF workerVars
  <2> QED BY <2>3, <2>4
<1>6. CASE ReceiveError(p)
  <2>1. /\ Take(p, "error") /\ ad' = [ad EXCEPT ![p].waiting = FALSE]
        /\ UNCHANGED <<workerVars, phase, from, starts, status>>
    BY <1>6 DEF ReceiveError
  <2>2. /\ ad'[p] = [ad[p] EXCEPT !.waiting = FALSE]
        /\ \A q \in Pages : q # p => ad'[q] = ad[q]
    BY <1>1, <2>1 DEF UseType
  <2> QED BY <1>2, <2>1, <2>2 DEF workerVars
<1> QED BY <1>3, <1>4, <1>5, <1>6 DEF Receive

\* What the worker's own steps say, close excepted, which says nothing.
LEMMA WorkHears ==
  ASSUME TypeOK, BootInv, NumberInv, NEW p \in Pages,
         HandleStart(p) \/ HandleAnswer(p) \/ HandleOther(p)
  PROVE  \A q \in Pages : Hears(q)
<1>1. {p} \in SUBSET Pages /\ conn.ports \cup {p} \in SUBSET Pages
  BY TypeParts DEF WorkerType, Conns
<1>2. CASE HandleStart(p)
  <2>1. /\ conn'.state = "connecting" /\ conn'.ports = conn.ports \cup {p}
        /\ to' = IF conn.state = "connecting" THEN to
                 ELSE Post(conn.ports \cup {p}, Msg("state", "connecting", None))
    BY <1>2, HandleStartFacts
  <2>2. /\ Msg("state", "connecting", None) \in Messages
        /\ Msg("state", "connecting", None).type = "state"
        /\ Msg("state", "connecting", None).state = "connecting"
    BY Made DEF States
  <2>3. CASE conn.state = "connecting"
    BY <2>1, <2>3, HearsNothing
  <2>4. CASE conn.state # "connecting"
    <3>1. to' = Post(conn.ports \cup {p}, Msg("state", "connecting", None))
      BY <2>1, <2>4
    <3> QED BY <1>1, <2>1, <2>2, <3>1, HearsPost
  <2> QED BY <2>3, <2>4
<1>3. CASE HandleAnswer(p)
  <2>1. /\ to' = to \/ to' = Post({p}, Msg("error", "none", None))
        /\ UNCHANGED conn
    BY <1>3, HandleAnswerFacts
  <2>2. Msg("error", "none", None) \in Messages /\ Msg("error", "none", None).type = "error"
    BY Made
  <2> QED BY <1>1, <2>1, <2>2, HearsNothing, HearsPost
<1>4. CASE HandleOther(p)
  <2>1. from[p][1].cmd # "subscribe"
    BY <1>4, HandledFacts
  <2>2. conn' = conn /\ to' = to
    BY <1>4, <2>1, HandleOtherFacts
  <2> QED BY <2>2, HearsNothing
<1> QED BY <1>2, <1>3, <1>4

LEMMA DescribedHears ==
  ASSUME TypeOK, NumberInv, NEW k \in Attempts, Described(k) \/ DescriptionFails(k)
  PROVE  /\ \A q \in Pages : Hears(q)
         /\ pcs[k].by \in Pages
         /\ phase[pcs[k].by] # "gone" =>
              \E m \in Messages : /\ m.type \in {"description", "error"}
                                  /\ Grown(to'[pcs[k].by], to[pcs[k].by], m)
<1>1. PICK m \in {Msg("description", "none", k), Msg("error", "none", None)} :
        to' = Post({pcs[k].by} \cap Pages, m) /\ m \in Messages
  BY DescribedFacts
<1>2. /\ pcs[k].busy /\ ~pcs'[k].busy /\ UNCHANGED conn
  BY DescribedFacts
<1>3. pcs[k].by \in Pages /\ {pcs[k].by} \cap Pages \in SUBSET Pages
  BY <1>2 DEF NumberInv, TypeOK
<1>4. /\ m.type \in {"description", "error"}
      /\ m.type = "description" => m.pc = k
  BY <1>1, Made
<1>5. \A q \in Pages :
        /\ q = pcs[k].by /\ phase[q] # "gone" => Grown(to'[q], to[q], m)
        /\ ~(q = pcs[k].by /\ phase[q] # "gone") => to'[q] = to[q]
  <2>1. /\ \A q \in Pages : q \in {pcs[k].by} \cap Pages /\ phase[q] # "gone" =>
             Grown(to'[q], to[q], m)
        /\ \A q \in Pages : ~(q \in {pcs[k].by} \cap Pages /\ phase[q] # "gone") =>
             to'[q] = to[q]
    BY <1>1, <1>3, PostFacts
  <2> QED BY <2>1
<1>6. \A q \in Pages : Hears(q)
  BY <1>1, <1>2, <1>4, <1>5 DEF Hears
<1> QED BY <1>1, <1>3, <1>4, <1>5, <1>6

LEMMA EventHears ==
  ASSUME TypeOK, BootInv, NEW k \in Attempts, ChannelOpens(k) \/ ChannelLost(k) \/ Reported(k)
  PROVE  \A q \in Pages : Hears(q)
<1>1. conn'.ports = conn.ports /\ conn.ports \in SUBSET Pages
  BY EventFacts, TypeParts DEF WorkerType, Conns
<1>2. CASE ChannelOpens(k)
  <2>1. /\ \E dc : conn' = IF conn.there
                           THEN [conn EXCEPT !.state = "connected", !.dc = dc] ELSE conn
        /\ to' = IF conn.there /\ conn.state # "connected"
                 THEN Post(conn.ports, Msg("state", "connected", None)) ELSE to
    BY <1>2 DEF ChannelOpens
  <2>2. /\ Msg("state", "connected", None) \in Messages
        /\ Msg("state", "connected", None).type = "state"
        /\ Msg("state", "connected", None).state = "connected"
    BY Made DEF States
  <2>3. CASE conn.there /\ conn.state # "connected"
    <3>1. conn'.state = "connected"
      BY <2>1, <2>3, TypeParts DEF WorkerType, Conns
    <3> QED BY <1>1, <2>1, <2>2, <2>3, <3>1, HearsPost
  <2>4. CASE ~(conn.there /\ conn.state # "connected")
    <3>1. conn'.state = conn.state
      BY <2>1, <2>4, TypeParts DEF WorkerType, Conns
    <3> QED BY <2>1, <2>4, <3>1, HearsNothing
  <2> QED BY <2>3, <2>4
<1>3. CASE ChannelLost(k) \/ Reported(k)
  <2>1. SetState("disconnected")
    BY <1>3 DEF ChannelLost, Reported
  <2>2. CASE conn' = conn /\ to' = to
    BY <2>2, HearsNothing
  <2>3. CASE /\ conn' = [conn EXCEPT !.state = "disconnected"]
             /\ to' = Post(conn.ports, Msg("state", "disconnected", None))
             /\ Msg("state", "disconnected", None) \in Messages
    <3>1. conn'.state = "disconnected"
      BY <2>3, TypeParts DEF WorkerType, Conns
    <3>2. /\ Msg("state", "disconnected", None).type = "state"
          /\ Msg("state", "disconnected", None).state = "disconnected"
      BY Made
    <3> QED BY <1>1, <2>3, <3>1, <3>2, HearsPost
  <2> QED BY <2>1, <2>2, <2>3, SetStateFacts
<1> QED BY <1>2, <1>3

\* Every step is one of these.
LEMMA FineKinds ==
  ASSUME [Next]_vars
  PROVE  \/ Still
         \/ \E k \in Attempts :
              \/ Described(k) \/ DescriptionFails(k)
              \/ ChannelOpens(k) \/ ChannelLost(k) \/ Reported(k)
         \/ \E p \in Pages :
              \/ Connect(p) \/ Receive(p)
              \/ HandleAnswer(p) \/ HandleOther(p) \/ HandleStart(p) \/ HandleClose(p)
              \/ FinalizeReconnect(p) \/ Disconnect(p) \/ DeleteSession(p) \/ Send(p)
              \/ StartConnection(p) \/ ClosePage(p)
<1>1. UNCHANGED vars => Still
  BY DEF Still, vars, workerVars, pageVars
<1> QED BY <1>1, StillFacts DEF Next, Work, User, Event

-----------------------------------------------------------------------------
(* The code that a page shows *)

\* What q's port carries stays, grows or is taken.
Listens(q) ==
  \/ Hears(q)
  \/ to'[q] = to[q]
  \/ Shrunk(to'[q], to[q]) /\ 1 \in 1..Len(to[q])

\* q keeps its adapter, and gets the first description at most.
Keeps(q) ==
  /\ ad'[q].on = ad[q].on /\ ad'[q].own = ad[q].own /\ ad'[q].clean = ad[q].clean
  /\ ad'[q].waiting => ad[q].waiting
  /\ \/ ad'[q].got = ad[q].got
     \/ \E i \in 1..Len(to[q]) : /\ to[q][i].type = "description"
                                 /\ ad'[q].got = to[q][i].pc /\ ad[q].on
  /\ \/ status[q] = "disconnected" => status'[q] = "disconnected"
     \/ \E i \in 1..Len(to[q]) : to[q][i].type = "description"

\* No connection of q is made but by its start.
Makes(q) ==
  \A k \in Attempts :
    /\ pcs'[k].busy /\ pcs'[k].by = q =>
         \/ pcs[k].busy /\ pcs[k].by = q
         \/ \E i \in 1..Len(from[q]) : from[q][i] = Cmd("start", k)
    /\ pcs'[k].st = "none" => pcs[k].st = "none"

LEMMA KeepsSame ==
  \A q \in Pages : ad'[q] = ad[q] /\ status'[q] = status[q] => Keeps(q)
BY DEF Keeps

LEMMA MakesNone ==
  /\ UNCHANGED pcs => \A q \in Pages : Makes(q)
  /\ Stays => \A q \in Pages : Makes(q)
BY DEF Makes, Stays

\* A description that q's port carries was there before, or is of a connection of q.
LEMMA DescriptionsHeard ==
  ASSUME TypeOK, NEW q \in Pages, Listens(q)
  PROVE  \A i \in 1..Len(to'[q]) : to'[q][i].type = "description" =>
           /\ to'[q][i].pc \in Attempts
           /\ \/ \E j \in 1..Len(to[q]) : to[q][j] = to'[q][i]
              \/ pcs[to'[q][i].pc].busy /\ pcs[to'[q][i].pc].by = q
<1> SUFFICES ASSUME NEW i \in 1..Len(to'[q]), to'[q][i].type = "description"
             PROVE  /\ to'[q][i].pc \in Attempts
                    /\ \/ \E j \in 1..Len(to[q]) : to[q][j] = to'[q][i]
                       \/ pcs[to'[q][i].pc].busy /\ pcs[to'[q][i].pc].by = q
  OBVIOUS
<1>1. Len(to[q]) \in Nat /\ \A j \in 1..Len(to[q]) : to[q][j] \in Messages
  BY Typed, ElementOfSeq
<1>2. CASE to'[q] = to[q]
  BY <1>1, <1>2, MessageFacts
<1>3. ASSUME NEW m \in Messages, Grown(to'[q], to[q], m),
             m.type = "description" => pcs[m.pc].busy /\ pcs[m.pc].by = q
      PROVE  /\ to'[q][i].pc \in Attempts
             /\ \/ \E j \in 1..Len(to[q]) : to[q][j] = to'[q][i]
                \/ pcs[to'[q][i].pc].busy /\ pcs[to'[q][i].pc].by = q
  <2>1. \/ i \in 1..Len(to[q]) /\ to'[q][i] = to[q][i]
        \/ to'[q][i] = m
    BY <1>1, <1>3, GrownPlaces
  <2> QED BY <1>1, <1>3, <2>1, MessageFacts
<1>4. CASE Shrunk(to'[q], to[q]) /\ 1 \in 1..Len(to[q])
  <2>1. i + 1 \in 1..Len(to[q]) /\ to'[q][i] = to[q][i + 1]
    BY <1>1, <1>4, ShrunkPlaces
  <2> QED BY <1>1, <2>1, MessageFacts
<1> QED BY <1>2, <1>3, <1>4 DEF Hears, Listens

\* An adapter that stays, with what it has got.
LEMMA CleanKept ==
  ASSUME TypeOK, NumberInv, NEW q \in Pages, CleanAt(q), OwnAt(q),
         Keeps(q), Makes(q), StartsFrom(from', from, q), Listens(q)
  PROVE  CleanAt(q)'
<1>1. ~ad'[q].on => ad'[q].got = None /\ ~ad'[q].waiting
  BY DEF CleanAt, Keeps
<1> SUFFICES ASSUME ad[q].on, ad[q].clean PROVE CleanAt(q)'
  BY <1>1 DEF CleanAt, Keeps
<1> DEFINE k == ad[q].own
<1>2. k \in Attempts
  BY DEF OwnAt
<1>3. \A i \in 1..Len(from'[q]) : from'[q][i].cmd = "start" => from'[q][i].pc = k
  BY DEF CleanAt, StartsFrom
<1>4. \A j \in Attempts : pcs'[j].busy /\ pcs'[j].by = q => j = k
  <2> SUFFICES ASSUME NEW j \in Attempts, pcs'[j].busy, pcs'[j].by = q PROVE j = k
    OBVIOUS
  <2>0. \/ pcs[j].busy /\ pcs[j].by = q
        \/ \E i \in 1..Len(from[q]) : from[q][i] = Cmd("start", j)
    BY DEF Makes
  <2>1. CASE pcs[j].busy /\ pcs[j].by = q
    BY <2>1 DEF CleanAt
  <2>2. ASSUME NEW i \in 1..Len(from[q]), from[q][i] = Cmd("start", j) PROVE j = k
    <3>1. from[q][i].cmd = "start" /\ from[q][i].pc = j
      BY <2>2, Made
    <3> QED BY <3>1 DEF CleanAt
  <2> QED BY <2>0, <2>1, <2>2
<1>5. \A i \in 1..Len(to'[q]) : to'[q][i].type = "description" => to'[q][i].pc = k
  <2> SUFFICES ASSUME NEW i \in 1..Len(to'[q]), to'[q][i].type = "description"
               PROVE  to'[q][i].pc = k
    OBVIOUS
  <2>1. /\ to'[q][i].pc \in Attempts
        /\ \/ \E j \in 1..Len(to[q]) : to[q][j] = to'[q][i]
           \/ pcs[to'[q][i].pc].busy /\ pcs[to'[q][i].pc].by = q
    BY DescriptionsHeard
  <2> QED BY <2>1 DEF CleanAt
<1>6. ad'[q].got # None => ad'[q].got = k
  BY DEF CleanAt, Keeps
<1>7. pcs'[k].st = "none" => /\ status'[q] = "disconnected"
                             /\ \A i \in 1..Len(to'[q]) : to'[q][i].type # "description"
  <2> SUFFICES ASSUME pcs'[k].st = "none"
               PROVE  /\ status'[q] = "disconnected"
                      /\ \A i \in 1..Len(to'[q]) : to'[q][i].type # "description"
    OBVIOUS
  <2>1. pcs[k].st = "none" /\ ~pcs[k].busy
    BY <1>2 DEF NumberInv, Makes
  <2>2. status[q] = "disconnected" /\ \A i \in 1..Len(to[q]) : to[q][i].type # "description"
    BY <2>1 DEF CleanAt
  <2>3. ASSUME NEW i \in 1..Len(to'[q]), to'[q][i].type = "description" PROVE FALSE
    <3>1. pcs[to'[q][i].pc].busy
      BY <2>2, <2>3, DescriptionsHeard
    <3> QED BY <1>5, <2>1, <2>3, <3>1
  <2>4. status'[q] = "disconnected"
    BY <2>2 DEF Keeps
  <2> QED BY <2>3, <2>4
<1>8. ad'[q].own = k
  BY DEF Keeps
<1> QED BY <1>1, <1>3, <1>4, <1>5, <1>6, <1>7, <1>8 DEF CleanAt

\* As nothing was under way, the new adapter hears of its own attempt only.
LEMMA CleanStart ==
  ASSUME TypeOK, NumberInv, NEW p \in Pages, StartConnection(p) PROVE CleanAt(p)'
<1> DEFINE k == starts + 1
<1>1. /\ UNCHANGED <<pcs, to, status>> /\ status[p] = "disconnected"
      /\ ad'[p].on /\ ad'[p].own = k /\ ad'[p].got = None
      /\ ad'[p].clean = NothingUnderWay(p)
  BY StartedFacts DEF workerVars
<1> SUFFICES ASSUME NothingUnderWay(p) PROVE CleanAt(p)'
  BY <1>1 DEF CleanAt
<1>2. /\ \A j \in Attempts : pcs[j].by = p => ~pcs[j].busy
      /\ \A i \in 1..Len(from[p]) : from[p][i].cmd # "start"
      /\ \A i \in 1..Len(to[p]) : to[p][i].type # "description"
  <2>1. DOMAIN from[p] = 1..Len(from[p]) /\ DOMAIN to[p] = 1..Len(to[p])
    BY Typed, LenProperties
  <2> QED BY <2>1 DEF NothingUnderWay
<1>3. \A i \in 1..Len(from'[p]) : from'[p][i].cmd = "start" => from'[p][i].pc = k
  <2>1. Len(from[p]) \in Nat
    BY Typed
  <2>2. CASE ~ad[p].on
    <3>1. Grown(from'[p], from[p], Cmd("start", k))
      BY <2>2, StartFacts
    <3>2. \A i \in 1..Len(from'[p]) : \/ i \in 1..Len(from[p]) /\ from'[p][i] = from[p][i]
                                      \/ from'[p][i] = Cmd("start", k)
      BY <2>1, <3>1, GrownPlaces
    <3> QED BY <1>2, <3>2, Made
  <2>3. CASE ad[p].on
    <3>1. /\ Len(from'[p]) = Len(from[p]) + 2
          /\ from'[p][Len(from[p]) + 1] = Cmd("close", None)
          /\ from'[p][Len(from[p]) + 2] = Cmd("start", k)
          /\ \A i \in 1..Len(from[p]) : from'[p][i] = from[p][i]
      BY <2>3, StartFacts
    <3>2. \A i \in 1..Len(from[p]) + 2 :
            i \in 1..Len(from[p]) \/ i = Len(from[p]) + 1 \/ i = Len(from[p]) + 2
      BY <2>1
    <3>3. \A i \in 1..Len(from'[p]) : \/ i \in 1..Len(from[p]) /\ from'[p][i] = from[p][i]
                                      \/ from'[p][i] = Cmd("close", None)
                                      \/ from'[p][i] = Cmd("start", k)
      BY <3>1, <3>2
    <3>4. Cmd("close", None).cmd = "close" /\ Cmd("start", k).pc = k
      BY Made
    <3> QED BY <1>2, <3>3, <3>4
  <2> QED BY <2>2, <2>3
<1> QED BY <1>1, <1>2, <1>3 DEF CleanAt

\* No adapter, nothing got.
LEMMA CleanGone ==
  ASSUME NEW p \in Pages, ad'[p] = NoAdapter PROVE CleanAt(p)'
BY DEF CleanAt, NoAdapter

LEMMA CleanReceive ==
  ASSUME TypeOK, BootInv, NumberInv, OwnInv, CleanInv, NEW p \in Pages, Receive(p)
  PROVE  CleanInv'
<1>1. /\ UNCHANGED <<pcs, from>>
      /\ Shrunk(to'[p], to[p]) /\ 1 \in 1..Len(to[p])
      /\ \A q \in Pages : q # p => to'[q] = to[q] /\ ad'[q] = ad[q] /\ status'[q] = status[q]
  BY ReceivedFacts
<1>2. Keeps(p)
  <2>1. ad[p] \in Adapters
    BY TypeParts DEF UseType
  <2>2. /\ ad'[p].on = ad[p].on /\ ad'[p].own = ad[p].own /\ ad'[p].clean = ad[p].clean
        /\ ad'[p].waiting => ad[p].waiting
        /\ \/ ad'[p].got = ad[p].got
           \/ /\ to[p][1].type = "description"
              /\ ad'[p].got = to[p][1].pc /\ ad[p].on
        /\ \/ status[p] = "disconnected" => status'[p] = "disconnected"
           \/ to[p][1].type = "description"
    <3>1. CASE to[p][1].type = "init" /\ ad'[p] = ad[p] /\ status'[p] = status[p]
      BY <3>1
    <3>2. CASE /\ to[p][1].type = "state"
               /\ ad'[p] = IF ad[p].on THEN [ad[p] EXCEPT !.state = to[p][1].state] ELSE ad[p]
               /\ status'[p] = IF ad[p].wired /\ ad[p].state # to[p][1].state
                               THEN Listener(status[p], to[p][1].state) ELSE status[p]
      BY <2>1, <3>2 DEF Adapters, Listener
    <3>3. CASE /\ to[p][1].type = "description"
               /\ IF ad[p].on /\ ad[p].waiting
                  THEN /\ ad'[p] = [ad[p] EXCEPT !.waiting = FALSE, !.got = to[p][1].pc,
                                                 !.wired = role = "guest"]
                       /\ status'[p] = "connecting"
                  ELSE ad'[p] = ad[p] /\ status'[p] = status[p]
      BY <2>1, <3>3 DEF Adapters
    <3>4. CASE /\ to[p][1].type = "error"
               /\ ad'[p] = [ad[p] EXCEPT !.waiting = FALSE] /\ status'[p] = status[p]
      BY <2>1, <3>4 DEF Adapters
    <3> QED BY <3>1, <3>2, <3>3, <3>4, ReceivedFacts
  <2> QED BY <1>1, <2>2 DEF Keeps
<1>3. \A q \in Pages : Keeps(q) /\ Listens(q)
  BY <1>1, <1>2, KeepsSame DEF Listens
<1>4. \A q \in Pages : StartsFrom(from', from, q) /\ Makes(q)
  BY <1>1, StartsKept, MakesNone
<1> QED BY <1>3, <1>4, CleanKept DEF CleanInv, OwnInv

LEMMA CleanNext ==
  ASSUME TypeOK, BootInv, NumberInv, OwnInv, CleanInv, [Next]_vars PROVE CleanInv'
<1>0. ASSUME NEW q \in Pages, Keeps(q), Makes(q), StartsFrom(from', from, q), Listens(q)
      PROVE  CleanAt(q)'
  BY <1>0, CleanKept DEF CleanInv, OwnInv
<1>1. CASE Still
  <2>1. \A q \in Pages : Keeps(q) /\ Makes(q) /\ Listens(q)
    BY <1>1, KeepsSame, MakesNone DEF Still, Listens
  <2>2. \A q \in Pages : StartsFrom(from', from, q)
    BY <1>1, StartsKept DEF Still
  <2> QED BY <1>0, <2>1, <2>2 DEF CleanInv
<1>2. ASSUME NEW k \in Attempts, Described(k) \/ DescriptionFails(k) PROVE CleanInv'
  <2>1. /\ \A j \in Attempts : /\ pcs'[j].by = pcs[j].by
                               /\ pcs'[j].busy => pcs[j].busy
                               /\ pcs'[j].st = "none" => pcs[j].st = "none"
        /\ UNCHANGED <<ad, status, from>>
    BY <1>2, DescribedFacts DEF pageVars
  <2>2. \A q \in Pages : Keeps(q) /\ Makes(q) /\ Listens(q)
    BY <1>2, <2>1, DescribedHears, KeepsSame DEF Makes, Listens
  <2>3. \A q \in Pages : StartsFrom(from', from, q)
    BY <2>1, StartsKept
  <2> QED BY <1>0, <2>2, <2>3 DEF CleanInv
<1>3. ASSUME NEW k \in Attempts, ChannelOpens(k) \/ ChannelLost(k) \/ Reported(k)
      PROVE  CleanInv'
  <2>1. /\ \A j \in Attempts : /\ pcs'[j].by = pcs[j].by
                               /\ pcs'[j].busy = pcs[j].busy
                               /\ pcs'[j].st = "none" => pcs[j].st = "none"
        /\ UNCHANGED <<ad, status, from>>
    BY <1>3, EventFacts DEF pageVars
  <2>2. \A q \in Pages : Keeps(q) /\ Makes(q) /\ Listens(q)
    BY <1>3, <2>1, EventHears, KeepsSame DEF Makes, Listens
  <2>3. \A q \in Pages : StartsFrom(from', from, q)
    BY <2>1, StartsKept
  <2> QED BY <1>0, <2>2, <2>3 DEF CleanInv
<1>4. ASSUME NEW p \in Pages, Connect(p) PROVE CleanInv'
  <2>1. \A q \in Pages : Keeps(q) /\ Makes(q) /\ Listens(q)
    BY <1>4, ConnectedFacts, KeepsSame, MakesNone DEF Listens
  <2>2. \A q \in Pages : StartsFrom(from', from, q)
    BY <1>4, ConnectedFacts, StartsKept
  <2> QED BY <1>0, <2>1, <2>2 DEF CleanInv
<1>5. ASSUME NEW p \in Pages, HandleAnswer(p) \/ HandleOther(p) PROVE CleanInv'
  <2>1. UNCHANGED <<ad, status>>
    BY <1>5, HandledFacts DEF pageVars
  <2>2. \A q \in Pages : Keeps(q) /\ Makes(q) /\ Listens(q)
    BY <1>5, <2>1, HandledFacts, WorkHears, KeepsSame, MakesNone DEF Listens
  <2>3. \A q \in Pages : StartsFrom(from', from, q)
    BY <1>5, HandledFacts, StartsKept
  <2> QED BY <1>0, <2>2, <2>3 DEF CleanInv
<1>6. ASSUME NEW p \in Pages, HandleClose(p) PROVE CleanInv'
  <2>1. \A q \in Pages : Keeps(q) /\ Makes(q) /\ Listens(q)
    BY <1>6, ClosedFacts, KeepsSame DEF Makes, Listens
  <2>2. \A q \in Pages : StartsFrom(from', from, q)
    BY <1>6, ClosedFacts, StartsKept
  <2> QED BY <1>0, <2>1, <2>2 DEF CleanInv
<1>7. ASSUME NEW p \in Pages, HandleStart(p) PROVE CleanInv'
  <2>1. PICK k \in Attempts :
           /\ from[p][1] = Cmd("start", k) /\ 1 \in 1..Len(from[p])
           /\ Shrunk(from'[p], from[p])
           /\ \A q \in Pages : q # p => from'[q] = from[q]
           /\ pcs[k].st = "none" /\ k <= starts
           /\ conn'.there /\ conn'.pc = k
           /\ pcs'[k].st = "gathering" /\ pcs'[k].by = p /\ pcs'[k].busy
           /\ \A j \in Attempts : j # k => pcs'[j] = pcs[j]
           /\ overlaid' = IF conn.there THEN overlaid \cup {<<conn.pc, k>>} ELSE overlaid
           /\ UNCHANGED <<role, starts, ad, phase, status, shown, closer>>
    BY <1>7, HandledStartFacts
  <2>2. \A q \in Pages : Makes(q)
    BY <2>1 DEF Makes
  <2>3. \A q \in Pages : Keeps(q) /\ Listens(q)
    BY <1>7, <2>1, WorkHears, KeepsSame DEF Listens
  <2>4. \A q \in Pages : StartsFrom(from', from, q)
    BY <2>1, StartsKept
  <2> QED BY <1>0, <2>2, <2>3, <2>4 DEF CleanInv
<1>8. ASSUME NEW p \in Pages,
             FinalizeReconnect(p) \/ Disconnect(p) \/ DeleteSession(p) \/ Send(p)
      PROVE  CleanInv'
  <2>1. /\ UNCHANGED <<pcs, to>>
        /\ \A q \in Pages : q # p => from'[q] = from[q] /\ ad'[q] = ad[q]
                                     /\ status'[q] = status[q]
    BY <1>8, UsedFacts DEF workerVars
  <2>2. \A q \in Pages : Makes(q) /\ Listens(q)
    BY <2>1, MakesNone DEF Listens
  <2>3. \A q \in Pages : q # p => CleanAt(q)'
    BY <1>0, <2>1, <2>2, KeepsSame, StartsKept
  <2>4. CleanAt(p)'
    <3>1. CASE ad'[p] = NoAdapter
      BY <3>1, CleanGone
    <3>2. CASE /\ \E c \in Commands : /\ c.cmd \in {"answer", "send"}
                                      /\ Grown(from'[p], from[p], c)
               /\ ad'[p] = ad[p] \/ ad'[p] = [ad[p] EXCEPT !.wired = TRUE]
               /\ status'[p] = status[p]
      <4>1. ad[p] \in Adapters
        BY TypeParts DEF UseType
      <4>2. Keeps(p)
        BY <3>2, <4>1 DEF Adapters, Keeps
      <4>3. StartsFrom(from', from, p)
        BY <3>2, StartsKept
      <4> QED BY <1>0, <2>2, <4>2, <4>3
    <3> QED BY <1>8, <3>1, <3>2, UsedFacts
  <2> QED BY <2>3, <2>4 DEF CleanInv
<1>9. ASSUME NEW p \in Pages, StartConnection(p) PROVE CleanInv'
  <2>1. /\ UNCHANGED <<pcs, to, status>>
        /\ \A q \in Pages : q # p => ad'[q] = ad[q] /\ from'[q] = from[q]
    BY <1>9, StartedFacts, StartFacts DEF workerVars
  <2>2. \A q \in Pages : Makes(q) /\ Listens(q)
    BY <2>1, MakesNone DEF Listens
  <2>3. \A q \in Pages : q # p => CleanAt(q)'
    BY <1>0, <2>1, <2>2, KeepsSame, StartsKept
  <2> QED BY <1>9, <2>3, CleanStart DEF CleanInv
<1>10. ASSUME NEW p \in Pages, ClosePage(p) PROVE CleanInv'
  <2>1. /\ UNCHANGED <<pcs, from>>
        /\ \A q \in Pages : q # p => to'[q] = to[q] /\ ad'[q] = ad[q]
                                     /\ status'[q] = status[q]
    BY <1>10, LeftFacts DEF workerVars
  <2>2. \A q \in Pages : q # p => CleanAt(q)'
    BY <1>0, <2>1, KeepsSame, MakesNone, StartsKept DEF Listens
  <2> QED BY <1>10, <2>2, LeftFacts, CleanGone DEF CleanInv
<1> QED BY <1>1, <1>2, <1>3, <1>4, <1>5, <1>6, <1>7, <1>8, <1>9, <1>10, CleanReceive, FineKinds

-----------------------------------------------------------------------------
(* What a page waits for comes *)

Answers == {"description", "error"}

\* The start of q's adapter, its connection's description, or an answer is on its way.
Coming(q) ==
  \/ \E i \in 1..Len(from[q]) : from[q][i] = Cmd("start", ad[q].own)
  \/ pcs[ad[q].own].busy
  \/ \E i \in 1..Len(to[q]) : to[q][i].type \in Answers

AnswerInv == \A q \in Pages : ad[q].waiting => Coming(q)

LEMMA AnswerPlaces ==
  /\ TypeOK => (AnswerOnItsWay <=> AnswerInv)
  /\ TypeOK' => (AnswerOnItsWay' <=> AnswerInv')
<1>1. TypeOK => \A q \in Pages : DOMAIN from[q] = 1..Len(from[q]) /\ DOMAIN to[q] = 1..Len(to[q])
  BY Typed, LenProperties
<1>2. TypeOK' =>
        \A q \in Pages : DOMAIN from'[q] = 1..Len(from'[q]) /\ DOMAIN to'[q] = 1..Len(to'[q])
  <2> SUFFICES ASSUME TypeOK', NEW q \in Pages
               PROVE  DOMAIN from'[q] = 1..Len(from'[q]) /\ DOMAIN to'[q] = 1..Len(to'[q])
    OBVIOUS
  <2>1. from'[q] \in Seq(Commands) /\ to'[q] \in Seq(Messages)
    BY TypeParts DEF QueueType
  <2> QED BY <2>1, LenProperties
<1> QED BY <1>1, <1>2 DEF AnswerOnItsWay, AnswerInv, Coming, Answers

\* t is s, with more at its end or without its first, which is not that of place n.
Passes(t, s, n) ==
  \/ t = s
  \/ \E m : Grown(t, s, m)
  \/ Shrunk(t, s) /\ 1 \in 1..Len(s) /\ s[n] # s[1]

LEMMA Remains ==
  ASSUME NEW s, NEW t, NEW n, Len(s) \in Nat, n \in 1..Len(s), Passes(t, s, n)
  PROVE  \E i \in 1..Len(t) : t[i] = s[n]
<1>1. CASE t = s
  BY <1>1
<1>2. ASSUME NEW m, Grown(t, s, m) PROVE \E i \in 1..Len(t) : t[i] = s[n]
  BY <1>2, GrownPlaces
<1>3. CASE Shrunk(t, s) /\ 1 \in 1..Len(s) /\ s[n] # s[1]
  <2>1. n - 1 \in 1..Len(t) /\ t[n - 1] = s[n]
    BY <1>3, ShrunkPlaces
  <2> QED BY <2>1
<1> QED BY <1>1, <1>2, <1>3 DEF Passes

\* The three stay, or make way for the next.
LEMMA ComingKept ==
  ASSUME TypeOK, NEW q \in Pages, Coming(q), ad'[q].own = ad[q].own,
         \/ from'[q] = from[q]
         \/ \E c : Grown(from'[q], from[q], c)
         \/ /\ Shrunk(from'[q], from[q]) /\ 1 \in 1..Len(from[q])
            /\ from[q][1] = Cmd("start", ad[q].own) => pcs'[ad[q].own].busy,
         \/ pcs[ad[q].own].busy => pcs'[ad[q].own].busy
         \/ \E i \in 1..Len(to'[q]) : to'[q][i].type \in Answers,
         \/ to'[q] = to[q]
         \/ \E m : Grown(to'[q], to[q], m)
         \/ Shrunk(to'[q], to[q]) /\ 1 \in 1..Len(to[q]) /\ to[q][1].type \notin Answers
  PROVE  Coming(q)'
<1>1. Len(from[q]) \in Nat /\ Len(to[q]) \in Nat
  BY Typed
<1>2. ASSUME NEW n \in 1..Len(from[q]), from[q][n] = Cmd("start", ad[q].own)
      PROVE  Coming(q)'
  <2>1. CASE from[q][1] = Cmd("start", ad[q].own) /\ pcs'[ad[q].own].busy
    BY <2>1 DEF Coming
  <2>2. CASE ~(from[q][1] = Cmd("start", ad[q].own) /\ pcs'[ad[q].own].busy)
    <3>1. Passes(from'[q], from[q], n)
      BY <1>2, <2>2 DEF Passes
    <3>2. \E i \in 1..Len(from'[q]) : from'[q][i] = from[q][n]
      BY <1>1, <3>1, Remains
    <3> QED BY <1>2, <3>2 DEF Coming
  <2> QED BY <2>1, <2>2
<1>3. CASE pcs[ad[q].own].busy
  BY <1>3 DEF Coming
<1>4. ASSUME NEW n \in 1..Len(to[q]), to[q][n].type \in Answers
      PROVE  Coming(q)'
  <2>1. Passes(to'[q], to[q], n)
    BY <1>4 DEF Passes
  <2>2. \E i \in 1..Len(to'[q]) : to'[q][i] = to[q][n]
    BY <1>1, <2>1, Remains
  <2> QED BY <1>4, <2>2 DEF Coming
<1> QED BY <1>2, <1>3, <1>4 DEF Coming

LEMMA HearsGrows ==
  ASSUME NEW q \in Pages, Hears(q) PROVE to'[q] = to[q] \/ \E m : Grown(to'[q], to[q], m)
BY DEF Hears

LEMMA AnswerNext ==
  ASSUME TypeOK, BootInv, NumberInv, OwnInv, OwnInv', CleanInv, AnswerInv, [Next]_vars
  PROVE  AnswerInv'
<1>1. \A q \in Pages : ad[q].waiting => /\ ad[q].on /\ phase[q] # "gone"
                                        /\ ad[q].own \in Attempts
  BY DEF CleanInv, CleanAt, BootInv, BootAt, OwnInv, OwnAt
<1>2. CASE Still
  BY <1>2 DEF Still, AnswerInv, Coming
<1>3. ASSUME NEW k \in Attempts, Described(k) \/ DescriptionFails(k) PROVE AnswerInv'
  <2>1. /\ UNCHANGED <<ad, from>>
        /\ \A j \in Attempts : j # k => pcs'[j] = pcs[j]
        /\ pcs[k].busy
    BY <1>3, DescribedFacts DEF pageVars
  <2>2. SUFFICES ASSUME NEW q \in Pages, ad[q].waiting PROVE Coming(q)'
    BY <2>1 DEF AnswerInv
  <2>3. Coming(q) /\ (to'[q] = to[q] \/ \E m : Grown(to'[q], to[q], m))
    BY <1>3, <2>2, DescribedHears, HearsGrows DEF AnswerInv
  <2>4. CASE ad[q].own # k
    <3>1. pcs[ad[q].own].busy => pcs'[ad[q].own].busy
      BY <1>1, <2>1, <2>2, <2>4
    <3> QED BY <2>1, <2>3, <3>1, ComingKept
  <2>5. CASE ad[q].own = k
    <3>1. pcs[k].by = q
      <4>1. pcs[k].st # "none"
        BY <2>1 DEF NumberInv
      <4>2. \A i \in 1..Len(from[q]) : from[q][i] # Cmd("start", k)
        <5> SUFFICES ASSUME NEW i \in 1..Len(from[q]), from[q][i] = Cmd("start", k) PROVE FALSE
          OBVIOUS
        <5>1. from[q][i].cmd = "start" /\ from[q][i].pc = k
          BY Made
        <5> QED BY <4>1, <5>1 DEF NumberInv
      <4> QED BY <1>1, <2>2, <2>5, <4>2 DEF OwnInv, OwnAt
    <3>2. PICK m \in Messages : m.type \in Answers /\ Grown(to'[q], to[q], m)
      BY <1>1, <1>3, <2>2, <3>1, DescribedHears DEF Answers
    <3>3. \E i \in 1..Len(to'[q]) : to'[q][i].type \in Answers
      BY <3>2, Typed, GrownPlaces
    <3> QED BY <3>3 DEF Coming
  <2> QED BY <2>4, <2>5
<1>4. ASSUME NEW k \in Attempts, ChannelOpens(k) \/ ChannelLost(k) \/ Reported(k)
      PROVE  AnswerInv'
  <2>1. /\ UNCHANGED <<ad, from>>
        /\ \A j \in Attempts : pcs'[j].busy = pcs[j].busy
    BY <1>4, EventFacts DEF pageVars
  <2>2. \A q \in Pages : to'[q] = to[q] \/ \E m : Grown(to'[q], to[q], m)
    BY <1>4, EventHears, HearsGrows
  <2> QED BY <1>1, <2>1, <2>2, ComingKept DEF AnswerInv
<1>5. ASSUME NEW p \in Pages, Connect(p) PROVE AnswerInv'
  <2>1. /\ UNCHANGED <<ad, from, pcs>>
        /\ \A q \in Pages : to'[q] = to[q] \/ \E m : Grown(to'[q], to[q], m)
    BY <1>5, ConnectedFacts, HearsGrows
  <2> QED BY <2>1, ComingKept DEF AnswerInv
<1>6. ASSUME NEW p \in Pages, Receive(p) PROVE AnswerInv'
  <2>1. /\ UNCHANGED <<pcs, from>>
        /\ Shrunk(to'[p], to[p]) /\ 1 \in 1..Len(to[p])
        /\ \A q \in Pages : q # p => to'[q] = to[q] /\ ad'[q] = ad[q]
    BY <1>6, ReceivedFacts
  <2>2. ad'[p].waiting =>
          ad[p].waiting /\ ad'[p].own = ad[p].own /\ to[p][1].type \notin Answers
    <3>1. ad[p] \in Adapters
      BY TypeParts DEF UseType
    <3>2. CASE to[p][1].type = "init" /\ ad'[p] = ad[p]
      BY <3>2 DEF Answers
    <3>3. CASE /\ to[p][1].type = "state"
               /\ ad'[p] = IF ad[p].on THEN [ad[p] EXCEPT !.state = to[p][1].state] ELSE ad[p]
      BY <3>1, <3>3 DEF Adapters, Answers
    <3>4. CASE IF ad[p].on /\ ad[p].waiting
               THEN ad'[p] = [ad[p] EXCEPT !.waiting = FALSE, !.got = to[p][1].pc,
                                           !.wired = role = "guest"]
               ELSE ad'[p] = ad[p]
      BY <1>1, <3>1, <3>4 DEF Adapters
    <3>5. CASE ad'[p] = [ad[p] EXCEPT !.waiting = FALSE]
      BY <3>1, <3>5 DEF Adapters
    <3> QED BY <1>6, <3>2, <3>3, <3>4, <3>5, ReceivedFacts
  <2>3. \A q \in Pages : q # p => (ad'[q].waiting => Coming(q)')
    BY <2>1 DEF AnswerInv, Coming
  <2>4. ad'[p].waiting => Coming(p)'
    BY <2>1, <2>2, ComingKept DEF AnswerInv
  <2> QED BY <2>3, <2>4 DEF AnswerInv
<1>7. ASSUME NEW p \in Pages, HandleAnswer(p) \/ HandleOther(p) \/ HandleClose(p)
      PROVE  AnswerInv'
  <2>1. /\ UNCHANGED ad
        /\ Shrunk(from'[p], from[p]) /\ 1 \in 1..Len(from[p]) /\ from[p][1].cmd # "start"
        /\ \A q \in Pages : q # p => from'[q] = from[q]
    BY <1>7, HandledFacts, ClosedFacts DEF pageVars
  <2>2. \A j \in Attempts : pcs'[j].busy = pcs[j].busy
    BY <1>7, HandleAnswerFacts, HandleOtherFacts, ClosedFacts
  <2>3. \A q \in Pages : to'[q] = to[q] \/ \E m : Grown(to'[q], to[q], m)
    BY <1>7, WorkHears, HearsGrows, ClosedFacts
  <2>4. ASSUME NEW q \in Pages, ad[q].waiting PROVE Coming(q)'
    <3>1. Coming(q) /\ (pcs[ad[q].own].busy => pcs'[ad[q].own].busy)
      BY <1>1, <2>2, <2>4 DEF AnswerInv
    <3>2. \/ from'[q] = from[q]
          \/ /\ Shrunk(from'[q], from[q]) /\ 1 \in 1..Len(from[q])
             /\ from[q][1] # Cmd("start", ad[q].own)
      BY <2>1, Made
    <3> QED BY <2>1, <2>3, <3>1, <3>2, ComingKept
  <2> QED BY <2>1, <2>4 DEF AnswerInv
<1>8. ASSUME NEW p \in Pages, HandleStart(p) PROVE AnswerInv'
  <2>1. PICK k \in Attempts :
           /\ from[p][1] = Cmd("start", k) /\ 1 \in 1..Len(from[p])
           /\ Shrunk(from'[p], from[p])
           /\ \A q \in Pages : q # p => from'[q] = from[q]
           /\ pcs[k].st = "none" /\ k <= starts
           /\ conn'.there /\ conn'.pc = k
           /\ pcs'[k].st = "gathering" /\ pcs'[k].by = p /\ pcs'[k].busy
           /\ \A j \in Attempts : j # k => pcs'[j] = pcs[j]
           /\ overlaid' = IF conn.there THEN overlaid \cup {<<conn.pc, k>>} ELSE overlaid
           /\ UNCHANGED <<role, starts, ad, phase, status, shown, closer>>
    BY <1>8, HandledStartFacts
  <2>2. \A q \in Pages : to'[q] = to[q] \/ \E m : Grown(to'[q], to[q], m)
    BY <1>8, WorkHears, HearsGrows
  <2>3. ASSUME NEW q \in Pages, ad[q].waiting PROVE Coming(q)'
    <3>1. Coming(q) /\ (pcs[ad[q].own].busy => pcs'[ad[q].own].busy)
      BY <1>1, <2>1, <2>3 DEF AnswerInv
    <3>2. \/ from'[q] = from[q]
          \/ /\ Shrunk(from'[q], from[q]) /\ 1 \in 1..Len(from[q])
             /\ from[q][1] = Cmd("start", ad[q].own) => pcs'[ad[q].own].busy
      <4>1. CASE q # p
        BY <2>1, <4>1
      <4>2. CASE q = p
        <5>1. from[q][1] = Cmd("start", ad[q].own) => k = ad[q].own
          BY <2>1, <4>2, Made
        <5> QED BY <2>1, <4>2, <5>1
      <4> QED BY <4>1, <4>2
    <3> QED BY <2>1, <2>2, <3>1, <3>2, ComingKept
  <2> QED BY <2>1, <2>3 DEF AnswerInv
<1>9. ASSUME NEW p \in Pages,
             FinalizeReconnect(p) \/ Disconnect(p) \/ DeleteSession(p) \/ Send(p)
      PROVE  AnswerInv'
  <2>1. /\ UNCHANGED <<pcs, to>>
        /\ \A q \in Pages : q # p => from'[q] = from[q] /\ ad'[q] = ad[q]
    BY <1>9, UsedFacts DEF workerVars
  <2>2. \A q \in Pages : q # p => (ad'[q].waiting => Coming(q)')
    BY <2>1 DEF AnswerInv, Coming
  <2>3. CASE ad'[p] = NoAdapter
    BY <2>2, <2>3 DEF AnswerInv, NoAdapter
  <2>4. CASE /\ \E c \in Commands : /\ c.cmd \in {"answer", "send"}
                                    /\ Grown(from'[p], from[p], c)
             /\ ad'[p] = ad[p] \/ ad'[p] = [ad[p] EXCEPT !.wired = TRUE]
    <3>1. ad[p] \in Adapters
      BY TypeParts DEF UseType
    <3>2. ad'[p].own = ad[p].own /\ ad'[p].waiting = ad[p].waiting
      BY <2>4, <3>1 DEF Adapters
    <3>3. ad'[p].waiting => Coming(p)'
      BY <2>1, <2>4, <3>2, ComingKept DEF AnswerInv
    <3> QED BY <2>2, <3>3 DEF AnswerInv
  <2> QED BY <1>9, <2>3, <2>4, UsedFacts
<1>10. ASSUME NEW p \in Pages, StartConnection(p) PROVE AnswerInv'
  <2>1. /\ UNCHANGED <<pcs, to>>
        /\ \A q \in Pages : q # p => from'[q] = from[q] /\ ad'[q] = ad[q]
        /\ ad'[p].on /\ ad'[p].own = starts + 1
    BY <1>10, StartedFacts, StartFacts DEF workerVars
  <2>2. \A q \in Pages : q # p => (ad'[q].waiting => Coming(q)')
    BY <2>1 DEF AnswerInv, Coming
  <2>3. pcs'[starts + 1].st = "none"
    <3>1. starts \in Nat /\ starts + 1 \in Attempts
      BY <1>10, Typed, StartFacts
    <3> QED BY <2>1, <3>1 DEF NumberInv
  <2>4. Coming(p)'
    BY <2>1, <2>3 DEF OwnInv, OwnAt, Coming
  <2> QED BY <2>2, <2>4 DEF AnswerInv
<1>11. ASSUME NEW p \in Pages, ClosePage(p) PROVE AnswerInv'
  <2>1. /\ UNCHANGED <<pcs, from>> /\ ad'[p] = NoAdapter
        /\ \A q \in Pages : q # p => to'[q] = to[q] /\ ad'[q] = ad[q]
    BY <1>11, LeftFacts DEF workerVars
  <2> QED BY <2>1 DEF AnswerInv, Coming, NoAdapter
<1> QED BY <1>2, <1>3, <1>4, <1>5, <1>6, <1>7, <1>8, <1>9, <1>10, <1>11, FineKinds

-----------------------------------------------------------------------------
(* A connected session has an open channel *)

\* The entry is that of its connection's object, and on a host it holds its channel.
\* Connected, the entry's channel is open, or a connection that another was put over.
OpenInv ==
  /\ conn.there =>
       /\ pcs[conn.pc].obj = conn.obj
       /\ role = "host" => conn.dc = conn.pc
  /\ conn.there /\ conn.state = "connected" =>
       \/ conn.dc # None /\ pcs[conn.dc].st = "open"
       \/ \E k \in Under : pcs[k].st = "open"

LEMMA UnderFacts ==
  ASSUME TypeOK
  PROVE  /\ Under \subseteq Attempts /\ Over \subseteq Attempts
         /\ conn.there => conn.pc \in Attempts
         /\ conn.dc # None => conn.dc \in Attempts
         /\ \A k \in Attempts : k # None
<1>1. overlaid \subseteq Attempts \X Attempts /\ conn \in Conns /\ (conn.there <=> conn.pc # None)
  BY TypeParts DEF WorkerType
<1> QED BY <1>1, BoundsAssumption DEF Under, Over, Conns

LEMMA OpenKept ==
  ASSUME TypeOK, OpenInv, UNCHANGED <<role, overlaid>>,
         conn'.there = conn.there, conn'.pc = conn.pc, conn'.obj = conn.obj,
         conn'.dc = conn.dc,
         \A j \in Attempts : pcs'[j].obj = pcs[j].obj,
         conn'.state = "connected" =>
           /\ conn.state = "connected"
           /\ \A j \in Attempts : pcs[j].st = "open" => pcs'[j].st = "open"
  PROVE  OpenInv'
<1>1. conn.there => pcs'[conn.pc].obj = conn.obj
  BY UnderFacts DEF OpenInv
<1>2. conn'.there /\ conn'.state = "connected" =>
        \/ conn.dc # None /\ pcs'[conn.dc].st = "open"
        \/ \E k \in Under : pcs'[k].st = "open"
  BY UnderFacts DEF OpenInv
<1>3. Under' = Under
  BY DEF Under
<1> QED BY <1>1, <1>2, <1>3 DEF OpenInv

LEMMA OpenNext ==
  ASSUME TypeOK, BootInv, NumberInv, NoLeakByOnePage, OpenInv, [Next]_vars PROVE OpenInv'
<1>1. ASSUME UNCHANGED <<role, conn, pcs, overlaid>> PROVE OpenInv'
  BY <1>1, OpenKept
<1>2. CASE Still
  BY <1>1, <1>2 DEF Still
<1>3. ASSUME NEW k \in Attempts, Described(k) \/ DescriptionFails(k) PROVE OpenInv'
  <2>1. /\ \A j \in Attempts : pcs'[j].obj = pcs[j].obj
        /\ \A j \in Attempts : j # k => pcs'[j] = pcs[j]
        /\ pcs[k].st # "gathering" => pcs'[k].st = pcs[k].st
        /\ UNCHANGED <<role, conn, overlaid>>
    BY <1>3, DescribedFacts
  <2>2. \A j \in Attempts : pcs[j].st = "open" => pcs'[j].st = "open"
    BY <2>1
  <2> QED BY <2>1, <2>2, OpenKept
<1>4. ASSUME NEW k \in Attempts, ChannelLost(k) \/ Reported(k) PROVE OpenInv'
  <2>1. /\ \A j \in Attempts : /\ pcs'[j].obj = pcs[j].obj
                               /\ j # k => pcs'[j] = pcs[j]
        /\ conn'.there = conn.there /\ conn'.pc = conn.pc /\ conn'.obj = conn.obj
        /\ UNCHANGED <<role, overlaid>>
    BY <1>4, EventFacts
  <2>2. SetState("disconnected")
    BY <1>4 DEF ChannelLost, Reported
  <2>3. conn' = conn \/ conn' = [conn EXCEPT !.state = "disconnected"]
    BY <2>2, SetStateFacts
  <2>4. /\ conn'.dc = conn.dc
        /\ conn.there => conn'.state = "disconnected"
        /\ ~conn.there => conn'.state = "none"
    <3>1. conn \in Conns /\ (conn.there <=> conn.state # "none")
      BY TypeParts DEF WorkerType
    <3>2. CASE conn' = [conn EXCEPT !.state = "disconnected"]
      <4>1. conn.there
        BY <2>2, <3>1, <3>2, SetStateFacts DEF Conns
      <4> QED BY <3>1, <3>2, <4>1 DEF Conns
    <3>3. CASE conn' = conn
      <4>1. ~conn.there \/ conn.state = "disconnected"
        BY <2>2, <3>1, <3>3, SetStateFacts DEF Conns
      <4> QED BY <3>1, <3>3, <4>1
    <3> QED BY <2>3, <3>2, <3>3
  <2>5. conn'.state # "connected"
    BY <2>4
  <2> QED BY <2>1, <2>4, <2>5, OpenKept
<1>5. ASSUME NEW k \in Attempts, ChannelOpens(k) PROVE OpenInv'
  <2>1. /\ \A j \in Attempts : /\ pcs'[j].obj = pcs[j].obj
                               /\ j # k => pcs'[j] = pcs[j]
        /\ conn'.there = conn.there /\ conn'.pc = conn.pc /\ conn'.obj = conn.obj
        /\ UNCHANGED <<role, overlaid>>
    BY <1>5, EventFacts
  <2>2. pcs[k].st = "linked" /\ pcs' = [pcs EXCEPT ![k].st = "open"]
        /\ conn' = IF conn.there
                   THEN [conn EXCEPT !.state = "connected",
                                     !.dc = IF /\ conn.there /\ conn.obj = pcs[k].obj
                                               /\ role = "guest"
                                            THEN k ELSE conn.dc]
                   ELSE conn
    BY <1>5 DEF ChannelOpens
  <2>3. SUFFICES ASSUME conn.there PROVE OpenInv'
    BY <2>1 DEF OpenInv
  <2>4. conn'.dc = IF conn.obj = pcs[k].obj /\ role = "guest" THEN k ELSE conn.dc
    BY <2>2, <2>3, TypeParts DEF WorkerType, Conns
  <2>5. pcs'[k].st = "open"
    BY <2>2, TypeParts DEF WorkerType, Pcs
  <2>6. /\ conn.pc \in Attempts /\ k # None
        /\ pcs[conn.pc].obj = conn.obj
        /\ role = "host" => conn.dc = conn.pc
    BY <2>3, UnderFacts DEF OpenInv
  <2>7. /\ pcs'[conn'.pc].obj = conn'.obj
        /\ role' = "host" => conn'.dc = conn'.pc
    BY <2>1, <2>4, <2>6
  <2>8. CASE k = conn.pc
    <3>1. conn'.dc = k
      <4>1. role \in {"host", "guest"}
        BY DEF TypeOK
      <4> QED BY <2>4, <2>6, <2>8, <4>1
    <3> QED BY <2>5, <2>6, <2>7, <3>1 DEF OpenInv
  <2>9. CASE k # conn.pc
    <3>1. PICK j \in Attempts : <<k, j>> \in overlaid
      BY <2>2, <2>9 DEF NoLeakByOnePage, Live
    <3>2. <<k, j>>[1] = k
      OBVIOUS
    <3>3. k \in Under'
      BY <2>1, <3>1, <3>2 DEF Under
    <3> QED BY <2>5, <2>7, <3>3 DEF OpenInv
  <2> QED BY <2>8, <2>9
<1>6. ASSUME NEW p \in Pages, Connect(p) PROVE OpenInv'
  BY <1>6, ConnectedFacts, OpenKept
<1>7. ASSUME NEW p \in Pages, Receive(p) PROVE OpenInv'
  BY <1>1, <1>7, ReceivedFacts
<1>8. ASSUME NEW p \in Pages, HandleAnswer(p) PROVE OpenInv'
  <2>1. /\ \A j \in Attempts : /\ pcs'[j].obj = pcs[j].obj
                               /\ pcs[j].st \notin {"gathering", "offered"} => pcs'[j] = pcs[j]
        /\ UNCHANGED <<role, conn, overlaid>>
    BY <1>8, HandleAnswerFacts
  <2> QED BY <2>1, OpenKept
<1>9. ASSUME NEW p \in Pages, HandleOther(p) PROVE OpenInv'
  <2>1. from[p][1].cmd # "subscribe"
    BY <1>9, HandledFacts
  <2>2. UNCHANGED <<role, conn, pcs, overlaid>>
    BY <1>9, <2>1, HandleOtherFacts
  <2> QED BY <1>1, <2>2
<1>10. ASSUME NEW p \in Pages, HandleStart(p) PROVE OpenInv'
  <2>1. PICK k \in Attempts :
          /\ conn'.pc = k /\ conn'.state = "connecting"
          /\ conn'.dc = IF role = "host" THEN k ELSE conn.dc
          /\ pcs' = [pcs EXCEPT ![k] = [st |-> "gathering", by |-> p, obj |-> conn'.obj,
                                        busy |-> TRUE]]
          /\ role' = role
    BY <1>10, HandleStartFacts
  <2>2. pcs'[k].obj = conn'.obj
    BY <2>1, TypeParts DEF WorkerType
  <2> QED BY <2>1, <2>2 DEF OpenInv
<1>11. ASSUME NEW p \in Pages, HandleClose(p) PROVE OpenInv'
  BY <1>11, ClosedFacts DEF OpenInv
<1>12. ASSUME NEW p \in Pages,
              \/ FinalizeReconnect(p) \/ Disconnect(p) \/ DeleteSession(p) \/ Send(p)
              \/ StartConnection(p) \/ ClosePage(p)
       PROVE  OpenInv'
  <2>1. UNCHANGED workerVars
    BY <1>12, UsedFacts, StartedFacts, LeftFacts
  <2> QED BY <1>1, <2>1 DEF workerVars
<1> QED BY <1>2, <1>3, <1>4, <1>5, <1>6, <1>7, <1>8, <1>9, <1>10, <1>11, <1>12, FineKinds

-----------------------------------------------------------------------------
(* A page shows the state of its session *)

\* The state that an adapter in state a shows once it has taken what its port, t, carries.
Shows(t, a, s) ==
  \/ (\A i \in 1..Len(t) : t[i].type # "state") /\ a = s
  \/ \E i \in 1..Len(t) :
       /\ t[i].type = "state" /\ t[i].state = s
       /\ \A j \in 1..Len(t) : j > i => t[j].type # "state"

\* The page whose start the worker has handled, and whose session no other page closed.
MirrorAt(p) ==
  ad[p].on /\ pcs[ad[p].own].st # "none" /\ closer \in {None, p} =>
    /\ conn.there /\ p \in conn.ports
    /\ ad[p].own \notin Over => Shows(to[p], ad[p].state, conn.state)
MirrorInv == \A p \in Pages : MirrorAt(p)

LEMMA ShowsOther ==
  ASSUME NEW t, NEW u, NEW m, NEW a, NEW s, Len(u) \in Nat, Grown(t, u, m),
         m.type # "state", Shows(u, a, s)
  PROVE  Shows(t, a, s)
<1>1. /\ \A i \in 1..Len(t) : \/ i \in 1..Len(u) /\ t[i] = u[i]
                              \/ i = Len(u) + 1 /\ t[i] = m
      /\ \A i \in 1..Len(u) : i \in 1..Len(t) /\ t[i] = u[i]
  BY GrownPlaces
<1>2. CASE (\A i \in 1..Len(u) : u[i].type # "state") /\ a = s
  BY <1>1, <1>2 DEF Shows
<1>3. ASSUME NEW i \in 1..Len(u), u[i].type = "state", u[i].state = s,
             \A j \in 1..Len(u) : j > i => u[j].type # "state"
      PROVE  Shows(t, a, s)
  <2>1. i \in 1..Len(t) /\ t[i].type = "state" /\ t[i].state = s
    BY <1>1, <1>3
  <2>2. \A j \in 1..Len(t) : j > i => t[j].type # "state"
    BY <1>1, <1>3
  <2> QED BY <2>1, <2>2 DEF Shows
<1> QED BY <1>2, <1>3 DEF Shows

LEMMA ShowsState ==
  ASSUME NEW t, NEW u, NEW m, NEW a, Len(u) \in Nat, Grown(t, u, m), m.type = "state"
  PROVE  Shows(t, a, m.state)
<1>1. /\ Len(t) = Len(u) + 1 /\ Len(u) + 1 \in 1..Len(t) /\ t[Len(u) + 1] = m
  BY GrownPlaces
<1>2. \A n \in Nat : \A j \in 1..n + 1 : ~(j > n + 1)
  OBVIOUS
<1>3. \A j \in 1..Len(t) : ~(j > Len(u) + 1)
  BY <1>1, <1>2
<1> QED BY <1>1, <1>3 DEF Shows

LEMMA ShowsShrunk ==
  ASSUME NEW t, NEW u, NEW a, NEW b, NEW s, Len(u) \in Nat, Shrunk(t, u), 1 \in 1..Len(u),
         b = IF u[1].type = "state" THEN u[1].state ELSE a, Shows(u, a, s)
  PROVE  Shows(t, b, s)
<1>1. /\ \A i \in 1..Len(t) : i + 1 \in 1..Len(u) /\ t[i] = u[i + 1]
      /\ \A i \in 1..Len(u) : i # 1 => i - 1 \in 1..Len(t) /\ t[i - 1] = u[i]
      /\ Len(t) \in Nat
  BY ShrunkPlaces
<1>2. CASE (\A i \in 1..Len(u) : u[i].type # "state") /\ a = s
  <2>1. \A i \in 1..Len(t) : t[i].type # "state"
    BY <1>1, <1>2
  <2> QED BY <1>2, <2>1 DEF Shows
<1>3. ASSUME NEW i \in 1..Len(u), u[i].type = "state", u[i].state = s,
             \A j \in 1..Len(u) : j > i => u[j].type # "state"
      PROVE  Shows(t, b, s)
  <2>1. ASSUME NEW j \in 1..Len(t), j + 1 > i PROVE t[j].type # "state"
    <3>1. j + 1 \in 1..Len(u) /\ t[j] = u[j + 1]
      BY <1>1
    <3> QED BY <1>3, <2>1, <3>1
  <2>2. CASE i = 1
    <3>1. \A j \in 1..Len(t) : t[j].type # "state"
      BY <2>1, <2>2
    <3> QED BY <1>3, <2>2, <3>1 DEF Shows
  <2>3. CASE i # 1
    <3>1. i - 1 \in 1..Len(t) /\ t[i - 1].type = "state" /\ t[i - 1].state = s
      BY <1>1, <1>3, <2>3
    <3>2. \A j \in 1..Len(t) : j > i - 1 => t[j].type # "state"
      BY <2>1
    <3> QED BY <3>1, <3>2 DEF Shows
  <2> QED BY <2>2, <2>3
<1> QED BY <1>2, <1>3 DEF Shows

\* What q's adapter makes of what it hears.
Follows(q) ==
  \/ Hears(q) /\ ad'[q].state = ad[q].state
  \/ /\ Shrunk(to'[q], to[q]) /\ 1 \in 1..Len(to[q]) /\ conn'.state = conn.state
     /\ ad'[q].state = IF to[q][1].type = "state" THEN to[q][1].state ELSE ad[q].state

LEMMA FollowsShows ==
  ASSUME TypeOK, NEW q \in Pages, phase[q] # "gone", q \in conn'.ports, Follows(q),
         Shows(to[q], ad[q].state, conn.state)
  PROVE  Shows(to'[q], ad'[q].state, conn'.state)
<1>1. Len(to[q]) \in Nat
  BY Typed
<1>2. CASE to'[q] = to[q] /\ conn'.state = conn.state /\ ad'[q].state = ad[q].state
  BY <1>2
<1>3. ASSUME NEW m \in Messages, Grown(to'[q], to[q], m), m.type # "state",
             conn'.state = conn.state, ad'[q].state = ad[q].state
      PROVE  Shows(to'[q], ad'[q].state, conn'.state)
  BY <1>1, <1>3, ShowsOther
<1>4. ASSUME NEW m \in Messages, Grown(to'[q], to[q], m), m.type = "state",
             m.state = conn'.state
      PROVE  Shows(to'[q], ad'[q].state, conn'.state)
  <2>1. Shows(to'[q], ad'[q].state, m.state)
    BY <1>1, <1>4, ShowsState
  <2> QED BY <1>4, <2>1
<1>5. CASE /\ Shrunk(to'[q], to[q]) /\ 1 \in 1..Len(to[q]) /\ conn'.state = conn.state
           /\ ad'[q].state = IF to[q][1].type = "state" THEN to[q][1].state ELSE ad[q].state
  <2>1. Shows(to'[q], ad'[q].state, conn.state)
    BY <1>1, <1>5, ShowsShrunk
  <2> QED BY <1>5, <2>1
<1> QED BY <1>2, <1>3, <1>4, <1>5 DEF Follows, Hears

\* A page that keeps its adapter, in a session that stays.
LEMMA MirrorKept ==
  ASSUME TypeOK, BootInv, NEW q \in Pages, MirrorAt(q), ad'[q].on = ad[q].on,
         ad'[q].own = ad[q].own,
         ad[q].on /\ pcs'[ad[q].own].st # "none" => pcs[ad[q].own].st # "none",
         closer' = closer, overlaid \subseteq overlaid',
         conn.there => conn'.there /\ conn.ports \subseteq conn'.ports, Follows(q)
  PROVE  MirrorAt(q)'
<1> SUFFICES ASSUME ad[q].on, pcs'[ad[q].own].st # "none", closer \in {None, q}
             PROVE  /\ conn'.there /\ q \in conn'.ports
                    /\ ad[q].own \notin Over' => Shows(to'[q], ad'[q].state, conn'.state)
  BY DEF MirrorAt
<1>1. phase[q] # "gone"
  BY DEF BootInv, BootAt
<1>2. Over \subseteq Over'
  BY DEF Over
<1>3. /\ conn.there /\ q \in conn.ports
      /\ ad[q].own \notin Over => Shows(to[q], ad[q].state, conn.state)
  BY DEF MirrorAt
<1> QED BY <1>1, <1>2, <1>3, FollowsShows

LEMMA MirrorNext ==
  ASSUME TypeOK, BootInv, NumberInv, NumberInv', OwnInv, OwnInv', MirrorInv, [Next]_vars
  PROVE  MirrorInv'
<1>1. \A q \in Pages : ad[q].on => ad[q].own \in Attempts
  BY DEF OwnInv, OwnAt
<1>2. ASSUME \A j \in Attempts : pcs'[j].st # "none" => pcs[j].st # "none",
             UNCHANGED <<closer, overlaid>>, conn'.there = conn.there,
             conn.ports \subseteq conn'.ports,
             NEW q \in Pages, ad'[q].on = ad[q].on, ad'[q].own = ad[q].own, Follows(q)
      PROVE  MirrorAt(q)'
  BY <1>1, <1>2, MirrorKept DEF MirrorInv
<1>3. CASE Still
  <2>1. \A q \in Pages : Follows(q)
    BY <1>3, HearsNothing DEF Still, Follows
  <2> QED BY <1>2, <1>3, <2>1 DEF Still, MirrorInv
<1>4. ASSUME NEW k \in Attempts, Described(k) \/ DescriptionFails(k) PROVE MirrorInv'
  <2>1. /\ \A j \in Attempts : j # k => pcs'[j] = pcs[j]
        /\ pcs[k].st # "gathering" => pcs'[k].st = pcs[k].st
        /\ UNCHANGED <<conn, overlaid, closer, ad>>
    BY <1>4, DescribedFacts DEF pageVars
  <2>2. \A j \in Attempts : pcs'[j].st # "none" => pcs[j].st # "none"
    BY <2>1
  <2>3. \A q \in Pages : Follows(q)
    BY <1>4, <2>1, DescribedHears DEF Follows
  <2> QED BY <1>2, <2>1, <2>2, <2>3 DEF MirrorInv
<1>5. ASSUME NEW k \in Attempts, ChannelOpens(k) \/ ChannelLost(k) \/ Reported(k)
      PROVE  MirrorInv'
  <2>1. /\ \A j \in Attempts : j # k => pcs'[j] = pcs[j]
        /\ pcs[k].st # "none"
        /\ conn'.there = conn.there /\ conn'.ports = conn.ports
        /\ UNCHANGED <<overlaid, closer, ad>>
    BY <1>5, EventFacts DEF pageVars
  <2>2. \A j \in Attempts : pcs'[j].st # "none" => pcs[j].st # "none"
    BY <2>1
  <2>3. \A q \in Pages : Follows(q)
    BY <1>5, <2>1, EventHears DEF Follows
  <2> QED BY <1>2, <2>1, <2>2, <2>3 DEF MirrorInv
<1>6. ASSUME NEW p \in Pages, Connect(p) PROVE MirrorInv'
  <2>1. \A q \in Pages : Follows(q)
    BY <1>6, ConnectedFacts DEF Follows
  <2> QED BY <1>2, <1>6, <2>1, ConnectedFacts DEF MirrorInv
<1>7. ASSUME NEW p \in Pages, Receive(p) PROVE MirrorInv'
  <2>1. /\ UNCHANGED <<conn, pcs, overlaid, closer>>
        /\ Shrunk(to'[p], to[p]) /\ 1 \in 1..Len(to[p])
        /\ \A q \in Pages : q # p => to'[q] = to[q] /\ ad'[q] = ad[q]
    BY <1>7, ReceivedFacts
  <2>2. /\ ad'[p].on = ad[p].on /\ ad'[p].own = ad[p].own
        /\ ad[p].on => ad'[p].state = IF to[p][1].type = "state" THEN to[p][1].state
                                      ELSE ad[p].state
    <3>1. ad[p] \in Adapters
      BY TypeParts DEF UseType
    <3>2. CASE to[p][1].type = "init" /\ ad'[p] = ad[p]
      BY <3>2
    <3>3. CASE /\ to[p][1].type = "state"
               /\ ad'[p] = IF ad[p].on THEN [ad[p] EXCEPT !.state = to[p][1].state] ELSE ad[p]
      BY <3>1, <3>3 DEF Adapters
    <3>4. CASE /\ to[p][1].type = "description"
               /\ IF ad[p].on /\ ad[p].waiting
                  THEN ad'[p] = [ad[p] EXCEPT !.waiting = FALSE, !.got = to[p][1].pc,
                                              !.wired = role = "guest"]
                  ELSE ad'[p] = ad[p]
      BY <3>1, <3>4 DEF Adapters
    <3>5. CASE to[p][1].type = "error" /\ ad'[p] = [ad[p] EXCEPT !.waiting = FALSE]
      BY <3>1, <3>5 DEF Adapters
    <3> QED BY <1>7, <3>2, <3>3, <3>4, <3>5, ReceivedFacts
  <2>3. \A q \in Pages : q # p => Follows(q)
    BY <2>1 DEF Follows, Hears
  <2>4. \A q \in Pages : q # p => MirrorAt(q)'
    BY <1>2, <2>1, <2>3
  <2>5. CASE ad[p].on
    <3>1. Follows(p)
      BY <2>1, <2>2, <2>5 DEF Follows
    <3> QED BY <1>2, <2>1, <2>2, <2>4, <3>1 DEF MirrorInv
  <2>6. CASE ~ad[p].on
    BY <2>2, <2>4, <2>6 DEF MirrorInv, MirrorAt
  <2> QED BY <2>5, <2>6
<1>8. ASSUME NEW p \in Pages, HandleAnswer(p) \/ HandleOther(p) PROVE MirrorInv'
  <2>1. /\ \A j \in Attempts : pcs'[j].st # "none" => pcs[j].st # "none"
        /\ conn'.there = conn.there
        /\ UNCHANGED <<closer, overlaid, ad>>
    BY <1>8, HandledFacts DEF Stays, pageVars
  <2>2. from[p][1].cmd # "subscribe"
    BY <1>8, HandledFacts
  <2>3. conn' = conn
    BY <1>8, <2>2, HandleAnswerFacts, HandleOtherFacts
  <2>4. \A q \in Pages : Follows(q)
    BY <1>8, <2>1, WorkHears DEF Follows
  <2> QED BY <1>2, <2>1, <2>3, <2>4 DEF MirrorInv
<1>9. ASSUME NEW p \in Pages, HandleStart(p) PROVE MirrorInv'
  <2>1. PICK k \in Attempts :
           /\ from[p][1] = Cmd("start", k) /\ 1 \in 1..Len(from[p])
           /\ Shrunk(from'[p], from[p])
           /\ \A q \in Pages : q # p => from'[q] = from[q]
           /\ pcs[k].st = "none" /\ k <= starts
           /\ conn'.there /\ conn'.pc = k
           /\ pcs'[k].st = "gathering" /\ pcs'[k].by = p /\ pcs'[k].busy
           /\ \A j \in Attempts : j # k => pcs'[j] = pcs[j]
           /\ overlaid' = IF conn.there THEN overlaid \cup {<<conn.pc, k>>} ELSE overlaid
           /\ UNCHANGED <<role, starts, ad, phase, status, shown, closer>>
    BY <1>9, HandledStartFacts
  <2>2. conn'.ports = conn.ports \cup {p} /\ conn'.state = "connecting"
    BY <1>9, HandleStartFacts
  <2>3. \A q \in Pages : Hears(q) /\ Follows(q)
    BY <1>9, <2>1, WorkHears DEF Follows
  <2>4. ASSUME NEW q \in Pages, ~(ad[q].on /\ ad[q].own = k) PROVE MirrorAt(q)'
    <3>1. ad[q].on /\ pcs'[ad[q].own].st # "none" => pcs[ad[q].own].st # "none"
      BY <1>1, <2>1, <2>4
    <3> QED BY <2>1, <2>2, <2>3, <3>1, MirrorKept DEF MirrorInv
  <2>5. ASSUME NEW q \in Pages, ad[q].on, ad[q].own = k PROVE MirrorAt(q)'
    <3>1. q = p
      <4>1. \A i \in 1..Len(from'[q]) : from'[q][i] # Cmd("start", k)
        <5> SUFFICES ASSUME NEW i \in 1..Len(from'[q]), from'[q][i] = Cmd("start", k)
                     PROVE  FALSE
          OBVIOUS
        <5>1. from'[q][i].cmd = "start" /\ from'[q][i].pc = k
          BY Made
        <5> QED BY <2>1, <5>1 DEF NumberInv
      <4>2. OwnAt(q)' /\ ad'[q].on /\ ad'[q].own = k
        BY <2>1, <2>5 DEF OwnInv
      <4> QED BY <2>1, <4>1, <4>2 DEF OwnAt
    <3>2. CASE conn.there
      <4>1. <<conn.pc, k>>[2] = k
        OBVIOUS
      <4>2. k \in Over'
        BY <2>1, <3>2, <4>1 DEF Over
      <4> QED BY <2>1, <2>2, <2>5, <3>1, <4>2 DEF MirrorAt
    <3>3. CASE ~conn.there
      <4>1. conn'.state # conn.state /\ phase[q] # "gone" /\ Len(to[q]) \in Nat
        BY <2>2, <2>5, <3>3, Typed DEF BootInv, BootAt, NoConn
      <4>2. PICK m \in Messages :
              /\ Grown(to'[q], to[q], m) /\ m.type = "state" /\ m.state = conn'.state
        BY <2>2, <2>3, <3>1, <4>1 DEF Hears
      <4>3. Shows(to'[q], ad'[q].state, m.state)
        BY <4>1, <4>2, ShowsState
      <4>4. Shows(to'[q], ad'[q].state, conn'.state)
        BY <4>2, <4>3
      <4> QED BY <2>1, <2>2, <3>1, <4>4 DEF MirrorAt
    <3> QED BY <3>2, <3>3
  <2> QED BY <2>4, <2>5 DEF MirrorInv
<1>10. ASSUME NEW p \in Pages, HandleClose(p) PROVE MirrorInv'
  <2>1. /\ \A j \in Attempts : pcs'[j].st # "none" <=> pcs[j].st # "none"
        /\ from[p][1].cmd = "close" /\ 1 \in 1..Len(from[p])
        /\ UNCHANGED ad /\ closer' = IF conn.there THEN p ELSE closer
    BY <1>10, ClosedFacts
  <2> SUFFICES ASSUME NEW q \in Pages, ad[q].on, pcs'[ad[q].own].st # "none",
                      closer' \in {None, q}
               PROVE  FALSE
    BY <2>1 DEF MirrorInv, MirrorAt
  <2>2. pcs[ad[q].own].st # "none"
    BY <1>1, <2>1
  <2>3. CASE conn.there
    <3>1. q = p
      BY <2>1, <2>3, PagesAssumption
    <3>2. \A i \in 1..Len(from[p]) : from[p][i] # Cmd("start", ad[q].own)
      <4> SUFFICES ASSUME NEW i \in 1..Len(from[p]), from[p][i] = Cmd("start", ad[q].own)
                   PROVE  FALSE
        OBVIOUS
      <4>1. from[p][i].cmd = "start" /\ from[p][i].pc = ad[q].own
        BY Made
      <4> QED BY <2>2, <4>1 DEF NumberInv
    <3> QED BY <2>1, <3>1, <3>2 DEF OwnInv, OwnAt
  <2>4. CASE ~conn.there
    BY <2>1, <2>2, <2>4 DEF MirrorInv, MirrorAt
  <2> QED BY <2>3, <2>4
<1>11. ASSUME NEW p \in Pages,
              FinalizeReconnect(p) \/ Disconnect(p) \/ DeleteSession(p) \/ Send(p)
       PROVE  MirrorInv'
  <2>1. /\ UNCHANGED <<conn, pcs, overlaid, closer, to>>
        /\ \A q \in Pages : q # p => ad'[q] = ad[q]
    BY <1>11, UsedFacts DEF workerVars
  <2>2. \A q \in Pages : ad'[q].state = ad[q].state => Follows(q)
    BY <2>1, HearsNothing DEF Follows
  <2>3. \A q \in Pages : q # p => MirrorAt(q)'
    BY <1>2, <2>1, <2>2
  <2>4. CASE ad'[p] = NoAdapter
    BY <2>3, <2>4 DEF MirrorInv, MirrorAt, NoAdapter
  <2>5. CASE ad'[p] = ad[p] \/ ad'[p] = [ad[p] EXCEPT !.wired = TRUE]
    <3>1. ad[p] \in Adapters
      BY TypeParts DEF UseType
    <3>2. ad'[p].on = ad[p].on /\ ad'[p].own = ad[p].own /\ ad'[p].state = ad[p].state
      BY <2>5, <3>1 DEF Adapters
    <3>3. MirrorAt(p)'
      BY <1>2, <2>1, <2>2, <3>2
    <3> QED BY <2>3, <3>3 DEF MirrorInv
  <2> QED BY <1>11, <2>4, <2>5, UsedFacts
<1>12. ASSUME NEW p \in Pages, StartConnection(p) PROVE MirrorInv'
  <2>1. /\ UNCHANGED <<conn, pcs, overlaid, closer, to>> /\ ad'[p].own = starts + 1
        /\ \A q \in Pages : q # p => ad'[q] = ad[q]
    BY <1>12, StartedFacts DEF workerVars
  <2>2. \A q \in Pages : q # p => MirrorAt(q)'
    BY <1>2, <2>1, HearsNothing DEF Follows
  <2>3. pcs'[starts + 1].st = "none"
    <3>1. starts \in Nat /\ starts + 1 \in Attempts
      BY <1>12, Typed, StartFacts
    <3> QED BY <2>1, <3>1 DEF NumberInv
  <2> QED BY <2>1, <2>2, <2>3 DEF MirrorInv, MirrorAt
<1>13. ASSUME NEW p \in Pages, ClosePage(p) PROVE MirrorInv'
  <2>1. /\ UNCHANGED <<conn, pcs, overlaid, closer>> /\ ad'[p] = NoAdapter
        /\ \A q \in Pages : q # p => ad'[q] = ad[q] /\ to'[q] = to[q]
    BY <1>13, LeftFacts DEF workerVars
  <2>2. \A q \in Pages : q # p => Follows(q)
    BY <2>1 DEF Follows, Hears
  <2>3. \A q \in Pages : q # p => MirrorAt(q)'
    BY <1>2, <2>1, <2>2
  <2> QED BY <2>1, <2>3 DEF MirrorInv, MirrorAt, NoAdapter
<1> QED BY <1>3, <1>4, <1>5, <1>6, <1>7, <1>8, <1>9, <1>10, <1>11, <1>12, <1>13, FineKinds

-----------------------------------------------------------------------------
(* A session that is shown as connected can send *)

\* Message i of a port says s.
Says(t, i, s) == t[i].type = "state" /\ t[i].state = s

\* With what its port carries, t, a page that shows st comes to show a connected session.
Turns(t, st) ==
  \/ st = "connected" /\ \A j \in 1..Len(t) : ~Says(t, j, "disconnected")
  \/ \E i \in 1..Len(t) :
       /\ Says(t, i, "connected")
       /\ \A j \in 1..Len(t) : j > i => ~Says(t, j, "disconnected")
       /\ st # "disconnected" \/ \E j \in 1..Len(t) : j < i /\ t[j].type = "description"

\* A connected session, or one that hides behind another's start that it is.
Carried ==
  \/ conn.state = "connected"
  \/ conn.state = "connecting" /\ \E k \in Under : pcs[k].st = "open"

\* A page that shows its session as connected, or is about to, is right.
ShownAt(p) ==
  /\ status[p] = "connected" => ad[p].wired /\ ad[p].state # "disconnected"
  /\ /\ ad[p].on /\ ad[p].clean /\ conn.there /\ p \in conn.ports
     /\ Turns(to[p], status[p])
     => Carried
ShownInv == \A p \in Pages : ShownAt(p)

LEMMA TurnsGrown ==
  ASSUME NEW t, NEW u, NEW m, NEW st, Len(u) \in Nat, Grown(t, u, m),
         ~(m.type = "state" /\ m.state = "connected"), Turns(t, st)
  PROVE  /\ Turns(u, st)
         /\ ~(m.type = "state" /\ m.state = "disconnected")
<1>1. /\ \A i \in 1..Len(t) : \/ i \in 1..Len(u) /\ t[i] = u[i]
                              \/ i = Len(u) + 1 /\ t[i] = m
      /\ \A i \in 1..Len(u) : i \in 1..Len(t) /\ t[i] = u[i]
      /\ Len(t) = Len(u) + 1 /\ Len(u) + 1 \in 1..Len(t) /\ t[Len(u) + 1] = m
  BY GrownPlaces
<1>2. \A n \in Nat : \A i \in 1..n : n + 1 > i /\ i \in Nat
  OBVIOUS
<1>3. CASE st = "connected" /\ \A j \in 1..Len(t) : ~Says(t, j, "disconnected")
  <2>1. \A j \in 1..Len(u) : ~Says(u, j, "disconnected")
    BY <1>1, <1>3 DEF Says
  <2>2. ~Says(t, Len(u) + 1, "disconnected")
    BY <1>1, <1>3
  <2> QED BY <1>1, <1>3, <2>1, <2>2 DEF Turns, Says
<1>4. ASSUME NEW i \in 1..Len(t), Says(t, i, "connected"),
             \A j \in 1..Len(t) : j > i => ~Says(t, j, "disconnected"),
             st # "disconnected" \/ \E j \in 1..Len(t) : j < i /\ t[j].type = "description"
      PROVE  /\ Turns(u, st)
             /\ ~(m.type = "state" /\ m.state = "disconnected")
  <2>1. i \in 1..Len(u) /\ t[i] = u[i]
    BY <1>1, <1>4 DEF Says
  <2>2. Len(u) + 1 > i
    BY <1>2, <2>1
  <2>3. ~Says(t, Len(u) + 1, "disconnected")
    BY <1>1, <1>4, <2>2
  <2>4. Says(u, i, "connected") /\ \A j \in 1..Len(u) : j > i => ~Says(u, j, "disconnected")
    BY <1>1, <1>4, <2>1 DEF Says
  <2>5. \A j \in 1..Len(t) : j < i => j \in 1..Len(u) /\ t[j] = u[j]
    <3>1. \A n \in Nat : \A l \in 1..n + 1, h \in 1..n : l < h => l # n + 1
      OBVIOUS
    <3> QED BY <1>1, <2>1, <3>1
  <2>6. st # "disconnected" \/ \E j \in 1..Len(u) : j < i /\ u[j].type = "description"
    BY <1>4, <2>5
  <2> QED BY <1>1, <2>1, <2>3, <2>4, <2>6 DEF Turns, Says
<1> QED BY <1>3, <1>4 DEF Turns

\* The first message is taken.
LEMMA TurnsShrunk ==
  ASSUME NEW t, NEW u, NEW st, NEW old, Len(u) \in Nat, Shrunk(t, u), 1 \in 1..Len(u),
         st = "connected" => \/ old = "connected" /\ ~Says(u, 1, "disconnected")
                             \/ old # "disconnected" /\ Says(u, 1, "connected"),
         st # "disconnected" => old # "disconnected" \/ u[1].type = "description",
         Turns(t, st)
  PROVE  Turns(u, old)
<1>1. /\ \A i \in 1..Len(t) : i + 1 \in 1..Len(u) /\ t[i] = u[i + 1]
      /\ \A i \in 1..Len(u) : i # 1 => i - 1 \in 1..Len(t) /\ t[i - 1] = u[i]
      /\ Len(t) \in Nat
  BY ShrunkPlaces
<1>2. CASE st = "connected" /\ \A j \in 1..Len(t) : ~Says(t, j, "disconnected")
  <2>1. \A j \in 1..Len(u) : j # 1 => ~Says(u, j, "disconnected")
    BY <1>1, <1>2 DEF Says
  <2>2. CASE old = "connected" /\ ~Says(u, 1, "disconnected")
    <3>1. \A j \in 1..Len(u) : ~Says(u, j, "disconnected")
      BY <2>1, <2>2
    <3> QED BY <2>2, <3>1 DEF Turns
  <2>3. CASE old # "disconnected" /\ Says(u, 1, "connected")
    <3>1. \A j \in 1..Len(u) : j > 1 => j # 1
      OBVIOUS
    <3> QED BY <2>1, <2>3, <3>1 DEF Turns
  <2> QED BY <1>2, <2>2, <2>3
<1>3. ASSUME NEW i \in 1..Len(t), Says(t, i, "connected"),
             \A j \in 1..Len(t) : j > i => ~Says(t, j, "disconnected"),
             st # "disconnected" \/ \E j \in 1..Len(t) : j < i /\ t[j].type = "description"
      PROVE  Turns(u, old)
  <2>1. i + 1 \in 1..Len(u) /\ Says(u, i + 1, "connected")
    BY <1>1, <1>3 DEF Says
  <2>2. \A j \in 1..Len(u) : j > i + 1 => ~Says(u, j, "disconnected")
    <3>1. \A j \in 1..Len(u) : j > i + 1 => j # 1 /\ j - 1 > i
      OBVIOUS
    <3> QED BY <1>1, <1>3, <3>1 DEF Says
  <2>3. old # "disconnected" \/ \E j \in 1..Len(u) : j < i + 1 /\ u[j].type = "description"
    <3>1. CASE st # "disconnected"
      <4>1. 1 < i + 1
        OBVIOUS
      <4> QED BY <3>1, <4>1
    <3>2. ASSUME NEW j \in 1..Len(t), j < i, t[j].type = "description"
          PROVE  \E l \in 1..Len(u) : l < i + 1 /\ u[l].type = "description"
      <4>1. j + 1 < i + 1
        BY <3>2
      <4> QED BY <1>1, <3>2, <4>1
    <3> QED BY <1>3, <3>1, <3>2
  <2> QED BY <2>1, <2>2, <2>3 DEF Turns
<1> QED BY <1>2, <1>3 DEF Turns

\* A page that shows its session as disconnected turns by a description.
LEMMA TurnsNot ==
  ASSUME NEW t, \A i \in 1..Len(t) : t[i].type # "description"
  PROVE  ~Turns(t, "disconnected")
BY DEF Turns

\* An open connection that is put under another, or is there already.
LEMMA CarriedUnder ==
  ASSUME TypeOK, NumberInv, NoLeakByOnePage, OpenInv, Carried, conn.there,
         NEW k \in Attempts, pcs[k].st = "none",
         \A j \in Attempts : j # k => pcs'[j] = pcs[j],
         overlaid' = overlaid \cup {<<conn.pc, k>>}
  PROVE  \E j \in Under' : pcs'[j].st = "open"
<1>1. conn.pc \in Attempts /\ Under \subseteq Attempts
  BY UnderFacts
<1>2. conn.pc \in Under' /\ Under \subseteq Under'
  <2>1. <<conn.pc, k>>[1] = conn.pc
    OBVIOUS
  <2> QED BY <2>1 DEF Under
<1>3. ASSUME NEW j \in Attempts, pcs[j].st = "open", j \in Under'
      PROVE  \E i \in Under' : pcs'[i].st = "open"
  <2>1. pcs'[j] = pcs[j]
    BY <1>3
  <2> QED BY <1>3, <2>1
<1>4. ASSUME NEW j \in Under, pcs[j].st = "open"
      PROVE  \E i \in Under' : pcs'[i].st = "open"
  BY <1>1, <1>2, <1>3, <1>4
<1>5. CASE conn.dc # None /\ pcs[conn.dc].st = "open"
  <2>1. conn.dc \in Attempts
    BY <1>5, UnderFacts
  <2>2. CASE conn.dc = conn.pc
    BY <1>2, <1>3, <1>5, <2>1, <2>2
  <2>3. CASE conn.dc # conn.pc
    <3>1. PICK j \in Attempts : <<conn.dc, j>> \in overlaid
      BY <1>5, <2>1, <2>3 DEF NoLeakByOnePage, Live
    <3>2. <<conn.dc, j>>[1] = conn.dc
      OBVIOUS
    <3>3. conn.dc \in Under
      BY <3>1, <3>2 DEF Under
    <3> QED BY <1>4, <1>5, <3>3
  <2> QED BY <2>2, <2>3
<1> QED BY <1>4, <1>5 DEF Carried, OpenInv

\* What q's port carries grows by nothing that tells of a connection.
LEMMA TurnsHeard ==
  ASSUME TypeOK, NEW q \in Pages, Hears(q), phase[q] # "gone", q \in conn'.ports,
         conn'.state # "connected", NEW st, Turns(to'[q], st)
  PROVE  /\ Turns(to[q], st)
         /\ conn'.state # conn.state => conn'.state # "disconnected"
<1>1. Len(to[q]) \in Nat
  BY Typed
<1>2. CASE to'[q] = to[q] /\ conn'.state = conn.state
  BY <1>2
<1>3. ASSUME NEW m \in Messages, Grown(to'[q], to[q], m),
             m.type # "state" => conn'.state = conn.state,
             m.type = "state" => m.state = conn'.state
      PROVE  /\ Turns(to[q], st)
             /\ conn'.state # conn.state => conn'.state # "disconnected"
  <2>1. /\ Turns(to[q], st)
        /\ ~(m.type = "state" /\ m.state = "disconnected")
    BY <1>1, <1>3, TurnsGrown
  <2> QED BY <1>3, <2>1
<1> QED BY <1>2, <1>3 DEF Hears

\* A page that keeps its adapter and its status, when no connection is lost.
LEMMA ShownKept ==
  ASSUME TypeOK, BootInv, NEW q \in Pages, ShownAt(q), Hears(q),
         status'[q] = status[q],
         \/ ad'[q] = ad[q]
         \/ ad'[q] = [ad[q] EXCEPT !.wired = TRUE],
         conn'.there => conn.there, q \in conn'.ports => q \in conn.ports \/ ~ad[q].on,
         conn'.state \in {conn.state, "connected", "disconnected"},
         Under \subseteq Under',
         conn'.there /\ conn'.state # "disconnected" =>
           \A j \in Attempts : pcs[j].st = "open" => pcs'[j].st = "open"
  PROVE  ShownAt(q)'
<1>0. /\ ad'[q].on = ad[q].on /\ ad'[q].clean = ad[q].clean /\ ad'[q].state = ad[q].state
      /\ ad[q].wired => ad'[q].wired
  <2>1. ad[q] \in Adapters
    BY TypeParts DEF UseType
  <2> QED BY <2>1 DEF Adapters
<1>1. status'[q] = "connected" => ad'[q].wired /\ ad'[q].state # "disconnected"
  BY <1>0 DEF ShownAt
<1>2. SUFFICES ASSUME ad[q].on, ad[q].clean, conn'.there, q \in conn'.ports,
                      Turns(to'[q], status[q]), conn'.state # "connected"
               PROVE  Carried'
  BY <1>0, <1>1 DEF ShownAt, Carried
<1>3. phase[q] # "gone"
  BY <1>2 DEF BootInv, BootAt
<1>4. /\ Turns(to[q], status[q])
      /\ conn'.state # conn.state => conn'.state # "disconnected"
  BY <1>2, <1>3, TurnsHeard
<1>5. Carried /\ conn'.state = conn.state
  BY <1>2, <1>4 DEF ShownAt
<1>6. conn.state = "connecting" /\ \E k \in Under : pcs[k].st = "open"
  BY <1>2, <1>5 DEF Carried
<1>7. PICK k \in Under : pcs[k].st = "open"
  BY <1>6
<1>8. k \in Attempts /\ pcs'[k].st = "open"
  BY <1>2, <1>5, <1>6, <1>7, UnderFacts
<1> QED BY <1>5, <1>6, <1>7, <1>8 DEF Carried

\* The page takes its first message.
LEMMA ShownReceive ==
  ASSUME TypeOK, BootInv, ShownInv, NEW p \in Pages, Receive(p) PROVE ShownInv'
<1>1. /\ UNCHANGED <<role, conn, pcs, overlaid, closer, from, starts>>
      /\ Shrunk(to'[p], to[p]) /\ 1 \in 1..Len(to[p]) /\ to[p][1] \in Messages
      /\ \A q \in Pages : q # p => to'[q] = to[q] /\ ad'[q] = ad[q] /\ status'[q] = status[q]
  BY ReceivedFacts
<1>2. Carried' <=> Carried
  BY <1>1 DEF Carried, Under
<1>3. \A q \in Pages : q # p => ShownAt(q)'
  BY <1>1, <1>2 DEF ShownInv, ShownAt
<1>4. ad[p] \in Adapters /\ status[p] \in {"disconnected", "connecting", "connected"}
      /\ Len(to[p]) \in Nat
  BY Typed, TypeParts DEF UseType
<1>5. status[p] = "connected" => ad[p].wired /\ ad[p].state # "disconnected"
  BY DEF ShownInv, ShownAt
<1>6. /\ ad'[p].on = ad[p].on /\ ad'[p].clean = ad[p].clean
      /\ status'[p] = "connected" => ad'[p].wired /\ ad'[p].state # "disconnected"
      /\ status'[p] = "connected" =>
           \/ status[p] = "connected" /\ ~Says(to[p], 1, "disconnected")
           \/ status[p] # "disconnected" /\ Says(to[p], 1, "connected")
      /\ status'[p] # "disconnected" =>
           status[p] # "disconnected" \/ to[p][1].type = "description"
  <2>1. CASE to[p][1].type = "init" /\ ad'[p] = ad[p] /\ status'[p] = status[p]
    BY <1>5, <2>1 DEF Says
  <2>2. CASE /\ to[p][1].type = "state"
             /\ ad'[p] = IF ad[p].on THEN [ad[p] EXCEPT !.state = to[p][1].state] ELSE ad[p]
             /\ status'[p] = IF ad[p].wired /\ ad[p].state # to[p][1].state
                             THEN Listener(status[p], to[p][1].state) ELSE status[p]
    <3>1. status[p] # "disconnected" => ad[p].on
      BY DEF BootInv, BootAt
    <3>2. /\ ad'[p].on = ad[p].on /\ ad'[p].clean = ad[p].clean
          /\ ad'[p].wired = ad[p].wired
          /\ ad[p].on => ad'[p].state = to[p][1].state
      BY <1>4, <2>2 DEF Adapters
    <3>3. /\ status'[p] = "connected" =>
               \/ status[p] = "connected"
               \/ /\ status[p] = "connecting" /\ to[p][1].state = "connected"
                  /\ ad[p].wired
          /\ status'[p] # "disconnected" => status[p] # "disconnected"
          /\ /\ to[p][1].state = "disconnected" /\ ad[p].wired
             /\ ad[p].state # "disconnected" /\ status[p] = "connected"
             => status'[p] = "disconnected"
      BY <1>4, <2>2 DEF Listener
    <3> QED BY <1>5, <2>2, <3>1, <3>2, <3>3 DEF Says
  <2>3. CASE /\ to[p][1].type = "description"
             /\ IF ad[p].on /\ ad[p].waiting
                THEN /\ ad'[p] = [ad[p] EXCEPT !.waiting = FALSE, !.got = to[p][1].pc,
                                               !.wired = role = "guest"]
                     /\ status'[p] = "connecting"
                ELSE ad'[p] = ad[p] /\ status'[p] = status[p]
    BY <1>4, <1>5, <2>3 DEF Adapters, Says
  <2>4. CASE /\ to[p][1].type = "error"
             /\ ad'[p] = [ad[p] EXCEPT !.waiting = FALSE] /\ status'[p] = status[p]
    BY <1>4, <1>5, <2>4 DEF Adapters, Says
  <2> QED BY <2>1, <2>2, <2>3, <2>4, ReceivedFacts
<1>7. Turns(to'[p], status'[p]) => Turns(to[p], status[p])
  BY <1>1, <1>4, <1>6, TurnsShrunk
<1>8. ShownAt(p)'
  BY <1>1, <1>2, <1>6, <1>7 DEF ShownInv, ShownAt
<1> QED BY <1>3, <1>8 DEF ShownInv

\* Nothing of an earlier attempt turns the page that starts.
LEMMA ShownStart ==
  ASSUME TypeOK, NEW p \in Pages, StartConnection(p) PROVE ShownAt(p)'
<1>1. /\ UNCHANGED <<to, status>> /\ status[p] = "disconnected"
      /\ ad'[p].clean = NothingUnderWay(p)
  BY StartedFacts
<1>2. NothingUnderWay(p) => \A i \in 1..Len(to[p]) : to[p][i].type # "description"
  <2>1. DOMAIN to[p] = 1..Len(to[p])
    BY Typed, LenProperties
  <2> QED BY <2>1 DEF NothingUnderWay
<1>3. NothingUnderWay(p) => ~Turns(to'[p], status'[p])
  BY <1>1, <1>2, TurnsNot
<1>4. status'[p] # "connected"
  BY <1>1
<1> QED BY <1>1, <1>3, <1>4 DEF ShownAt

\* The new connection is put over the one that makes the session connected, or is the
\* first of the page that starts it.
LEMMA ShownHandleStart ==
  ASSUME TypeOK, BootInv, NumberInv, OwnInv, CleanInv, NoLeakByOnePage, OpenInv, ShownInv,
         NEW p \in Pages, HandleStart(p)
  PROVE  ShownInv'
<1>1. PICK k \in Attempts :
         /\ from[p][1] = Cmd("start", k) /\ 1 \in 1..Len(from[p])
         /\ Shrunk(from'[p], from[p])
         /\ \A q \in Pages : q # p => from'[q] = from[q]
         /\ pcs[k].st = "none" /\ k <= starts
         /\ conn'.there /\ conn'.pc = k
         /\ pcs'[k].st = "gathering" /\ pcs'[k].by = p /\ pcs'[k].busy
         /\ \A j \in Attempts : j # k => pcs'[j] = pcs[j]
         /\ overlaid' = IF conn.there THEN overlaid \cup {<<conn.pc, k>>} ELSE overlaid
         /\ UNCHANGED <<role, starts, ad, phase, status, shown, closer>>
  BY HandledStartFacts
<1>2. conn'.ports = conn.ports \cup {p} /\ conn'.state = "connecting"
  BY HandleStartFacts
<1>3. SUFFICES ASSUME NEW q \in Pages, ad[q].on, ad[q].clean, q \in conn'.ports,
                      Turns(to'[q], status[q])
               PROVE  Carried'
  BY <1>1 DEF ShownInv, ShownAt
<1>4. Turns(to[q], status[q])
  <2>1. phase[q] # "gone" /\ Hears(q)
    BY <1>3, WorkHears DEF BootInv, BootAt
  <2> QED BY <1>2, <1>3, <2>1, TurnsHeard
<1>5. CASE conn.there /\ q \in conn.ports
  <2>1. Carried
    BY <1>3, <1>4, <1>5 DEF ShownInv, ShownAt
  <2>2. \E j \in Under' : pcs'[j].st = "open"
    BY <1>1, <1>5, <2>1, CarriedUnder
  <2> QED BY <1>2, <2>2 DEF Carried
<1>6. CASE ~(conn.there /\ q \in conn.ports)
  <2>1. q = p
    BY <1>2, <1>3, <1>6 DEF BootInv, NoConn
  <2>2. from[q][1].cmd = "start" /\ from[q][1].pc = k
    BY <1>1, <2>1, Made
  <2>3. k = ad[q].own
    BY <1>1, <1>3, <2>1, <2>2 DEF CleanInv, CleanAt
  <2>4. status[q] = "disconnected" /\ \A i \in 1..Len(to[q]) : to[q][i].type # "description"
    BY <1>1, <1>3, <2>3 DEF CleanInv, CleanAt
  <2>5. ~Turns(to[q], "disconnected")
    BY <2>4, TurnsNot
  <2> QED BY <1>4, <2>4, <2>5
<1> QED BY <1>5, <1>6

LEMMA ShownNext ==
  ASSUME TypeOK, BootInv, NumberInv, OwnInv, CleanInv, NoLeakByOnePage, OpenInv, ShownInv,
         [Next]_vars
  PROVE  ShownInv'
<1>1. ASSUME UNCHANGED <<conn, pcs, overlaid>>, NEW q \in Pages, to'[q] = to[q],
             status'[q] = status[q],
             ad'[q] = ad[q] \/ ad'[q] = [ad[q] EXCEPT !.wired = TRUE]
      PROVE  ShownAt(q)'
  <2>1. Hears(q) /\ Under' = Under /\ ShownAt(q)
    BY <1>1 DEF Hears, Under, ShownInv
  <2> QED BY <1>1, <2>1, ShownKept
<1>2. CASE Still
  BY <1>1, <1>2 DEF Still, ShownInv
<1>3. ASSUME NEW k \in Attempts, Described(k) \/ DescriptionFails(k) PROVE ShownInv'
  <2>1. /\ \A j \in Attempts : j # k => pcs'[j] = pcs[j]
        /\ pcs[k].st # "gathering" => pcs'[k].st = pcs[k].st
        /\ UNCHANGED <<conn, overlaid, ad, status>>
    BY <1>3, DescribedFacts DEF pageVars
  <2>2. \A j \in Attempts : pcs[j].st = "open" => pcs'[j].st = "open"
    BY <2>1
  <2>3. Under' = Under /\ \A q \in Pages : Hears(q)
    BY <1>3, <2>1, DescribedHears DEF Under
  <2> QED BY <2>1, <2>2, <2>3, ShownKept DEF ShownInv
<1>4. ASSUME NEW k \in Attempts, ChannelOpens(k) \/ ChannelLost(k) \/ Reported(k)
      PROVE  ShownInv'
  <2>1. /\ \A j \in Attempts : j # k => pcs'[j] = pcs[j]
        /\ conn'.there = conn.there /\ conn'.ports = conn.ports
        /\ UNCHANGED <<overlaid, ad, status>>
    BY <1>4, EventFacts DEF pageVars
  <2>2. Under' = Under /\ \A q \in Pages : Hears(q)
    BY <1>4, <2>1, EventHears DEF Under
  <2>3. /\ conn'.state \in {conn.state, "connected", "disconnected"}
        /\ conn'.there /\ conn'.state # "disconnected" =>
             \A j \in Attempts : pcs[j].st = "open" => pcs'[j].st = "open"
    <3>1. CASE ChannelOpens(k)
      <4>1. /\ pcs' = [pcs EXCEPT ![k].st = "open"]
            /\ ~conn.there => conn' = conn
            /\ conn.there => conn'.state \in {"connected", "disconnected"}
        BY <1>4, <3>1, EventFacts DEF ChannelOpens
      <4>2. pcs'[k].st = "open"
        BY <4>1, TypeParts DEF WorkerType, Pcs
      <4> QED BY <2>1, <4>1, <4>2
    <3>2. CASE ChannelLost(k) \/ Reported(k)
      <4>1. SetState("disconnected") /\ conn \in Conns
        BY <3>2, TypeParts DEF ChannelLost, Reported, WorkerType
      <4>2. CASE ~conn.there
        BY <1>4, <2>1, <4>2, EventFacts
      <4>3. CASE conn.there
        <5>1. \/ conn' = conn /\ conn.state = "disconnected"
              \/ conn' = [conn EXCEPT !.state = "disconnected"]
          BY <4>1, <4>3, SetStateFacts
        <5>2. conn'.state = "disconnected"
          BY <4>1, <5>1 DEF Conns
        <5> QED BY <5>2
      <4> QED BY <4>2, <4>3
    <3> QED BY <1>4, <3>1, <3>2
  <2> QED BY <2>1, <2>2, <2>3, ShownKept DEF ShownInv
<1>5. ASSUME NEW p \in Pages, Connect(p) PROVE ShownInv'
  <2>1. /\ UNCHANGED <<pcs, overlaid, status, ad>>
        /\ conn'.there = conn.there /\ conn'.state = conn.state
        /\ conn'.ports \subseteq conn.ports \cup {p} /\ ~ad[p].on
        /\ \A q \in Pages : Hears(q)
    BY <1>5, ConnectedFacts
  <2>2. Under' = Under
    BY <2>1 DEF Under
  <2> QED BY <2>1, <2>2, ShownKept DEF ShownInv
<1>6. ASSUME NEW p \in Pages, HandleAnswer(p) \/ HandleOther(p) PROVE ShownInv'
  <2>1. from[p][1].cmd # "subscribe" /\ UNCHANGED <<status, ad>>
    BY <1>6, HandledFacts DEF pageVars
  <2>2. /\ UNCHANGED <<conn, overlaid>>
        /\ \A j \in Attempts : pcs[j].st \notin {"gathering", "offered"} => pcs'[j] = pcs[j]
    BY <1>6, <2>1, HandleAnswerFacts, HandleOtherFacts
  <2>3. Under' = Under /\ \A q \in Pages : Hears(q)
    BY <1>6, <2>2, WorkHears DEF Under
  <2>4. \A j \in Attempts : pcs[j].st = "open" => pcs'[j].st = "open"
    BY <2>2
  <2> QED BY <2>1, <2>2, <2>3, <2>4, ShownKept DEF ShownInv
<1>7. ASSUME NEW p \in Pages, HandleClose(p) PROVE ShownInv'
  <2>1. ~conn'.there /\ UNCHANGED <<ad, status>>
    BY <1>7, ClosedFacts
  <2> QED BY <2>1 DEF ShownInv, ShownAt
<1>8. ASSUME NEW p \in Pages,
             FinalizeReconnect(p) \/ Disconnect(p) \/ DeleteSession(p) \/ Send(p)
      PROVE  ShownInv'
  <2>1. /\ UNCHANGED <<conn, pcs, overlaid, to>>
        /\ \A q \in Pages : q # p => ad'[q] = ad[q] /\ status'[q] = status[q]
        /\ \/ /\ ad'[p] = ad[p] \/ ad'[p] = [ad[p] EXCEPT !.wired = TRUE]
              /\ status'[p] = status[p]
           \/ ad'[p] = NoAdapter /\ status'[p] = "disconnected"
    BY <1>8, UsedFacts DEF workerVars
  <2>2. \A q \in Pages : q # p => ShownAt(q)'
    BY <1>1, <2>1
  <2>3. ad'[p] = NoAdapter /\ status'[p] = "disconnected" => ShownAt(p)'
    BY DEF ShownAt, NoAdapter
  <2>4. ShownAt(p)'
    BY <1>1, <2>1, <2>3
  <2> QED BY <2>2, <2>4 DEF ShownInv
<1>9. ASSUME NEW p \in Pages, StartConnection(p) PROVE ShownInv'
  <2>1. /\ UNCHANGED <<conn, pcs, overlaid, to, status>>
        /\ \A q \in Pages : q # p => ad'[q] = ad[q]
    BY <1>9, StartedFacts DEF workerVars
  <2>2. \A q \in Pages : q # p => ShownAt(q)'
    BY <1>1, <2>1
  <2> QED BY <1>9, <2>2, ShownStart DEF ShownInv
<1>10. ASSUME NEW p \in Pages, ClosePage(p) PROVE ShownInv'
  <2>1. /\ UNCHANGED <<conn, pcs, overlaid>>
        /\ ad'[p] = NoAdapter /\ status'[p] = "disconnected"
        /\ \A q \in Pages : q # p => /\ ad'[q] = ad[q] /\ to'[q] = to[q]
                                     /\ status'[q] = status[q]
    BY <1>10, LeftFacts DEF workerVars
  <2>2. \A q \in Pages : q # p => ShownAt(q)'
    BY <1>1, <2>1
  <2>3. ShownAt(p)'
    BY <2>1 DEF ShownAt, NoAdapter
  <2> QED BY <2>2, <2>3 DEF ShownInv
<1> QED BY <1>2, <1>3, <1>4, <1>5, <1>6, <1>7, <1>8, <1>9, <1>10,
           ShownReceive, ShownHandleStart, FineKinds

-----------------------------------------------------------------------------
(* No connection is left open by a page of its own *)

LEMMA LeakKept ==
  ASSUME TypeOK, NoLeakByOnePage, overlaid' = overlaid,
         \A k \in Attempts : /\ pcs'[k].by = pcs[k].by
                             /\ pcs'[k].st \in Live => pcs[k].st \in Live
                             /\ pcs'[k].st \in Live => (k # conn'.pc => k # conn.pc)
  PROVE  NoLeakByOnePage'
BY DEF NoLeakByOnePage

LEMMA LeakStart ==
  ASSUME TypeOK, NumberInv, ClearedInv, NoLeakByOnePage, NEW p \in Pages, HandleStart(p)
  PROVE  NoLeakByOnePage'
<1>1. PICK n \in Attempts :
           /\ from[p][1] = Cmd("start", n) /\ 1 \in 1..Len(from[p])
           /\ Shrunk(from'[p], from[p])
           /\ \A q \in Pages : q # p => from'[q] = from[q]
           /\ pcs[n].st = "none" /\ n <= starts
           /\ conn'.there /\ conn'.pc = n
           /\ pcs'[n].st = "gathering" /\ pcs'[n].by = p /\ pcs'[n].busy
           /\ \A j \in Attempts : j # n => pcs'[j] = pcs[j]
           /\ overlaid' = IF conn.there THEN overlaid \cup {<<conn.pc, n>>} ELSE overlaid
           /\ UNCHANGED <<role, starts, ad, phase, status, shown, closer>>
  BY HandledStartFacts
<1>2. ~Mine(p)
  <2>1. from[p][1].cmd = "start"
    BY <1>1, Made
  <2>2. Cleared(from[p], Mine(p), 1)
    BY <1>1, <2>1 DEF ClearedInv, ClearedAt
  <2>3. \A j \in 1..Len(from[p]) : ~(j < 1)
    OBVIOUS
  <2> QED BY <2>2, <2>3 DEF Cleared
<1>3. SUFFICES ASSUME NEW k \in Attempts, pcs'[k].st \in Live, k # conn'.pc
               PROVE  \E j \in Attempts : <<k, j>> \in overlaid' /\ pcs'[k].by # pcs'[j].by
  BY DEF NoLeakByOnePage
<1>4. pcs'[k] = pcs[k] /\ k # n
  BY <1>1, <1>3
<1>5. CASE k = conn.pc
  <2>1. conn.there
    BY <1>5, BoundsAssumption DEF TypeOK
  <2>2. pcs[k].by # p
    BY <1>2, <1>5, <2>1 DEF Mine
  <2> QED BY <1>1, <1>4, <1>5, <2>1, <2>2
<1>6. CASE k # conn.pc
  <2>1. PICK j \in Attempts : <<k, j>> \in overlaid /\ pcs[k].by # pcs[j].by
    BY <1>3, <1>4, <1>6 DEF NoLeakByOnePage
  <2>2. pcs[j].st # "none"
    BY <2>1 DEF NumberInv
  <2>3. pcs'[j] = pcs[j]
    BY <1>1, <2>2
  <2> QED BY <1>1, <1>4, <2>1, <2>3
<1> QED BY <1>5, <1>6

LEMMA LeakNext ==
  ASSUME TypeOK, BootInv, NumberInv, ClearedInv, NoLeakByOnePage, [Next]_vars
  PROVE  NoLeakByOnePage'
<1>1. CASE Stays
  BY <1>1, LeakKept DEF Stays
<1>2. CASE QuietStep
  BY <1>1, <1>2, QuietFacts
<1>3. ASSUME NEW p \in Pages, HandleAnswer(p) \/ HandleOther(p) PROVE Stays
  BY <1>3, HandledFacts
<1>4. ASSUME NEW p \in Pages,
             FinalizeReconnect(p) \/ Disconnect(p) \/ DeleteSession(p) \/ Send(p)
      PROVE  Stays
  BY <1>4, UsedFacts
<1>5. ASSUME NEW p \in Pages, ClosePage(p) PROVE Stays
  BY <1>5, LeftFacts
<1>6. ASSUME NEW p \in Pages, StartConnection(p) PROVE NoLeakByOnePage'
  <2>1. UNCHANGED <<conn, pcs, overlaid>>
    BY <1>6, StartedFacts DEF workerVars
  <2> QED BY <2>1 DEF NoLeakByOnePage
<1>7. ASSUME NEW p \in Pages, HandleClose(p) PROVE NoLeakByOnePage'
  BY <1>7, ClosedFacts, LeakKept
<1> QED BY <1>1, <1>2, <1>3, <1>4, <1>5, <1>6, <1>7, StepKinds, LeakStart

-----------------------------------------------------------------------------
(* The inductive invariant, and what follows from it *)

BaseInv ==
  TypeOK /\ BootInv /\ NumberInv /\ OwnInv /\ ClearedInv /\ NoLeakByOnePage

LEMMA NothingFirst ==
  ASSUME Init
  PROVE  /\ \A p \in Pages : /\ from[p] = <<>> /\ Len(from[p]) = 0 /\ to[p] = <<>>
                             /\ Len(to[p]) = 0
                             /\ ad[p] = NoAdapter /\ ~ad[p].on /\ phase[p] = "unborn"
                             /\ port[p] = "none" /\ ~router[p].init /\ ~entry[p]
                             /\ status[p] = "disconnected"
         /\ \A k \in Attempts : pcs[k] = NoPc /\ pcs[k].st = "none" /\ ~pcs[k].busy
         /\ conn = NoConn /\ ~conn.there /\ conn.ports = {}
         /\ overlaid = {} /\ shown = {}
BY DEF Init, NoAdapter, NoPc, NoConn

LEMMA NoPlaces == \A i \in 1..0 : FALSE
OBVIOUS

LEMMA BaseInit == ASSUME Init PROVE BaseInv
<1>1. BootInv
  BY NothingFirst, NoPlaces DEF BootInv, BootAt
<1>2. NumberInv
  BY NothingFirst, NoPlaces DEF NumberInv
<1>3. OwnInv
  BY NothingFirst DEF OwnInv, OwnAt
<1>4. ClearedInv
  <2>1. \A p \in Pages : Cleared(from[p], Mine(p), Len(from[p]) + 1)
    BY NothingFirst, NoPlaces DEF Cleared, Mine
  <2> QED BY <2>1, NothingFirst, NoPlaces DEF ClearedInv, ClearedAt
<1>5. NoLeakByOnePage
  BY NothingFirst DEF NoLeakByOnePage, Live
<1> QED BY <1>1, <1>2, <1>3, <1>4, <1>5, TypeInit DEF BaseInv

LEMMA BootNext ==
  ASSUME TypeOK, BootInv, NumberInv, [Next]_vars PROVE BootInv'
<1>1. CASE UNCHANGED vars
  <2>1. UNCHANGED <<conn, pcs, phase, port, router, entry, status, ad, from, to>>
    BY <1>1 DEF vars, workerVars, pageVars
  <2> QED BY <2>1 DEF BootInv, BootAt
<1>2. CASE Next
  BY <1>2, BootConnect, BootBoot, BootReceive, BootClosePage, BootUser, BootWork, BootEvent
  DEF Next, Boot, User
<1> QED BY <1>1, <1>2

LEMMA BaseNext == ASSUME BaseInv, [Next]_vars PROVE BaseInv'
BY TypeNext, BootNext, NumberNext, OwnNext, ClearedNext, LeakNext DEF BaseInv

\* Together: what the three above are about, and what the pages see.
FullInv ==
  BaseInv /\ CleanInv /\ AnswerInv /\ OpenInv /\ MirrorInv /\ ShownInv

LEMMA FullInit == ASSUME Init PROVE FullInv
<1>1. CleanInv /\ AnswerInv
  BY NothingFirst, NoPlaces DEF CleanInv, CleanAt, AnswerInv, NoAdapter
<1>2. OpenInv /\ MirrorInv /\ ShownInv
  BY NothingFirst DEF OpenInv, MirrorInv, MirrorAt, ShownInv, ShownAt
<1> QED BY <1>1, <1>2, BaseInit DEF FullInv

LEMMA FullNext == ASSUME FullInv, [Next]_vars PROVE FullInv'
<1>1. /\ TypeOK /\ BootInv /\ NumberInv /\ OwnInv /\ NoLeakByOnePage
      /\ CleanInv /\ AnswerInv /\ OpenInv /\ MirrorInv /\ ShownInv
      /\ BaseInv'
  BY BaseNext DEF FullInv, BaseInv
<1>2. NumberInv' /\ OwnInv'
  BY <1>1 DEF BaseInv
<1> QED BY <1>1, <1>2, CleanNext, AnswerNext, OpenNext, MirrorNext, ShownNext DEF FullInv

\* The invariant of the worker and its pages: it says what the ports carry, which
\* connection is whose, and what every page has heard (rtc.worker.js,
\* SharedWorkerTransportAdapter.js).
THEOREM Invariant == Spec => []FullInv
BY FullInit, FullNext, PTL DEF Spec

LEMMA SettledFacts ==
  ASSUME FullInv, NEW p \in Pages, Settled(p)
  PROVE  /\ ad[p].on /\ ad[p].clean /\ ad[p].own \in Attempts
         /\ pcs[ad[p].own].st # "none"
         /\ \A i \in 1..Len(to[p]) : to[p][i].type # "state"
<1>1. TypeOK /\ OwnAt(p)
  BY DEF FullInv, BaseInv, OwnInv
<1>2. DOMAIN from[p] = 1..Len(from[p]) /\ DOMAIN to[p] = 1..Len(to[p])
  BY <1>1, Typed, LenProperties
<1>3. \A i \in 1..Len(from[p]) : from[p][i] # Cmd("start", ad[p].own)
  BY <1>2, Made DEF Settled
<1> QED BY <1>1, <1>2, <1>3 DEF Settled, OwnAt

\* A page that gave the worker up drives no session through it later, however late the
\* init message comes (WorkerRouter in composition-root.js).
THEOREM GivenUpForGood == Spec => []FallbackIsFinal
<1>1. FullInv => FallbackIsFinal
  BY DEF FullInv, BaseInv, BootInv, BootAt, FallbackIsFinal
<1> QED BY <1>1, Invariant, PTL

\* A connection that is not the session's is closed, unless another page's start was
\* put over it (createOffer, acceptOffer and close in rtc.worker.js).
THEOREM OnePageLeaksNothing == Spec => []NoLeakByOnePage
<1>1. FullInv => NoLeakByOnePage
  BY DEF FullInv, BaseInv
<1> QED BY <1>1, Invariant, PTL

\* The code that a page shows is of its own last attempt, if nothing of an earlier one
\* was under way, whatever other pages start (createOffer and _onWorkerMessage in
\* SharedWorkerTransportAdapter.js).
THEOREM OwnCode == Spec => []CodeIsOwn
<1>1. FullInv => CodeIsOwn
  BY DEF FullInv, CleanInv, CleanAt, CodeIsOwn
<1> QED BY <1>1, Invariant, PTL

\* No page waits for a description in vain, whatever closes meanwhile (the answer to
\* create-offer and accept-offer in rtc.worker.js).
THEOREM AnswerComes == Spec => []AnswerOnItsWay
<1>1. FullInv => AnswerOnItsWay
  BY AnswerPlaces DEF FullInv, BaseInv
<1> QED BY <1>1, Invariant, PTL

\* A page's adapter shows the state that its session has in the worker, unless another
\* page closed the session (broadcastAll in rtc.worker.js).
THEOREM StateIsMirrored == Spec => []StateMirrored
<1>1. FullInv => StateMirrored
  <2> SUFFICES ASSUME FullInv, NEW p \in Pages, Settled(p), closer \in {None, p}
               PROVE  /\ conn.there /\ p \in conn.ports
                      /\ ad[p].own \notin Over => ad[p].state = conn.state
    BY DEF StateMirrored
  <2>1. /\ conn.there /\ p \in conn.ports
        /\ ad[p].own \notin Over => Shows(to[p], ad[p].state, conn.state)
    BY SettledFacts DEF FullInv, MirrorInv, MirrorAt
  <2> QED BY <2>1, SettledFacts DEF Shows
<1> QED BY <1>1, Invariant, PTL

\* A session that a page shows as connected can send, unless a connection that another
\* was put over lives on (setState and ondatachannel in rtc.worker.js).
THEOREM ConnectedIsOpen == Spec => []ConnectedMeansOpen
<1>1. FullInv => ConnectedMeansOpen
  <2> SUFFICES ASSUME FullInv, NEW p \in Pages, Settled(p), status[p] = "connected",
                      conn.there, p \in conn.ports, \A k \in Under : pcs[k].st \notin Live
               PROVE  pcs[conn.pc].st = "open" /\ conn.dc = conn.pc
    BY DEF ConnectedMeansOpen
  <2>1. TypeOK /\ OpenInv /\ ShownAt(p) /\ NoLeakByOnePage
    BY DEF FullInv, BaseInv, ShownInv
  <2>2. Turns(to[p], status[p])
    BY SettledFacts DEF Turns, Says
  <2>3. ~\E k \in Under : pcs[k].st = "open"
    BY DEF Live
  <2>4. conn.state = "connected"
    BY <2>1, <2>2, <2>3, SettledFacts DEF ShownAt, Carried
  <2>5. conn.dc # None /\ pcs[conn.dc].st = "open"
    BY <2>1, <2>3, <2>4 DEF OpenInv
  <2>6. conn.dc = conn.pc
    <3> SUFFICES ASSUME conn.dc # conn.pc PROVE FALSE
      OBVIOUS
    <3>1. conn.dc \in Attempts
      BY <2>1, <2>5, UnderFacts
    <3>2. PICK j \in Attempts : <<conn.dc, j>> \in overlaid
      BY <2>1, <2>5, <3>1 DEF NoLeakByOnePage, Live
    <3>3. <<conn.dc, j>>[1] = conn.dc
      OBVIOUS
    <3>4. conn.dc \in Under
      BY <3>2, <3>3 DEF Under
    <3> QED BY <2>3, <2>5, <3>4
  <2> QED BY <2>5, <2>6
<1> QED BY <1>1, Invariant, PTL
=============================================================================
