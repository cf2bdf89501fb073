# A verification of web-p2p-message

TLA+ models of the one-to-one encrypted chat in `src/src`, the TLC
configurations that check them, and proofs of their main theorems. Paths below
are those of the repository; `SessionManager.js` stands for
`src/core/services/SessionManager.js`, and so on.

## 1. The system

Two browsers talk over one WebRTC data channel. There is no server: the codes
that set a connection up (invite, answer, reconnect code, reconnect answer) are
copied by hand from one user to the other. Each page runs one `SessionManager`
on an event loop; every `await` in it is a point where other handlers run.

| Component | State | Operations | Works with |
|---|---|---|---|
| Session status machine, `Session.js` | `status`, `createdAt`, message counters, ratchet fields | `transition`, `nextMessageCounter`, `validateReceivedCounter`, `toSerializable`, `fromSerializable` | called by SessionManager |
| SessionManager, handshake and connections | `_entries`: session, transport, key pair, pending code | `createSession`, `joinSession`, `finalizeSession`, `reconnectAsHost`, `reconnectAsGuest`, `finalizeReconnect`, `disconnect`, `deleteSession`, `rehydrateConnection`, `loadSessions` | transport callbacks, storage, screens |
| SessionManager, double ratchet | root, two chain keys and indices, ratchet key pair, last remote key, skipped keys, seen nonces | `_ratchetEncrypt`, `_ratchetDecrypt`, `_performDhRatchetStep` | crypto adapter, data channel |
| Crypto adapter, `HybridPqCryptoAdapter.js` | none | KEM, `initDhRatchet`, `advanceRootChain`, `advanceChain`, `deriveRatchetKeys`, AES-GCM, signatures | called by SessionManager |
| Transport, `WebRtcTransportAdapter.js` | peer connection, data channel, `_state`, rate counters | `createOffer`, `acceptOffer`, `acceptAnswer`, `send`, `close`, events | calls the manager's listeners |
| SharedWorker transport: `rtc.worker.js`, `SharedWorkerTransportAdapter.js`, `WorkerRouter` | connections by session, ports of the tabs | connect, create, accept, send, close, broadcast | several pages share it |
| Persistence | index, session records, message lists, wrapped secrets | `_persistSession`, `_removePersistedSession`, `loadSessions` | IndexedDB |
| Control messages | title, delete handshake | `sendTitle`, `requestDelete`, `confirmDelete`, `_handleControl` | go through the ratchet |
| Codes, `ManualCodeSignalingAdapter.js` | none | encode and decode invite and answer, signature, timestamp | codes the users copy |
| Screens, `ui/app.js` | screen shown, paste forms | start the operations, react to `update`, `message`, `control` | SessionManager |

What is hard: handlers that interleave at awaits, stale callbacks of replaced
transports, a handshake whose messages are carried by people (late, repeated,
out of order, of an earlier attempt), expiry in the middle of it, reloads that
lose what was not saved, links that lose what was under way, and two ends whose
key schedules must stay in step through all of that. What makes each part right:

- status machine: no status is shown that the transport does not back; an
  expired session does not come to life; a waiting pair connects;
- handshake: connected ends hold the same key; no transport is listened to
  twice; an answer meets the offer it was made for;
- ratchet: each message has a key of its own, a read key is gone, messages are
  readable and shown in order, the two roots stay on one ladder;
- limiter: a bound on what gets through, no loss for a peer within the rate;
- persistence: what was saved stays saved through crashes and for the next tab, history is
  never ahead of the counters, one encryption key for all tabs, cleared secrets stay away,
  and a deleted session is gone (it is not: finding 4);
- shared worker: what a page shows is the state of the connection it drives, its code is
  that of its own attempt, no connection is left behind, nobody waits for an answer that
  cannot come;
- control messages: both ends show one title, nobody's session goes without their wish, and
  what was asked and agreed is done.

`PROJECT.json` lists the components, the hazards with their lines and the map from
definitions to code.

## 2. Modules

| Module | Models | About it |
|---|---|---|
| `SessionLifecycle` | both ends' status machine, SessionManager's connection operations, WebRTC adapters, codes, forms, expiry, reload | proofs in `SessionLifecycleProofs`, runs through `MCSessionLifecycle` |
| `Ratchet` | the double ratchet at the grain of awaits, channel, reconnection, reload | proofs in `RatchetProofs` and `RatchetKeyProofs`, runs through `MCRatchet` |
| `Conversation` | abstract: what the two ends promise their users | implemented by `Ratchet` |
| `RateLimit` | the receive limiter of a data channel | proofs in `RateLimitProofs`, runs through `MCRateLimit` |
| `RtcWorker` | shared worker, router and adapters of several pages, boot, one session's connections | proofs in `RtcWorkerProofs`, runs through `MCRtcWorker` |
| `Persistence` | what several tabs write to one database, write by write, with crashes | proofs in `PersistenceProofs`, runs through `MCPersistence` |
| `ControlProtocol` | titles and the delete handshake between two ends | proofs in `ControlProtocolProofs`, runs through `MCControlProtocol` |
| `SequenceFacts` | | lemmas about sequences that several of the proofs cite |

Operators whose comment begins with "Mutated:" are variants of the definition
after them with a plausible mistake in it. The specifications do not use them. Put
in place of that definition, each makes the property it is paired with in
`PROJECT.json` fail, which shows that the property depends on that code.

### 2.1 SessionLifecycle

One session and its two ends, `Host` and `Guest`. A transport is a number, new
for each adapter an end creates; `conn` is `entry.transport`, `tp` the state of
every transport an end made, also of replaced ones, whose callbacks can still come,
and `wired` counts the listener sets put on each. The guest makes a
transport and a KEM encapsulation in the same operation, so a shared key is named
by that transport. A code is the offer or answer of a transport; once shown
(`codes`) it can be pasted at any later time, any number of times. `form` is the
host's paste form, with its button enabled.

- `CreateSession`, `JoinSession`, `FinalizeSession`, `FinalizeReconnect`,
  `Disconnect`, `DeleteSession` are the operations of those names. `RejectAnswer`
  is either finalize up to an `acceptAnswer` that throws: the shared key has been
  replaced by then.
- `reconnectAsHost` and `reconnectAsGuest` are cut at their long await, the
  gathering of the description: `ReconnectAsHost` / `ReconnectOfferReady`,
  `ReconnectAsGuest` / `ReconnectAnswerReady`. In between, channel events, expiry,
  reload, deletion and another click on Reconnect can come.
- `ChannelOpens` and `ChannelLost` are the adapter's events with the state
  listener they call; `Linked` is external: which pairs of transports WebRTC
  connects. ICE may be lost before the channel opens and recover
  (`interrupted`), which the adapter reports as disconnected and then connected.
- A transport that `joinSession` left with the entry it replaced keeps its listeners. What they
  do to the old entry nobody sees; what they save is the session's new one (`SavesNewEntry`).
- `Throws` and `Transition` are `Session.transition`. An operation whose
  transition throws keeps what it changed before and does nothing of what follows.
- `Save` takes the snapshot, `SaveDone` makes it durable, `Reload` restores what is
  durable. `Expire` is five minutes by the end's own clock.

Steps between two awaits that are not the description's are taken together: the host's form is
shown in the step that makes the offer ready, without the save that the code awaits in between
(line 652), and what a replaced entry still decrypts and shows is left out. In
particular the finalize operations are atomic: their button is disabled while
they run. A user who leaves the screen, comes back and pastes a *different*
answer within those milliseconds is outside the model. Invites expire by the guest's
clock, the same `old` as its session's expiry; both are five minutes after
`createdAt`. `disconnect` is modelled where a screen offers it, while connected.

### 2.2 Ratchet

Keys are symbolic: a DH output is the set of its two key pairs, a root is the KEM
secret it started from and the DH outputs mixed in, a chain key is its chain and the
number of advances, and a message decrypts with its own key alone. So
"unreadable" is a comparison of what the receiver derived with what the sender used.

A handler occupies a slot of `task` from its first step to its last and holds its
local variables: `SendMessage`, `ChainAdvanced`, `Encrypted` are a send up to and
after `advanceChain` and `encrypt`; `OnMessage`, `RootRead`, `DhCommit`, `Sought`,
`SkipOne`, `TakeKey`, `Open` are a receive cut at the awaits of the DH step, of each
turn of the loop over a gap, of the message's own advance and of `decrypt`. What
is read before an await and used after it is in the slot, and what the code reads
again after it is read from `st` again. `Handlers` says how
many may be under way at one end: with 1 the code runs as its tests run it, with 2
handlers interleave.

`Disconnect` loses what the channel holds, `DropExcess` is a message the adapter
drops, `ReconnectAsGuest` and `FinalizeReconnect` replace the chain keys, as the
code does, and `Reload` restores an end without secrets, with the counters of any
earlier save. Left out: the passphrase that makes secrets durable (never enabled
when `loadSessions` runs at boot); the nonce set, which cannot reject anything on a
channel that delivers once; the counter jump limit of 10,000. Titles and control
messages go through the same path and count as messages, except that they have no
counter to be refused by. Handlers are over when a reconnection completes, since
people carry its codes.

`Conversation` says what remains when keys, envelopes and channel are forgotten: messages
get `Write`-ten to an end, an end can `Show` one that was written to it and is newer than
what it remembers, and a `Restart` may take its memory back. `Ratchet` implements it
(`KeepsConversation`) with `written` read off `wire`, `shown` off `fate` and `newest` the
session's received counter; every other step of a handler is a stutter.

### 2.3 RateLimit

`now` is `Date.now()`, assumed not to go backwards; `passed` records when each message
went to the callbacks. `OnMessage` is the handler after the size test, which
returns without touching the counters.

### 2.4 RtcWorker

One stored session of one end, and the page loads that drive it. `conn` is the session's
entry in the worker's `sessions`, `pcs` every peer connection it ever made, `from` and `to`
the two directions of a page's `MessagePort`, in order. `phase` and `router` are the boot of
`ui/app.js` and `WorkerRouter`: `OpenPage`, `Connect`, `BootTimeout` (the 300 ms), `LoadError`,
`ReceiveInit` with the rehydration, `LoadSessions`. `ad` is the page's adapter;
`StartConnection`, `FinalizeReconnect`, `Disconnect`, `DeleteSession`, `Send` are the manager's
operations on it, and `ReceiveState`, `ReceiveDescription`, `ReceiveError` its message
handler with the manager's listener. `HandleStart`, `Described`, `DescriptionFails`,
`HandleAnswer`, `HandleClose`, `HandleOther` are the worker's commands, a start being cut at
the gathering of its description, and `ChannelOpens`, `ChannelLost` the events
of its connections, and `Reported` those that change nothing of the connection: an interruption
that ICE recovers from, and the late ones of connections that were closed. An attempt to connect has one number for the adapter, the command and
the connection made for it.

Messages of the peer are broadcast like states and left out. In a browser without WebRTC in
workers (`noWebRtc`) the worker takes no commands and its init message makes the router give it
up. A page that gave the worker up starts nothing in the model: see the remark on the fallback
in section 6.

In two points the model allows more than the code. `Listener` has no expiry, so an
expired session may become connected here; expiry is `SessionLifecycle`'s matter. And
`FinalizeReconnect` does not ask for the KEM key pair of the host, without which the code throws
(finding 2): the pages stand for those that made the session as well as for reloaded ones.

### 2.5 Persistence

`disk` is the key-value store and the encryption key, `mem` a tab's `_entries`, and `tasks`
the calls of `_persistSession`, `_removePersistedSession` and `clearPersistedData` that are
under way in it, each with the part it writes next: record, secrets, messages, index.
Nothing orders the writes of two tasks. A save's value is fixed when the task begins and
put when it is encrypted; a removal encrypts nothing. `Write` is one write of any task;
`CreateSession`, `Update`, `Disconnect`, `DeleteSession`, `EnableSecretPersistence`,
`ClearPersistedData` begin tasks as the manager does; `OpenTab`, `ReadIndex`, `LoadEntry`,
`Booted`, `LoadFails` are `loadSessions`, and `CloseTab` is a reload or a crash at any
moment. `MakeKey`, `FindKey`, `StoreKey` are the adapter's key: looked for, made, stored, each a
transaction of its own. A state of a session is the number of the operation that made it, so
older and newer can be compared.

### 2.6 ControlProtocol

Messages an end encrypts (`enc`), that travel (`queue`) and that it decrypts (`dec`), up to
`Handlers` at once; the keys are those of `Ratchet`, of which only this is kept: a message may
be unreadable once two handlers of an end have overlapped, or after a reconnection
(`garbled`). `Connected` is the state listener that sends the title, `SaveTitle` the title
form, `RequestDelete`, `Answer` (with `confirmDelete`) and `DeleteLocal` the delete
dialogs, which block their page while open, `Encrypted` the rest of a send after its await,
`HandleTitle`, `HandleRequest`, `HandleConfirm` are `_handleControl`. `Close` is external in
one point: closing a peer connection at once may lose any tail of what was sent over it.
Reloads are left out: they lose dialogs and unsent messages as a lost link does.

## 3. Runs

| Run | Instance | Shows |
|---|---|---|
| `lifecycle` | 3 host and 2 guest transports, fair | all properties of `SessionLifecycle` |
| `reconnect_expiry` | 2 and 2 | finding 1 |
| `reconnect_key` | 2 and 2, fair | finding 2 |
| `ratchet` | one handler, 3 + 2 messages, 3 links, 2 drops, 1 reload | types, delivery, freshness, healing, ladder, forward secrecy |
| `ratchet_overlap` | two handlers, 2 + 1 messages, 2 links, 1 reload | `ShownInOrder`, `KeepsConversation` |
| `ratchet_overlap_loss` | two handlers, 1 + 1 messages | finding 3 |
| `rate_limit` | limit 2, window 3 ticks, 8 messages | bounds of the limiter |
| `rtc_worker` | two pages, 2 attempts | all properties of `RtcWorker` |
| `rtc_worker_reload` | three page loads, 1 attempt | finding 5 |
| `persistence` | two tabs, two sessions, 3 operations, 2 tasks of a tab at once, 3 openings | all properties of `Persistence` but the next |
| `persistence_delete` | one tab, one session | finding 4 |
| `control` | 2 titles, an edit or a request of each end, 2 links, 2 handlers, fair | all properties of `ControlProtocol` |

Bounds, and why they are enough. *Transports*: two per end give a connection and
a reconnection (or two joins) with the stale codes of the first; the host's third
lets it abandon one reconnection for another, so an answer to an abandoned offer
exists. The theorems of section 5 need no bound. *MaxSkip 1* makes gaps of 0, 1
and more than the limit, with at most 2 drops; that the map of skipped keys stays within
its limit of twice that needs longer conversations and is proved instead. *Messages*: with 3
and 2 each end makes more than one DH step and sends more than once on a chain. *Links*: 3
give two reconnections, the least that shows whether the second's chains differ from the
first's. *Limiter*: 8 messages of limit 2 fill more than three windows. *Pages*: two, open
together or one after the other, are a pair of tabs and a reload; two attempts are what it
takes for one to be put over the other or to come late, and one message sent
is a use of a connection. *Tabs*: three openings of two tabs give two at once and a reload of one;
three operations are a creation, a change and a deletion, or changes in both tabs; two tasks at
once are the least that overlap. *Control*: an act of each end makes edits, requests, or one of either
cross each other and the titles sent at connect, on a first link and on a reconnection.

The runs of `SessionLifecycle` check for deadlock. The others stop when the bounds are used
up or everybody has left, so they do not.

Safety properties of `SessionLifecycle`: `ConnectedOverLiveTransport`,
`KeyAgreement`, `SingleWiring`, `ReconnectFormIsCurrent`, `NoLateConnection`,
`ExpiredIsFinal`, and the inductive `WiringInv`. Of `Ratchet`, with handlers one
after the other: `FirstLinkDelivers` (until the first link ends every handled
message is shown, unless more than MAX_SKIP were dropped), `FreshMessageKeys`,
`HealedChainsDeliver` (a chain that a DH step made is always readable, also after
a reconnection has put indices and keys at odds), `OneLadder` (one root is the
other with one more DH output), `ReadKeysAreGone`; with overlapping handlers
`ShownInOrder` and `KeepsConversation`, which need no order of handlers.

Several properties of the other modules hold under a condition, and the condition is where
the code stops: `StateMirrored` and `NoLeakByOnePage` as long as no page closes or starts
the session over another's; `ConnectedMeansOpen` as long as no connection under another is
alive; `CodeIsOwn` if nothing of an earlier attempt was under way; `Durable` and
`HistoryWithinRecord` for sessions of which no two tasks overlap and no two tabs hold a copy;
`KeyIsShared` unless two tabs made a key at once; `TitlesAgree` on a first link without
overlaps or crossing edits; `AgreedIsDeleted` and `RequestIsPut` while the link lasts.
Without these conditions TLC refutes each. What a condition leaves out stays possible in the
code, and the property does not catch it there: it says that there is no other way to such a
state. `PROJECT.json` notes this with each hazard concerned. One condition is not met within the bounds of its
run: that a dialog keeps an agreed deletion waiting takes two requests of one end.

## 4. Fairness

`FairSpec` of `SessionLifecycle` asks for three things. A channel both of whose ends
have each other's description opens, and an end notices that its peer's
connection is closed: WebRTC's ICE and its consent checks do that. And the user
who has the answer to the offer in the open reconnect form pastes it. Nothing is
asked of joins, clicks, saves or clocks. Both properties say
that a wait is not for ever (`[]<>~...`). A pair whose link is lost or whose session is old is not
waiting (`Undisturbed`); as the numbers of transports are not used again, a wait that
lasts is the wait of one pair of transports.

`Fairness` of `ControlProtocol`, which its `Spec` includes, asks of each end that it does
something as long as its event loop has something to do (`Pending`): an encryption or a handler
to go on with, a message to take, an event of the channel to notice. It is weak fairness of
the disjunction, less than an event loop that serves its queue in order gives. Nothing is asked of
users: nobody has to answer a dialog, and while one is open nothing else runs on that page,
which the properties excuse.

`Ratchet`, `RtcWorker`, `Persistence` and `RateLimit` state safety only and have none.

## 5. Proofs

Proved by TLAPS for all values of the constants.

`SessionLifecycleProofs`: `TypeCorrect`, `WiringCorrect`, and from the latter
`ConnectedIsLive`, `KeysAgree`, `OneWiring`, `FormIsCurrent`, `NeverLate`, `ExpiredStays`. None of the
first two is inductive: that a connected session's keys agree
depends on which answers can still be accepted, hence on which transports have
listeners, hence on which codes have been shown while a form is open. `WiringInv`
joins these: an unused number carries nothing, a transport with listeners had
its code shown, the host's transport has none while a form or the waiting status lets
an answer in, and an end that listens holds the key of the transport's link. The
proof has one lemma per group of actions and one step per conjunct. Assumed: the
bounds are positive numbers (`BoundsAssumption`).

`RateLimitProofs`: `TypeCorrect`, `WindowCorrect`, `TwiceTheRate`, `DropsAreDue`. `WindowInv`
says which of the passed messages belong to the running window (the last
`Current`), that those before it precede its start, and those before the previous
`Max` precede it by more than a window; any `2 * Max + 1` messages in a row then
span a window. Assumed: `Max` and `Window` positive (`LimitsAssumption`).

`RatchetProofs`: `TypeCorrect`, `FlowCorrect`, `ImplementsConversation`, for any number of
overlapping handlers, MAX_SKIP and bounds. Types are not quite routine: that no more than
twice MAX_SKIP keys are kept, that nothing travels without a link, and that every handler's
slot fits where it stands, which is what its next step relies on. `FlowInv` is the inductive invariant of
the refinement. To show that a message which `Open` shows had been written, one has to know that
the handler's message came over the wire (`ReceivesCame`), hence that what the channel holds
did (`NetCame`); and that a number on the wire is one of the sender's (`WireNumbered`)
needs the numbers of sends under way (`SendsNumbered`) and that no counter exceeds the sends
made (`CountersRight`); `FatesCame` ties what was dealt with to the wire. Then `Encrypted` is a
`Write` or a stutter, `Open` a `Show` or a stutter, `Reload` a `Restart`, and every other
action a stutter. Assumed: the bounds are natural numbers, at least one handler
(`BoundsAssumption`).

Next the module says field by field what each action does (`SendFacts` to `ReloadFacts`); what
follows, here and in `RatchetKeyProofs`, rests on these lemmas and not on the actions.

- `InOrder` (`ShownInOrder`), for any number of overlapping handlers. The received counter is
  not enough, since a reload may take it back. `OrderInv` adds why a forgotten number does no
  harm: no receive, message on its way or send that could still arrive carries it, or one as
  old (`Superseded`). If the guest reloads, the host still counts on, or has reloaded too; if
  the host does, its KEM key is gone, and with it every later link.
- `RootsOnOneLadder` (`OneLadder`), for `Handlers = 1`, the case this property and those of the
  next module are about: with two, the first send overtaken by a DH step breaks them (finding 3,
  and the first remark of section 6). `LadderInv` (`LadderHolds`) says whose turn it is: the end
  ahead made its root with the key pair the other announces and one the other has not stepped
  on, so only the end behind can step, and all that it may hear of until then is the key it
  has or the one that makes its step.

`RatchetKeyProofs`, for `Handlers = 1`, under the same assumption.

- `KeysAreFresh` (`FreshMessageKeys`) and `ReadKeysGo` (`ReadKeysAreGone`). `KeysInv` tells the
  chains of the two ends apart, those made of a secret by their direction, those made of a step
  by the parity of their root's length, and keeps each send chain beyond what left on it.
  `ReadInv` is its counterpart for the reader: a key that was used, or is kept for a skipped
  message, or is about to be tried, is one that the chain has passed (`Spent`), and no kept key
  is there twice (`Apart`, with what `Put`, `Store` and `Without` do to it).
- `FirstLinkIsDelivered` (`FirstLinkDelivers`) and `HealedChainsAreDelivered`
  (`HealedChainsDeliver`), from `LinesHold`. Both come to the same: a message on a *proper* chain,
  one that a DH step or the first handshake made, is shown unless more than MAX_SKIP were
  dropped. Two invariants are needed.
  `IndexInv`: on a proper chain the index of an end is the place of its chain key, and the number
  in a message the place of its key, which after a reconnection is not so (`IndexAt`,
  `IndexedAt`); while the link is up, a proper chain means that both ends have a root (`UpAt`); a
  reconnection under way has already put the guest off any proper chain (`AnsweredOK`), and what
  left on the first link is on one (`FirstWire`).
  `DeliveryInv`: the messages on their way and the next one to leave form a line, in which each
  is followed by the next place of its chain, or by the first of the chain its sender's last step
  made (`LineAt`), with rising counters (`OrderedAt`), all of them above what the reader
  remembers and has in hand (`NewerAt`), so none is stale. The first in line is on the chain the
  reader is on, or is about to be on, or on the one that its key will make, and ahead of the
  reader's index by no more than the messages dropped (`FrontAt`, `Near`), so that a gap is
  skipped and never refused. The message in hand stays so through every await (`TaskAt`,
  `InHand`), until it opens with its own key, which `FateAt` records. That the reader's step
  arrives at its sender's chain is `LadderInv`: the two roots are one.

`RtcWorkerProofs`: `TypeCorrect`, `Invariant`, and from it every safety property that the run
checks: `GivenUpForGood`, `OnePageLeaksNothing`, `OwnCode`, `AnswerComes`,
`StateIsMirrored`, `ConnectedIsOpen`, for any number of pages and attempts. The invariant
describes the ports, which are queues of any length. `BootInv` says what a page that has come
so far can have posted. `NumberInv`: an attempt is posted once and made a connection of once.
`OwnInv`: the start of a page's adapter is the last on its port, or done. `ClearedInv`: what
precedes a start on a port leaves the session without a connection of that page, which is why
one page leaks nothing. `CleanInv`: of a clean start no answer of another attempt is on the
way back. `AnswerInv` and `OpenInv` follow a description and a channel through the worker;
`MirrorInv` says that the last state on the way to a page is the entry's, or the page's
own if none is, and `ShownInv` that a page which is, or will come to be, connected has a
connection to show for it. Each part has a lemma per kind of step; what the steps do to ports and
connections is stated once (`HandledStartFacts`, `ClosedFacts`, `StartedFacts`, ...). Assumed:
`BoundsAssumption` and `PagesAssumption` (0 is no page).

`PersistenceProofs`: `TypeCorrect`, `Invariant`, and from it every property the run checks:
`SharedKey`, `SecretsStayGone`, `SavedStaysSaved`, `RecordFirst` and the action property
`IndexOfHeld`, for any number of tabs, sessions, operations and tasks at once. `QuietInv` is
the heart: of a session that no two tasks were about and no two tabs had, the one that holds
it is ahead of the disk, and its task, by the write it has come to (`Stage`), has put the very
state the tab still holds. `Durable` and `HistoryWithinRecord` say nothing of tasks and would not
survive a write by themselves. `KeyInv` relates the key of each tab to the one stored, `ClearedInv`
the secrets on disk to the tasks that might still save some, `IndexInv` the index a lone task
writes to what its tab holds. `SoFar` dates everything: no state on disk, in memory or in a
task is of a later operation. Assumed: the bounds are natural numbers (`BoundsAssumption`), and 0
is no tab and no session (`NamesAssumption`).

`ControlProtocolProofs`: `TypeCorrect`, `OnlyByWish`, `SameTitle`, for any number of handlers, assuming
`BoundsAssumption` and `TitlesAssumption`.
`WishInv` follows a request from the click through encryption, channel and decryption to the
dialog, and the confirmation back: one that has left its end has left it without its session.
`SameTitle` is about the moment when nothing is under way, so its invariant `TitlesInv` says what
everything under way amounts to: the last title on the way to an end is the sender's own, at most one
end has any on the way, and if none is, the titles agree; it needs that handlers did not
overlap (`OneAtATime`) and what an end has before it is connected (`Before`).

`SequenceFacts` are the lemmas on sequences these need: places and elements after `Append`,
`Tail`, `RemoveAt` and concatenation.

Only model-checked: the liveness properties `RequestIsPut`, `AgreedIsDeleted`, `WaitingConnects`
and `PeerCloseIsNoticed`, which rest on ENABLED and fairness, out of the prover's reach. Every
safety property and action property that a passing run checks is a theorem.

## 6. Where code and documents disagree

1. *Reconnection and expiry* (`reconnect_expiry`). `Session.js:87` says
   established sessions skip the expiry check. They do for
   DISCONNECTED -> CONNECTING; the next transition meets it again, and the session
   is expired as its channel opens.
2. *Reconnection after a reload* (`reconnect_key`). `SessionManager.js:107` says the
   reconnect flow regenerates the shared key. After a reload the host has no KEM key
   pair, and `finalizeReconnect` throws before it sets the key.
3. *A send during a DH step* (`ratchet_overlap_loss`). A send that waits in `advanceChain`
   while a DH step commits puts the successor of the old chain key back, and goes out under
   the new public key: the peer cannot read it, nor what follows. On a first connection a
   user must type in that moment; after a reconnection both ends send their title as soon
   as the channel opens.
4. *Deleting a connected session* (`persistence_delete`). `deleteSession` closes the
   transport, and the state listener starts a save of the session. The save has to encrypt,
   the removal does not, so the removal is over first and record and messages come back,
   outside the index. ui/app.js:879 asks "Delete this session locally?".

5. *Reload with a live connection* (`rtc_worker_reload`). `rtc.worker.js:5` says that live
   connections survive page reloads as long as any tab is open, and `app.js:1041` that boot
   rehydrates those that did. Boot does so before `loadSessions`, when the manager holds no
   session, so `rehydrateConnection` returns without making an adapter
   (`ReattachesSurvivors`).

What the models also show, without a run of its own:

- Two sends that overlap read one chain key and so use one message key, against
  README.md:212. `FreshMessageKeys` and `FirstLinkDelivers` are about one handler at a time, and no
  other property catches this.
- Reconnection replaces chain keys but not indices (`SessionManager.js:723`): a message lost with
  the old link makes the receiver skip ahead on the new chain, unreadable until the next DH
  step, which repairs it (`HealedChainsDeliver`). The e2e test reconnects with nothing lost.
- The rate limit's window is fixed, not sliding (docs/security.md:125);
  `AtMostTwiceTheRate` is what does hold. Connections of the worker have no limiter.
- `composition-root.js:126` uses `WebRtcTransportAdapter` without importing it, so the fallback
  its comments describe (lines 14 and 122) throws. `SessionLifecycle` and `RateLimit` model the
  adapter as written, in the arrangement the composition root means; `RtcWorker` has no
  action for the fallback.
- The worker's `close` removes the session before it broadcasts, so other pages that
  show it do not hear of it (`StateMirrored`).
- `clearPersistedData` leaves `_entries` alone: the next save of a session that is still held
  writes its history back, though not its secrets (`ClearedSecretsAreGone`).
- `_persistSecrets` is FALSE after a reload, so kept secrets are not loaded, and the first save
  of the session removes them.
- Two tabs that find no encryption key at once each make one, and what the first saves under its
  own cannot be read again (`KeyIsShared`).
- Titles that cross are swapped: each end keeps the other's. Comments at
  `SessionManager.js:428` and `:1163` speak of the host's title. An empty title is sent and
  passed over by its receiver (`TitlesAgree`).
- `DELETE_CONFIRM` is followed without a look at whether a deletion was asked for
  (`DeletedByWish` holds because the other end sends one only to answer a request). If the link is lost
  while the confirmation is encrypted, the end that agreed does not delete with
  `WebRtcTransportAdapter`, whose `send` throws, and deletes with `SharedWorkerTransportAdapter`,
  whose `send` only posts a command (`Encrypted` has both).

## 7. Plan

Done, in this order: `SessionLifecycle` with proofs; `Ratchet`, its abstract
specification and proofs; `RateLimit` with proofs; `Persistence`, `RtcWorker` and
`ControlProtocol` with proofs. What is left:

1. `RtcWorker` composed with the statuses of `SessionLifecycle`, and peer messages through the
   worker.
2. `Signaling`: invite and answer with signatures, timestamps and skew.

Not modelled: rendering and texts of `ui/app.js`, privacy detection, TURN settings,
the cryptographic primitives (perfect here), encoding and signatures of the codes (sequential code
without state; their age and repetition is in `SessionLifecycle`), `BroadcastChannelAdapter`
and the stub adapters, which the composition root does not create, and the use-case classes,
which only forward calls. Within modelled parts: the passphrase for secrets in `Ratchet`,
messages of the peer in `RtcWorker`, reloads in `ControlProtocol`.
