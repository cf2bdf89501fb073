---------------------------- MODULE Persistence ----------------------------
(***************************************************************************)
(* What the tabs of a browser keep on disk: _persistSession,               *)
(* _removePersistedSession, enableSecretPersistence, clearPersistedData    *)
(* and loadSessions of SessionManager.js over IndexedDbStorageAdapter.js.  *)
(*                                                                         *)
(* Each call of the first four is a task of several writes, one after the  *)
(* other; most callers do not wait for it, and nothing orders the writes   *)
(* of two tasks: a value is fixed when its save begins, and is put once it *)
(* is encrypted, whereas a remove has nothing to encrypt.                  *)
(*                                                                         *)
(* A state of a session is the number of the operation that made it.       *)
(***************************************************************************)
EXTENDS Naturals, SequencesExt

CONSTANTS
  Tabs,
  Sessions,
  MaxOps,    \* bounds: operations,
  MaxTasks,  \* tasks of a tab at once,
  MaxOpens   \* and times a tab is opened

ASSUME BoundsAssumption == MaxOps \in Nat /\ MaxTasks \in Nat /\ MaxOpens \in Nat

None == 0

ASSUME NamesAssumption == None \notin Tabs /\ None \notin Sessions

VARIABLES
  disk,     \* the stores: the encryption key and the values of the sessions
  up,       \* how far a tab is: "down", "index", "entries", "up" or "failed"
  key,      \* its encryption key: "none", "made" but not stored, or in "use"
  mine,     \* and whose that is
  mem,      \* its _entries
  toLoad,   \* sessions of the index that loadSessions has yet to read
  keep,     \* _persistSecrets
  tasks,    \* its tasks
  ops,      \* operations so far
  opens,
  used,     \* ids given out
  spoiled,  \* a value was saved under a key that is not the stored one
  \* for the properties:
  due,      \* the state of a session that its last task to end was called with
  raced,    \* sessions of which two tasks overlapped
  crowded,  \* whether any two tasks did, which all write the index
  twins,    \* two tabs made a key at once
  shared,   \* sessions two tabs held at once
  deleted,  \* sessions deleted when no task of theirs was under way, and not written since
  cleared   \* the disk was cleared with no task under way, and no secrets kept since

tabVars == <<up, key, mine, mem, toLoad, keep>>
ghosts == <<due, raced, crowded, twins, shared, deleted, cleared>>
vars == <<disk, tabVars, tasks, ops, opens, used, spoiled,
                 ghosts>>

NoEntry == [there |-> FALSE, live |-> FALSE, keys |-> FALSE, ver |-> None]
EmptyStore == [rec |-> [s \in Sessions |-> None], sec |-> {},
               msgs |-> [s \in Sessions |-> None], idx |-> {}]

Init ==
  /\ disk = [enc |-> None, kv |-> EmptyStore]
  /\ up = [t \in Tabs |-> "down"]
  /\ key = [t \in Tabs |-> "none"]
  /\ mine = [t \in Tabs |-> None]
  /\ mem = [t \in Tabs |-> [s \in Sessions |-> NoEntry]]
  /\ toLoad = [t \in Tabs |-> {}]
  /\ keep = [t \in Tabs |-> FALSE]
  /\ tasks = [t \in Tabs |-> <<>>]
  /\ ops = 0
  /\ opens = 0
  /\ used = {}
  /\ spoiled = FALSE
  /\ due = [s \in Sessions |-> None]
  /\ raced = {}
  /\ crowded = FALSE
  /\ twins = FALSE
  /\ shared = {}
  /\ deleted = {}
  /\ cleared = FALSE

-----------------------------------------------------------------------------
(* Tasks *)

Held(m) == {s \in Sessions : m[s].there}

\* A task at one of its writes: the state it was called with, and the value of
\* that write.  A task that is not of enableSecretPersistence has seen every
\* session: none is left for it to go on with.
Persist(m, s, seen) ==
  [kind |-> "persist", s |-> s, part |-> "rec", ver |-> m[s].ver, log |-> None,
   secret |-> FALSE, ids |-> {}, seen |-> seen]
Removal(s) ==
  [kind |-> "remove", s |-> s, part |-> "rec", ver |-> None, log |-> None,
   secret |-> FALSE, ids |-> {}, seen |-> Sessions]
Clear ==
  [kind |-> "clear", s |-> None, part |-> "all", ver |-> None, log |-> None,
   secret |-> FALSE, ids |-> {}, seen |-> Sessions]

\* Mutated: the messages are not saved.
FollowingSkipped == [rec |-> "sec", sec |-> "idx", msgs |-> "idx"]

\* The order of the writes of a task.
Following == [rec |-> "sec", sec |-> "msgs", msgs |-> "idx"]

\* The next write: whether secrets are kept, and there are any, the messages and the
\* index are read when their turn comes.
NextPart(t, k) ==
  LET p == Following[k.part]
      persist == k.kind = "persist"
  IN [k EXCEPT !.part = p,
               !.secret = persist /\ p = "sec" /\ keep[t] /\ mem[t][k.s].keys,
               !.log = IF persist /\ p = "msgs" THEN mem[t][k.s].ver ELSE None,
               !.ids = IF p = "idx" THEN Held(mem[t]) \ (IF persist THEN {} ELSE {k.s})
                       ELSE {}]

\* The sessions of the tasks ks, and of the tasks T of all tabs; a clear is of all.
About(ks) == UNION {IF k.s = None THEN Sessions ELSE {k.s} : k \in ToSet(ks)}
Busy(T) == UNION {About(T[t]) : t \in Tabs}

\* Tasks ks of tab t begin while those of T are under way.
Begin(T, t, ks) ==
  LET alone == <<Head(ks)>> = ks
      after == [T EXCEPT ![t] = @ \o ks]
  IN
  /\ Len(after[t]) <= MaxTasks
  /\ tasks' = after
  /\ raced' = raced \cup
       {s \in About(ks) : s \in Busy(T) \/ ~alone}
  /\ crowded' = (crowded \/ ~alone \/ \E u \in Tabs : T[u] # <<>>)

Idle == \A t \in Tabs : tasks[t] = <<>>

-----------------------------------------------------------------------------
(* Boot, and the end of a tab *)

\* new SessionManager, and boot to loadSessions.
OpenTab(t) ==
  /\ up[t] = "down"
  /\ opens < MaxOpens
  /\ opens' = opens + 1
  /\ up' = [up EXCEPT ![t] = "index"]
  /\ UNCHANGED <<disk, key, mine, mem, toLoad, keep, tasks, ops, used, spoiled,
                 ghosts>>

\* loadSessions reads the index, ...
ReadIndex(t) ==
  /\ up[t] = "index"
  /\ disk.enc # None => key[t] = "use"
  /\ up' = [up EXCEPT ![t] = "entries"]
  /\ toLoad' = [toLoad EXCEPT ![t] = disk.kv.idx]
  /\ UNCHANGED <<disk, key, mine, mem, keep, tasks, ops, opens, used, spoiled,
                 ghosts>>

\* ... its sessions, where one without a record is passed over, ...
LoadEntry(t, s) ==
  LET v == disk.kv.rec[s] IN
  /\ up[t] = "entries"
  /\ s \in toLoad[t]
  /\ toLoad' = [toLoad EXCEPT ![t] = @ \ {s}]
  /\ mem' = IF v = None THEN mem
            ELSE [mem EXCEPT ![t][s] = [there |-> TRUE, live |-> FALSE, keys |-> FALSE,
                                         ver |-> v]]
  /\ shared' = IF v # None /\ \E u \in Tabs : mem[u][s].there THEN shared \cup {s}
               ELSE shared
  /\ UNCHANGED <<disk, up, key, mine, keep, tasks, ops, opens, used, spoiled, due, raced,
                 crowded, twins, deleted, cleared>>

\* ... and the tab is ready for its user.
Booted(t) ==
  /\ up[t] = "entries"
  /\ toLoad[t] = {}
  /\ up' = [up EXCEPT ![t] = "up"]
  /\ UNCHANGED <<disk, key, mine, mem, toLoad, keep, tasks, ops, opens, used, spoiled,
                 ghosts>>

\* A value of another key does not decrypt: loadSessions rejects, and so does boot.
LoadFails(t) ==
  /\ spoiled
  /\ up[t] \in {"index", "entries"}
  /\ up' = [up EXCEPT ![t] = "failed"]
  /\ UNCHANGED <<disk, key, mine, mem, toLoad, keep, tasks, ops, opens, used, spoiled,
                 ghosts>>

\* The tab is closed, reloaded or crashes: its tasks stop where they are.
CloseTab(t) ==
  /\ up[t] # "down"
  /\ up' = [up EXCEPT ![t] = "down"]
  /\ key' = [key EXCEPT ![t] = "none"]
  /\ mine' = [mine EXCEPT ![t] = None]
  /\ mem' = [mem EXCEPT ![t] = [s \in Sessions |-> NoEntry]]
  /\ toLoad' = [toLoad EXCEPT ![t] = {}]
  /\ keep' = [keep EXCEPT ![t] = FALSE]
  /\ tasks' = [tasks EXCEPT ![t] = <<>>]
  /\ cleared' = (cleared /\ Clear \notin ToSet(tasks[t]))
  /\ deleted' = deleted \ About(tasks[t])
  /\ UNCHANGED <<disk, ops, opens, used, spoiled, due, raced, crowded, twins, shared>>

-----------------------------------------------------------------------------
(* Operations of a tab *)

Operate(t) ==
  /\ up[t] = "up"
  /\ ops < MaxOps
  /\ ops' = ops + 1

\* The memory after operation number ops + 1 of session s.  A session has keys from
\* when it is made, or connected again, until the tab is closed.
Changed(t, s, live) ==
  [mem EXCEPT ![t][s] = [there |-> TRUE, live |-> live, ver |-> ops + 1,
                         keys |-> ~@.there \/ @.keys \/ live]]

Change(t, m, ks) ==
  /\ Operate(t)
  /\ mem' = m
  /\ Begin(tasks, t, ks)
  /\ UNCHANGED <<disk, up, key, mine, toLoad, keep, opens, spoiled, twins, shared, cleared>>

\* createSession and joinSession.
CreateSession(t, s) ==
  LET m == Changed(t, s, FALSE) IN
  /\ s \notin used
  /\ used' = used \cup {s}
  /\ Change(t, m, <<Persist(m[t], s, Sessions)>>)
  /\ UNCHANGED <<due, deleted>>

\* Mutated: the session is saved before it is changed.
UpdateSavedFirst(t, s) ==
  /\ mem[t][s].there
  /\ \E live \in BOOLEAN :
       Change(t, Changed(t, s, live), <<Persist(mem[t], s, Sessions)>>)
  /\ deleted' = deleted \ {s}
  /\ UNCHANGED <<used, due>>

\* A message or a title sent or received, a fingerprint verified; and the state
\* listener, on "connected" and on the "disconnected" of a link that is lost.
Update(t, s) ==
  /\ mem[t][s].there
  /\ \E live \in BOOLEAN :
       LET m == Changed(t, s, live) IN Change(t, m, <<Persist(m[t], s, Sessions)>>)
  /\ deleted' = deleted \ {s}
  /\ UNCHANGED <<used, due>>

\* disconnect: the listener persists the new status, and disconnect again.
Disconnect(t, s) ==
  LET m == Changed(t, s, FALSE)
      k == Persist(m[t], s, Sessions)
  IN
  /\ mem[t][s].live
  /\ Change(t, m, <<k, k>>)
  /\ deleted' = deleted \ {s}
  /\ UNCHANGED <<used, due>>

\* Mutated: the entry stays in the map.
DeleteSessionHeld(t, s) ==
  LET m == Changed(t, s, FALSE)
      first == IF mem[t][s].live THEN <<Persist(m[t], s, Sessions)>> ELSE <<>>
  IN
  /\ mem[t][s].there
  /\ Change(t, m, first \o <<Removal(s)>>)
  /\ due' = [due EXCEPT ![s] = None]
  /\ deleted' = IF s \in Busy(tasks) THEN deleted ELSE deleted \cup {s}
  /\ UNCHANGED used

\* deleteSession: closing the transport of a session that is connected has the
\* listener persist the new status, before the entry goes.
DeleteSession(t, s) ==
  LET m == Changed(t, s, FALSE)
      first == IF mem[t][s].live THEN <<Persist(m[t], s, Sessions)>> ELSE <<>>
  IN
  /\ mem[t][s].there
  /\ Change(t, [m EXCEPT ![t][s].there = FALSE], first \o <<Removal(s)>>)
  /\ due' = [due EXCEPT ![s] = None]
  /\ deleted' = IF s \in Busy(tasks) THEN deleted ELSE deleted \cup {s}
  /\ UNCHANGED used

\* enableSecretPersistence, to its first await.
EnableSecretPersistence(t) ==
  /\ Operate(t)
  /\ keep' = [keep EXCEPT ![t] = TRUE]
  /\ cleared' = FALSE
  /\ IF Held(mem[t]) = {} THEN UNCHANGED <<tasks, raced, crowded>>
     ELSE \E s \in Held(mem[t]) : Begin(tasks, t, <<Persist(mem[t], s, {s})>>)
  /\ deleted' = deleted \ Held(mem[t])
  /\ UNCHANGED <<disk, up, key, mine, mem, toLoad, opens, used, spoiled, due, twins, shared>>

\* Mutated: the setting stays.
ClearKeeping(t) ==
  /\ Operate(t)
  /\ cleared' = (Idle /\ \A u \in Tabs \ {t} : ~keep[u])
  /\ due' = [s \in Sessions |-> None]
  /\ Begin(tasks, t, <<Clear>>)
  /\ UNCHANGED <<disk, up, key, mine, mem, toLoad, keep, opens, used, spoiled, twins,
                 shared, deleted>>

\* clearPersistedData.
ClearPersistedData(t) ==
  /\ Operate(t)
  /\ keep' = [keep EXCEPT ![t] = FALSE]
  /\ cleared' = (Idle /\ \A u \in Tabs \ {t} : ~keep[u])
  /\ due' = [s \in Sessions |-> None]
  /\ Begin(tasks, t, <<Clear>>)
  /\ UNCHANGED <<disk, up, key, mine, mem, toLoad, opens, used, spoiled, twins, shared,
                 deleted>>

-----------------------------------------------------------------------------
(* The storage adapter *)

\* Mutated: nobody looks for a key that is stored.
MakeKey(t) ==
  /\ key[t] = "none"
  /\ tasks[t] # <<>> \/ (up[t] = "index" /\ disk.enc # None)
  /\ key' = [key EXCEPT ![t] = "made"]
  /\ mine' = [mine EXCEPT ![t] = t]
  /\ twins' = (twins \/ \E u \in Tabs : key[u] = "made")
  /\ UNCHANGED <<disk, up, mem, toLoad, keep, tasks, ops, opens, used, spoiled, due, raced,
                 crowded, shared, deleted, cleared>>

\* _getEncryptionKey, which the first save, or load of a value (the index), begins:
\* one transaction looks for a key, ...
FindKey(t) ==
  LET missing == disk.enc = None IN
  /\ key[t] = "none"
  /\ tasks[t] # <<>> \/ (up[t] = "index" /\ ~missing)
  /\ key' = [key EXCEPT ![t] = IF missing THEN "made" ELSE "use"]
  /\ mine' = [mine EXCEPT ![t] = IF missing THEN t ELSE disk.enc]
  /\ twins' = (twins \/ (missing /\ \E u \in Tabs : key[u] = "made"))
  /\ UNCHANGED <<disk, up, mem, toLoad, keep, tasks, ops, opens, used, spoiled, due, raced,
                 crowded, shared, deleted, cleared>>

\* ... and another stores the one that was made.
StoreKey(t) ==
  /\ key[t] = "made"
  /\ key' = [key EXCEPT ![t] = "use"]
  /\ disk' = [disk EXCEPT !.enc = t]
  /\ spoiled' = (spoiled \/ disk.kv # EmptyStore)
  /\ UNCHANGED <<up, mine, mem, toLoad, keep, tasks, ops, opens, used, ghosts>>

\* Mutated: a record is put without waiting for the key.
IsSaveLate(k) ==
  \/ k.part = "idx"
  \/ k.part = "sec" /\ k.secret
  \/ k.part = "msgs" /\ k.kind = "persist"

\* The write of task k is a save, of a value encrypted under the tab's key.
IsSave(k) ==
  \/ k.part = "idx"
  \/ k.part = "sec" /\ k.secret
  \/ k.part \in {"rec", "msgs"} /\ k.kind = "persist"

\* The secrets on disk after it.  Those that are wrapped after the setting was
\* turned off are saved as null.
SecretsAfter(t, k) ==
  {IF kept THEN disk.kv.sec \cup {k.s} ELSE disk.kv.sec \ {k.s} :
     kept \in (IF k.secret /\ ~keep[t] THEN BOOLEAN ELSE {k.secret})}

Put(t, k) ==
  CASE k.part = "rec" -> disk' = [disk EXCEPT !.kv.rec[k.s] = k.ver]
    [] k.part = "sec" -> \E x \in SecretsAfter(t, k) : disk' = [disk EXCEPT !.kv.sec = x]
    [] k.part = "msgs" -> disk' = [disk EXCEPT !.kv.msgs[k.s] = k.log]
    [] k.part = "idx" -> disk' = [disk EXCEPT !.kv.idx = k.ids]
    [] k.part = "all" -> disk' = [disk EXCEPT !.kv = EmptyStore]

\* The transaction of task i of tab t is complete, and the task goes on.
Write(t, i) ==
  LET k == tasks[t][i]
      goesOn == k.part \notin {"idx", "all"}
      others == [tasks EXCEPT ![t] = RemoveAt(@, i)]
      left == Held(mem[t]) \ k.seen
  IN
  /\ i \in DOMAIN tasks[t]
  /\ IsSave(k) => key[t] = "use"
  /\ Put(t, k)
  /\ spoiled' = (spoiled \/ (IsSave(k) /\ mine[t] # disk.enc))
  /\ IF goesOn
     THEN tasks' = [tasks EXCEPT ![t][i] = NextPart(t, k)] /\ UNCHANGED <<raced, crowded>>
     ELSE IF left = {} THEN tasks' = others /\ UNCHANGED <<raced, crowded>>
     ELSE \E s \in left :
            Begin(others, t, <<Persist(mem[t], s, k.seen \cup {s})>>)
  /\ due' = IF ~goesOn /\ k.kind = "persist" THEN [due EXCEPT ![k.s] = k.ver] ELSE due
  /\ UNCHANGED <<up, key, mine, mem, toLoad, keep, ops, opens, used, twins, shared, deleted,
                 cleared>>

-----------------------------------------------------------------------------
Next ==
  \E t \in Tabs :
    \/ OpenTab(t) \/ ReadIndex(t) \/ Booted(t) \/ LoadFails(t) \/ CloseTab(t)
    \/ \E s \in Sessions :
         \/ LoadEntry(t, s)
         \/ CreateSession(t, s) \/ Update(t, s) \/ Disconnect(t, s) \/ DeleteSession(t, s)
    \/ EnableSecretPersistence(t) \/ ClearPersistedData(t)
    \/ FindKey(t) \/ StoreKey(t)
    \/ \E i \in 1..MaxTasks : Write(t, i)

Spec == Init /\ [][Next]_vars

-----------------------------------------------------------------------------
(* Properties *)

\* Every variable stays in its range; the stored key is a tab's and comes before
\* any value.
TypeOK ==
  /\ disk.enc \in Tabs \cup {None}
  /\ disk.kv \in [rec : [Sessions -> 0..MaxOps], sec : SUBSET Sessions,
                  msgs : [Sessions -> 0..MaxOps], idx : SUBSET Sessions]
  /\ disk.enc = None => disk.kv = EmptyStore
  /\ up \in [Tabs -> {"down", "index", "entries", "up", "failed"}]
  /\ key \in [Tabs -> {"none", "made", "use"}]
  /\ mine \in [Tabs -> Tabs \cup {None}]
  /\ mem \in [Tabs -> [Sessions -> [there : BOOLEAN, live : BOOLEAN, keys : BOOLEAN,
                              ver : 0..MaxOps]]]
  /\ toLoad \in [Tabs -> SUBSET Sessions] /\ keep \in [Tabs -> BOOLEAN]
  /\ \A t \in Tabs :
       /\ Len(tasks[t]) <= MaxTasks
       /\ \A k \in ToSet(tasks[t]) :
            /\ k.kind \in {"persist", "remove", "clear"} /\ k.s \in Sessions \cup {None}
            /\ k.part \in {"rec", "sec", "msgs", "idx", "all"} /\ k.secret \in BOOLEAN
            /\ k.ver \in 0..MaxOps /\ k.log \in 0..MaxOps
            /\ k.ids \subseteq Sessions /\ k.seen \subseteq Sessions
  /\ ops \in 0..MaxOps /\ opens \in 0..MaxOpens /\ used \subseteq Sessions /\ spoiled \in BOOLEAN
  /\ due \in [Sessions -> 0..MaxOps] /\ raced \subseteq Sessions
  /\ crowded \in BOOLEAN /\ twins \in BOOLEAN /\ cleared \in BOOLEAN
  /\ deleted \subseteq Sessions /\ shared \subseteq Sessions

\* What can be said of the records and messages of a session of which no two tasks
\* overlap (they do: most callers do not wait, and values are encrypted between) and
\* no two tabs hold (the one with the older state overwrites the other's).
Quiet == Sessions \ (raced \cup shared)

\* What a task has saved stays saved, wherever a crash or a reload stops a later one,
\* and for the tab that is opened next.
Durable ==
  \A s \in Quiet \ Busy(tasks) :
    disk.kv.rec[s] >= due[s] /\ disk.kv.msgs[s] >= due[s]

\* The messages on disk are never ahead of the counters on disk, wherever a crash
\* stops a task: a counter that goes back is used again, and the peer drops it.
HistoryWithinRecord ==
  \A s \in Quiet :
    disk.kv.rec[s] # None => disk.kv.msgs[s] <= disk.kv.rec[s]

\* All tabs use the stored key, and every value on disk is of it, unless two tabs
\* each made a key on a browser that had none.
KeyIsShared ==
  ~twins => ~spoiled /\ \A t \in Tabs : key[t] = "use" => mine[t] = disk.enc

\* After all local data was cleared with nothing under way, no secrets are on disk
\* until a user has them kept again: not even of sessions that are written back.
ClearedSecretsAreGone ==
  cleared /\ (\A t \in Tabs : Clear \notin ToSet(tasks[t])) => disk.kv.sec = {}

\* A session falls out of the index only with its deletion, in a clear, or by a tab
\* that has not loaded it, which writes the index of its own sessions (193), unless
\* two tasks overlapped.
IndexKeepsWhatIsHeld ==
  [][~crowded => \A s \in disk.kv.idx \ disk.kv.idx' :
       \E t \in Tabs : \/ tasks'[t] # tasks[t] /\ ~mem[t][s].there
                       \/ Clear \in ToSet(tasks[t])]_vars

\* A session the user has deleted, with nothing of it under way, is not on disk once
\* the tasks of the deletion are over.
\* It is: of a connected one, the listener's save comes after the removal.
DeletedIsGone ==
  \A s \in deleted \ Busy(tasks) :
    /\ disk.kv.rec[s] = None /\ disk.kv.msgs[s] = None
    /\ s \notin disk.kv.sec /\ s \notin disk.kv.idx

=============================================================================
