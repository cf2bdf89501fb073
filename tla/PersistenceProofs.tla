------------------------- MODULE PersistenceProofs -------------------------
(***************************************************************************)
(* Theorems about Persistence, for any tabs and sessions and any number of *)
(* operations, tasks and loads.                                            *)
(***************************************************************************)
EXTENDS Persistence, SequenceFacts

-----------------------------------------------------------------------------
(* The inductive invariant, in parts *)

Parts == {"rec", "sec", "msgs", "idx"}
Saves == [kind : {"persist"}, s : Sessions, part : Parts, ver : 0..MaxOps,
          log : 0..MaxOps, secret : BOOLEAN, ids : SUBSET Sessions,
          seen : SUBSET Sessions]
Removals == [kind : {"remove"}, s : Sessions, part : Parts, ver : {None}, log : {None},
             secret : {FALSE}, ids : SUBSET Sessions, seen : {Sessions}]
Tasks == Saves \cup Removals \cup {Clear}
Stores == [rec : [Sessions -> 0..MaxOps], sec : SUBSET Sessions,
           msgs : [Sessions -> 0..MaxOps], idx : SUBSET Sessions]
Entries == [there : BOOLEAN, live : BOOLEAN, keys : BOOLEAN, ver : 0..MaxOps]

\* The types, in full: a removal and a clear save no value of a session.
DiskType == disk \in [enc : Tabs \cup {None}, kv : Stores]
TabType ==
  /\ up \in [Tabs -> {"down", "index", "entries", "up", "failed"}]
  /\ key \in [Tabs -> {"none", "made", "use"}] /\ mine \in [Tabs -> Tabs \cup {None}]
  /\ toLoad \in [Tabs -> SUBSET Sessions] /\ keep \in [Tabs -> BOOLEAN]
MemType == mem \in [Tabs -> [Sessions -> Entries]]
TaskType ==
  /\ tasks \in [Tabs -> Seq(Tasks)]
  /\ \A t \in Tabs : Len(tasks[t]) <= MaxTasks
GhostType ==
  /\ due \in [Sessions -> 0..MaxOps] /\ raced \subseteq Sessions
  /\ crowded \in BOOLEAN /\ twins \in BOOLEAN /\ cleared \in BOOLEAN
  /\ deleted \subseteq Sessions /\ shared \subseteq Sessions
CountType ==
  ops \in 0..MaxOps /\ opens \in 0..MaxOpens /\ used \subseteq Sessions /\ spoiled \in BOOLEAN
Types == DiskType /\ TabType /\ MemType /\ TaskType /\ GhostType /\ CountType

\* A tab that is not up has no task; an id that was not given out is nowhere; and no
\* state is of an operation to come.
SoFar ==
  /\ \A t \in Tabs : up[t] # "up" => tasks[t] = <<>>
  /\ \A s \in Sessions :
       /\ disk.kv.rec[s] <= ops /\ disk.kv.msgs[s] <= ops /\ due[s] <= ops
       /\ disk.kv.rec[s] # None => s \in used
  /\ \A t \in Tabs, s \in Sessions : /\ mem[t][s].ver <= ops
                                     /\ mem[t][s].there => s \in used
                                     /\ mem[t][s].live => mem[t][s].there
  /\ \A t \in Tabs : \A i \in 1..Len(tasks[t]) :
       /\ tasks[t][i].ver <= ops /\ tasks[t][i].log <= ops
       /\ tasks[t][i].kind = "persist" => tasks[t][i].s \in used

\* The key on disk comes before any value, and is that of every tab, unless two tabs made
\* one at once.
KeyInv ==
  /\ disk.enc = None => disk.kv = EmptyStore
  /\ \A t \in Tabs : key[t] = "use" => disk.enc # None
  /\ ~twins =>
       /\ ~spoiled
       /\ \A t \in Tabs : key[t] = "use" => mine[t] = disk.enc
       /\ \A t \in Tabs : key[t] = "made" => mine[t] = t /\ disk.enc = None
       /\ \A t, u \in Tabs : key[t] = "made" /\ key[u] = "made" => t = u

\* After a clear no tab keeps secrets, and no task that began since saves any.
ClearedInv ==
  cleared =>
    /\ \A t \in Tabs : ~keep[t]
    /\ \A t \in Tabs : \A i \in 1..Len(tasks[t]) : ~tasks[t][i].secret
    /\ \/ \E t \in Tabs : \E i \in 1..Len(tasks[t]) : tasks[t][i] = Clear
       \/ disk.kv.sec = {}

\* The sessions a task is about.
Concerns(k) == IF k.s = None THEN Sessions ELSE {k.s}

\* No two of the tasks T are about s.
OneAt(T, s) ==
  \A t, u \in Tabs : \A i \in 1..Len(T[t]), j \in 1..Len(T[u]) :
    s \in Concerns(T[t][i]) /\ s \in Concerns(T[u][j]) => t = u /\ i = j

\* A task k about s, of a tab that has s in state e: what a save has put is the state
\* of the tab, and a deletion has given up what was due, d.
Stage(k, s, e, kv, d) ==
  s \in Concerns(k) =>
    /\ k.kind = "persist" =>
         /\ e.there /\ e.ver = k.ver
         /\ k.part # "rec" => kv.rec[s] = k.ver
         /\ k.part = "msgs" => k.log = k.ver
         /\ k.part = "idx" => kv.msgs[s] = k.ver
    /\ k.kind # "persist" => d = None

\* A session that no two tasks were about, and no two tabs had: its holder is ahead of
\* the disk, and the disk of what is due.
QuietAt(s) ==
  /\ OneAt(tasks, s)
  /\ \A t, u \in Tabs : mem[t][s].there /\ mem[u][s].there => t = u
  /\ \A t \in Tabs : mem[t][s].there =>
       /\ disk.kv.rec[s] <= mem[t][s].ver /\ disk.kv.msgs[s] <= mem[t][s].ver
       /\ due[s] <= mem[t][s].ver
  /\ \A t \in Tabs : \A i \in 1..Len(tasks[t]) :
       Stage(tasks[t][i], s, mem[t][s], disk.kv, due[s])
  /\ due[s] <= disk.kv.rec[s] /\ due[s] <= disk.kv.msgs[s]
  /\ disk.kv.rec[s] # None => disk.kv.msgs[s] <= disk.kv.rec[s]
QuietInv == \A s \in Sessions \ (raced \cup shared) : QuietAt(s)

\* If no two tasks overlapped, there is one at most, and the index it writes is of the
\* sessions its tab has.
IndexInv ==
  ~crowded =>
    /\ \A t, u \in Tabs : \A i \in 1..Len(tasks[t]), j \in 1..Len(tasks[u]) : t = u /\ i = j
    /\ \A t \in Tabs : \A i \in 1..Len(tasks[t]) :
         /\ tasks[t][i].kind = "remove" => ~mem[t][tasks[t][i].s].there
         /\ tasks[t][i].part = "idx" => tasks[t][i].ids = Held(mem[t])

-----------------------------------------------------------------------------
(* Tasks and lists of tasks *)

USE DEF None

LEMMA TaskFacts ==
  /\ Clear \in Tasks /\ Clear.kind = "clear" /\ Clear.part = "all" /\ Clear.s = None
  /\ Clear.ver = None /\ Clear.log = None /\ Clear.secret = FALSE /\ Clear.seen = Sessions
  /\ \A k \in Tasks :
       /\ k.ver \in 0..MaxOps /\ k.log \in 0..MaxOps /\ k.secret \in BOOLEAN
       /\ k.seen \in SUBSET Sessions
       /\ \/ k.kind = "persist" /\ k \in Saves
          \/ k.kind = "remove" /\ k \in Removals
          \/ k.kind = "clear" /\ k = Clear
       /\ k # Clear => k.s \in Sessions /\ k.part \in Parts /\ k.ids \in SUBSET Sessions
       /\ k.kind = "remove" => k.ver = None /\ k.log = None /\ ~k.secret
       /\ k.kind # "persist" => k.seen = Sessions
<1>1. /\ Clear \in Tasks /\ Clear.kind = "clear" /\ Clear.part = "all" /\ Clear.s = None
      /\ Clear.ver = None /\ Clear.log = None /\ Clear.secret = FALSE /\ Clear.seen = Sessions
  BY DEF Tasks, Clear
<1>2. 0 \in 0..MaxOps
  BY BoundsAssumption
<1>3. ASSUME NEW k \in Saves
      PROVE  /\ k.ver \in 0..MaxOps /\ k.log \in 0..MaxOps /\ k.secret \in BOOLEAN
             /\ k.seen \in SUBSET Sessions /\ k.kind = "persist" /\ k.s \in Sessions
             /\ k.part \in Parts /\ k.ids \in SUBSET Sessions
  BY DEF Saves
<1>4. ASSUME NEW k \in Removals
      PROVE  /\ k.ver = 0 /\ k.log = 0 /\ k.secret = FALSE
             /\ k.seen = Sessions /\ k.kind = "remove" /\ k.s \in Sessions
             /\ k.part \in Parts /\ k.ids \in SUBSET Sessions
  BY DEF Removals
<1>5. ASSUME NEW k \in Tasks
      PROVE  /\ k.ver \in 0..MaxOps /\ k.log \in 0..MaxOps /\ k.secret \in BOOLEAN
             /\ k.seen \in SUBSET Sessions
             /\ \/ k.kind = "persist" /\ k \in Saves
                \/ k.kind = "remove" /\ k \in Removals
                \/ k.kind = "clear" /\ k = Clear
             /\ k # Clear => k.s \in Sessions /\ k.part \in Parts /\ k.ids \in SUBSET Sessions
             /\ k.kind = "remove" => k.ver = None /\ k.log = None /\ ~k.secret
             /\ k.kind # "persist" => k.seen = Sessions
  <2>1. CASE k \in Saves
    BY <1>3, <2>1
  <2>2. CASE k \in Removals
    BY <1>2, <1>4, <2>2
  <2>3. CASE k = Clear
    BY <1>1, <1>2, <2>3
  <2> QED BY <2>1, <2>2, <2>3 DEF Tasks
<1> QED BY <1>1, <1>5

\* Which sessions a task is about.
LEMMA ConcernFacts ==
  ASSUME NEW k \in Tasks
  PROVE  /\ Concerns(k) \subseteq Sessions
         /\ k = Clear => Concerns(k) = Sessions
         /\ k # Clear => Concerns(k) = {k.s}
BY TaskFacts, NamesAssumption DEF Concerns

LEMMA AboutFacts ==
  ASSUME NEW ks \in Seq(Tasks), NEW s
  PROVE  s \in About(ks) <=> \E i \in 1..Len(ks) : s \in Concerns(ks[i])
<1>1. ToSet(ks) = {ks[i] : i \in 1..Len(ks)}
  BY ToSetDef
<1> QED BY <1>1 DEF About, Concerns

LEMMA BusyFacts ==
  ASSUME NEW T \in [Tabs -> Seq(Tasks)], NEW s
  PROVE  s \in Busy(T) <=> \E t \in Tabs : \E i \in 1..Len(T[t]) : s \in Concerns(T[t][i])
<1>1. s \in Busy(T) <=> \E t \in Tabs : s \in About(T[t])
  BY DEF Busy
<1>2. \A t \in Tabs : s \in About(T[t]) <=> \E i \in 1..Len(T[t]) : s \in Concerns(T[t][i])
  BY AboutFacts
<1> QED BY <1>1, <1>2

\* x is a, and ks after it.
Joined(x, a, ks) ==
  /\ Len(x) = Len(a) + Len(ks)
  /\ \A i \in 1..Len(a) : x[i] = a[i]
  /\ \A i \in 1..Len(ks) : x[Len(a) + i] = ks[i]

LEMMA JoinedFacts ==
  ASSUME NEW a \in Seq(Tasks), NEW ks \in Seq(Tasks)
  PROVE  a \o ks \in Seq(Tasks) /\ Joined(a \o ks, a, ks)
<1>1. /\ Len(a) \in Nat /\ Len(ks) \in Nat
      /\ a \o ks \in Seq(Tasks)
      /\ Len(a \o ks) = Len(a) + Len(ks)
      /\ \A i \in 1..Len(a) + Len(ks) :
           (a \o ks)[i] = IF i <= Len(a) THEN a[i] ELSE ks[i - Len(a)]
  BY ConcatProperties, LenProperties
<1>2. \A m, n \in Nat :
        /\ \A i \in 1..m : i \in 1..m + n /\ i <= m
        /\ \A i \in 1..n : m + i \in 1..m + n /\ ~(m + i <= m) /\ (m + i) - m = i
  OBVIOUS
<1>3. /\ \A i \in 1..Len(a) : i \in 1..Len(a) + Len(ks) /\ i <= Len(a)
      /\ \A i \in 1..Len(ks) : /\ Len(a) + i \in 1..Len(a) + Len(ks)
                               /\ ~(Len(a) + i <= Len(a)) /\ (Len(a) + i) - Len(a) = i
  BY <1>1, <1>2
<1>4. \A i \in 1..Len(a) : (a \o ks)[i] = a[i]
  BY <1>1, <1>3
<1>5. \A i \in 1..Len(ks) : (a \o ks)[Len(a) + i] = ks[i]
  BY <1>1, <1>3
<1> QED BY <1>1, <1>4, <1>5 DEF Joined

LEMMA JoinedPlaces ==
  ASSUME NEW x, NEW a, NEW ks, Len(a) \in Nat, Len(ks) \in Nat, Joined(x, a, ks)
  PROVE  /\ \A i \in 1..Len(x) : \/ i \in 1..Len(a) /\ x[i] = a[i]
                                 \/ \E j \in 1..Len(ks) : i = Len(a) + j /\ x[i] = ks[j]
         /\ \A i \in 1..Len(a) : i \in 1..Len(x)
         /\ \A j \in 1..Len(ks) : Len(a) + j \in 1..Len(x)
<1>1. \A m, n \in Nat :
        /\ \A i \in 1..m + n : i \in 1..m \/ (i - m \in 1..n /\ m + (i - m) = i)
        /\ \A i \in 1..m : i \in 1..m + n
        /\ \A j \in 1..n : m + j \in 1..m + n
  OBVIOUS
<1>2. /\ \A i \in 1..Len(x) : \/ i \in 1..Len(a)
                              \/ /\ i - Len(a) \in 1..Len(ks)
                                 /\ Len(a) + (i - Len(a)) = i
      /\ \A i \in 1..Len(a) : i \in 1..Len(x)
      /\ \A j \in 1..Len(ks) : Len(a) + j \in 1..Len(x)
  BY <1>1 DEF Joined
<1>3. ASSUME NEW i \in 1..Len(x), i - Len(a) \in 1..Len(ks), Len(a) + (i - Len(a)) = i
      PROVE  \E j \in 1..Len(ks) : i = Len(a) + j /\ x[i] = ks[j]
  BY <1>3 DEF Joined
<1> QED BY <1>2, <1>3 DEF Joined

\* x is a without its place n.
Thinned(x, a, n) ==
  /\ Len(x) = Len(a) - 1
  /\ \A j \in 1..Len(a) - 1 : x[j] = IF j < n THEN a[j] ELSE a[j + 1]

\* Its places, in their order.
Shift(n, j) == IF j < n THEN j ELSE j + 1

LEMMA ThinnedPlaces ==
  ASSUME NEW x, NEW a, NEW n, Len(a) \in Nat, n \in 1..Len(a), Thinned(x, a, n)
  PROVE  /\ \A j \in 1..Len(x) : /\ Shift(n, j) \in 1..Len(a) /\ Shift(n, j) # n
                                 /\ x[j] = a[Shift(n, j)]
         /\ \A j, l \in 1..Len(x) : Shift(n, j) = Shift(n, l) => j = l
         /\ \A m \in 1..Len(a) : m # n => \E j \in 1..Len(x) : x[j] = a[m]
<1>1. \A m \in Nat : \A h \in 1..m :
        /\ \A j \in 1..m - 1 : /\ j < h => j \in 1..m /\ j # h
                               /\ ~(j < h) => j + 1 \in 1..m /\ j + 1 # h
        /\ \A j, l \in 1..m - 1 : /\ j < h /\ ~(l < h) => j # l + 1
                                  /\ j + 1 = l + 1 => j = l
        /\ \A j \in 1..m : /\ j < h => j \in 1..m - 1
                           /\ ~(j < h) /\ j # h => /\ j - 1 \in 1..m - 1 /\ ~(j - 1 < h)
                                                   /\ (j - 1) + 1 = j
  OBVIOUS
<1>2. /\ \A j \in 1..Len(x) : /\ j < n => j \in 1..Len(a) /\ j # n
                              /\ ~(j < n) => j + 1 \in 1..Len(a) /\ j + 1 # n
      /\ \A j, l \in 1..Len(x) : /\ j < n /\ ~(l < n) => j # l + 1
                                 /\ j + 1 = l + 1 => j = l
      /\ \A j \in 1..Len(a) : /\ j < n => j \in 1..Len(x)
                              /\ ~(j < n) /\ j # n => /\ j - 1 \in 1..Len(x) /\ ~(j - 1 < n)
                                                      /\ (j - 1) + 1 = j
  BY <1>1 DEF Thinned
<1>3. \A j \in 1..Len(x) : x[j] = IF j < n THEN a[j] ELSE a[j + 1]
  BY DEF Thinned
<1>4. \A j \in 1..Len(x) : /\ Shift(n, j) \in 1..Len(a) /\ Shift(n, j) # n
                           /\ x[j] = a[Shift(n, j)]
  BY <1>2, <1>3 DEF Shift
<1>5. \A j, l \in 1..Len(x) : Shift(n, j) = Shift(n, l) => j = l
  BY <1>2 DEF Shift
<1>6. ASSUME NEW m \in 1..Len(a), m # n PROVE \E j \in 1..Len(x) : x[j] = a[m]
  <2>1. CASE m < n
    BY <1>2, <1>3, <2>1
  <2>2. CASE ~(m < n)
    <3>1. m - 1 \in 1..Len(x) /\ ~(m - 1 < n) /\ (m - 1) + 1 = m
      BY <1>2, <1>6, <2>2
    <3>2. x[m - 1] = a[m]
      BY <1>3, <3>1
    <3> QED BY <3>1, <3>2
  <2> QED BY <2>1, <2>2
<1> QED BY <1>4, <1>5, <1>6

LEMMA ThinnedFacts ==
  ASSUME NEW a \in Seq(Tasks), NEW n \in 1..Len(a)
  PROVE  RemoveAt(a, n) \in Seq(Tasks) /\ Thinned(RemoveAt(a, n), a, n)
<1>1. DOMAIN a = 1..Len(a)
  BY LenProperties
<1> QED BY <1>1, RemoveAtFacts DEF Thinned

-----------------------------------------------------------------------------
(* A tab begins tasks *)

LEMMA BeginFacts ==
  ASSUME NEW T \in [Tabs -> Seq(Tasks)], NEW t \in Tabs, NEW ks \in Seq(Tasks), ks # <<>>,
         Begin(T, t, ks)
  PROVE  /\ tasks' \in [Tabs -> Seq(Tasks)] /\ Len(tasks'[t]) <= MaxTasks
         /\ \A u \in Tabs : u # t => tasks'[u] = T[u]
         /\ Joined(tasks'[t], T[t], ks)
         /\ raced \subseteq raced' /\ (raced \subseteq Sessions => raced' \subseteq Sessions)
         /\ \A s \in Sessions : s \in About(ks) /\ s \notin raced' =>
              Len(ks) = 1 /\ s \notin Busy(T)
         /\ ~crowded' => ~crowded /\ Len(ks) = 1 /\ \A u \in Tabs : T[u] = <<>>
         /\ crowded' \in BOOLEAN
<1>1. /\ tasks' = [T EXCEPT ![t] = @ \o ks]
      /\ Len([T EXCEPT ![t] = @ \o ks][t]) <= MaxTasks
      /\ raced' = raced \cup {s \in About(ks) : s \in Busy(T) \/ ~(<<Head(ks)>> = ks)}
      /\ crowded' = (crowded \/ ~(<<Head(ks)>> = ks) \/ \E u \in Tabs : T[u] # <<>>)
  BY DEF Begin
<1>2. T[t] \in Seq(Tasks) /\ T[t] \o ks \in Seq(Tasks) /\ Joined(T[t] \o ks, T[t], ks)
  BY JoinedFacts
<1>3. <<Head(ks)>> = ks => Len(ks) = 1
  <2>1. Len(<<Head(ks)>>) = 1
    OBVIOUS
  <2> QED BY <2>1
<1>4. tasks'[t] = T[t] \o ks /\ \A u \in Tabs : u # t => tasks'[u] = T[u]
  BY <1>1
<1>5. tasks' \in [Tabs -> Seq(Tasks)] /\ Len(tasks'[t]) <= MaxTasks
  <2>1. tasks' \in [Tabs -> Seq(Tasks)]
    BY <1>1, <1>2
  <2> QED BY <1>1, <2>1
<1>6. About(ks) \subseteq Sessions
  <2> SUFFICES ASSUME NEW s \in About(ks) PROVE s \in Sessions
    OBVIOUS
  <2>1. PICK i \in 1..Len(ks) : s \in Concerns(ks[i])
    BY AboutFacts
  <2>2. ks[i] \in Tasks
    BY ElementOfSeq
  <2> QED BY <2>1, <2>2, ConcernFacts
<1>7. crowded' \in BOOLEAN
  BY <1>1
<1> QED BY <1>1, <1>2, <1>3, <1>4, <1>5, <1>6, <1>7

\* Where the tasks about s are, if it does not get raced: where they were, or the new one.
LEMMA BeginAt ==
  ASSUME NEW T \in [Tabs -> Seq(Tasks)], NEW t \in Tabs, NEW ks \in Seq(Tasks),
         NEW s \in Sessions, ks # <<>>, Begin(T, t, ks), s \notin raced'
  PROVE  \A u \in Tabs : \A j \in 1..Len(tasks'[u]) : s \in Concerns(tasks'[u][j]) =>
           \/ /\ j \in 1..Len(T[u]) /\ tasks'[u][j] = T[u][j]
              /\ s \notin About(ks)
           \/ /\ u = t /\ j = Len(T[t]) + 1 /\ Len(ks) = 1 /\ tasks'[u][j] = ks[1]
              /\ s \notin Busy(T) /\ s \in About(ks)
<1> SUFFICES ASSUME NEW u \in Tabs, NEW j \in 1..Len(tasks'[u]), s \in Concerns(tasks'[u][j])
             PROVE  \/ /\ j \in 1..Len(T[u]) /\ tasks'[u][j] = T[u][j]
                       /\ s \notin About(ks)
                    \/ /\ u = t /\ j = Len(T[t]) + 1 /\ Len(ks) = 1 /\ tasks'[u][j] = ks[1]
                       /\ s \notin Busy(T) /\ s \in About(ks)
  OBVIOUS
<1>1. /\ \A v \in Tabs : v # t => tasks'[v] = T[v]
      /\ Joined(tasks'[t], T[t], ks)
      /\ s \in About(ks) => Len(ks) = 1 /\ s \notin Busy(T)
  BY BeginFacts
<1>2. Len(T[t]) \in Nat /\ Len(ks) \in Nat
  BY LenProperties
<1>3. CASE j \in 1..Len(T[u]) /\ tasks'[u][j] = T[u][j]
  <2>1. s \in Busy(T)
    BY <1>3, BusyFacts
  <2> QED BY <1>1, <1>3, <2>1
<1>4. ASSUME u = t, NEW i \in 1..Len(ks), j = Len(T[t]) + i, tasks'[t][j] = ks[i]
      PROVE  /\ j = Len(T[t]) + 1 /\ Len(ks) = 1 /\ tasks'[u][j] = ks[1]
             /\ s \notin Busy(T) /\ s \in About(ks)
  <2>1. s \in About(ks)
    BY <1>4, AboutFacts
  <2>2. Len(ks) = 1 /\ s \notin Busy(T)
    BY <1>1, <2>1
  <2>3. i = 1
    BY <1>4, <2>2
  <2> QED BY <1>4, <2>1, <2>2, <2>3
<1>5. u = t => \/ j \in 1..Len(T[t]) /\ tasks'[t][j] = T[t][j]
               \/ \E i \in 1..Len(ks) : j = Len(T[t]) + i /\ tasks'[t][j] = ks[i]
  BY <1>1, <1>2, JoinedPlaces
<1> QED BY <1>1, <1>3, <1>4, <1>5

\* Any place.
LEMMA BeginPlaces ==
  ASSUME NEW T \in [Tabs -> Seq(Tasks)], NEW t \in Tabs, NEW ks \in Seq(Tasks), ks # <<>>,
         Begin(T, t, ks)
  PROVE  /\ \A u \in Tabs : \A j \in 1..Len(tasks'[u]) :
              \/ j \in 1..Len(T[u]) /\ tasks'[u][j] = T[u][j]
              \/ u = t /\ \E i \in 1..Len(ks) : tasks'[u][j] = ks[i]
         /\ \A u \in Tabs : \A j \in 1..Len(T[u]) :
              j \in 1..Len(tasks'[u]) /\ tasks'[u][j] = T[u][j]
         /\ \A j \in 1..Len(ks) : \E i \in 1..Len(tasks'[t]) : tasks'[t][i] = ks[j]
<1>1. /\ \A v \in Tabs : v # t => tasks'[v] = T[v]
      /\ Joined(tasks'[t], T[t], ks)
  BY BeginFacts
<1>2. Len(T[t]) \in Nat /\ Len(ks) \in Nat
  BY LenProperties
<1>3. /\ \A i \in 1..Len(tasks'[t]) :
           \/ i \in 1..Len(T[t]) /\ tasks'[t][i] = T[t][i]
           \/ \E j \in 1..Len(ks) : i = Len(T[t]) + j /\ tasks'[t][i] = ks[j]
      /\ \A i \in 1..Len(T[t]) : i \in 1..Len(tasks'[t])
      /\ \A j \in 1..Len(ks) : Len(T[t]) + j \in 1..Len(tasks'[t])
  BY <1>1, <1>2, JoinedPlaces
<1>4. \A j \in 1..Len(ks) : \E i \in 1..Len(tasks'[t]) : tasks'[t][i] = ks[j]
  BY <1>1, <1>3 DEF Joined
<1>5. \A j \in 1..Len(T[t]) : tasks'[t][j] = T[t][j]
  BY <1>1 DEF Joined
<1> QED BY <1>1, <1>3, <1>4, <1>5, ZenonT(40)

LEMMA OneBegin ==
  ASSUME NEW T \in [Tabs -> Seq(Tasks)], NEW t \in Tabs, NEW ks \in Seq(Tasks),
         NEW s \in Sessions, ks # <<>>, Begin(T, t, ks), s \notin raced', OneAt(T, s)
  PROVE  OneAt(tasks', s)
<1> SUFFICES ASSUME NEW u \in Tabs, NEW v \in Tabs,
                    NEW i \in 1..Len(tasks'[u]), NEW j \in 1..Len(tasks'[v]),
                    s \in Concerns(tasks'[u][i]), s \in Concerns(tasks'[v][j])
             PROVE  u = v /\ i = j
  BY ZenonT(40) DEF OneAt
<1>0. \A w \in Tabs : \A l \in 1..Len(tasks'[w]) : s \in Concerns(tasks'[w][l]) =>
        \/ /\ l \in 1..Len(T[w]) /\ tasks'[w][l] = T[w][l]
           /\ s \notin About(ks)
        \/ /\ w = t /\ l = Len(T[t]) + 1 /\ Len(ks) = 1 /\ tasks'[w][l] = ks[1]
           /\ s \notin Busy(T) /\ s \in About(ks)
  BY BeginAt
<1>1. /\ \/ /\ i \in 1..Len(T[u]) /\ tasks'[u][i] = T[u][i]
            /\ s \notin About(ks)
         \/ u = t /\ i = Len(T[t]) + 1 /\ s \in About(ks)
      /\ \/ /\ j \in 1..Len(T[v]) /\ tasks'[v][j] = T[v][j]
            /\ s \notin About(ks)
         \/ v = t /\ j = Len(T[t]) + 1 /\ s \in About(ks)
  BY <1>0
<1>2. CASE s \in About(ks)
  BY <1>1, <1>2
<1>3. CASE s \notin About(ks)
  <2>1. /\ i \in 1..Len(T[u]) /\ j \in 1..Len(T[v])
        /\ s \in Concerns(T[u][i]) /\ s \in Concerns(T[v][j])
    BY <1>1, <1>3
  <2> QED BY <2>1 DEF OneAt
<1> QED BY <1>2, <1>3

\* One task less.
LEMMA OneThinned ==
  ASSUME NEW T \in [Tabs -> Seq(Tasks)], NEW R \in [Tabs -> Seq(Tasks)], NEW t \in Tabs,
         NEW n, NEW s, n \in 1..Len(T[t]), \A u \in Tabs : u # t => R[u] = T[u],
         Thinned(R[t], T[t], n), OneAt(T, s)
  PROVE  OneAt(R, s)
<1>1. Len(T[t]) \in Nat
  BY LenProperties
<1>2. /\ \A j \in 1..Len(R[t]) : /\ Shift(n, j) \in 1..Len(T[t])
                                 /\ R[t][j] = T[t][Shift(n, j)]
      /\ \A j, l \in 1..Len(R[t]) : Shift(n, j) = Shift(n, l) => j = l
  BY <1>1, ThinnedPlaces
<1> SUFFICES ASSUME NEW u \in Tabs, NEW v \in Tabs,
                    NEW i \in 1..Len(R[u]), NEW j \in 1..Len(R[v]),
                    s \in Concerns(R[u][i]), s \in Concerns(R[v][j])
             PROVE  u = v /\ i = j
  BY DEF OneAt
<1>3. CASE u = t /\ v = t
  <2>1. /\ Shift(n, i) \in 1..Len(T[t]) /\ Shift(n, j) \in 1..Len(T[t])
        /\ s \in Concerns(T[t][Shift(n, i)]) /\ s \in Concerns(T[t][Shift(n, j)])
    BY <1>2, <1>3
  <2>2. Shift(n, i) = Shift(n, j)
    BY <2>1 DEF OneAt
  <2> QED BY <1>2, <1>3, <2>2
<1>4. CASE u # t /\ v # t
  <2>1. R[u] = T[u] /\ R[v] = T[v]
    BY <1>4
  <2>2. /\ i \in 1..Len(T[u]) /\ j \in 1..Len(T[v])
        /\ s \in Concerns(T[u][i]) /\ s \in Concerns(T[v][j])
    BY <2>1
  <2> QED BY <2>2 DEF OneAt
<1>5. CASE u = t /\ v # t
  <2>1. /\ Shift(n, i) \in 1..Len(T[t]) /\ j \in 1..Len(T[v])
        /\ s \in Concerns(T[t][Shift(n, i)]) /\ s \in Concerns(T[v][j])
    BY <1>2, <1>5
  <2> QED BY <1>5, <2>1 DEF OneAt
<1>6. CASE u # t /\ v = t
  <2>1. /\ Shift(n, j) \in 1..Len(T[t]) /\ i \in 1..Len(T[u])
        /\ s \in Concerns(T[t][Shift(n, j)]) /\ s \in Concerns(T[u][i])
    BY <1>2, <1>6
  <2> QED BY <1>6, <2>1 DEF OneAt
<1> QED BY <1>3, <1>4, <1>5, <1>6

-----------------------------------------------------------------------------
(* The steps *)

\* What most steps leave alone, which concern no task.
Aside == UNCHANGED <<disk, mem, keep, tasks, ops, opens, used, spoiled, ghosts>>

LEMMA AsideFacts ==
  ASSUME Types, NEW t \in Tabs, ReadIndex(t) \/ Booted(t) \/ LoadFails(t)
  PROVE  /\ Aside /\ UNCHANGED <<key, mine>>
         /\ up[t] # "up" /\ \A u \in Tabs : u # t => up'[u] = up[u]
         /\ TabType'
<1>1. /\ UNCHANGED <<disk, key, mine, mem, keep, tasks, ops, opens, used, spoiled, ghosts>>
      /\ up[t] \in {"index", "entries"}
      /\ \E x \in {"entries", "up", "failed"} : up' = [up EXCEPT ![t] = x]
      /\ toLoad' = toLoad \/ toLoad' = [toLoad EXCEPT ![t] = disk.kv.idx]
  BY DEF ReadIndex, Booted, LoadFails
<1>2. disk.kv.idx \in SUBSET Sessions
  BY DEF Types, DiskType, Stores
<1>3. toLoad' \in [Tabs -> SUBSET Sessions]
  BY <1>1, <1>2 DEF Types, TabType
<1>4. /\ up' \in [Tabs -> {"down", "index", "entries", "up", "failed"}]
      /\ \A u \in Tabs : u # t => up'[u] = up[u]
  BY <1>1 DEF Types, TabType
<1> QED BY <1>1, <1>3, <1>4 DEF Aside, TabType, Types

\* The next write of a task.
LEMMA NextFacts ==
  ASSUME Types, NEW t \in Tabs, NEW k \in Tasks, k # Clear, k.part # "idx",
         NEW n, n = NextPart(t, k)
  PROVE  /\ n \in Tasks /\ n # Clear /\ n.kind = k.kind /\ n.s = k.s /\ n.ver = k.ver
         /\ n.seen = k.seen /\ n.part # "rec"
         /\ k.part = "rec" <=> n.part = "sec"
         /\ k.part = "sec" <=> n.part = "msgs"
         /\ k.part = "msgs" <=> n.part = "idx"
         /\ n.log = IF k.kind = "persist" /\ n.part = "msgs" THEN mem[t][k.s].ver ELSE None
         /\ n.part = "idx" => n.ids = Held(mem[t]) \ (IF k.kind = "persist" THEN {} ELSE {k.s})
         /\ n.secret => keep[t]
<1>1. /\ k.part \in {"rec", "sec", "msgs"} /\ k.s \in Sessions
      /\ k.kind = "persist" \/ k.kind = "remove"
      /\ k.kind = "persist" <=> k \in Saves
      /\ k.kind = "remove" <=> k \in Removals
  BY TaskFacts DEF Parts, Saves, Removals
<1>2. mem[t][k.s] \in Entries /\ Held(mem[t]) \in SUBSET Sessions /\ keep[t] \in BOOLEAN
  BY <1>1 DEF Types, MemType, TabType, Held
<1> DEFINE p == Following[k.part]
           sec == k.kind = "persist" /\ p = "sec" /\ keep[t] /\ mem[t][k.s].keys
           lg == IF k.kind = "persist" /\ p = "msgs" THEN mem[t][k.s].ver ELSE None
           is == IF p = "idx" THEN Held(mem[t]) \ (IF k.kind = "persist" THEN {} ELSE {k.s})
                 ELSE {}
<1>3. n = [k EXCEPT !.part = p, !.secret = sec, !.log = lg, !.ids = is]
  BY DEF NextPart
<1>4. /\ p = IF k.part = "rec" THEN "sec" ELSE IF k.part = "sec" THEN "msgs" ELSE "idx"
      /\ p \in Parts
  BY <1>1 DEF Following, Parts
<1>5. sec \in BOOLEAN /\ lg \in 0..MaxOps /\ is \in SUBSET Sessions
  BY <1>2, BoundsAssumption DEF Entries
<1>6. k.kind = "remove" => sec = FALSE /\ lg = None
  OBVIOUS
<1>7. sec => keep[t]
  OBVIOUS
<1>8. /\ lg = IF k.kind = "persist" /\ p = "msgs" THEN mem[t][k.s].ver ELSE None
      /\ p = "idx" => is = Held(mem[t]) \ (IF k.kind = "persist" THEN {} ELSE {k.s})
  OBVIOUS
<1> HIDE DEF p, sec, lg, is
<1>9. /\ n.part = p /\ n.secret = sec /\ n.log = lg /\ n.ids = is
      /\ n.kind = k.kind /\ n.s = k.s /\ n.ver = k.ver /\ n.seen = k.seen
  <2>1. CASE k.kind = "persist"
    BY <1>1, <1>3, <2>1 DEF Saves
  <2>2. CASE k.kind = "remove"
    BY <1>1, <1>3, <2>2 DEF Removals
  <2> QED BY <1>1, <2>1, <2>2
<1>10. n \in Tasks
  <2>1. CASE k.kind = "persist"
    <3>1. n \in Saves
      BY <1>1, <1>3, <1>4, <1>5, <2>1 DEF Saves
    <3> QED BY <3>1 DEF Tasks
  <2>2. CASE k.kind = "remove"
    <3>1. n \in Removals
      BY <1>1, <1>3, <1>4, <1>5, <1>6, <2>2 DEF Removals
    <3> QED BY <3>1 DEF Tasks
  <2> QED BY <1>1, <2>1, <2>2
<1>11. n # Clear
  BY <1>1, <1>9, TaskFacts
<1>12. /\ p # "rec" /\ (k.part = "rec" <=> p = "sec")
       /\ (k.part = "sec" <=> p = "msgs") /\ (k.part = "msgs" <=> p = "idx")
  BY <1>1, <1>4
<1> QED BY <1>7, <1>8, <1>9, <1>10, <1>11, <1>12

\* k is the first write of a save of state v.
FirstSave(k, s, v, seen) ==
  /\ k \in Tasks /\ k # Clear /\ k.kind = "persist" /\ k.s = s /\ k.part = "rec"
  /\ k.ver = v /\ k.log = None /\ k.secret = FALSE /\ k.seen = seen

LEMMA PersistFacts ==
  ASSUME NEW m, NEW s, NEW seen, NEW k,
         m \in [Sessions -> Entries], s \in Sessions, seen \subseteq Sessions,
         k = Persist(m, s, seen)
  PROVE  FirstSave(k, s, m[s].ver, seen)
<1>1. m[s].ver \in 0..MaxOps /\ 0 \in 0..MaxOps
  BY BoundsAssumption DEF Entries
<1>2. k \in Saves /\ k.kind = "persist" /\ k.s = s /\ k.part = "rec"
      /\ k.ver = m[s].ver /\ k.log = None /\ k.secret = FALSE /\ k.seen = seen
  BY <1>1 DEF Persist, Saves, Parts
<1>3. k \in Tasks /\ k # Clear
  BY <1>2, TaskFacts DEF Tasks
<1> QED BY <1>2, <1>3 DEF FirstSave

LEMMA RemovalFacts ==
  ASSUME NEW s \in Sessions
  PROVE  /\ Removal(s) \in Tasks /\ Removal(s) # Clear /\ Removal(s).kind = "remove"
         /\ Removal(s).s = s /\ Removal(s).part = "rec" /\ Removal(s).ver = None
         /\ Removal(s).log = None /\ Removal(s).secret = FALSE
<1>1. /\ Removal(s) \in Removals /\ Removal(s).kind = "remove"
      /\ Removal(s).s = s /\ Removal(s).part = "rec" /\ Removal(s).ver = None
      /\ Removal(s).log = None /\ Removal(s).secret = FALSE
  BY DEF Removal, Removals, Parts
<1>2. Removal(s) \in Tasks /\ Removal(s) # Clear
  BY <1>1, TaskFacts DEF Tasks
<1> QED BY <1>1, <1>2

\* The memory after an operation, and the task that saves it.
LEMMA ChangedFacts ==
  ASSUME Types, NEW t \in Tabs, NEW s \in Sessions, NEW live \in BOOLEAN, ops < MaxOps,
         NEW m, m = Changed(t, s, live)
  PROVE  /\ m \in [Tabs -> [Sessions -> Entries]]
         /\ m[t][s].there /\ m[t][s].ver = ops + 1 /\ m[t][s].live = live
         /\ \A u \in Tabs, r \in Sessions : u # t \/ r # s => m[u][r] = mem[u][r]
         /\ ops + 1 \in 0..MaxOps
<1>1. mem \in [Tabs -> [Sessions -> Entries]] /\ mem[t][s] \in Entries
  BY DEF Types, MemType
<1>2. ops + 1 \in 0..MaxOps
  BY BoundsAssumption DEF Types, CountType
<1> DEFINE ks == ~mem[t][s].there \/ mem[t][s].keys \/ live
           e == [there |-> TRUE, live |-> live, ver |-> ops + 1, keys |-> ks]
<1>3. ks \in BOOLEAN
  OBVIOUS
<1>4. m = [mem EXCEPT ![t] = [mem[t] EXCEPT ![s] = e]]
  BY <1>1 DEF Changed
<1> HIDE DEF ks
<1>5. e \in Entries /\ e.there /\ e.ver = ops + 1 /\ e.live = live
  BY <1>2, <1>3 DEF Entries
<1> HIDE DEF e
<1>6. [mem[t] EXCEPT ![s] = e] \in [Sessions -> Entries]
  BY <1>1, <1>5
<1>7. m \in [Tabs -> [Sessions -> Entries]]
  BY <1>1, <1>4, <1>6
<1>8. m[t] = [mem[t] EXCEPT ![s] = e]
  BY <1>1, <1>4
<1>9. m[t][s] = e
  BY <1>1, <1>8
<1>10. \A u \in Tabs, r \in Sessions : u # t \/ r # s => m[u][r] = mem[u][r]
  BY <1>1, <1>4, <1>8
<1> QED BY <1>2, <1>5, <1>7, <1>9, <1>10

LEMMA ChangeFacts ==
  ASSUME NEW t \in Tabs, NEW m, NEW ks, Change(t, m, ks)
  PROVE  /\ up[t] = "up" /\ ops < MaxOps /\ ops' = ops + 1 /\ mem' = m /\ Begin(tasks, t, ks)
         /\ UNCHANGED <<disk, up, key, mine, toLoad, keep, opens, spoiled, twins, shared,
                        cleared>>
BY DEF Change, Operate

\* The tasks ks that begin with operation n on session s.
Begun(ks, s, n) ==
  /\ ks # <<>>
  /\ \A i \in 1..Len(ks) :
       /\ ks[i] # Clear /\ ks[i].s = s /\ ks[i].part = "rec" /\ ks[i].ver <= n
       /\ ks[i].log = None /\ ks[i].secret = FALSE

Saved(k, s, n) ==
  /\ k.kind = "persist" /\ k.ver = n
  /\ <<k>> \in Seq(Tasks) /\ Begun(<<k>>, s, n) /\ Len(<<k>>) = 1 /\ <<k>>[1] = k
  /\ <<k, k>> \in Seq(Tasks) /\ Begun(<<k, k>>, s, n) /\ Len(<<k, k>>) = 2
  /\ \A i \in 1..2 : <<k, k>>[i] = k
  /\ <<k, Removal(s)>> \in Seq(Tasks) /\ Begun(<<k, Removal(s)>>, s, n)
  /\ Len(<<k, Removal(s)>>) = 2

LEMMA SavedFacts ==
  ASSUME NEW m, NEW s \in Sessions, NEW n \in Nat, NEW k,
         m \in [Sessions -> Entries], m[s].ver = n, k = Persist(m, s, Sessions)
  PROVE  Saved(k, s, n)
<1>1. /\ k \in Tasks /\ k # Clear /\ k.kind = "persist" /\ k.s = s /\ k.part = "rec"
      /\ k.ver = n /\ k.log = None /\ k.secret = FALSE
  <2>1. Sessions \subseteq Sessions
    OBVIOUS
  <2>2. m \in [Sessions -> Entries] /\ s \in Sessions /\ k = Persist(m, s, Sessions)
    OBVIOUS
  <2>3. FirstSave(k, s, m[s].ver, Sessions)
    BY <2>1, <2>2, PersistFacts
  <2> QED BY <2>3 DEF FirstSave
<1> DEFINE r == Removal(s)
<1>2. /\ r \in Tasks /\ r # Clear /\ r.s = s /\ r.part = "rec" /\ r.ver = 0
      /\ r.log = None /\ r.secret = FALSE
  BY RemovalFacts
<1> HIDE DEF r
<1>3. n <= n /\ 0 <= n
  OBVIOUS
<1>4. <<k>> \in Seq(Tasks) /\ <<k, k>> \in Seq(Tasks) /\ <<k, r>> \in Seq(Tasks)
  BY <1>1, <1>2
<1>5. /\ Len(<<k>>) = 1 /\ <<k>>[1] = k /\ <<k>> # <<>> /\ \A i \in 1..1 : <<k>>[i] = k
      /\ Len(<<k, k>>) = 2 /\ <<k, k>> # <<>> /\ \A i \in 1..2 : <<k, k>>[i] = k
      /\ Len(<<k, r>>) = 2 /\ <<k, r>> # <<>>
      /\ \A i \in 1..2 : <<k, r>>[i] = k \/ <<k, r>>[i] = r
  OBVIOUS
<1>6. Begun(<<k>>, s, n)
  BY <1>1, <1>3, <1>5 DEF Begun
<1>7. Begun(<<k, k>>, s, n)
  BY <1>1, <1>3, <1>5 DEF Begun
<1>8. Begun(<<k, r>>, s, n)
  BY <1>1, <1>2, <1>3, <1>5 DEF Begun
<1> QED BY <1>1, <1>4, <1>5, <1>6, <1>7, <1>8 DEF r, Saved

\* An operation on session s: its tasks are of s, and the state they save is the new one.
Operated(t, s, ks) ==
  /\ Begun(ks, s, ops + 1) /\ Begin(tasks, t, ks)
  /\ \A i \in 1..Len(ks) : ks[i].kind = "remove" => ~mem'[t][s].there
  /\ Len(ks) = 1 => \/ ks[1].kind = "persist" /\ mem'[t][s].there /\ ks[1].ver = ops + 1
                    \/ ks[1].kind = "remove" /\ due'[s] = None
  /\ mem' \in [Tabs -> [Sessions -> Entries]] /\ mem'[t][s].ver = ops + 1
  /\ mem'[t][s].live => mem'[t][s].there
  /\ \A u \in Tabs, r \in Sessions : u # t \/ r # s => mem'[u][r] = mem[u][r]
  /\ mem[t][s].there \/ (~mem[t][s].there /\ s \notin used /\ s \in used')
  /\ used \subseteq used' /\ used' \subseteq Sessions
  /\ due' \in [Sessions -> 0..MaxOps]
  /\ \A r \in Sessions : due'[r] = due[r] \/ (r = s /\ due'[r] = None)
  /\ up[t] = "up" /\ ops' = ops + 1 /\ ops + 1 \in 0..MaxOps
  /\ deleted' \subseteq Sessions
  /\ UNCHANGED <<disk, up, key, mine, toLoad, keep, opens, spoiled, twins, shared, cleared>>

\* A save, or two, of the new state.
LEMMA SaveOperates ==
  ASSUME Types, NEW t \in Tabs, NEW s \in Sessions, NEW live \in BOOLEAN, NEW m,
         NEW k, NEW ks,
         m = Changed(t, s, live), k = Persist(m[t], s, Sessions), ks = <<k>> \/ ks = <<k, k>>,
         Change(t, m, ks),
         mem[t][s].there \/ (~mem[t][s].there /\ s \notin used /\ s \in used'),
         used' = used \/ used' = used \cup {s}, UNCHANGED due, deleted' \subseteq Sessions
  PROVE  ks \in Seq(Tasks) /\ Operated(t, s, ks)
<1>1. /\ up[t] = "up" /\ ops < MaxOps /\ ops' = ops + 1 /\ mem' = m /\ Begin(tasks, t, ks)
      /\ UNCHANGED <<disk, up, key, mine, toLoad, keep, opens, spoiled, twins, shared, cleared>>
  BY ChangeFacts
<1>2. /\ m \in [Tabs -> [Sessions -> Entries]]
      /\ m[t][s].there /\ m[t][s].ver = ops + 1 /\ m[t][s].live = live
      /\ \A u \in Tabs, r \in Sessions : u # t \/ r # s => m[u][r] = mem[u][r]
      /\ ops + 1 \in 0..MaxOps
  BY <1>1, ChangedFacts
<1>3. m[t] \in [Sessions -> Entries] /\ ops + 1 \in Nat /\ m[t][s].ver = ops + 1
  <2>1. \A n \in Nat : \A i \in 0..n : i \in Nat
    OBVIOUS
  <2> QED BY <1>2, <2>1, BoundsAssumption
<1> DEFINE x == m[t]
<1>a. x \in [Sessions -> Entries] /\ x[s].ver = ops + 1 /\ k = Persist(x, s, Sessions)
  BY <1>3
<1> HIDE DEF x
<1>4. /\ k.kind = "persist" /\ k.ver = ops + 1
      /\ <<k>> \in Seq(Tasks) /\ Begun(<<k>>, s, ops + 1) /\ Len(<<k>>) = 1 /\ <<k>>[1] = k
      /\ <<k, k>> \in Seq(Tasks) /\ Begun(<<k, k>>, s, ops + 1) /\ Len(<<k, k>>) = 2
      /\ \A i \in 1..2 : <<k, k>>[i] = k
  <2>1. Saved(k, s, ops + 1)
    BY <1>3, <1>a, SavedFacts
  <2> QED BY <2>1 DEF Saved
<1>5. /\ ks \in Seq(Tasks) /\ Begun(ks, s, ops + 1) /\ Len(ks) = 1 => ks[1] = k
      /\ \A i \in 1..Len(ks) : ks[i].kind # "remove"
  <2>1. CASE ks = <<k>>
    BY <1>4, <2>1
  <2>2. CASE ks = <<k, k>>
    BY <1>4, <2>2
  <2> QED BY <2>1, <2>2
<1>6. ks \in Seq(Tasks) /\ Begun(ks, s, ops + 1)
  BY <1>4
<1>7. Len(ks) = 1 => ks[1].kind = "persist" /\ mem'[t][s].there /\ ks[1].ver = ops + 1
  BY <1>1, <1>2, <1>4, <1>5, <1>6
<1>8. /\ due' \in [Sessions -> 0..MaxOps] /\ \A r \in Sessions : due'[r] = due[r]
      /\ used \subseteq used' /\ used' \subseteq Sessions
  BY DEF Types, GhostType, CountType
<1> QED BY <1>1, <1>2, <1>5, <1>6, <1>7, <1>8 DEF Operated

LEMMA CreateOperates ==
  ASSUME Types, SoFar, NEW t \in Tabs, NEW s \in Sessions, CreateSession(t, s)
  PROVE  \E ks \in Seq(Tasks) : Operated(t, s, ks)
<1> DEFINE m == Changed(t, s, FALSE)
           ks == <<Persist(m[t], s, Sessions)>>
<1>1. /\ s \notin used /\ used' = used \cup {s} /\ Change(t, m, ks)
      /\ UNCHANGED <<due, deleted>>
  BY DEF CreateSession
<1>2. ~mem[t][s].there
  BY <1>1 DEF SoFar
<1>3. deleted' \subseteq Sessions
  BY <1>1 DEF Types, GhostType
<1> HIDE DEF m
<1>4. ks \in Seq(Tasks) /\ Operated(t, s, ks)
  BY <1>1, <1>2, <1>3, SaveOperates DEF m
<1> QED BY <1>4

LEMMA UpdateOperates ==
  ASSUME Types, NEW t \in Tabs, NEW s \in Sessions, Update(t, s)
  PROVE  \E ks \in Seq(Tasks) : Operated(t, s, ks)
<1>1. PICK live \in BOOLEAN :
        Change(t, Changed(t, s, live), <<Persist(Changed(t, s, live)[t], s, Sessions)>>)
  BY DEF Update
<1>2. mem[t][s].there /\ UNCHANGED <<used, due>> /\ deleted' \subseteq Sessions
  BY DEF Update, Types, GhostType
<1> DEFINE m == Changed(t, s, live)
           ks == <<Persist(m[t], s, Sessions)>>
<1>3. ks \in Seq(Tasks) /\ Operated(t, s, ks)
  BY <1>1, <1>2, SaveOperates
<1> QED BY <1>3

LEMMA DisconnectOperates ==
  ASSUME Types, SoFar, NEW t \in Tabs, NEW s \in Sessions, Disconnect(t, s)
  PROVE  \E ks \in Seq(Tasks) : Operated(t, s, ks)
<1> DEFINE m == Changed(t, s, FALSE)
           k == Persist(m[t], s, Sessions)
           ks == <<k, k>>
<1>1. mem[t][s].live /\ Change(t, m, ks) /\ UNCHANGED <<used, due>>
  BY DEF Disconnect
<1>2. mem[t][s].there
  BY <1>1 DEF SoFar
<1>3. deleted' \subseteq Sessions
  BY DEF Disconnect, Types, GhostType
<1>4. ks \in Seq(Tasks) /\ Operated(t, s, ks)
  BY <1>1, <1>2, <1>3, SaveOperates
<1> QED BY <1>4

LEMMA DeleteOperates ==
  ASSUME Types, SoFar, NEW t \in Tabs, NEW s \in Sessions, DeleteSession(t, s)
  PROVE  \E ks \in Seq(Tasks) : Operated(t, s, ks)
<1> PICK off \in BOOLEAN : off = FALSE
  OBVIOUS
<1> DEFINE m == Changed(t, s, off)
           k == Persist(m[t], s, Sessions)
           ks == IF mem[t][s].live THEN <<k, Removal(s)>> ELSE <<Removal(s)>>
           n == [m EXCEPT ![t][s].there = FALSE]
<1>1. /\ mem[t][s].there /\ due' = [due EXCEPT ![s] = None] /\ UNCHANGED used
      /\ Change(t, n, (IF mem[t][s].live THEN <<k>> ELSE <<>>) \o <<Removal(s)>>)
  <2>1. /\ mem[t][s].there /\ due' = [due EXCEPT ![s] = None] /\ UNCHANGED used
        /\ Change(t, [Changed(t, s, FALSE) EXCEPT ![t][s].there = FALSE],
                  (IF mem[t][s].live THEN <<Persist(Changed(t, s, FALSE)[t], s, Sessions)>>
                   ELSE <<>>) \o <<Removal(s)>>)
    BY DEF DeleteSession
  <2>2. Changed(t, s, off) = Changed(t, s, FALSE)
    BY DEF Changed
  <2> QED BY <2>1, <2>2
<1>2. deleted' \subseteq Sessions
  BY DEF DeleteSession, Types, GhostType
<1>3. (IF mem[t][s].live THEN <<k>> ELSE <<>>) \o <<Removal(s)>> = ks
  <2> HIDE DEF k
  <2>1. <<k>> \o <<Removal(s)>> = <<k, Removal(s)>> /\ <<>> \o <<Removal(s)>> = <<Removal(s)>>
    BY PairFacts
  <2>2. CASE mem[t][s].live
    BY <2>1, <2>2
  <2>3. CASE ~mem[t][s].live
    BY <2>1, <2>3
  <2> QED BY <2>2, <2>3
<1>4. /\ up[t] = "up" /\ ops < MaxOps /\ ops' = ops + 1 /\ mem' = n /\ Begin(tasks, t, ks)
      /\ UNCHANGED <<disk, up, key, mine, toLoad, keep, opens, spoiled, twins, shared, cleared>>
  BY <1>1, <1>3, ChangeFacts
<1>5. /\ m \in [Tabs -> [Sessions -> Entries]]
      /\ m[t][s].ver = ops + 1 /\ m[t][s].live = FALSE
      /\ \A u \in Tabs, r \in Sessions : u # t \/ r # s => m[u][r] = mem[u][r]
      /\ ops + 1 \in 0..MaxOps
  BY <1>4, ChangedFacts
<1>6. m[t] \in [Sessions -> Entries] /\ m[t][s] \in Entries /\ ops + 1 \in Nat
  <2>1. \A i \in Nat : \A j \in 0..i : j \in Nat
    OBVIOUS
  <2>2. MaxOps \in Nat /\ ops + 1 \in 0..MaxOps
    BY <1>5, BoundsAssumption
  <2>3. ops + 1 \in Nat
    BY <2>1, <2>2
  <2> QED BY <1>5, <2>3
<1> DEFINE x == m[t]
<1>a. x \in [Sessions -> Entries] /\ x[s].ver = ops + 1 /\ k = Persist(x, s, Sessions)
  BY <1>5, <1>6
<1> HIDE DEF x, k
<1>7. /\ k.kind = "persist" /\ k.ver = ops + 1
      /\ <<k, Removal(s)>> \in Seq(Tasks) /\ Begun(<<k, Removal(s)>>, s, ops + 1)
      /\ Len(<<k, Removal(s)>>) = 2
  <2>1. Saved(k, s, ops + 1)
    BY <1>6, <1>a, SavedFacts
  <2> QED BY <2>1 DEF Saved
<1>8. /\ <<Removal(s)>> \in Seq(Tasks) /\ Begun(<<Removal(s)>>, s, ops + 1)
      /\ <<Removal(s)>>[1].kind = "remove"
  <2> DEFINE r == Removal(s)
  <2>1. /\ r \in Tasks /\ r # Clear /\ r.kind = "remove" /\ r.s = s /\ r.part = "rec"
        /\ r.ver = 0 /\ r.log = None /\ r.secret = FALSE
    BY RemovalFacts
  <2> HIDE DEF r
  <2>2. 0 <= ops + 1
    BY <1>6
  <2>3. <<r>> \in Seq(Tasks)
    BY <2>1
  <2>4. <<r>> # <<>> /\ <<r>>[1] = r /\ Len(<<r>>) = 1 /\ \A i \in 1..1 : <<r>>[i] = r
    OBVIOUS
  <2>5. Begun(<<r>>, s, ops + 1)
    BY <2>1, <2>2, <2>4 DEF Begun
  <2> QED BY <2>1, <2>3, <2>4, <2>5 DEF r
<1>9. /\ ks \in Seq(Tasks) /\ Begun(ks, s, ops + 1)
      /\ Len(ks) = 1 => ks[1].kind = "remove"
  <2>1. CASE mem[t][s].live
    BY <1>7, <2>1
  <2>2. CASE ~mem[t][s].live
    BY <1>8, <2>2
  <2> QED BY <2>1, <2>2
<1> HIDE DEF m, ks
<1>10. n = [m EXCEPT ![t] = [m[t] EXCEPT ![s] = [m[t][s] EXCEPT !.there = FALSE]]]
  BY <1>5
<1> HIDE DEF n
<1> DEFINE e == [m[t][s] EXCEPT !.there = FALSE]
<1>11. e \in Entries /\ e.there = FALSE /\ e.ver = ops + 1 /\ e.live = FALSE
  BY <1>5, <1>6 DEF Entries
<1> HIDE DEF e
<1>12. n \in [Tabs -> [Sessions -> Entries]] /\ n[t][s] = e
  BY <1>5, <1>6, <1>10, <1>11 DEF e
<1>13. \A u \in Tabs, r \in Sessions : u # t \/ r # s => n[u][r] = m[u][r]
  BY <1>5, <1>10
<1>14. /\ mem' \in [Tabs -> [Sessions -> Entries]] /\ mem'[t][s].ver = ops + 1
       /\ ~mem'[t][s].there /\ ~mem'[t][s].live
       /\ \A u \in Tabs, r \in Sessions : u # t \/ r # s => mem'[u][r] = mem[u][r]
  BY <1>4, <1>5, <1>11, <1>12, <1>13
<1>15. /\ due' \in [Sessions -> 0..MaxOps] /\ due'[s] = None
       /\ \A r \in Sessions : due'[r] = due[r] \/ (r = s /\ due'[r] = None)
       /\ used \subseteq used' /\ used' \subseteq Sessions
  BY <1>1, BoundsAssumption DEF Types, GhostType, CountType
<1>16. Operated(t, s, ks)
  BY <1>1, <1>2, <1>4, <1>5, <1>9, <1>14, <1>15 DEF Operated
<1> QED BY <1>9, <1>16

LEMMA UserFacts ==
  ASSUME Types, SoFar, NEW t \in Tabs, NEW s \in Sessions,
         CreateSession(t, s) \/ Update(t, s) \/ Disconnect(t, s) \/ DeleteSession(t, s)
  PROVE  \E ks \in Seq(Tasks) : Operated(t, s, ks)
BY CreateOperates, UpdateOperates, DisconnectOperates, DeleteOperates

-----------------------------------------------------------------------------
(* The other steps that concern tasks *)

\* A save of session s alone, of the state its tab has of it.
OneSave(t, s, ks) ==
  /\ ks \in Seq(Tasks) /\ ks # <<>> /\ Len(ks) = 1
  /\ mem[t][s].there
  /\ ks[1] # Clear /\ ks[1].kind = "persist" /\ ks[1].s = s /\ ks[1].part = "rec"
  /\ ks[1].ver = mem[t][s].ver /\ ks[1].log = None /\ ks[1].secret = FALSE

LEMMA OneSaveFacts ==
  ASSUME Types, NEW t \in Tabs, NEW s \in Held(mem[t]), NEW seen \in SUBSET Sessions
  PROVE  s \in Sessions /\ OneSave(t, s, <<Persist(mem[t], s, seen)>>)
<1>1. mem[t] \in [Sessions -> Entries] /\ s \in Sessions /\ mem[t][s].there
  BY DEF Types, MemType, Held
<1> DEFINE m == mem[t]
           k == Persist(m, s, seen)
<1>2. FirstSave(k, s, m[s].ver, seen)
  BY <1>1, PersistFacts
<1> HIDE DEF k
<1>3. <<k>> # <<>> /\ Len(<<k>>) = 1 /\ <<k>>[1] = k
  OBVIOUS
<1>4. k \in Tasks
  BY <1>2 DEF FirstSave
<1>5. <<k>> \in Seq(Tasks)
  BY <1>4
<1>6. OneSave(t, s, <<k>>)
  BY <1>1, <1>2, <1>3, <1>5 DEF FirstSave, OneSave
<1> QED BY <1>1, <1>6 DEF k

LEMMA EnableFacts ==
  ASSUME Types, NEW t \in Tabs, EnableSecretPersistence(t)
  PROVE  /\ \/ UNCHANGED <<tasks, raced, crowded>>
            \/ \E s \in Sessions : \E ks \in Seq(Tasks) : OneSave(t, s, ks) /\ Begin(tasks, t, ks)
         /\ up[t] = "up" /\ ops' = ops + 1 /\ ops + 1 \in 0..MaxOps
         /\ keep' \in [Tabs -> BOOLEAN] /\ cleared' = FALSE /\ deleted' \subseteq Sessions
         /\ UNCHANGED <<disk, up, key, mine, mem, toLoad, opens, used, spoiled, due, twins,
                        shared>>
<1>1. /\ up[t] = "up" /\ ops < MaxOps /\ ops' = ops + 1
      /\ keep' = [keep EXCEPT ![t] = TRUE] /\ cleared' = FALSE
      /\ deleted' = deleted \ Held(mem[t])
      /\ \/ UNCHANGED <<tasks, raced, crowded>>
         \/ \E s \in Held(mem[t]) : Begin(tasks, t, <<Persist(mem[t], s, {s})>>)
      /\ UNCHANGED <<disk, up, key, mine, mem, toLoad, opens, used, spoiled, due, twins, shared>>
  BY DEF EnableSecretPersistence, Operate
<1>2. ops + 1 \in 0..MaxOps
  BY <1>1, BoundsAssumption DEF Types, CountType
<1>3. keep' \in [Tabs -> BOOLEAN] /\ deleted' \subseteq Sessions
  BY <1>1 DEF Types, TabType, GhostType
<1>4. ASSUME NEW s \in Held(mem[t]), Begin(tasks, t, <<Persist(mem[t], s, {s})>>)
      PROVE  \E r \in Sessions : \E ks \in Seq(Tasks) : OneSave(t, r, ks) /\ Begin(tasks, t, ks)
  <2>1. {s} \in SUBSET Sessions
    BY DEF Held
  <2>2. s \in Sessions /\ OneSave(t, s, <<Persist(mem[t], s, {s})>>)
    BY <2>1, OneSaveFacts
  <2> QED BY <1>4, <2>2 DEF OneSave
<1> QED BY <1>1, <1>2, <1>3, <1>4

LEMMA ClearFacts ==
  ASSUME Types, NEW t \in Tabs, ClearPersistedData(t)
  PROVE  /\ <<Clear>> \in Seq(Tasks) /\ <<Clear>> # <<>> /\ Len(<<Clear>>) = 1
         /\ <<Clear>>[1] = Clear /\ Begin(tasks, t, <<Clear>>)
         /\ up[t] = "up" /\ ops' = ops + 1 /\ ops + 1 \in 0..MaxOps
         /\ keep' \in [Tabs -> BOOLEAN] /\ keep'[t] = FALSE
         /\ \A u \in Tabs : u # t => keep'[u] = keep[u]
         /\ cleared' \in BOOLEAN
         /\ cleared' => Idle /\ \A u \in Tabs : u # t => ~keep[u]
         /\ due' = [s \in Sessions |-> None]
         /\ UNCHANGED <<disk, up, key, mine, mem, toLoad, opens, used, spoiled, twins, shared,
                        deleted>>
<1>1. /\ up[t] = "up" /\ ops < MaxOps /\ ops' = ops + 1
      /\ keep' = [keep EXCEPT ![t] = FALSE]
      /\ cleared' = (Idle /\ \A u \in Tabs \ {t} : ~keep[u])
      /\ due' = [s \in Sessions |-> None] /\ Begin(tasks, t, <<Clear>>)
      /\ UNCHANGED <<disk, up, key, mine, mem, toLoad, opens, used, spoiled, twins, shared,
                     deleted>>
  BY DEF ClearPersistedData, Operate
<1>2. ops + 1 \in 0..MaxOps
  BY <1>1, BoundsAssumption DEF Types, CountType
<1>3. /\ keep' \in [Tabs -> BOOLEAN] /\ keep'[t] = FALSE
      /\ \A u \in Tabs : u # t => keep'[u] = keep[u]
  BY <1>1 DEF Types, TabType
<1>4. <<Clear>> \in Seq(Tasks) /\ <<Clear>> # <<>> /\ Len(<<Clear>>) = 1 /\ <<Clear>>[1] = Clear
  BY TaskFacts
<1>5. cleared' \in BOOLEAN /\ (cleared' => Idle /\ \A u \in Tabs : u # t => ~keep[u])
  BY <1>1
<1> QED BY <1>1, <1>2, <1>3, <1>4, <1>5

\* The list of a tab without its task i.
Rest(t, i) == [tasks EXCEPT ![t] = RemoveAt(@, i)]

LEMMA RestFacts ==
  ASSUME Types, NEW t \in Tabs, NEW i \in 1..Len(tasks[t])
  PROVE  /\ Rest(t, i) \in [Tabs -> Seq(Tasks)]
         /\ \A u \in Tabs : u # t => Rest(t, i)[u] = tasks[u]
         /\ Thinned(Rest(t, i)[t], tasks[t], i)
         /\ Len(Rest(t, i)[t]) <= MaxTasks
<1>1. tasks \in [Tabs -> Seq(Tasks)] /\ Len(tasks[t]) <= MaxTasks /\ MaxTasks \in Nat
  BY BoundsAssumption DEF Types, TaskType
<1>2. RemoveAt(tasks[t], i) \in Seq(Tasks) /\ Thinned(RemoveAt(tasks[t], i), tasks[t], i)
  BY <1>1, ThinnedFacts
<1>3. Len(RemoveAt(tasks[t], i)) <= MaxTasks
  <2>1. Len(tasks[t]) \in Nat /\ Len(RemoveAt(tasks[t], i)) = Len(tasks[t]) - 1
    BY <1>1, <1>2, LenProperties DEF Thinned
  <2>2. \A m, n \in Nat : m <= n => m - 1 <= n
    OBVIOUS
  <2> QED BY <1>1, <2>1, <2>2
<1> QED BY <1>1, <1>2, <1>3 DEF Rest

\* A task at its next write.
GoesOn(t, i, k) ==
  /\ k # Clear /\ k.part # "idx"
  /\ tasks' \in [Tabs -> Seq(Tasks)] /\ Len(tasks'[t]) = Len(tasks[t])
  /\ \A u \in Tabs : u # t => tasks'[u] = tasks[u]
  /\ \A j \in 1..Len(tasks[t]) : j # i => tasks'[t][j] = tasks[t][j]
  /\ tasks'[t][i] = NextPart(t, k)
  /\ UNCHANGED <<raced, crowded, due>>

\* A task that is over, ...
Ended(t, i, k) ==
  /\ k = Clear \/ k.part = "idx"
  /\ tasks' = Rest(t, i)
  /\ UNCHANGED <<raced, crowded>>

\* ... and one of enableSecretPersistence, that goes on with another session.
Continues(t, i, k) ==
  /\ k # Clear /\ k.kind = "persist" /\ k.part = "idx"
  /\ \E s \in Sessions : \E ks \in Seq(Tasks) : OneSave(t, s, ks) /\ Begin(Rest(t, i), t, ks)

\* The write of task k.
Wrote(t, k) ==
  /\ disk'.kv \in Stores /\ disk' \in [enc : Tabs \cup {None}, kv : Stores] /\ disk'.enc = disk.enc
  /\ k = Clear => disk'.kv = EmptyStore
  /\ k # Clear =>
       /\ \A r \in Sessions :
            /\ disk'.kv.rec[r] = IF k.part = "rec" /\ r = k.s THEN k.ver ELSE disk.kv.rec[r]
            /\ disk'.kv.msgs[r] = IF k.part = "msgs" /\ r = k.s THEN k.log ELSE disk.kv.msgs[r]
       /\ disk'.kv.idx = IF k.part = "idx" THEN k.ids ELSE disk.kv.idx
       /\ k.secret = FALSE => disk'.kv.sec \subseteq disk.kv.sec
       /\ ~IsSave(k) /\ disk.kv = EmptyStore => disk'.kv = EmptyStore

LEMMA EmptyFacts ==
  /\ EmptyStore \in Stores /\ EmptyStore.sec = {} /\ EmptyStore.idx = {}
  /\ \A s \in Sessions : EmptyStore.rec[s] = None /\ EmptyStore.msgs[s] = None
BY BoundsAssumption DEF EmptyStore, Stores

LEMMA PutFacts ==
  ASSUME Types, NEW t \in Tabs, NEW k \in Tasks, Put(t, k)
  PROVE  Wrote(t, k)
<1>1. disk \in [enc : Tabs \cup {None}, kv : Stores] /\ disk.kv \in Stores
  BY DEF Types, DiskType
<1>2. ASSUME NEW v \in Stores, disk' = [disk EXCEPT !.kv = v]
      PROVE  /\ disk'.kv \in Stores /\ disk' \in [enc : Tabs \cup {None}, kv : Stores]
             /\ disk'.enc = disk.enc /\ disk'.kv = v
  BY <1>1, <1>2
<1>3. CASE k = Clear
  <2>1. disk' = [disk EXCEPT !.kv = EmptyStore]
    BY <1>3, TaskFacts DEF Put
  <2> QED BY <1>2, <1>3, <2>1, EmptyFacts DEF Wrote
<1>4. ASSUME k # Clear
      PROVE  /\ k.s \in Sessions /\ k.part \in {"rec", "sec", "msgs", "idx"}
             /\ k.ver \in 0..MaxOps /\ k.log \in 0..MaxOps /\ k.ids \in SUBSET Sessions
             /\ k.kind # "persist" => k.ver = 0 /\ k.log = 0 /\ k.secret = FALSE
  BY <1>4, TaskFacts DEF Parts, Removals
<1>5. CASE k # Clear /\ k.part = "rec"
  <2> DEFINE v == [disk.kv EXCEPT !.rec = [disk.kv.rec EXCEPT ![k.s] = k.ver]]
  <2>1. disk' = [disk EXCEPT !.kv = v]
    BY <1>1, <1>5 DEF Put
  <2>2. [disk.kv.rec EXCEPT ![k.s] = k.ver] \in [Sessions -> 0..MaxOps]
    BY <1>1, <1>4, <1>5 DEF Stores
  <2>3. v \in Stores
    BY <1>1, <2>2 DEF Stores
  <2>4. /\ v.msgs = disk.kv.msgs /\ v.idx = disk.kv.idx /\ v.sec = disk.kv.sec
        /\ \A r \in Sessions : v.rec[r] = IF r = k.s THEN k.ver ELSE disk.kv.rec[r]
    BY <1>1 DEF Stores
  <2>5. ~IsSave(k) /\ disk.kv = EmptyStore => v = EmptyStore
    <3> SUFFICES ASSUME ~IsSave(k), disk.kv = EmptyStore PROVE v = EmptyStore
      OBVIOUS
    <3>1. k.ver = 0
      BY <1>4, <1>5 DEF IsSave
    <3>2. [EmptyStore.rec EXCEPT ![k.s] = 0] = EmptyStore.rec
      BY DEF EmptyStore
    <3> QED BY <3>1, <3>2 DEF EmptyStore
  <2> HIDE DEF v
  <2>6. disk'.kv \in Stores /\ disk' \in [enc : Tabs \cup {None}, kv : Stores]
        /\ disk'.enc = disk.enc /\ disk'.kv = v
    BY <1>2, <2>1, <2>3
  <2> QED BY <1>5, <2>4, <2>5, <2>6 DEF Wrote
<1>6. CASE k # Clear /\ k.part = "msgs"
  <2> DEFINE v == [disk.kv EXCEPT !.msgs = [disk.kv.msgs EXCEPT ![k.s] = k.log]]
  <2>1. disk' = [disk EXCEPT !.kv = v]
    BY <1>1, <1>6 DEF Put
  <2>2. [disk.kv.msgs EXCEPT ![k.s] = k.log] \in [Sessions -> 0..MaxOps]
    BY <1>1, <1>4, <1>6 DEF Stores
  <2>3. v \in Stores
    BY <1>1, <2>2 DEF Stores
  <2>4. /\ v.rec = disk.kv.rec /\ v.idx = disk.kv.idx /\ v.sec = disk.kv.sec
        /\ \A r \in Sessions : v.msgs[r] = IF r = k.s THEN k.log ELSE disk.kv.msgs[r]
    BY <1>1 DEF Stores
  <2>5. ~IsSave(k) /\ disk.kv = EmptyStore => v = EmptyStore
    <3> SUFFICES ASSUME ~IsSave(k), disk.kv = EmptyStore PROVE v = EmptyStore
      OBVIOUS
    <3>1. k.log = 0
      BY <1>4, <1>6 DEF IsSave
    <3>2. [EmptyStore.msgs EXCEPT ![k.s] = 0] = EmptyStore.msgs
      BY DEF EmptyStore
    <3> QED BY <3>1, <3>2 DEF EmptyStore
  <2> HIDE DEF v
  <2>6. disk'.kv \in Stores /\ disk' \in [enc : Tabs \cup {None}, kv : Stores]
        /\ disk'.enc = disk.enc /\ disk'.kv = v
    BY <1>2, <2>1, <2>3
  <2> QED BY <1>6, <2>4, <2>5, <2>6 DEF Wrote
<1>7. CASE k # Clear /\ k.part = "idx"
  <2> DEFINE v == [disk.kv EXCEPT !.idx = k.ids]
  <2>1. disk' = [disk EXCEPT !.kv = v]
    BY <1>1, <1>7 DEF Put
  <2>2. /\ v \in Stores
        /\ v.rec = disk.kv.rec /\ v.msgs = disk.kv.msgs /\ v.sec = disk.kv.sec /\ v.idx = k.ids
    BY <1>1, <1>4, <1>7 DEF Stores
  <2>3. IsSave(k)
    BY <1>7 DEF IsSave
  <2> HIDE DEF v
  <2>4. disk'.kv \in Stores /\ disk' \in [enc : Tabs \cup {None}, kv : Stores]
        /\ disk'.enc = disk.enc /\ disk'.kv = v
    BY <1>2, <2>1, <2>2
  <2> QED BY <1>7, <2>2, <2>3, <2>4 DEF Wrote
<1>8. CASE k # Clear /\ k.part = "sec"
  <2>1. PICK x \in SecretsAfter(t, k) : disk' = [disk EXCEPT !.kv = [disk.kv EXCEPT !.sec = x]]
    BY <1>1, <1>8 DEF Put
  <2>2. /\ x = disk.kv.sec \cup {k.s} \/ x = disk.kv.sec \ {k.s}
        /\ k.secret = FALSE => x = disk.kv.sec \ {k.s}
    BY <2>1 DEF SecretsAfter
  <2> DEFINE v == [disk.kv EXCEPT !.sec = x]
  <2>3. /\ v \in Stores
        /\ v.rec = disk.kv.rec /\ v.msgs = disk.kv.msgs /\ v.sec = x /\ v.idx = disk.kv.idx
    BY <1>1, <1>4, <1>8, <2>2 DEF Stores
  <2>4. ~IsSave(k) /\ disk.kv = EmptyStore => v = EmptyStore
    <3> SUFFICES ASSUME ~IsSave(k), disk.kv = EmptyStore PROVE v = EmptyStore
      OBVIOUS
    <3>1. k.secret = FALSE
      BY <1>8, TaskFacts DEF IsSave
    <3>2. x = {}
      BY <2>2, <3>1, EmptyFacts
    <3> QED BY <3>2 DEF EmptyStore
  <2> HIDE DEF v
  <2>5. disk'.kv \in Stores /\ disk' \in [enc : Tabs \cup {None}, kv : Stores]
        /\ disk'.enc = disk.enc /\ disk'.kv = v
    BY <1>2, <2>1, <2>3 DEF v
  <2>6. k.secret = FALSE => v.sec \subseteq disk.kv.sec
    BY <2>2, <2>3
  <2> QED BY <1>8, <2>3, <2>4, <2>5, <2>6 DEF Wrote
<1> QED BY <1>3, <1>4, <1>5, <1>6, <1>7, <1>8

LEMMA WriteFacts ==
  ASSUME Types, NEW t \in Tabs, NEW i, Write(t, i)
  PROVE  /\ i \in 1..Len(tasks[t]) /\ tasks[t][i] \in Tasks
         /\ IsSave(tasks[t][i]) => key[t] = "use"
         /\ Wrote(t, tasks[t][i])
         /\ spoiled' \in BOOLEAN
         /\ ~spoiled' => ~spoiled /\ (IsSave(tasks[t][i]) => mine[t] = disk.enc)
         /\ \/ GoesOn(t, i, tasks[t][i])
            \/ Ended(t, i, tasks[t][i])
            \/ Continues(t, i, tasks[t][i])
         /\ due' = IF tasks[t][i].kind = "persist" /\ tasks[t][i].part = "idx"
                   THEN [due EXCEPT ![tasks[t][i].s] = tasks[t][i].ver] ELSE due
         /\ UNCHANGED <<up, key, mine, mem, toLoad, keep, ops, opens, used, twins, shared,
                        deleted, cleared>>
<1> DEFINE k == tasks[t][i]
           left == Held(mem[t]) \ k.seen
<1>1. tasks \in [Tabs -> Seq(Tasks)] /\ i \in 1..Len(tasks[t])
  BY LenProperties DEF Write, Types, TaskType
<1>2. k \in Tasks
  BY <1>1, ElementOfSeq
<1>3. /\ IsSave(k) => key[t] = "use"
      /\ Put(t, k)
      /\ spoiled' = (spoiled \/ (IsSave(k) /\ mine[t] # disk.enc))
      /\ IF k.part \notin {"idx", "all"}
         THEN tasks' = [tasks EXCEPT ![t][i] = NextPart(t, k)] /\ UNCHANGED <<raced, crowded>>
         ELSE IF left = {} THEN tasks' = Rest(t, i) /\ UNCHANGED <<raced, crowded>>
         ELSE \E s \in left : Begin(Rest(t, i), t, <<Persist(mem[t], s, k.seen \cup {s})>>)
      /\ due' = IF k.part \in {"idx", "all"} /\ k.kind = "persist"
                THEN [due EXCEPT ![k.s] = k.ver] ELSE due
      /\ UNCHANGED <<up, key, mine, mem, toLoad, keep, ops, opens, used, twins, shared,
                     deleted, cleared>>
  BY DEF Write, Rest
<1>4. /\ k = Clear <=> k.part = "all"
      /\ k = Clear => k.kind # "persist"
      /\ k.kind # "persist" => k.seen = Sessions
      /\ k.seen \in SUBSET Sessions
  BY <1>2, TaskFacts DEF Parts
<1>5. Held(mem[t]) \subseteq Sessions
  BY DEF Held
<1>6. Wrote(t, k)
  BY <1>2, <1>3, PutFacts
<1>7. due' = IF k.kind = "persist" /\ k.part = "idx" THEN [due EXCEPT ![k.s] = k.ver] ELSE due
  BY <1>3, <1>4
<1>s. spoiled' \in BOOLEAN /\ (~spoiled' => ~spoiled /\ (IsSave(k) => mine[t] = disk.enc))
  BY <1>3
<1>8. CASE k.part \notin {"idx", "all"}
  <2>1. k # Clear /\ k.part # "idx"
    BY <1>4, <1>8
  <2> DEFINE n == NextPart(t, k)
  <2>2. n \in Tasks
    BY <1>2, <2>1, NextFacts
  <2>3. tasks' = [tasks EXCEPT ![t] = [tasks[t] EXCEPT ![i] = n]] /\ UNCHANGED <<raced, crowded>>
    BY <1>1, <1>3, <1>8
  <2>4. UNCHANGED due
    BY <1>7, <2>1
  <2> HIDE DEF n, k
  <2>5. /\ [tasks[t] EXCEPT ![i] = n] \in Seq(Tasks)
        /\ Len([tasks[t] EXCEPT ![i] = n]) = Len(tasks[t])
        /\ \A j \in 1..Len(tasks[t]) : j # i => [tasks[t] EXCEPT ![i] = n][j] = tasks[t][j]
        /\ [tasks[t] EXCEPT ![i] = n][i] = n
    BY <1>1, <2>2, ExceptSeq
  <2>6. GoesOn(t, i, k)
    BY <1>1, <2>1, <2>3, <2>4, <2>5 DEF GoesOn, n
  <2> QED BY <1>1, <1>2, <1>3, <1>6, <1>7, <1>s, <2>6 DEF k
<1>9. CASE k.part \in {"idx", "all"} /\ left = {}
  <2>1. Ended(t, i, k)
    BY <1>3, <1>4, <1>9 DEF Ended
  <2> QED BY <1>1, <1>2, <1>3, <1>6, <1>7, <1>s, <2>1
<1>10. CASE k.part \in {"idx", "all"} /\ left # {}
  <2>1. k.kind = "persist" /\ k # Clear /\ k.part = "idx"
    BY <1>4, <1>5, <1>10
  <2>2. PICK s \in left : Begin(Rest(t, i), t, <<Persist(mem[t], s, k.seen \cup {s})>>)
    BY <1>3, <1>10
  <2>3. s \in Held(mem[t]) /\ k.seen \cup {s} \in SUBSET Sessions
    BY <1>4, <1>5
  <2>4. s \in Sessions /\ OneSave(t, s, <<Persist(mem[t], s, k.seen \cup {s})>>)
    BY <2>3, OneSaveFacts
  <2>5. Continues(t, i, k)
    BY <2>1, <2>2, <2>4 DEF Continues, OneSave
  <2> QED BY <1>1, <1>2, <1>3, <1>6, <1>7, <1>s, <2>5
<1> QED BY <1>8, <1>9, <1>10

-----------------------------------------------------------------------------
(* The types *)

LEMMA TypeInit == Init => Types
<1> SUFFICES ASSUME Init PROVE Types
  OBVIOUS
<1>1. NoEntry \in Entries
  BY BoundsAssumption DEF NoEntry, Entries
<1>2. DiskType
  BY EmptyFacts DEF Init, DiskType
<1>3. TabType
  BY DEF Init, TabType
<1>4. MemType
  BY <1>1 DEF Init, MemType
<1>5. TaskType
  <2>1. <<>> \in Seq(Tasks) /\ Len(<<>>) <= MaxTasks
    BY BoundsAssumption
  <2> QED BY <2>1 DEF Init, TaskType
<1>6. 0 \in 0..MaxOps /\ 0 \in 0..MaxOpens
  BY BoundsAssumption
<1>7. GhostType
  <2>1. [s \in Sessions |-> 0] \in [Sessions -> 0..MaxOps] /\ {} \subseteq Sessions
        /\ FALSE \in BOOLEAN
    BY <1>6
  <2>2. /\ due = [s \in Sessions |-> 0] /\ raced = {} /\ shared = {} /\ deleted = {}
        /\ crowded = FALSE /\ twins = FALSE /\ cleared = FALSE
    BY DEF Init
  <2> QED BY <2>1, <2>2 DEF GhostType
<1>8. CountType
  <2>1. ops = 0 /\ opens = 0 /\ used = {} /\ spoiled = FALSE
    BY DEF Init
  <2> QED BY <1>6, <2>1 DEF CountType
<1> QED BY <1>2, <1>3, <1>4, <1>5, <1>7, <1>8 DEF Types

\* Tasks that begin, among those of T, leave the types.
LEMMA BeginType ==
  ASSUME Types, NEW T, NEW t \in Tabs, NEW ks, T \in [Tabs -> Seq(Tasks)],
         \A u \in Tabs : u # t => Len(T[u]) <= MaxTasks,
         ks \in Seq(Tasks), ks # <<>>, Begin(T, t, ks)
  PROVE  TaskType' /\ raced' \subseteq Sessions /\ crowded' \in BOOLEAN
<1>1. /\ tasks' \in [Tabs -> Seq(Tasks)] /\ Len(tasks'[t]) <= MaxTasks
      /\ \A u \in Tabs : u # t => tasks'[u] = T[u]
      /\ raced \subseteq Sessions => raced' \subseteq Sessions
      /\ crowded' \in BOOLEAN
  BY BeginFacts
<1>2. raced \subseteq Sessions
  BY DEF Types, GhostType
<1>3. \A u \in Tabs : Len(tasks'[u]) <= MaxTasks
  BY <1>1
<1> QED BY <1>1, <1>2, <1>3 DEF TaskType

LEMMA LenTasks ==
  ASSUME Types
  PROVE  tasks \in [Tabs -> Seq(Tasks)] /\ \A u \in Tabs : Len(tasks[u]) <= MaxTasks
BY DEF Types, TaskType

\* What loadSessions reads of a session.
LEMMA LoadFacts ==
  ASSUME Types, NEW t \in Tabs, NEW s \in Sessions, LoadEntry(t, s)
  PROVE  /\ up[t] = "entries" /\ toLoad' \in [Tabs -> SUBSET Sessions]
         /\ mem' \in [Tabs -> [Sessions -> Entries]]
         /\ \A u \in Tabs, r \in Sessions : u # t \/ r # s => mem'[u][r] = mem[u][r]
         /\ \/ UNCHANGED <<mem, shared>>
            \/ /\ disk.kv.rec[s] # None
               /\ mem'[t][s].there /\ ~mem'[t][s].live /\ mem'[t][s].ver = disk.kv.rec[s]
               /\ shared' = IF \E u \in Tabs : mem[u][s].there THEN shared \cup {s} ELSE shared
         /\ shared' \subseteq Sessions
         /\ UNCHANGED <<disk, up, key, mine, keep, tasks, ops, opens, used, spoiled, due, raced,
                        crowded, twins, deleted, cleared>>
<1> DEFINE v == disk.kv.rec[s]
           e == [there |-> TRUE, live |-> FALSE, keys |-> FALSE, ver |-> v]
<1>1. /\ up[t] = "entries" /\ toLoad' = [toLoad EXCEPT ![t] = @ \ {s}]
      /\ mem' = IF v = None THEN mem ELSE [mem EXCEPT ![t] = [mem[t] EXCEPT ![s] = e]]
      /\ shared' = IF v # None /\ \E u \in Tabs : mem[u][s].there THEN shared \cup {s}
                   ELSE shared
      /\ UNCHANGED <<disk, up, key, mine, keep, tasks, ops, opens, used, spoiled, due, raced,
                     crowded, twins, deleted, cleared>>
  BY DEF LoadEntry, Types, MemType
<1>2. /\ v \in 0..MaxOps /\ mem \in [Tabs -> [Sessions -> Entries]] /\ shared \subseteq Sessions
      /\ toLoad \in [Tabs -> SUBSET Sessions]
  BY DEF Types, DiskType, Stores, MemType, GhostType, TabType
<1>3. e \in Entries /\ e.there /\ ~e.live /\ e.ver = v
  BY <1>2 DEF Entries
<1>4. shared' \subseteq Sessions /\ toLoad' \in [Tabs -> SUBSET Sessions]
  BY <1>1, <1>2
<1> HIDE DEF e, v
<1>5. CASE v = None
  <2>1. UNCHANGED <<mem, shared>>
    BY <1>1, <1>5
  <2> QED BY <1>1, <1>2, <1>4, <2>1
<1>6. CASE v # None
  <2>1. mem' = [mem EXCEPT ![t] = [mem[t] EXCEPT ![s] = e]]
    BY <1>1, <1>6
  <2>2. mem' \in [Tabs -> [Sessions -> Entries]] /\ mem'[t][s] = e
    BY <1>2, <1>3, <2>1
  <2>3. \A u \in Tabs, r \in Sessions : u # t \/ r # s => mem'[u][r] = mem[u][r]
    BY <1>2, <2>1
  <2>4. shared' = IF \E u \in Tabs : mem[u][s].there THEN shared \cup {s} ELSE shared
    BY <1>1, <1>6
  <2> QED BY <1>1, <1>3, <1>4, <1>6, <2>2, <2>3, <2>4 DEF v
<1> QED BY <1>5, <1>6

\* What is left of a tab that is closed.
LEMMA CloseFacts ==
  ASSUME Types, NEW t \in Tabs, CloseTab(t)
  PROVE  /\ TabType'
         /\ key'[t] = "none" /\ mine'[t] = None /\ keep'[t] = FALSE /\ up'[t] = "down"
         /\ \A u \in Tabs : u # t => /\ key'[u] = key[u] /\ mine'[u] = mine[u]
                                     /\ keep'[u] = keep[u] /\ up'[u] = up[u]
         /\ mem' \in [Tabs -> [Sessions -> Entries]]
         /\ \A s \in Sessions : ~mem'[t][s].there /\ ~mem'[t][s].live /\ mem'[t][s].ver = None
         /\ \A u \in Tabs : u # t => mem'[u] = mem[u]
         /\ tasks' \in [Tabs -> Seq(Tasks)] /\ tasks'[t] = <<>> /\ Len(tasks'[t]) = 0
         /\ \A u \in Tabs : u # t => tasks'[u] = tasks[u]
         /\ cleared' = (cleared /\ Clear \notin ToSet(tasks[t]))
         /\ deleted' \subseteq deleted
         /\ UNCHANGED <<disk, ops, opens, used, spoiled, due, raced, crowded, twins, shared>>
<1>1. /\ up' = [up EXCEPT ![t] = "down"] /\ key' = [key EXCEPT ![t] = "none"]
      /\ mine' = [mine EXCEPT ![t] = None]
      /\ mem' = [mem EXCEPT ![t] = [s \in Sessions |-> NoEntry]]
      /\ toLoad' = [toLoad EXCEPT ![t] = {}] /\ keep' = [keep EXCEPT ![t] = FALSE]
      /\ tasks' = [tasks EXCEPT ![t] = <<>>]
      /\ cleared' = (cleared /\ Clear \notin ToSet(tasks[t]))
      /\ deleted' \subseteq deleted
      /\ UNCHANGED <<disk, ops, opens, used, spoiled, due, raced, crowded, twins, shared>>
  BY DEF CloseTab
<1>2. /\ up \in [Tabs -> {"down", "index", "entries", "up", "failed"}]
      /\ key \in [Tabs -> {"none", "made", "use"}] /\ mine \in [Tabs -> Tabs \cup {None}]
      /\ toLoad \in [Tabs -> SUBSET Sessions] /\ keep \in [Tabs -> BOOLEAN]
  BY DEF Types, TabType
<1>3. TabType'
  BY <1>1, <1>2 DEF TabType
<1>4. /\ key'[t] = "none" /\ mine'[t] = None /\ keep'[t] = FALSE /\ up'[t] = "down"
      /\ \A u \in Tabs : u # t => /\ key'[u] = key[u] /\ mine'[u] = mine[u]
                                  /\ keep'[u] = keep[u] /\ up'[u] = up[u]
  BY <1>1, <1>2
<1>5. /\ mem \in [Tabs -> [Sessions -> Entries]] /\ tasks \in [Tabs -> Seq(Tasks)]
  BY DEF Types, MemType, TaskType
<1>6. NoEntry \in Entries /\ ~NoEntry.there /\ ~NoEntry.live /\ NoEntry.ver = None
  BY BoundsAssumption DEF NoEntry, Entries
<1>7. /\ mem' \in [Tabs -> [Sessions -> Entries]] /\ \A s \in Sessions : mem'[t][s] = NoEntry
      /\ \A u \in Tabs : u # t => mem'[u] = mem[u]
  BY <1>1, <1>5, <1>6
<1>8. <<>> \in Seq(Tasks) /\ Len(<<>>) = 0
  OBVIOUS
<1>9. /\ tasks' \in [Tabs -> Seq(Tasks)] /\ tasks'[t] = <<>> /\ Len(tasks'[t]) = 0
      /\ \A u \in Tabs : u # t => tasks'[u] = tasks[u]
  BY <1>1, <1>5, <1>8
<1> QED BY <1>1, <1>3, <1>4, <1>6, <1>7, <1>9

LEMMA FindFacts ==
  ASSUME Types, NEW t \in Tabs, FindKey(t)
  PROVE  /\ TabType'
         /\ \/ disk.enc = None /\ key'[t] = "made" /\ mine'[t] = t
            \/ disk.enc # None /\ key'[t] = "use" /\ mine'[t] = disk.enc
         /\ \A u \in Tabs : u # t => key'[u] = key[u] /\ mine'[u] = mine[u]
         /\ twins' \in BOOLEAN
         /\ ~twins' => ~twins /\ (disk.enc = None => \A u \in Tabs : key[u] # "made")
         /\ UNCHANGED <<disk, up, mem, toLoad, keep, tasks, ops, opens, used, spoiled, due,
                        raced, crowded, shared, deleted, cleared>>
<1>1. /\ key' = [key EXCEPT ![t] = IF disk.enc = None THEN "made" ELSE "use"]
      /\ mine' = [mine EXCEPT ![t] = IF disk.enc = None THEN t ELSE disk.enc]
      /\ twins' = (twins \/ (disk.enc = None /\ \E u \in Tabs : key[u] = "made"))
      /\ UNCHANGED <<disk, up, mem, toLoad, keep, tasks, ops, opens, used, spoiled, due,
                     raced, crowded, shared, deleted, cleared>>
  BY DEF FindKey
<1>2. /\ up \in [Tabs -> {"down", "index", "entries", "up", "failed"}]
      /\ key \in [Tabs -> {"none", "made", "use"}] /\ mine \in [Tabs -> Tabs \cup {None}]
      /\ toLoad \in [Tabs -> SUBSET Sessions] /\ keep \in [Tabs -> BOOLEAN]
      /\ disk.enc \in Tabs \cup {None}
  BY DEF Types, TabType, DiskType
<1>3. /\ \/ disk.enc = None /\ key'[t] = "made" /\ mine'[t] = t
         \/ disk.enc # None /\ key'[t] = "use" /\ mine'[t] = disk.enc
      /\ \A u \in Tabs : u # t => key'[u] = key[u] /\ mine'[u] = mine[u]
      /\ key' \in [Tabs -> {"none", "made", "use"}] /\ mine' \in [Tabs -> Tabs \cup {None}]
  BY <1>1, <1>2
<1>4. TabType'
  BY <1>1, <1>2, <1>3 DEF TabType
<1>5. /\ twins' \in BOOLEAN
      /\ ~twins' => ~twins /\ (disk.enc = None => \A u \in Tabs : key[u] # "made")
  BY <1>1
<1> QED BY <1>1, <1>3, <1>4, <1>5

LEMMA StoreFacts ==
  ASSUME Types, NEW t \in Tabs, StoreKey(t)
  PROVE  /\ TabType' /\ DiskType'
         /\ key[t] = "made" /\ key'[t] = "use"
         /\ \A u \in Tabs : u # t => key'[u] = key[u]
         /\ disk'.enc = t /\ disk'.kv = disk.kv
         /\ spoiled' = (spoiled \/ disk.kv # EmptyStore)
         /\ UNCHANGED <<up, mine, mem, toLoad, keep, tasks, ops, opens, used, ghosts>>
<1>1. /\ key[t] = "made" /\ key' = [key EXCEPT ![t] = "use"]
      /\ disk' = [disk EXCEPT !.enc = t]
      /\ spoiled' = (spoiled \/ disk.kv # EmptyStore)
      /\ UNCHANGED <<up, mine, mem, toLoad, keep, tasks, ops, opens, used, ghosts>>
  BY DEF StoreKey
<1>2. /\ up \in [Tabs -> {"down", "index", "entries", "up", "failed"}]
      /\ key \in [Tabs -> {"none", "made", "use"}] /\ mine \in [Tabs -> Tabs \cup {None}]
      /\ toLoad \in [Tabs -> SUBSET Sessions] /\ keep \in [Tabs -> BOOLEAN]
      /\ disk \in [enc : Tabs \cup {None}, kv : Stores]
  BY DEF Types, TabType, DiskType
<1>3. /\ key'[t] = "use" /\ \A u \in Tabs : u # t => key'[u] = key[u]
      /\ key' \in [Tabs -> {"none", "made", "use"}]
      /\ disk'.enc = t /\ disk'.kv = disk.kv /\ disk' \in [enc : Tabs \cup {None}, kv : Stores]
  BY <1>1, <1>2
<1>4. TabType' /\ DiskType'
  BY <1>1, <1>2, <1>3 DEF TabType, DiskType
<1> QED BY <1>1, <1>3, <1>4

LEMMA OpenFacts ==
  ASSUME Types, NEW t \in Tabs, OpenTab(t)
  PROVE  /\ TabType' /\ opens' \in 0..MaxOpens
         /\ up[t] = "down" /\ \A u \in Tabs : u # t => up'[u] = up[u]
         /\ UNCHANGED <<disk, key, mine, mem, toLoad, keep, tasks, ops, used, spoiled, ghosts>>
<1>1. /\ up[t] = "down" /\ opens < MaxOpens /\ opens' = opens + 1
      /\ up' = [up EXCEPT ![t] = "index"]
      /\ UNCHANGED <<disk, key, mine, mem, toLoad, keep, tasks, ops, used, spoiled, ghosts>>
  BY DEF OpenTab
<1>2. TabType' /\ \A u \in Tabs : u # t => up'[u] = up[u]
  BY <1>1 DEF Types, TabType
<1>3. opens' \in 0..MaxOpens
  BY <1>1, BoundsAssumption DEF Types, CountType
<1> QED BY <1>1, <1>2, <1>3

\* The kinds of steps.
NextOf(t) ==
  \/ OpenTab(t) \/ ReadIndex(t) \/ Booted(t) \/ LoadFails(t) \/ CloseTab(t)
  \/ \E s \in Sessions : LoadEntry(t, s)
  \/ \E s \in Sessions : \E ks \in Seq(Tasks) : Operated(t, s, ks)
  \/ EnableSecretPersistence(t) \/ ClearPersistedData(t)
  \/ FindKey(t) \/ StoreKey(t)
  \/ \E i \in 1..MaxTasks : Write(t, i)

LEMMA Steps ==
  ASSUME Types, SoFar, [Next]_vars
  PROVE  UNCHANGED vars \/ \E t \in Tabs : NextOf(t)
<1>1. CASE UNCHANGED vars
  BY <1>1
<1>2. CASE Next
  <2>1. PICK t \in Tabs :
          \/ OpenTab(t) \/ ReadIndex(t) \/ Booted(t) \/ LoadFails(t) \/ CloseTab(t)
          \/ \E s \in Sessions :
               \/ LoadEntry(t, s)
               \/ CreateSession(t, s) \/ Update(t, s) \/ Disconnect(t, s) \/ DeleteSession(t, s)
          \/ EnableSecretPersistence(t) \/ ClearPersistedData(t)
          \/ FindKey(t) \/ StoreKey(t)
          \/ \E i \in 1..MaxTasks : Write(t, i)
    BY <1>2 DEF Next
  <2>2. ASSUME NEW s \in Sessions,
               CreateSession(t, s) \/ Update(t, s) \/ Disconnect(t, s) \/ DeleteSession(t, s)
        PROVE  \E ks \in Seq(Tasks) : Operated(t, s, ks)
    BY <2>2, UserFacts
  <2> QED BY <2>1, <2>2 DEF NextOf
<1> QED BY <1>1, <1>2

LEMMA TypeNext ==
  ASSUME Types, SoFar, [Next]_vars
  PROVE  Types'
<1>1. CASE UNCHANGED vars
  BY <1>1 DEF vars, tabVars, ghosts, Types, DiskType, TabType, MemType, TaskType, GhostType,
              CountType
<1>2. ASSUME NEW t \in Tabs, NextOf(t) PROVE Types'
  <2>0. /\ tasks \in [Tabs -> Seq(Tasks)] /\ \A u \in Tabs : Len(tasks[u]) <= MaxTasks
        /\ DiskType /\ TabType /\ MemType /\ TaskType /\ GhostType /\ CountType
    BY LenTasks DEF Types
  <2>1. CASE OpenTab(t)
    <3>1. /\ TabType' /\ opens' \in 0..MaxOpens
          /\ UNCHANGED <<disk, mem, tasks, ops, used, spoiled, ghosts>>
      BY <2>1, OpenFacts
    <3> QED BY <2>0, <3>1 DEF ghosts, Types, DiskType, MemType, TaskType, GhostType, CountType
  <2>2. CASE ReadIndex(t) \/ Booted(t) \/ LoadFails(t)
    <3>1. Aside /\ TabType'
      BY <2>2, AsideFacts
    <3> QED BY <2>0, <3>1 DEF Aside, ghosts, Types, DiskType, MemType, TaskType, GhostType,
                              CountType
  <2>3. CASE CloseTab(t)
    <3>1. /\ TabType' /\ mem' \in [Tabs -> [Sessions -> Entries]]
          /\ tasks' \in [Tabs -> Seq(Tasks)] /\ Len(tasks'[t]) = 0
          /\ \A u \in Tabs : u # t => tasks'[u] = tasks[u]
          /\ cleared' = (cleared /\ Clear \notin ToSet(tasks[t])) /\ deleted' \subseteq deleted
          /\ UNCHANGED <<disk, ops, opens, used, spoiled, due, raced, crowded, twins, shared>>
      BY <2>3, CloseFacts
    <3>2. TaskType'
      BY <2>0, <3>1, BoundsAssumption DEF TaskType
    <3>3. GhostType'
      BY <2>0, <3>1 DEF GhostType
    <3> QED BY <2>0, <3>1, <3>2, <3>3 DEF Types, DiskType, MemType, CountType
  <2>4. ASSUME NEW s \in Sessions, LoadEntry(t, s) PROVE Types'
    <3>1. /\ toLoad' \in [Tabs -> SUBSET Sessions] /\ mem' \in [Tabs -> [Sessions -> Entries]]
          /\ shared' \subseteq Sessions
          /\ UNCHANGED <<disk, up, key, mine, keep, tasks, ops, opens, used, spoiled, due, raced,
                         crowded, twins, deleted, cleared>>
      BY <2>4, LoadFacts
    <3> QED BY <2>0, <3>1 DEF Types, DiskType, TabType, MemType, TaskType, GhostType, CountType
  <2>5. ASSUME NEW s \in Sessions, NEW ks \in Seq(Tasks), Operated(t, s, ks) PROVE Types'
    <3>1. /\ ks # <<>> /\ Begin(tasks, t, ks)
          /\ mem' \in [Tabs -> [Sessions -> Entries]] /\ used' \subseteq Sessions
          /\ due' \in [Sessions -> 0..MaxOps] /\ ops' \in 0..MaxOps /\ deleted' \subseteq Sessions
          /\ UNCHANGED <<disk, up, key, mine, toLoad, keep, opens, spoiled, twins, shared, cleared>>
      BY <2>5 DEF Operated, Begun
    <3>2. TaskType' /\ raced' \subseteq Sessions /\ crowded' \in BOOLEAN
      BY <2>0, <3>1, BeginType
    <3>3. GhostType' /\ CountType'
      BY <2>0, <3>1, <3>2 DEF GhostType, CountType
    <3> QED BY <2>0, <3>1, <3>2, <3>3 DEF Types, DiskType, TabType, MemType
  <2>6. CASE EnableSecretPersistence(t)
    <3>1. /\ \/ UNCHANGED <<tasks, raced, crowded>>
             \/ \E s \in Sessions : \E ks \in Seq(Tasks) : OneSave(t, s, ks) /\ Begin(tasks, t, ks)
          /\ ops' = ops + 1 /\ ops + 1 \in 0..MaxOps
          /\ keep' \in [Tabs -> BOOLEAN] /\ cleared' = FALSE /\ deleted' \subseteq Sessions
          /\ UNCHANGED <<disk, up, key, mine, mem, toLoad, opens, used, spoiled, due, twins, shared>>
      BY <2>6, EnableFacts
    <3>2. TaskType' /\ raced' \subseteq Sessions /\ crowded' \in BOOLEAN
      <4>1. CASE UNCHANGED <<tasks, raced, crowded>>
        BY <2>0, <4>1 DEF TaskType, GhostType
      <4>2. ASSUME NEW s \in Sessions, NEW ks \in Seq(Tasks), OneSave(t, s, ks), Begin(tasks, t, ks)
            PROVE  TaskType' /\ raced' \subseteq Sessions /\ crowded' \in BOOLEAN
        <5>1. ks # <<>>
          BY <4>2 DEF OneSave
        <5> QED BY <2>0, <4>2, <5>1, BeginType
      <4> QED BY <3>1, <4>1, <4>2
    <3>3. GhostType' /\ CountType'
      BY <2>0, <3>1, <3>2 DEF GhostType, CountType
    <3> QED BY <2>0, <3>1, <3>2, <3>3 DEF Types, DiskType, TabType, MemType
  <2>7. CASE ClearPersistedData(t)
    <3>1. /\ <<Clear>> \in Seq(Tasks) /\ <<Clear>> # <<>> /\ Begin(tasks, t, <<Clear>>)
          /\ ops' = ops + 1 /\ ops + 1 \in 0..MaxOps
          /\ keep' \in [Tabs -> BOOLEAN] /\ cleared' \in BOOLEAN
          /\ due' = [s \in Sessions |-> None]
          /\ UNCHANGED <<disk, up, key, mine, mem, toLoad, opens, used, spoiled, twins, shared, deleted>>
      BY <2>7, ClearFacts
    <3>2. TaskType' /\ raced' \subseteq Sessions /\ crowded' \in BOOLEAN
      BY <2>0, <3>1, BeginType
    <3>3. GhostType' /\ CountType'
      BY <2>0, <3>1, <3>2, BoundsAssumption DEF GhostType, CountType
    <3> QED BY <2>0, <3>1, <3>2, <3>3 DEF Types, DiskType, TabType, MemType
  <2>8. CASE FindKey(t)
    <3>1. /\ TabType' /\ twins' \in BOOLEAN
          /\ UNCHANGED <<disk, up, mem, toLoad, keep, tasks, ops, opens, used, spoiled, due,
                         raced, crowded, shared, deleted, cleared>>
      BY <2>8, FindFacts
    <3> QED BY <2>0, <3>1 DEF Types, DiskType, MemType, TaskType, GhostType, CountType
  <2>9. CASE StoreKey(t)
    <3>1. /\ TabType' /\ DiskType' /\ spoiled' = (spoiled \/ disk.kv # EmptyStore)
          /\ UNCHANGED <<mem, tasks, ops, opens, used, ghosts>>
      BY <2>9, StoreFacts
    <3>2. CountType'
      BY <2>0, <3>1 DEF CountType
    <3> QED BY <2>0, <3>1, <3>2 DEF ghosts, Types, MemType, TaskType, GhostType
  <2>10. ASSUME NEW i \in 1..MaxTasks, Write(t, i) PROVE Types'
    <3> DEFINE k == tasks[t][i]
    <3>1. /\ i \in 1..Len(tasks[t]) /\ k \in Tasks
          /\ disk' \in [enc : Tabs \cup {None}, kv : Stores]
          /\ spoiled' \in BOOLEAN
          /\ GoesOn(t, i, k) \/ Ended(t, i, k) \/ Continues(t, i, k)
          /\ due' = IF k.kind = "persist" /\ k.part = "idx" THEN [due EXCEPT ![k.s] = k.ver] ELSE due
          /\ UNCHANGED <<up, key, mine, mem, toLoad, keep, ops, opens, used, twins, shared,
                         deleted, cleared>>
      <4>1. Wrote(t, k)
        BY <2>10, WriteFacts
      <4>2. disk' \in [enc : Tabs \cup {None}, kv : Stores]
        BY <4>1 DEF Wrote
      <4>3. spoiled' \in BOOLEAN
        BY <2>10, WriteFacts
      <4>4. GoesOn(t, i, k) \/ Ended(t, i, k) \/ Continues(t, i, k)
        BY <2>10, WriteFacts
      <4>5. /\ i \in 1..Len(tasks[t]) /\ k \in Tasks
            /\ due' = IF k.kind = "persist" /\ k.part = "idx" THEN [due EXCEPT ![k.s] = k.ver] ELSE due
            /\ UNCHANGED <<up, key, mine, mem, toLoad, keep, ops, opens, used, twins, shared,
                           deleted, cleared>>
        BY <2>10, WriteFacts
      <4> QED BY <4>2, <4>3, <4>4, <4>5
    <3>2. k.ver \in 0..MaxOps
      BY <3>1, TaskFacts
    <3> HIDE DEF k
    <3>3. due' \in [Sessions -> 0..MaxOps]
      BY <2>0, <3>1, <3>2 DEF GhostType
    <3>4. ASSUME GoesOn(t, i, k)
          PROVE  TaskType' /\ raced' \subseteq Sessions /\ crowded' \in BOOLEAN
      <4>1. /\ tasks' \in [Tabs -> Seq(Tasks)] /\ Len(tasks'[t]) = Len(tasks[t])
            /\ \A u \in Tabs : u # t => tasks'[u] = tasks[u]
            /\ UNCHANGED <<raced, crowded>>
        BY <3>4 DEF GoesOn
      <4>2. TaskType' /\ raced' \subseteq Sessions /\ crowded' \in BOOLEAN
        BY <2>0, <4>1 DEF TaskType, GhostType
      <4> QED BY <4>2
    <3>5. /\ Rest(t, i) \in [Tabs -> Seq(Tasks)]
          /\ \A u \in Tabs : u # t => Rest(t, i)[u] = tasks[u]
          /\ Len(Rest(t, i)[t]) <= MaxTasks
      BY <3>1, RestFacts
    <3>6. ASSUME Ended(t, i, k)
          PROVE  TaskType' /\ raced' \subseteq Sessions /\ crowded' \in BOOLEAN
      <4>1. tasks' = Rest(t, i) /\ UNCHANGED <<raced, crowded>>
        BY <3>6 DEF Ended
      <4>2. TaskType' /\ raced' \subseteq Sessions /\ crowded' \in BOOLEAN
        BY <2>0, <3>5, <4>1 DEF TaskType, GhostType
      <4> QED BY <4>2
    <3>7. ASSUME Continues(t, i, k)
          PROVE  TaskType' /\ raced' \subseteq Sessions /\ crowded' \in BOOLEAN
      <4>1. PICK s \in Sessions, ks \in Seq(Tasks) : OneSave(t, s, ks) /\ Begin(Rest(t, i), t, ks)
        BY <3>7 DEF Continues
      <4> DEFINE T == Rest(t, i)
      <4>2. /\ T \in [Tabs -> Seq(Tasks)] /\ ks # <<>> /\ Begin(T, t, ks)
            /\ \A u \in Tabs : u # t => Len(T[u]) <= MaxTasks
        BY <2>0, <3>5, <4>1 DEF OneSave
      <4> HIDE DEF T
      <4> QED BY <4>2, BeginType
    <3>8. TaskType' /\ raced' \subseteq Sessions /\ crowded' \in BOOLEAN
      BY <3>1, <3>4, <3>6, <3>7
    <3>9. GhostType' /\ CountType'
      BY <2>0, <3>1, <3>3, <3>8 DEF GhostType, CountType
    <3> QED BY <2>0, <3>1, <3>8, <3>9 DEF Types, DiskType, TabType, MemType
  <2> QED BY <1>2, <2>1, <2>2, <2>3, <2>4, <2>5, <2>6, <2>7, <2>8, <2>9, <2>10 DEF NextOf
<1> QED BY <1>1, <1>2, Steps

-----------------------------------------------------------------------------
(* What has been so far *)

\* The tasks T were called with states of n operations, and save sessions of U.
Dated(T, n, U) ==
  \A t \in Tabs : \A i \in 1..Len(T[t]) :
    /\ T[t][i].ver <= n /\ T[t][i].log <= n
    /\ T[t][i].kind = "persist" => T[t][i].s \in U
OnlyUp == \A t \in Tabs : up[t] # "up" => tasks[t] = <<>>
DiskSoFar ==
  \A s \in Sessions : /\ disk.kv.rec[s] <= ops /\ disk.kv.msgs[s] <= ops /\ due[s] <= ops
                      /\ disk.kv.rec[s] # None => s \in used
MemSoFar ==
  \A t \in Tabs, s \in Sessions : /\ mem[t][s].ver <= ops
                                  /\ mem[t][s].there => s \in used
                                  /\ mem[t][s].live => mem[t][s].there

LEMMA SoFarParts == SoFar <=> OnlyUp /\ DiskSoFar /\ MemSoFar /\ Dated(tasks, ops, used)
BY DEF SoFar, OnlyUp, DiskSoFar, MemSoFar, Dated

\* The ranges of the states that are compared.
LEMMA Ranges ==
  ASSUME Types
  PROVE  /\ MaxOps \in Nat /\ ops \in Nat
         /\ \A s \in Sessions : disk.kv.rec[s] \in Nat /\ disk.kv.msgs[s] \in Nat /\ due[s] \in Nat
         /\ \A t \in Tabs, s \in Sessions : mem[t][s].ver \in Nat
         /\ \A t \in Tabs, s \in Sessions : mem[t][s].there \in BOOLEAN /\ mem[t][s].live \in BOOLEAN
         /\ \A t \in Tabs : \A i \in 1..Len(tasks[t]) : tasks[t][i].ver \in Nat /\ tasks[t][i].log \in Nat
<1>1. MaxOps \in Nat /\ \A x \in 0..MaxOps : x \in Nat
  BY BoundsAssumption
<1>2. ops \in 0..MaxOps
  BY DEF Types, CountType
<1>3. \A s \in Sessions : /\ disk.kv.rec[s] \in 0..MaxOps /\ disk.kv.msgs[s] \in 0..MaxOps
                          /\ due[s] \in 0..MaxOps
  BY DEF Types, DiskType, Stores, GhostType
<1>4. \A t \in Tabs, s \in Sessions : /\ mem[t][s].ver \in 0..MaxOps
                                      /\ mem[t][s].there \in BOOLEAN /\ mem[t][s].live \in BOOLEAN
  BY DEF Types, MemType, Entries
<1>5. \A t \in Tabs : \A i \in 1..Len(tasks[t]) :
        tasks[t][i].ver \in 0..MaxOps /\ tasks[t][i].log \in 0..MaxOps
  <2> SUFFICES ASSUME NEW t \in Tabs, NEW i \in 1..Len(tasks[t])
               PROVE  tasks[t][i].ver \in 0..MaxOps /\ tasks[t][i].log \in 0..MaxOps
    OBVIOUS
  <2>1. tasks[t][i] \in Tasks
    BY ElementOfSeq DEF Types, TaskType
  <2> QED BY <2>1, TaskFacts
<1> QED BY <1>1, <1>2, <1>3, <1>4, <1>5

LEMMA Later == \A x, n \in Nat : x <= n => x <= n + 1
OBVIOUS

\* Tasks that begin.
LEMMA DatedBegin ==
  ASSUME NEW T, NEW t \in Tabs, NEW ks, NEW n, NEW U, T \in [Tabs -> Seq(Tasks)],
         ks \in Seq(Tasks), ks # <<>>, Begin(T, t, ks), Dated(T, n, U),
         \A i \in 1..Len(ks) : /\ ks[i].ver <= n /\ ks[i].log <= n
                               /\ ks[i].kind = "persist" => ks[i].s \in U
  PROVE  Dated(tasks', n, U)
<1>1. \A u \in Tabs : \A j \in 1..Len(tasks'[u]) :
        \/ j \in 1..Len(T[u]) /\ tasks'[u][j] = T[u][j]
        \/ u = t /\ \E i \in 1..Len(ks) : tasks'[u][j] = ks[i]
  BY BeginPlaces
<1> SUFFICES ASSUME NEW u \in Tabs, NEW j \in 1..Len(tasks'[u])
             PROVE  /\ tasks'[u][j].ver <= n /\ tasks'[u][j].log <= n
                    /\ tasks'[u][j].kind = "persist" => tasks'[u][j].s \in U
  BY DEF Dated
<1>2. CASE j \in 1..Len(T[u]) /\ tasks'[u][j] = T[u][j]
  BY <1>2 DEF Dated
<1>3. CASE \E i \in 1..Len(ks) : tasks'[u][j] = ks[i]
  BY <1>3
<1> QED BY <1>1, <1>2, <1>3

\* A later number, more sessions.
LEMMA DatedLater ==
  ASSUME Types, NEW U, Dated(tasks, ops, used), used \subseteq U
  PROVE  Dated(tasks, ops + 1, U)
<1>1. /\ ops \in Nat
      /\ \A t \in Tabs : \A i \in 1..Len(tasks[t]) : tasks[t][i].ver \in Nat /\ tasks[t][i].log \in Nat
  BY Ranges
<1> QED BY <1>1, Later DEF Dated

LEMMA DatedRest ==
  ASSUME Types, NEW t \in Tabs, NEW i \in 1..Len(tasks[t]), Dated(tasks, ops, used)
  PROVE  Dated(Rest(t, i), ops, used)
<1> DEFINE T == Rest(t, i)
<1>1. /\ \A u \in Tabs : u # t => T[u] = tasks[u]
      /\ Thinned(T[t], tasks[t], i) /\ Len(tasks[t]) \in Nat
  BY RestFacts, LenTasks, LenProperties
<1> HIDE DEF T
<1>2. \A j \in 1..Len(T[t]) : Shift(i, j) \in 1..Len(tasks[t]) /\ T[t][j] = tasks[t][Shift(i, j)]
  BY <1>1, ThinnedPlaces
<1>3. ASSUME NEW u \in Tabs, NEW j \in 1..Len(T[u])
      PROVE  /\ T[u][j].ver <= ops /\ T[u][j].log <= ops
             /\ T[u][j].kind = "persist" => T[u][j].s \in used
  <2>1. CASE u = t
    BY <1>2, <2>1 DEF Dated
  <2>2. CASE u # t
    <3>1. T[u] = tasks[u]
      BY <1>1, <2>2
    <3> QED BY <3>1 DEF Dated
  <2> QED BY <2>1, <2>2
<1> QED BY <1>3 DEF Dated, T

\* A tab begins tasks only when it is up.
LEMMA UpBegin ==
  ASSUME NEW T, NEW t \in Tabs, NEW ks, T \in [Tabs -> Seq(Tasks)],
         ks \in Seq(Tasks), ks # <<>>, Begin(T, t, ks), up[t] = "up", UNCHANGED up,
         \A u \in Tabs : u # t => T[u] = tasks[u], OnlyUp
  PROVE  OnlyUp'
<1>1. \A u \in Tabs : u # t => tasks'[u] = T[u]
  BY BeginFacts
<1> QED BY <1>1 DEF OnlyUp

LEMMA SoFarInit == Init => SoFar
<1> SUFFICES ASSUME Init PROVE SoFar
  OBVIOUS
<1>1. Types
  BY TypeInit
<1>2. /\ ops = 0 /\ \A t \in Tabs : tasks[t] = <<>> /\ Len(tasks[t]) = 0
      /\ disk.kv = EmptyStore /\ \A s \in Sessions : due[s] = 0
      /\ \A t \in Tabs, s \in Sessions : mem[t][s] = NoEntry
  BY DEF Init
<1>3. 0 <= 0 /\ 1..0 = {}
  OBVIOUS
<1>4. OnlyUp /\ Dated(tasks, ops, used)
  BY <1>2, <1>3 DEF OnlyUp, Dated
<1>5. DiskSoFar
  BY <1>2, <1>3, EmptyFacts DEF DiskSoFar
<1>6. MemSoFar
  BY <1>2, <1>3 DEF MemSoFar, NoEntry
<1> QED BY <1>4, <1>5, <1>6, SoFarParts

LEMMA SoFarOperated ==
  ASSUME Types, SoFar, NEW t \in Tabs, NEW s \in Sessions, NEW ks \in Seq(Tasks),
         Operated(t, s, ks)
  PROVE  SoFar'
<1>0. OnlyUp /\ DiskSoFar /\ MemSoFar /\ Dated(tasks, ops, used)
  BY SoFarParts
<1>1. /\ Begun(ks, s, ops + 1) /\ Begin(tasks, t, ks) /\ up[t] = "up" /\ UNCHANGED <<up, disk>>
      /\ mem'[t][s].ver = ops + 1 /\ (mem'[t][s].live => mem'[t][s].there)
      /\ \A u \in Tabs, r \in Sessions : u # t \/ r # s => mem'[u][r] = mem[u][r]
      /\ used \subseteq used' /\ ops' = ops + 1
      /\ \A r \in Sessions : due'[r] = due[r] \/ due'[r] = 0
  BY DEF Operated
<1>2. s \in used'
  BY <1>0 DEF Operated, MemSoFar
<1>3. /\ ops \in Nat
      /\ \A r \in Sessions : disk.kv.rec[r] \in Nat /\ disk.kv.msgs[r] \in Nat /\ due[r] \in Nat
      /\ \A u \in Tabs, r \in Sessions : mem[u][r].ver \in Nat
  BY Ranges
<1>4. ops + 1 <= ops + 1 /\ 0 <= ops + 1
  BY <1>3
<1>5. tasks \in [Tabs -> Seq(Tasks)]
  BY LenTasks
<1>6. OnlyUp'
  <2>1. ks # <<>>
    BY <1>1 DEF Begun
  <2> QED BY <1>0, <1>1, <1>5, <2>1, UpBegin
<1>7. DiskSoFar'
  BY <1>0, <1>1, <1>3, <1>4, Later DEF DiskSoFar
<1>8. MemSoFar'
  <2> SUFFICES ASSUME NEW u \in Tabs, NEW r \in Sessions
               PROVE  /\ mem'[u][r].ver <= ops'
                      /\ mem'[u][r].there => r \in used'
                      /\ mem'[u][r].live => mem'[u][r].there
    BY DEF MemSoFar
  <2>1. CASE u = t /\ r = s
    BY <1>1, <1>2, <1>4, <2>1
  <2>2. CASE ~(u = t /\ r = s)
    <3>1. mem'[u][r] = mem[u][r]
      BY <1>1, <2>2
    <3> QED BY <1>0, <1>1, <1>3, <3>1, Later DEF MemSoFar
  <2> QED BY <2>1, <2>2
<1>9. Dated(tasks, ops + 1, used')
  BY <1>0, <1>1, DatedLater
<1>10. /\ ks # <<>>
       /\ \A i \in 1..Len(ks) : /\ ks[i].ver <= ops + 1 /\ ks[i].log <= ops + 1
                                /\ ks[i].kind = "persist" => ks[i].s \in used'
  BY <1>1, <1>2, <1>4 DEF Begun
<1>11. Dated(tasks', ops + 1, used')
  BY <1>1, <1>5, <1>9, <1>10, DatedBegin
<1>12. Dated(tasks, ops, used)'
  BY <1>1, <1>11 DEF Dated
<1> QED BY <1>6, <1>7, <1>8, <1>12, SoFarParts, PTL

LEMMA SoFarSave ==
  ASSUME Types, SoFar, NEW T, NEW t \in Tabs, NEW s \in Sessions, NEW ks \in Seq(Tasks),
         NEW n, n = ops \/ n = ops + 1, Dated(T, n, used), OneSave(t, s, ks), Begin(T, t, ks),
         T \in [Tabs -> Seq(Tasks)]
  PROVE  Dated(tasks', n, used)
<1>0. MemSoFar
  BY SoFarParts
<1>1. /\ ops \in Nat /\ mem[t][s].ver \in Nat
  BY Ranges
<1>2. mem[t][s].ver <= n /\ 0 <= n
  BY <1>0, <1>1, Later DEF MemSoFar
<1>3. s \in used
  BY <1>0 DEF MemSoFar, OneSave
<1>4. /\ ks # <<>>
      /\ \A i \in 1..Len(ks) : /\ ks[i].ver <= n /\ ks[i].log <= n
                               /\ ks[i].kind = "persist" => ks[i].s \in used
  <2>1. \A i \in 1..1 : i = 1
    OBVIOUS
  <2> QED BY <1>2, <1>3, <2>1 DEF OneSave
<1> QED BY <1>4, DatedBegin

LEMMA SoFarEnable ==
  ASSUME Types, SoFar, NEW t \in Tabs, EnableSecretPersistence(t)
  PROVE  SoFar'
<1>0. OnlyUp /\ DiskSoFar /\ MemSoFar /\ Dated(tasks, ops, used)
  BY SoFarParts
<1>1. /\ \/ UNCHANGED tasks
         \/ \E s \in Sessions : \E ks \in Seq(Tasks) : OneSave(t, s, ks) /\ Begin(tasks, t, ks)
      /\ up[t] = "up" /\ ops' = ops + 1
      /\ UNCHANGED <<disk, up, mem, used, due>>
  BY EnableFacts
<1>2. /\ ops \in Nat
      /\ \A r \in Sessions : disk.kv.rec[r] \in Nat /\ disk.kv.msgs[r] \in Nat /\ due[r] \in Nat
      /\ \A u \in Tabs, r \in Sessions : mem[u][r].ver \in Nat
      /\ tasks \in [Tabs -> Seq(Tasks)]
  BY Ranges, LenTasks
<1>3. Dated(tasks, ops + 1, used)
  BY <1>0, DatedLater
<1>4. DiskSoFar'
  BY <1>0, <1>1, <1>2, Later DEF DiskSoFar
<1>5. MemSoFar'
  BY <1>0, <1>1, <1>2, Later DEF MemSoFar
<1>6. OnlyUp' /\ Dated(tasks', ops + 1, used)
  <2>1. CASE UNCHANGED tasks
    BY <1>0, <1>1, <1>3, <2>1 DEF OnlyUp
  <2>2. ASSUME NEW s \in Sessions, NEW ks \in Seq(Tasks), OneSave(t, s, ks), Begin(tasks, t, ks)
        PROVE  OnlyUp' /\ Dated(tasks', ops + 1, used)
    <3>1. ks # <<>>
      BY <2>2 DEF OneSave
    <3>2. OnlyUp'
      BY <1>0, <1>1, <1>2, <2>2, <3>1, UpBegin
    <3>3. Dated(tasks', ops + 1, used)
      BY <1>2, <1>3, <2>2, SoFarSave
    <3> QED BY <3>2, <3>3
  <2> QED BY <1>1, <2>1, <2>2
<1>7. Dated(tasks, ops, used)'
  BY <1>1, <1>6 DEF Dated
<1> QED BY <1>4, <1>5, <1>6, <1>7, SoFarParts, PTL

LEMMA SoFarClear ==
  ASSUME Types, SoFar, NEW t \in Tabs, ClearPersistedData(t)
  PROVE  SoFar'
<1>0. OnlyUp /\ DiskSoFar /\ MemSoFar /\ Dated(tasks, ops, used)
  BY SoFarParts
<1>1. /\ <<Clear>> \in Seq(Tasks) /\ <<Clear>> # <<>> /\ Len(<<Clear>>) = 1
      /\ <<Clear>>[1] = Clear /\ Begin(tasks, t, <<Clear>>)
      /\ up[t] = "up" /\ ops' = ops + 1
      /\ \A s \in Sessions : due'[s] = 0
      /\ UNCHANGED <<disk, up, mem, used>>
  BY ClearFacts
<1>2. /\ ops \in Nat
      /\ \A r \in Sessions : disk.kv.rec[r] \in Nat /\ disk.kv.msgs[r] \in Nat /\ due[r] \in Nat
      /\ \A u \in Tabs, r \in Sessions : mem[u][r].ver \in Nat
      /\ tasks \in [Tabs -> Seq(Tasks)]
  BY Ranges, LenTasks
<1>3. Dated(tasks, ops + 1, used)
  BY <1>0, DatedLater
<1>a. 0 <= ops + 1
  BY <1>2
<1>4. DiskSoFar'
  BY <1>0, <1>1, <1>2, <1>a, Later DEF DiskSoFar
<1>5. MemSoFar'
  BY <1>0, <1>1, <1>2, Later DEF MemSoFar
<1>6. OnlyUp'
  BY <1>0, <1>1, <1>2, UpBegin
<1> DEFINE ks == <<Clear>>
<1>7. /\ ks \in Seq(Tasks) /\ ks # <<>> /\ Begin(tasks, t, ks)
      /\ \A i \in 1..Len(ks) : ks[i] = Clear
  <2>1. \A i \in 1..1 : i = 1
    OBVIOUS
  <2> QED BY <1>1, <2>1
<1> HIDE DEF ks
<1>8. \A i \in 1..Len(ks) : /\ ks[i].ver <= ops + 1 /\ ks[i].log <= ops + 1
                            /\ ks[i].kind = "persist" => ks[i].s \in used
  BY <1>7, <1>a, TaskFacts
<1>9. Dated(tasks', ops + 1, used)
  BY <1>2, <1>3, <1>7, <1>8, DatedBegin
<1>10. Dated(tasks, ops, used)'
  BY <1>1, <1>9 DEF Dated
<1> QED BY <1>4, <1>5, <1>6, <1>10, SoFarParts, PTL

LEMMA SoFarWrite ==
  ASSUME Types, SoFar, NEW t \in Tabs, NEW i, Write(t, i)
  PROVE  SoFar'
<1> DEFINE k == tasks[t][i]
<1>0. OnlyUp /\ DiskSoFar /\ MemSoFar /\ Dated(tasks, ops, used)
  BY SoFarParts
<1>1. i \in 1..Len(tasks[t]) /\ k \in Tasks
  BY WriteFacts
<1>2. Wrote(t, k)
  BY WriteFacts
<1>3. GoesOn(t, i, k) \/ Ended(t, i, k) \/ Continues(t, i, k)
  BY WriteFacts
<1>4. /\ due' = IF k.kind = "persist" /\ k.part = "idx" THEN [due EXCEPT ![k.s] = k.ver] ELSE due
      /\ UNCHANGED <<up, mem, ops, used>>
  BY WriteFacts
<1>5. /\ ops \in Nat
      /\ \A r \in Sessions : disk.kv.rec[r] \in Nat /\ disk.kv.msgs[r] \in Nat /\ due[r] \in Nat
      /\ \A u \in Tabs, r \in Sessions : mem[u][r].ver \in Nat
      /\ tasks \in [Tabs -> Seq(Tasks)] /\ due \in [Sessions -> 0..MaxOps]
  BY Ranges, LenTasks DEF Types, GhostType
<1>6. /\ k.ver <= ops /\ k.log <= ops /\ (k.kind = "persist" => k.s \in used)
      /\ 0 <= ops
  BY <1>0, <1>1, <1>5 DEF Dated
<1>7. /\ k.kind # "persist" => k.ver = 0
      /\ k # Clear => k.s \in Sessions
  BY <1>1, TaskFacts DEF Removals
<1>8. up[t] = "up"
  <2>1. Len(<<>>) = 0 /\ 1..0 = {}
    OBVIOUS
  <2> QED BY <1>0, <1>1, <2>1 DEF OnlyUp
<1> HIDE DEF k
<1>9. \A r \in Sessions : /\ disk'.kv.rec[r] = disk.kv.rec[r] \/ disk'.kv.rec[r] = 0
                             \/ (disk'.kv.rec[r] = k.ver /\ r = k.s)
                          /\ \/ disk'.kv.msgs[r] = disk.kv.msgs[r] \/ disk'.kv.msgs[r] = 0
                             \/ disk'.kv.msgs[r] = k.log
                          /\ due'[r] = due[r] \/ due'[r] = k.ver
  <2>1. \A r \in Sessions : due'[r] = due[r] \/ due'[r] = k.ver
    BY <1>4, <1>5
  <2> QED BY <1>2, <2>1, EmptyFacts DEF Wrote
<1>10. DiskSoFar'
  <2> SUFFICES ASSUME NEW r \in Sessions
               PROVE  /\ disk'.kv.rec[r] <= ops /\ disk'.kv.msgs[r] <= ops /\ due'[r] <= ops
                      /\ disk'.kv.rec[r] # None => r \in used
    BY <1>4 DEF DiskSoFar
  <2>1. /\ disk.kv.rec[r] <= ops /\ disk.kv.msgs[r] <= ops /\ due[r] <= ops
        /\ disk.kv.rec[r] # None => r \in used
    BY <1>0 DEF DiskSoFar
  <2>2. disk'.kv.rec[r] <= ops /\ disk'.kv.msgs[r] <= ops /\ due'[r] <= ops
    BY <1>6, <1>9, <2>1
  <2>3. disk'.kv.rec[r] # None => r \in used
    BY <1>6, <1>7, <1>9, <2>1
  <2> QED BY <2>2, <2>3
<1>11. MemSoFar'
  BY <1>0, <1>4 DEF MemSoFar
<1>12. ASSUME GoesOn(t, i, k) PROVE OnlyUp' /\ Dated(tasks', ops, used)
  <2>1. /\ k # Clear /\ k.part # "idx" /\ Len(tasks'[t]) = Len(tasks[t])
        /\ \A u \in Tabs : u # t => tasks'[u] = tasks[u]
        /\ \A j \in 1..Len(tasks[t]) : j # i => tasks'[t][j] = tasks[t][j]
        /\ tasks'[t][i] = NextPart(t, k)
    BY <1>12 DEF GoesOn
  <2> DEFINE n == NextPart(t, k)
  <2>2. /\ n.ver = k.ver /\ n.kind = k.kind /\ n.s = k.s
        /\ n.log = IF k.kind = "persist" /\ n.part = "msgs" THEN mem[t][k.s].ver ELSE None
    BY <1>1, <2>1, NextFacts
  <2> HIDE DEF n
  <2>3. n.log <= ops
    BY <1>0, <1>6, <1>7, <2>1, <2>2 DEF MemSoFar
  <2>4. OnlyUp'
    BY <1>0, <1>4, <1>8, <2>1 DEF OnlyUp
  <2>5. ASSUME NEW u \in Tabs, NEW j \in 1..Len(tasks'[u])
        PROVE  /\ tasks'[u][j].ver <= ops /\ tasks'[u][j].log <= ops
               /\ tasks'[u][j].kind = "persist" => tasks'[u][j].s \in used
    <3>1. CASE u = t /\ j = i
      BY <1>6, <2>1, <2>2, <2>3, <3>1 DEF n
    <3>2. CASE ~(u = t /\ j = i)
      <4>1. j \in 1..Len(tasks[u]) /\ tasks'[u][j] = tasks[u][j]
        BY <2>1, <3>2
      <4> QED BY <1>0, <4>1 DEF Dated
    <3> QED BY <3>1, <3>2
  <2> QED BY <2>4, <2>5 DEF Dated
<1>13. /\ Rest(t, i) \in [Tabs -> Seq(Tasks)]
       /\ \A u \in Tabs : u # t => Rest(t, i)[u] = tasks[u]
       /\ Dated(Rest(t, i), ops, used)
  BY <1>0, <1>1, RestFacts, DatedRest
<1>14. ASSUME Ended(t, i, k) PROVE OnlyUp' /\ Dated(tasks', ops, used)
  <2>1. tasks' = Rest(t, i)
    BY <1>14 DEF Ended
  <2> QED BY <1>0, <1>4, <1>8, <1>13, <2>1 DEF OnlyUp
<1>15. ASSUME Continues(t, i, k) PROVE OnlyUp' /\ Dated(tasks', ops, used)
  <2>1. PICK s \in Sessions, ks \in Seq(Tasks) : OneSave(t, s, ks) /\ Begin(Rest(t, i), t, ks)
    BY <1>15 DEF Continues
  <2> DEFINE T == Rest(t, i)
  <2>2. /\ T \in [Tabs -> Seq(Tasks)] /\ Dated(T, ops, used) /\ Begin(T, t, ks)
        /\ \A u \in Tabs : u # t => T[u] = tasks[u]
        /\ ks # <<>>
    BY <1>13, <2>1 DEF OneSave
  <2> HIDE DEF T
  <2>3. OnlyUp'
    BY <1>0, <1>4, <1>8, <2>2, UpBegin
  <2>4. Dated(tasks', ops, used)
    BY <2>1, <2>2, SoFarSave
  <2> QED BY <2>3, <2>4
<1>16. OnlyUp' /\ Dated(tasks', ops, used)
  BY <1>3, <1>12, <1>14, <1>15
<1>17. Dated(tasks, ops, used)'
  BY <1>4, <1>16 DEF Dated
<1> QED BY <1>10, <1>11, <1>16, <1>17, SoFarParts, PTL

LEMMA SoFarNext ==
  ASSUME Types, SoFar, [Next]_vars
  PROVE  SoFar'
<1>0. OnlyUp /\ DiskSoFar /\ MemSoFar /\ Dated(tasks, ops, used)
  BY SoFarParts
<1>1. CASE UNCHANGED vars
  BY <1>1 DEF vars, tabVars, ghosts, SoFar
<1>2. ASSUME NEW t \in Tabs, NextOf(t) PROVE SoFar'
  <2>1. CASE OpenTab(t) \/ ReadIndex(t) \/ Booted(t) \/ LoadFails(t)
    <3>1. /\ UNCHANGED <<disk, mem, tasks, ops, used, due>>
          /\ up[t] # "up" /\ \A u \in Tabs : u # t => up'[u] = up[u]
      BY <2>1, AsideFacts, OpenFacts DEF Aside, ghosts
    <3>2. OnlyUp'
      BY <1>0, <3>1 DEF OnlyUp
    <3>3. DiskSoFar'
      BY <1>0, <3>1 DEF DiskSoFar
    <3>4. MemSoFar'
      BY <1>0, <3>1 DEF MemSoFar
    <3>5. Dated(tasks, ops, used)'
      BY <1>0, <3>1 DEF Dated
    <3> QED BY <3>2, <3>3, <3>4, <3>5, SoFarParts, PTL
  <2>2. CASE CloseTab(t)
    <3>1. /\ \A s \in Sessions : ~mem'[t][s].there /\ ~mem'[t][s].live /\ mem'[t][s].ver = None
          /\ \A u \in Tabs : u # t => mem'[u] = mem[u]
          /\ tasks'[t] = <<>> /\ Len(tasks'[t]) = 0
          /\ \A u \in Tabs : u # t => tasks'[u] = tasks[u] /\ up'[u] = up[u]
          /\ UNCHANGED <<disk, ops, used, due>>
      BY <2>2, CloseFacts
    <3>2. 0 <= ops /\ 1..0 = {}
      BY Ranges
    <3>3. OnlyUp'
      BY <1>0, <3>1 DEF OnlyUp
    <3>4. DiskSoFar'
      BY <1>0, <3>1 DEF DiskSoFar
    <3>5. MemSoFar'
      <4> SUFFICES ASSUME NEW u \in Tabs, NEW r \in Sessions
                   PROVE  /\ mem'[u][r].ver <= ops'
                          /\ mem'[u][r].there => r \in used'
                          /\ mem'[u][r].live => mem'[u][r].there
        BY DEF MemSoFar
      <4>1. CASE u = t
        BY <3>1, <3>2, <4>1
      <4>2. CASE u # t
        BY <1>0, <3>1, <4>2 DEF MemSoFar
      <4> QED BY <4>1, <4>2
    <3>6. Dated(tasks, ops, used)'
      BY <1>0, <3>1, <3>2 DEF Dated
    <3> QED BY <3>3, <3>4, <3>5, <3>6, SoFarParts, PTL
  <2>3. ASSUME NEW s \in Sessions, LoadEntry(t, s) PROVE SoFar'
    <3>1. /\ \A u \in Tabs, r \in Sessions : u # t \/ r # s => mem'[u][r] = mem[u][r]
          /\ \/ UNCHANGED mem
             \/ /\ disk.kv.rec[s] # None
                /\ mem'[t][s].there /\ ~mem'[t][s].live /\ mem'[t][s].ver = disk.kv.rec[s]
          /\ UNCHANGED <<disk, up, tasks, ops, used, due>>
      BY <2>3, LoadFacts
    <3>2. MemSoFar'
      <4> SUFFICES ASSUME NEW u \in Tabs, NEW r \in Sessions
                   PROVE  /\ mem'[u][r].ver <= ops'
                          /\ mem'[u][r].there => r \in used'
                          /\ mem'[u][r].live => mem'[u][r].there
        BY DEF MemSoFar
      <4>1. CASE mem'[u][r] = mem[u][r]
        BY <1>0, <3>1, <4>1 DEF MemSoFar
      <4>2. CASE /\ u = t /\ r = s /\ disk.kv.rec[s] # None
                 /\ mem'[t][s].there /\ ~mem'[t][s].live /\ mem'[t][s].ver = disk.kv.rec[s]
        BY <1>0, <3>1, <4>2 DEF DiskSoFar
      <4> QED BY <3>1, <4>1, <4>2
    <3>3. OnlyUp'
      BY <1>0, <3>1 DEF OnlyUp
    <3>4. DiskSoFar'
      BY <1>0, <3>1 DEF DiskSoFar
    <3>5. Dated(tasks, ops, used)'
      BY <1>0, <3>1 DEF Dated
    <3> QED BY <3>2, <3>3, <3>4, <3>5, SoFarParts, PTL
  <2>4. CASE FindKey(t) \/ StoreKey(t)
    <3>1. /\ disk'.kv = disk.kv /\ UNCHANGED <<up, mem, tasks, ops, used, due>>
      BY <2>4, FindFacts, StoreFacts DEF ghosts
    <3>2. OnlyUp'
      BY <1>0, <3>1 DEF OnlyUp
    <3>3. DiskSoFar'
      BY <1>0, <3>1 DEF DiskSoFar
    <3>4. MemSoFar'
      BY <1>0, <3>1 DEF MemSoFar
    <3>5. Dated(tasks, ops, used)'
      BY <1>0, <3>1 DEF Dated
    <3> QED BY <3>2, <3>3, <3>4, <3>5, SoFarParts, PTL
  <2> QED BY <1>2, <2>1, <2>2, <2>3, <2>4, SoFarOperated, SoFarEnable, SoFarClear, SoFarWrite
          DEF NextOf
<1> QED BY <1>1, <1>2, Steps

-----------------------------------------------------------------------------
(* The key *)

LEMMA KeyInit == Init => KeyInv
BY DEF Init, KeyInv

LEMMA KeyNext ==
  ASSUME Types, SoFar, KeyInv, [Next]_vars
  PROVE  KeyInv'
<1>1. CASE UNCHANGED vars
  BY <1>1 DEF vars, tabVars, ghosts, KeyInv
<1>2. ASSUME NEW t \in Tabs, NextOf(t) PROVE KeyInv'
  <2>1. CASE UNCHANGED <<disk, key, mine, spoiled, twins>>
    BY <2>1 DEF KeyInv
  <2>2. CASE \/ OpenTab(t) \/ ReadIndex(t) \/ Booted(t) \/ LoadFails(t)
             \/ EnableSecretPersistence(t) \/ ClearPersistedData(t)
    BY <2>1, <2>2, OpenFacts, AsideFacts, EnableFacts, ClearFacts DEF Aside, ghosts
  <2>3. ASSUME NEW s \in Sessions, LoadEntry(t, s) PROVE KeyInv'
    BY <2>1, <2>3, LoadFacts
  <2>4. ASSUME NEW s \in Sessions, NEW ks \in Seq(Tasks), Operated(t, s, ks) PROVE KeyInv'
    BY <2>1, <2>4 DEF Operated
  <2>5. CASE CloseTab(t)
    <3>1. /\ key'[t] = "none" /\ \A u \in Tabs : u # t => key'[u] = key[u] /\ mine'[u] = mine[u]
          /\ UNCHANGED <<disk, spoiled, twins>>
      BY <2>5, CloseFacts
    <3>2. \A u \in Tabs : key'[u] \in {"use", "made"} =>
            u # t /\ key'[u] = key[u] /\ mine'[u] = mine[u]
      BY <3>1
    <3> QED BY <3>1, <3>2 DEF KeyInv
  <2>6. CASE FindKey(t)
    <3>1. /\ \/ disk.enc = None /\ key'[t] = "made" /\ mine'[t] = t
             \/ disk.enc # None /\ key'[t] = "use" /\ mine'[t] = disk.enc
          /\ \A u \in Tabs : u # t => key'[u] = key[u] /\ mine'[u] = mine[u]
          /\ ~twins' => ~twins /\ (disk.enc = None => \A u \in Tabs : key[u] # "made")
          /\ UNCHANGED <<disk, spoiled>>
      BY <2>6, FindFacts
    <3> QED BY <3>1 DEF KeyInv
  <2>7. CASE StoreKey(t)
    <3>1. /\ key[t] = "made" /\ key'[t] = "use"
          /\ \A u \in Tabs : u # t => key'[u] = key[u]
          /\ disk'.enc = t /\ disk'.kv = disk.kv
          /\ spoiled' = (spoiled \/ disk.kv # EmptyStore)
          /\ UNCHANGED <<mine, twins>>
      BY <2>7, StoreFacts DEF ghosts
    <3>2. t # None
      BY NamesAssumption
    <3>3. CASE twins
      BY <3>1, <3>2, <3>3 DEF KeyInv
    <3>4. CASE ~twins
      <4>1. disk.enc = None /\ disk.kv = EmptyStore /\ mine[t] = t
        BY <3>1, <3>4 DEF KeyInv
      <4>2. \A u \in Tabs : u # t => key'[u] # "use" /\ key'[u] # "made"
        BY <3>1, <3>4, <4>1 DEF KeyInv
      <4>3. ~spoiled'
        BY <3>1, <3>4, <4>1 DEF KeyInv
      <4> QED BY <3>1, <3>2, <4>1, <4>2, <4>3 DEF KeyInv
    <3> QED BY <3>3, <3>4
  <2>8. ASSUME NEW i \in 1..MaxTasks, Write(t, i) PROVE KeyInv'
    <3> DEFINE k == tasks[t][i]
    <3>1. Wrote(t, k) /\ (IsSave(k) => key[t] = "use")
      BY <2>8, WriteFacts
    <3>2. ~spoiled' => ~spoiled /\ (IsSave(k) => mine[t] = disk.enc)
      BY <2>8, WriteFacts
    <3>3. UNCHANGED <<key, mine, twins>>
      BY <2>8, WriteFacts
    <3>a. ~spoiled /\ (IsSave(k) => mine[t] = disk.enc) => ~spoiled'
      BY <2>8 DEF Write
    <3> HIDE DEF k
    <3>4. /\ disk'.enc = disk.enc
          /\ ~IsSave(k) /\ disk.kv = EmptyStore => disk'.kv = EmptyStore
      BY <3>1 DEF Wrote
    <3>5. disk.enc = None => disk'.kv = EmptyStore
      BY <3>1, <3>4 DEF KeyInv
    <3>6. ~twins => ~spoiled'
      BY <3>1, <3>a DEF KeyInv
    <3> QED BY <3>3, <3>4, <3>5, <3>6 DEF KeyInv
  <2> QED BY <1>2, <2>2, <2>3, <2>4, <2>5, <2>6, <2>7, <2>8 DEF NextOf
<1> QED BY <1>1, <1>2, Steps

-----------------------------------------------------------------------------
(* The secrets *)

Plain(T) == \A t \in Tabs : \A i \in 1..Len(T[t]) : ~T[t][i].secret
Clears(T) == \E t \in Tabs : \E i \in 1..Len(T[t]) : T[t][i] = Clear

LEMMA ClearedParts ==
  ClearedInv <=> (cleared => /\ \A t \in Tabs : ~keep[t]
                             /\ Plain(tasks)
                             /\ Clears(tasks) \/ disk.kv.sec = {})
BY DEF ClearedInv, Plain, Clears

LEMMA ClearedBegin ==
  ASSUME NEW T, NEW t \in Tabs, NEW ks, T \in [Tabs -> Seq(Tasks)],
         ks \in Seq(Tasks), ks # <<>>, Begin(T, t, ks), Plain(T),
         \A i \in 1..Len(ks) : ~ks[i].secret
  PROVE  Plain(tasks') /\ (Clears(T) => Clears(tasks'))
<1>1. /\ \A u \in Tabs : \A j \in 1..Len(tasks'[u]) :
              \/ j \in 1..Len(T[u]) /\ tasks'[u][j] = T[u][j]
              \/ u = t /\ \E i \in 1..Len(ks) : tasks'[u][j] = ks[i]
      /\ \A u \in Tabs : \A j \in 1..Len(T[u]) :
              j \in 1..Len(tasks'[u]) /\ tasks'[u][j] = T[u][j]
  <2>1. \A u \in Tabs : \A j \in 1..Len(tasks'[u]) :
              \/ j \in 1..Len(T[u]) /\ tasks'[u][j] = T[u][j]
              \/ u = t /\ \E i \in 1..Len(ks) : tasks'[u][j] = ks[i]
    BY BeginPlaces
  <2>2. \A u \in Tabs : \A j \in 1..Len(T[u]) :
              j \in 1..Len(tasks'[u]) /\ tasks'[u][j] = T[u][j]
    BY BeginPlaces
  <2> QED BY <2>1, <2>2
<1>2. ASSUME NEW u \in Tabs, NEW j \in 1..Len(tasks'[u]) PROVE ~tasks'[u][j].secret
  <2>1. CASE j \in 1..Len(T[u]) /\ tasks'[u][j] = T[u][j]
    BY <2>1 DEF Plain
  <2>2. CASE \E i \in 1..Len(ks) : tasks'[u][j] = ks[i]
    BY <2>2
  <2> QED BY <1>1, <2>1, <2>2
<1> QED BY <1>1, <1>2, ZenonT(40) DEF Plain, Clears

LEMMA ClearedRest ==
  ASSUME Types, NEW t \in Tabs, NEW i \in 1..Len(tasks[t]), Plain(tasks)
  PROVE  Plain(Rest(t, i)) /\ (Clears(tasks) /\ tasks[t][i] # Clear => Clears(Rest(t, i)))
<1> DEFINE T == Rest(t, i)
<1>1. /\ \A u \in Tabs : u # t => T[u] = tasks[u]
      /\ Thinned(T[t], tasks[t], i) /\ Len(tasks[t]) \in Nat
  BY RestFacts, LenTasks, LenProperties
<1> HIDE DEF T
<1>2. /\ \A j \in 1..Len(T[t]) : Shift(i, j) \in 1..Len(tasks[t]) /\ T[t][j] = tasks[t][Shift(i, j)]
      /\ \A m \in 1..Len(tasks[t]) : m # i => \E j \in 1..Len(T[t]) : T[t][j] = tasks[t][m]
  <2> DEFINE x == T[t]
             a == tasks[t]
  <2>1. Len(a) \in Nat /\ i \in 1..Len(a) /\ Thinned(x, a, i)
    BY <1>1
  <2> HIDE DEF x, a
  <2>2. \A j \in 1..Len(x) : Shift(i, j) \in 1..Len(a) /\ x[j] = a[Shift(i, j)]
    BY <2>1, ThinnedPlaces
  <2>3. \A m \in 1..Len(a) : m # i => \E j \in 1..Len(x) : x[j] = a[m]
    BY <2>1, ThinnedPlaces
  <2> QED BY <2>2, <2>3 DEF x, a
<1>3. ASSUME NEW u \in Tabs, NEW j \in 1..Len(T[u]) PROVE ~T[u][j].secret
  <2>1. CASE u = t
    BY <1>2, <2>1 DEF Plain
  <2>2. CASE u # t
    <3>1. T[u] = tasks[u]
      BY <1>1, <2>2
    <3> QED BY <3>1 DEF Plain
  <2> QED BY <2>1, <2>2
<1>4. ASSUME NEW u \in Tabs, NEW m \in 1..Len(tasks[u]), tasks[u][m] = Clear, tasks[t][i] # Clear
      PROVE  Clears(T)
  <2>1. CASE u = t
    <3>1. m # i
      BY <1>4, <2>1
    <3> QED BY <1>2, <1>4, <2>1, <3>1 DEF Clears
  <2>2. CASE u # t
    <3>1. T[u] = tasks[u]
      BY <1>1, <2>2
    <3> QED BY <1>4, <3>1 DEF Clears
  <2> QED BY <2>1, <2>2
<1> QED BY <1>3, <1>4 DEF Plain, Clears, T

LEMMA ClearedInit == Init => ClearedInv
BY DEF Init, ClearedInv

LEMMA ClearedNext ==
  ASSUME Types, SoFar, ClearedInv, [Next]_vars
  PROVE  ClearedInv'
<1>0. /\ cleared => /\ \A t \in Tabs : ~keep[t]
                    /\ Plain(tasks)
                    /\ Clears(tasks) \/ disk.kv.sec = {}
      /\ tasks \in [Tabs -> Seq(Tasks)]
  BY ClearedParts, LenTasks
<1>a. CASE UNCHANGED <<disk.kv, keep, tasks, cleared>>
  BY <1>a DEF ClearedInv
<1>b. ASSUME cleared' => /\ \A t \in Tabs : ~keep'[t]
                         /\ Plain(tasks')
                         /\ Clears(tasks') \/ disk'.kv.sec = {}
      PROVE  ClearedInv'
  BY <1>b DEF ClearedInv, Plain, Clears
<1>1. CASE UNCHANGED vars
  BY <1>1, <1>a DEF vars, tabVars, ghosts
<1>2. ASSUME NEW t \in Tabs, NextOf(t) PROVE ClearedInv'
  <2>2. CASE \/ OpenTab(t) \/ ReadIndex(t) \/ Booted(t) \/ LoadFails(t)
             \/ FindKey(t) \/ StoreKey(t)
    <3>1. UNCHANGED <<disk.kv, keep, tasks, cleared>>
      BY <2>2, OpenFacts, AsideFacts, FindFacts, StoreFacts DEF Aside, ghosts
    <3> QED BY <3>1, <1>a
  <2>3. ASSUME NEW s \in Sessions, LoadEntry(t, s) PROVE ClearedInv'
    BY <1>a, <2>3, LoadFacts
  <2>4. ASSUME NEW s \in Sessions, NEW ks \in Seq(Tasks), Operated(t, s, ks) PROVE ClearedInv'
    <3>1. /\ ks # <<>> /\ Begin(tasks, t, ks) /\ \A i \in 1..Len(ks) : ~ks[i].secret
          /\ UNCHANGED <<disk, keep, cleared>>
      BY <2>4 DEF Operated, Begun
    <3>2. cleared => Plain(tasks') /\ (Clears(tasks) => Clears(tasks'))
      BY <1>0, <3>1, ClearedBegin
    <3> QED BY <1>0, <1>b, <3>1, <3>2
  <2>5. CASE CloseTab(t)
    <3>1. /\ keep'[t] = FALSE /\ \A u \in Tabs : u # t => keep'[u] = keep[u]
          /\ tasks'[t] = <<>> /\ Len(tasks'[t]) = 0
          /\ \A u \in Tabs : u # t => tasks'[u] = tasks[u]
          /\ cleared' = (cleared /\ Clear \notin ToSet(tasks[t]))
          /\ UNCHANGED disk
      BY <2>5, CloseFacts
    <3>2. 1..0 = {}
      OBVIOUS
    <3>3. ToSet(tasks[t]) = {tasks[t][i] : i \in 1..Len(tasks[t])}
      BY <1>0, ToSetDef
    <3> SUFFICES ASSUME cleared'
                 PROVE  /\ \A u \in Tabs : ~keep'[u]
                        /\ Plain(tasks')
                        /\ Clears(tasks') \/ disk'.kv.sec = {}
      BY <1>b
    <3>4. cleared /\ \A i \in 1..Len(tasks[t]) : tasks[t][i] # Clear
      BY <3>1, <3>3
    <3>5. \A u \in Tabs : ~keep'[u]
      BY <1>0, <3>1, <3>4
    <3>6. Plain(tasks')
      BY <1>0, <3>1, <3>2, <3>4 DEF Plain
    <3>7. Clears(tasks) => Clears(tasks')
      BY <3>1, <3>4 DEF Clears
    <3> QED BY <1>0, <3>1, <3>4, <3>5, <3>6, <3>7
  <2>6. CASE EnableSecretPersistence(t)
    BY <1>b, <2>6, EnableFacts
  <2>7. CASE ClearPersistedData(t)
    <3>1. /\ <<Clear>> \in Seq(Tasks) /\ <<Clear>> # <<>> /\ Len(<<Clear>>) = 1
          /\ <<Clear>>[1] = Clear /\ Begin(tasks, t, <<Clear>>)
          /\ keep'[t] = FALSE /\ \A u \in Tabs : u # t => keep'[u] = keep[u]
          /\ cleared' => Idle /\ \A u \in Tabs : u # t => ~keep[u]
      BY <2>7, ClearFacts
    <3> SUFFICES ASSUME cleared'
                 PROVE  /\ \A u \in Tabs : ~keep'[u]
                        /\ Plain(tasks')
                        /\ Clears(tasks') \/ disk'.kv.sec = {}
      BY <1>b
    <3>2. \A u \in Tabs : ~keep'[u]
      BY <3>1
    <3>3. Plain(tasks)
      <4>1. Len(<<>>) = 0 /\ 1..0 = {}
        OBVIOUS
      <4> QED BY <3>1, <4>1 DEF Idle, Plain
    <3> DEFINE ks == <<Clear>>
    <3>4. /\ ks \in Seq(Tasks) /\ ks # <<>> /\ Begin(tasks, t, ks)
          /\ \A i \in 1..Len(ks) : ks[i] = Clear
          /\ 1 \in 1..Len(ks)
      <4>1. \A i \in 1..1 : i = 1
        OBVIOUS
      <4> QED BY <3>1, <4>1
    <3> HIDE DEF ks
    <3>5. \A i \in 1..Len(ks) : ~ks[i].secret
      BY <3>4, TaskFacts
    <3>6. Plain(tasks')
      BY <1>0, <3>3, <3>4, <3>5, ClearedBegin
    <3>7. \A j \in 1..Len(ks) : \E i \in 1..Len(tasks'[t]) : tasks'[t][i] = ks[j]
      BY <1>0, <3>4, BeginPlaces
    <3>8. Clears(tasks')
      BY <3>4, <3>7 DEF Clears
    <3> QED BY <3>2, <3>6, <3>8
  <2>8. ASSUME NEW i \in 1..MaxTasks, Write(t, i) PROVE ClearedInv'
    <3> DEFINE k == tasks[t][i]
    <3>1. i \in 1..Len(tasks[t]) /\ k \in Tasks
      BY <2>8, WriteFacts
    <3>2. Wrote(t, k)
      BY <2>8, WriteFacts
    <3>3. GoesOn(t, i, k) \/ Ended(t, i, k) \/ Continues(t, i, k)
      BY <2>8, WriteFacts
    <3>4. UNCHANGED <<keep, cleared>>
      BY <2>8, WriteFacts
    <3>a. k = tasks[t][i]
      OBVIOUS
    <3> HIDE DEF k
    <3> SUFFICES ASSUME cleared
                 PROVE  Plain(tasks') /\ (Clears(tasks') \/ disk'.kv.sec = {})
      BY <1>0, <1>b, <3>4
    <3>5. Plain(tasks) /\ (Clears(tasks) \/ disk.kv.sec = {}) /\ \A u \in Tabs : ~keep[u]
      BY <1>0
    <3>6. k.secret = FALSE
      <4>1. ~k.secret /\ k.secret \in BOOLEAN
        BY <3>1, <3>5, <3>a, TaskFacts DEF Plain
      <4> QED BY <4>1
    <3>7. disk.kv.sec = {} \/ k = Clear => disk'.kv.sec = {}
      BY <3>2, <3>6, EmptyFacts DEF Wrote
    <3>8. CASE GoesOn(t, i, k)
      <4>1. /\ k # Clear /\ k.part # "idx" /\ Len(tasks'[t]) = Len(tasks[t])
            /\ \A u \in Tabs : u # t => tasks'[u] = tasks[u]
            /\ \A j \in 1..Len(tasks[t]) : j # i => tasks'[t][j] = tasks[t][j]
            /\ tasks'[t][i] = NextPart(t, k)
        BY <3>8 DEF GoesOn
      <4> DEFINE n == NextPart(t, k)
      <4>2. ~n.secret
        BY <3>1, <3>5, <4>1, NextFacts
      <4> HIDE DEF n
      <4>3. ASSUME NEW u \in Tabs, NEW j \in 1..Len(tasks'[u]) PROVE ~tasks'[u][j].secret
        <5>1. CASE u = t /\ j = i
          BY <4>1, <4>2, <5>1 DEF n
        <5>2. CASE ~(u = t /\ j = i)
          <6>1. j \in 1..Len(tasks[u]) /\ tasks'[u][j] = tasks[u][j]
            BY <4>1, <5>2
          <6> QED BY <3>5, <6>1 DEF Plain
        <5> QED BY <5>1, <5>2
      <4>4. ASSUME NEW u \in Tabs, NEW j \in 1..Len(tasks[u]), tasks[u][j] = Clear
            PROVE  Clears(tasks')
        <5>1. ~(u = t /\ j = i)
          BY <3>a, <4>1, <4>4
        <5>2. j \in 1..Len(tasks'[u]) /\ tasks'[u][j] = tasks[u][j]
          BY <4>1, <5>1
        <5> QED BY <4>4, <5>2 DEF Clears
      <4> QED BY <3>5, <3>7, <4>3, <4>4 DEF Plain, Clears
    <3>9. /\ Rest(t, i) \in [Tabs -> Seq(Tasks)]
          /\ Plain(Rest(t, i)) /\ (Clears(tasks) /\ k # Clear => Clears(Rest(t, i)))
      BY <3>1, <3>5, <3>a, RestFacts, ClearedRest
    <3>10. CASE Ended(t, i, k)
      BY <3>5, <3>7, <3>9, <3>10 DEF Ended
    <3>11. CASE Continues(t, i, k)
      <4>1. PICK s \in Sessions, ks \in Seq(Tasks) : OneSave(t, s, ks) /\ Begin(Rest(t, i), t, ks)
        BY <3>11 DEF Continues
      <4> DEFINE T == Rest(t, i)
      <4>2. /\ T \in [Tabs -> Seq(Tasks)] /\ Begin(T, t, ks) /\ ks # <<>> /\ Plain(T)
            /\ Clears(tasks) => Clears(T)
        BY <3>9, <3>11, <4>1 DEF OneSave, Continues
      <4>3. \A j \in 1..Len(ks) : ~ks[j].secret
        <5>1. \A j \in 1..1 : j = 1
          OBVIOUS
        <5> QED BY <4>1, <5>1 DEF OneSave
      <4> HIDE DEF T
      <4>4. Plain(tasks') /\ (Clears(T) => Clears(tasks'))
        BY <4>2, <4>3, ClearedBegin
      <4> QED BY <3>5, <3>7, <4>2, <4>4
    <3> QED BY <3>3, <3>8, <3>10, <3>11
  <2> QED BY <1>2, <2>2, <2>3, <2>4, <2>5, <2>6, <2>7, <2>8 DEF NextOf
<1> QED BY <1>1, <1>2, Steps

-----------------------------------------------------------------------------
(* The index *)

\* The list of T has one task at most, in all.
Alone(T) == \A t, u \in Tabs : \A i \in 1..Len(T[t]), j \in 1..Len(T[u]) : t = u /\ i = j
Indexed(k, m) ==
  /\ k.kind = "remove" => ~m[k.s].there
  /\ k.part = "idx" => k.ids = Held(m)
AllIndexed(T, m) == \A t \in Tabs : \A i \in 1..Len(T[t]) : Indexed(T[t][i], m[t])

LEMMA IndexParts == IndexInv <=> (~crowded => Alone(tasks) /\ AllIndexed(tasks, mem))
BY DEF IndexInv, Alone, AllIndexed, Indexed

LEMMA IndexBegin ==
  ASSUME NEW T, NEW t \in Tabs, NEW ks, NEW m, T \in [Tabs -> Seq(Tasks)],
         ks \in Seq(Tasks), ks # <<>>, Begin(T, t, ks), ~crowded',
         Len(ks) = 1 => Indexed(ks[1], m[t])
  PROVE  ~crowded /\ Alone(tasks') /\ AllIndexed(tasks', m)
<1>1. /\ \A u \in Tabs : u # t => tasks'[u] = T[u]
      /\ Joined(tasks'[t], T[t], ks)
      /\ ~crowded /\ Len(ks) = 1 /\ \A u \in Tabs : T[u] = <<>>
  BY BeginFacts
<1>2. Len(<<>>) = 0 /\ 1..0 = {} /\ 0 + 1 = 1 /\ \A j \in 1..1 : j = 1
  OBVIOUS
<1>3. Len(tasks'[t]) = 1 /\ tasks'[t][1] = ks[1]
  BY <1>1, <1>2 DEF Joined
<1>4. \A u \in Tabs : \A j \in 1..Len(tasks'[u]) : u = t /\ j = 1
  BY <1>1, <1>2, <1>3
<1>5. Alone(tasks')
  BY <1>4 DEF Alone
<1>6. AllIndexed(tasks', m)
  BY <1>1, <1>3, <1>4 DEF AllIndexed
<1> QED BY <1>1, <1>5, <1>6

LEMMA IndexInit == Init => IndexInv
<1> SUFFICES ASSUME Init PROVE IndexInv
  OBVIOUS
<1>1. \A t \in Tabs : Len(tasks[t]) = 0
  BY DEF Init
<1>2. 1..0 = {}
  OBVIOUS
<1> QED BY <1>1, <1>2 DEF IndexInv

LEMMA IndexNext ==
  ASSUME Types, SoFar, IndexInv, [Next]_vars
  PROVE  IndexInv'
<1>0. /\ ~crowded => Alone(tasks) /\ AllIndexed(tasks, mem)
      /\ tasks \in [Tabs -> Seq(Tasks)]
  BY IndexParts, LenTasks
<1>b. ASSUME ~crowded' => Alone(tasks') /\ AllIndexed(tasks', mem') PROVE IndexInv'
  BY <1>b DEF IndexInv, Alone, AllIndexed, Indexed, Held
<1>a. CASE UNCHANGED <<mem, tasks, crowded>>
  BY <1>a, <1>0, <1>b
<1>1. CASE UNCHANGED vars
  BY <1>1, <1>a DEF vars, tabVars, ghosts
<1>e. Len(<<>>) = 0 /\ 1..0 = {}
  OBVIOUS
<1>2. ASSUME NEW t \in Tabs, NextOf(t) PROVE IndexInv'
  <2>2. CASE \/ OpenTab(t) \/ ReadIndex(t) \/ Booted(t) \/ LoadFails(t)
             \/ FindKey(t) \/ StoreKey(t)
    <3>1. UNCHANGED <<mem, tasks, crowded>>
      BY <2>2, OpenFacts, AsideFacts, FindFacts, StoreFacts DEF Aside, ghosts
    <3> QED BY <3>1, <1>a
  <2>3. ASSUME NEW s \in Sessions, LoadEntry(t, s) PROVE IndexInv'
    <3>1. /\ up[t] = "entries" /\ UNCHANGED <<tasks, crowded>>
          /\ mem' \in [Tabs -> [Sessions -> Entries]]
          /\ \A u \in Tabs, r \in Sessions : u # t \/ r # s => mem'[u][r] = mem[u][r]
      BY <2>3, LoadFacts
    <3>2. Len(tasks[t]) = 0
      BY <3>1, <1>e, SoFarParts DEF OnlyUp
    <3>3. mem \in [Tabs -> [Sessions -> Entries]]
      BY DEF Types, MemType
    <3>4. \A u \in Tabs : u # t => mem'[u] = mem[u]
      BY <3>1, <3>3
    <3>5. ~crowded => AllIndexed(tasks, mem')
      BY <1>0, <1>e, <3>2, <3>4 DEF AllIndexed
    <3> QED BY <1>0, <1>b, <3>1, <3>5
  <2>4. ASSUME NEW s \in Sessions, NEW ks \in Seq(Tasks), Operated(t, s, ks) PROVE IndexInv'
    <3>1. /\ ks # <<>> /\ Begin(tasks, t, ks)
          /\ \A i \in 1..Len(ks) : /\ ks[i].s = s /\ ks[i].part = "rec"
                                   /\ ks[i].kind = "remove" => ~mem'[t][s].there
      BY <2>4 DEF Operated, Begun
    <3>2. 1 \in 1..1
      OBVIOUS
    <3>3. Len(ks) = 1 => Indexed(ks[1], mem'[t])
      BY <3>1, <3>2 DEF Indexed
    <3>4. ~crowded' => Alone(tasks') /\ AllIndexed(tasks', mem')
      BY <1>0, <3>1, <3>3, IndexBegin
    <3> QED BY <1>b, <3>4
  <2>5. CASE CloseTab(t)
    <3>1. /\ tasks'[t] = <<>> /\ Len(tasks'[t]) = 0
          /\ \A u \in Tabs : u # t => tasks'[u] = tasks[u] /\ mem'[u] = mem[u]
          /\ UNCHANGED crowded
      BY <2>5, CloseFacts
    <3>2. ~crowded => Alone(tasks')
      BY <1>0, <1>e, <3>1 DEF Alone
    <3>3. ~crowded => AllIndexed(tasks', mem')
      BY <1>0, <1>e, <3>1 DEF AllIndexed
    <3> QED BY <1>b, <3>1, <3>2, <3>3
  <2>s. ASSUME NEW T, NEW s \in Sessions, NEW ks \in Seq(Tasks), T \in [Tabs -> Seq(Tasks)],
               OneSave(t, s, ks), Begin(T, t, ks), UNCHANGED mem
        PROVE  IndexInv'
    <3>1. ks # <<>> /\ (Len(ks) = 1 => Indexed(ks[1], mem'[t]))
      BY <2>s DEF OneSave, Indexed
    <3>2. ~crowded' => Alone(tasks') /\ AllIndexed(tasks', mem')
      BY <2>s, <3>1, IndexBegin
    <3> QED BY <1>b, <3>2
  <2>6. CASE EnableSecretPersistence(t)
    <3>1. /\ \/ UNCHANGED <<tasks, raced, crowded>>
             \/ \E s \in Sessions : \E ks \in Seq(Tasks) : OneSave(t, s, ks) /\ Begin(tasks, t, ks)
          /\ UNCHANGED mem
      BY <2>6, EnableFacts
    <3>2. CASE UNCHANGED <<tasks, raced, crowded>>
      BY <1>a, <3>1, <3>2
    <3> QED BY <1>0, <2>s, <3>1, <3>2
  <2>7. CASE ClearPersistedData(t)
    <3>1. /\ <<Clear>> \in Seq(Tasks) /\ <<Clear>> # <<>> /\ Len(<<Clear>>) = 1
          /\ <<Clear>>[1] = Clear /\ Begin(tasks, t, <<Clear>>) /\ UNCHANGED mem
      BY <2>7, ClearFacts
    <3> DEFINE ks == <<Clear>>
    <3>2. ks \in Seq(Tasks) /\ ks # <<>> /\ Begin(tasks, t, ks) /\ ks[1] = Clear
      BY <3>1
    <3> HIDE DEF ks
    <3>3. Indexed(ks[1], mem'[t])
      BY <3>2, TaskFacts DEF Indexed
    <3>4. ~crowded' => Alone(tasks') /\ AllIndexed(tasks', mem')
      BY <1>0, <3>2, <3>3, IndexBegin
    <3> QED BY <1>b, <3>4
  <2>8. ASSUME NEW i \in 1..MaxTasks, Write(t, i) PROVE IndexInv'
    <3> DEFINE k == tasks[t][i]
    <3>1. i \in 1..Len(tasks[t]) /\ k \in Tasks
      BY <2>8, WriteFacts
    <3>2. GoesOn(t, i, k) \/ Ended(t, i, k) \/ Continues(t, i, k)
      BY <2>8, WriteFacts
    <3>3. UNCHANGED mem
      BY <2>8, WriteFacts
    <3>a. k = tasks[t][i]
      OBVIOUS
    <3> HIDE DEF k
    <3>b. /\ Rest(t, i) \in [Tabs -> Seq(Tasks)]
          /\ \A u \in Tabs : u # t => Rest(t, i)[u] = tasks[u]
          /\ Thinned(Rest(t, i)[t], tasks[t], i) /\ Len(tasks[t]) \in Nat
      BY <1>0, <3>1, RestFacts, LenProperties
    <3>4. CASE GoesOn(t, i, k)
      <4>1. /\ k # Clear /\ k.part # "idx" /\ Len(tasks'[t]) = Len(tasks[t])
            /\ \A u \in Tabs : u # t => tasks'[u] = tasks[u]
            /\ \A j \in 1..Len(tasks[t]) : j # i => tasks'[t][j] = tasks[t][j]
            /\ tasks'[t][i] = NextPart(t, k) /\ UNCHANGED crowded
        BY <3>4 DEF GoesOn
      <4> DEFINE n == NextPart(t, k)
      <4>2. /\ n.kind = k.kind /\ n.s = k.s
            /\ n.part = "idx" => n.ids = Held(mem[t]) \ (IF k.kind = "persist" THEN {} ELSE {k.s})
        BY <3>1, <4>1, NextFacts
      <4>3. k.kind = "persist" \/ k.kind = "remove"
        BY <3>1, <4>1, TaskFacts
      <4> HIDE DEF n
      <4> SUFFICES ASSUME ~crowded PROVE Alone(tasks') /\ AllIndexed(tasks', mem)
        BY <1>b, <3>3, <4>1
      <4>4. Indexed(k, mem[t])
        BY <1>0, <3>1, <3>a DEF AllIndexed
      <4>5. k.kind = "remove" => k.s \notin Held(mem[t])
        BY <4>4 DEF Indexed, Held
      <4>6. Indexed(n, mem[t])
        BY <4>2, <4>3, <4>4, <4>5 DEF Indexed
      <4>7. \A u \in Tabs : Len(tasks'[u]) = Len(tasks[u])
        BY <4>1
      <4>8. Alone(tasks')
        BY <1>0, <4>7 DEF Alone
      <4>9. ASSUME NEW u \in Tabs, NEW j \in 1..Len(tasks'[u])
            PROVE  Indexed(tasks'[u][j], mem[u])
        <5>1. CASE u = t /\ j = i
          BY <4>1, <4>6, <5>1 DEF n
        <5>2. CASE ~(u = t /\ j = i)
          <6>1. j \in 1..Len(tasks[u]) /\ tasks'[u][j] = tasks[u][j]
            BY <4>1, <5>2
          <6> QED BY <1>0, <6>1 DEF AllIndexed
        <5> QED BY <5>1, <5>2
      <4> QED BY <4>8, <4>9 DEF AllIndexed
    <3>5. CASE Ended(t, i, k)
      <4>1. tasks' = Rest(t, i) /\ UNCHANGED crowded
        BY <3>5 DEF Ended
      <4> SUFFICES ASSUME ~crowded PROVE Alone(tasks') /\ AllIndexed(tasks', mem)
        BY <1>b, <3>3, <4>1
      <4>2. \A j \in 1..Len(tasks'[t]) : Shift(i, j) \in 1..Len(tasks[t])
                                         /\ tasks'[t][j] = tasks[t][Shift(i, j)]
                                         /\ Shift(i, j) # i
        BY <3>1, <3>b, <4>1, ThinnedPlaces
      <4>3. \A j \in 1..Len(tasks'[t]) : FALSE
        BY <1>0, <3>1, <4>2 DEF Alone
      <4>4. \A u \in Tabs : u # t => tasks'[u] = tasks[u]
        BY <3>b, <4>1
      <4> QED BY <1>0, <4>3, <4>4 DEF Alone, AllIndexed
    <3>6. CASE Continues(t, i, k)
      <4>1. PICK s \in Sessions, ks \in Seq(Tasks) : OneSave(t, s, ks) /\ Begin(Rest(t, i), t, ks)
        BY <3>6 DEF Continues
      <4> QED BY <2>s, <3>3, <3>b, <4>1
    <3> QED BY <3>2, <3>4, <3>5, <3>6
  <2> QED BY <1>2, <2>2, <2>3, <2>4, <2>5, <2>6, <2>7, <2>8 DEF NextOf
<1> QED BY <1>1, <1>2, Steps

\* A session leaves the index with a write of the index by a tab that does not have it,
\* or with a clear.
LEMMA IndexStep ==
  ASSUME Types, SoFar, IndexInv, [Next]_vars, ~crowded,
         NEW s \in disk.kv.idx \ disk'.kv.idx
  PROVE  \E t \in Tabs : \/ tasks'[t] # tasks[t] /\ ~mem[t][s].there
                         \/ Clear \in ToSet(tasks[t])
<1>1. Alone(tasks) /\ AllIndexed(tasks, mem) /\ tasks \in [Tabs -> Seq(Tasks)]
  BY IndexParts, LenTasks
<1>2. s \in Sessions
  BY DEF Types, DiskType, Stores
<1>3. disk'.kv # disk.kv
  OBVIOUS
<1>4. ASSUME NEW t \in Tabs, NextOf(t), ~\E i \in 1..MaxTasks : Write(t, i) PROVE FALSE
  <2>1. ASSUME NEW r \in Sessions, NEW ks \in Seq(Tasks), Operated(t, r, ks) PROVE UNCHANGED disk
    BY <2>1 DEF Operated
  <2>2. ASSUME NEW r \in Sessions, LoadEntry(t, r) PROVE UNCHANGED disk
    BY <2>2, LoadFacts
  <2>3. OpenTab(t) \/ ReadIndex(t) \/ Booted(t) \/ LoadFails(t) \/ CloseTab(t) => UNCHANGED disk
    BY OpenFacts, AsideFacts, CloseFacts DEF Aside
  <2>4. EnableSecretPersistence(t) \/ ClearPersistedData(t) \/ FindKey(t) => UNCHANGED disk
    BY EnableFacts, ClearFacts, FindFacts
  <2>5. StoreKey(t) => disk'.kv = disk.kv
    BY StoreFacts
  <2> QED BY <1>3, <1>4, <2>1, <2>2, <2>3, <2>4, <2>5 DEF NextOf
<1>5. ASSUME NEW t \in Tabs, NEW i \in 1..MaxTasks, Write(t, i)
      PROVE  \/ tasks'[t] # tasks[t] /\ ~mem[t][s].there
             \/ Clear \in ToSet(tasks[t])
  <2> DEFINE k == tasks[t][i]
  <2>1. i \in 1..Len(tasks[t]) /\ k \in Tasks
    BY <1>5, WriteFacts
  <2>2. Wrote(t, k)
    BY <1>5, WriteFacts
  <2>3. GoesOn(t, i, k) \/ Ended(t, i, k) \/ Continues(t, i, k)
    BY <1>5, WriteFacts
  <2>a. k = tasks[t][i]
    OBVIOUS
  <2> HIDE DEF k
  <2>4. CASE k = Clear
    <3>1. ToSet(tasks[t]) = {tasks[t][j] : j \in 1..Len(tasks[t])}
      BY <1>1, ToSetDef
    <3> QED BY <2>1, <2>4, <2>a, <3>1
  <2>5. CASE k # Clear
    <3>1. k.part = "idx" /\ disk'.kv.idx = k.ids
      BY <2>2, <2>5 DEF Wrote
    <3>2. k.ids = Held(mem[t])
      BY <1>1, <2>1, <2>a, <3>1 DEF AllIndexed, Indexed
    <3>3. ~mem[t][s].there
      BY <1>2, <3>1, <3>2 DEF Held
    <3>b. /\ Rest(t, i) \in [Tabs -> Seq(Tasks)]
          /\ Thinned(Rest(t, i)[t], tasks[t], i) /\ Len(tasks[t]) \in Nat
      BY <1>1, <2>1, RestFacts, LenProperties
    <3>4. CASE Ended(t, i, k)
      <4>1. Len(tasks'[t]) = Len(tasks[t]) - 1
        BY <3>4, <3>b DEF Ended, Thinned
      <4>2. Len(tasks'[t]) # Len(tasks[t])
        BY <3>b, <4>1
      <4> QED BY <3>3, <4>2
    <3>5. CASE Continues(t, i, k)
      <4>1. PICK r \in Sessions, ks \in Seq(Tasks) : OneSave(t, r, ks) /\ Begin(Rest(t, i), t, ks)
        BY <3>5 DEF Continues
      <4> DEFINE T == Rest(t, i)
      <4>2. T \in [Tabs -> Seq(Tasks)] /\ ks # <<>> /\ Begin(T, t, ks) /\ 1 \in 1..Len(ks)
            /\ ks[1].part = "rec"
        <5>1. 1 \in 1..1
          OBVIOUS
        <5> QED BY <3>b, <4>1, <5>1 DEF OneSave
      <4> HIDE DEF T
      <4>3. \A j \in 1..Len(ks) : \E l \in 1..Len(tasks'[t]) : tasks'[t][l] = ks[j]
        BY <4>2, BeginPlaces
      <4>4. PICK l \in 1..Len(tasks'[t]) : tasks'[t][l] = ks[1]
        BY <4>2, <4>3
      <4>5. tasks'[t] # tasks[t]
        <5> SUFFICES ASSUME tasks'[t] = tasks[t] PROVE FALSE
          OBVIOUS
        <5>1. l \in 1..Len(tasks[t]) /\ tasks[t][l] = ks[1]
          BY <4>4
        <5>2. l = i
          BY <1>1, <2>1, <5>1 DEF Alone
        <5> QED BY <2>a, <3>1, <4>2, <5>1, <5>2
      <4> QED BY <3>3, <4>5
    <3>6. ~GoesOn(t, i, k)
      BY <3>1 DEF GoesOn
    <3> QED BY <2>3, <3>4, <3>5, <3>6
  <2> QED BY <2>4, <2>5
<1>6. ~UNCHANGED vars
  BY <1>3 DEF vars
<1> QED BY <1>4, <1>5, <1>6, Steps

-----------------------------------------------------------------------------
(* Sessions no two tasks were about, and no two tabs had *)

\* QuietAt in parts: the tasks, and what is on disk against what is in the tabs.
Ready(s, T, m, kv, d) ==
  \A t \in Tabs : \A i \in 1..Len(T[t]) : Stage(T[t][i], s, m[t][s], kv, d)
Ahead(s, m, kv, d) ==
  /\ \A t, u \in Tabs : m[t][s].there /\ m[u][s].there => t = u
  /\ \A t \in Tabs : m[t][s].there =>
       kv.rec[s] <= m[t][s].ver /\ kv.msgs[s] <= m[t][s].ver /\ d <= m[t][s].ver
  /\ d <= kv.rec[s] /\ d <= kv.msgs[s]
  /\ kv.rec[s] # None => kv.msgs[s] <= kv.rec[s]

LEMMA QuietParts ==
  ASSUME NEW s
  PROVE  QuietAt(s) <=> /\ OneAt(tasks, s)
                        /\ Ready(s, tasks, mem, disk.kv, due[s])
                        /\ Ahead(s, mem, disk.kv, due[s])
BY DEF QuietAt, Ready, Ahead

LEMMA QuietNow ==
  ASSUME NEW s, OneAt(tasks', s), Ready(s, tasks', mem', disk'.kv, due'[s]),
         Ahead(s, mem', disk'.kv, due'[s])
  PROVE  QuietAt(s)'
BY DEF QuietAt, Ready, Ahead, OneAt, Stage, Concerns

LEMMA QuietBegin ==
  ASSUME NEW T, NEW t \in Tabs, NEW ks, NEW s \in Sessions, NEW m, NEW kv, NEW d,
         T \in [Tabs -> Seq(Tasks)], ks \in Seq(Tasks), ks # <<>>, Begin(T, t, ks),
         s \notin raced', OneAt(T, s),
         s \notin About(ks) => Ready(s, T, m, kv, d),
         Len(ks) = 1 => Stage(ks[1], s, m[t][s], kv, d)
  PROVE  OneAt(tasks', s) /\ Ready(s, tasks', m, kv, d)
<1>1. OneAt(tasks', s)
  BY OneBegin
<1>2. \A u \in Tabs : \A j \in 1..Len(tasks'[u]) : s \in Concerns(tasks'[u][j]) =>
           \/ /\ j \in 1..Len(T[u]) /\ tasks'[u][j] = T[u][j]
              /\ s \notin About(ks)
           \/ /\ u = t /\ j = Len(T[t]) + 1 /\ Len(ks) = 1 /\ tasks'[u][j] = ks[1]
              /\ s \notin Busy(T) /\ s \in About(ks)
  BY BeginAt
<1>3. ASSUME NEW u \in Tabs, NEW j \in 1..Len(tasks'[u])
      PROVE  Stage(tasks'[u][j], s, m[u][s], kv, d)
  <2>1. CASE s \notin Concerns(tasks'[u][j])
    BY <2>1 DEF Stage
  <2>2. CASE j \in 1..Len(T[u]) /\ tasks'[u][j] = T[u][j] /\ s \notin About(ks)
    BY <2>2 DEF Ready
  <2>3. CASE u = t /\ Len(ks) = 1 /\ tasks'[u][j] = ks[1]
    BY <2>3
  <2> QED BY <1>2, <2>1, <2>2, <2>3
<1> QED BY <1>1, <1>3 DEF Ready

LEMMA QuietRest ==
  ASSUME Types, NEW t \in Tabs, NEW i \in 1..Len(tasks[t]), NEW s, NEW m, NEW kv, NEW d,
         OneAt(tasks, s),
         \A u \in Tabs : \A j \in 1..Len(tasks[u]) :
           ~(u = t /\ j = i) => Stage(tasks[u][j], s, m[u][s], kv, d)
  PROVE  OneAt(Rest(t, i), s) /\ Ready(s, Rest(t, i), m, kv, d)
<1> DEFINE T == Rest(t, i)
<1>1. /\ \A u \in Tabs : u # t => T[u] = tasks[u]
      /\ Thinned(T[t], tasks[t], i) /\ Len(tasks[t]) \in Nat
      /\ T \in [Tabs -> Seq(Tasks)] /\ tasks \in [Tabs -> Seq(Tasks)]
  BY RestFacts, LenTasks, LenProperties
<1> HIDE DEF T
<1>2. OneAt(T, s)
  BY <1>1, OneThinned
<1>3. \A j \in 1..Len(T[t]) : /\ Shift(i, j) \in 1..Len(tasks[t]) /\ Shift(i, j) # i
                              /\ T[t][j] = tasks[t][Shift(i, j)]
  BY <1>1, ThinnedPlaces
<1>4. ASSUME NEW u \in Tabs, NEW j \in 1..Len(T[u])
      PROVE  Stage(T[u][j], s, m[u][s], kv, d)
  <2>1. CASE u = t
    BY <1>3, <2>1
  <2>2. CASE u # t
    <3>1. T[u] = tasks[u]
      BY <1>1, <2>2
    <3> QED BY <2>2, <3>1
  <2> QED BY <2>1, <2>2
<1> QED BY <1>2, <1>4 DEF Ready, T

LEMMA QuietInit == Init => QuietInv
<1> SUFFICES ASSUME Init, NEW s \in Sessions PROVE QuietAt(s)
  BY DEF QuietInv
<1>1. \A t \in Tabs : Len(tasks[t]) = 0
  BY DEF Init
<1>2. 1..0 = {} /\ 0 <= 0
  OBVIOUS
<1>3. /\ \A t \in Tabs : mem[t][s] = NoEntry
      /\ disk.kv = EmptyStore /\ due[s] = 0
  BY DEF Init
<1>4. OneAt(tasks, s) /\ Ready(s, tasks, mem, disk.kv, due[s])
  BY <1>1, <1>2 DEF OneAt, Ready
<1>5. Ahead(s, mem, disk.kv, due[s])
  BY <1>2, <1>3, EmptyFacts DEF Ahead, NoEntry
<1> QED BY <1>4, <1>5, QuietParts

LEMMA QuietClose ==
  ASSUME Types, NEW s \in Sessions, QuietAt(s), NEW t \in Tabs, CloseTab(t)
  PROVE  QuietAt(s)'
<1>0. OneAt(tasks, s) /\ Ready(s, tasks, mem, disk.kv, due[s]) /\ Ahead(s, mem, disk.kv, due[s])
  BY QuietParts
<1>1. /\ ~mem'[t][s].there /\ \A u \in Tabs : u # t => mem'[u] = mem[u]
      /\ Len(tasks'[t]) = 0 /\ \A u \in Tabs : u # t => tasks'[u] = tasks[u]
      /\ UNCHANGED <<disk, due>>
  BY CloseFacts
<1>2. 1..0 = {}
  OBVIOUS
<1>3. \A u \in Tabs : \A j \in 1..Len(tasks'[u]) : u # t /\ tasks'[u] = tasks[u] /\ mem'[u] = mem[u]
  BY <1>1, <1>2
<1>4. OneAt(tasks', s)
  BY <1>0, <1>3 DEF OneAt
<1>5. Ready(s, tasks', mem', disk'.kv, due'[s])
  BY <1>0, <1>1, <1>3 DEF Ready
<1>6. Ahead(s, mem', disk'.kv, due'[s])
  <2>1. \A u \in Tabs : mem'[u][s].there => u # t /\ mem'[u][s] = mem[u][s]
    BY <1>1
  <2> QED BY <1>0, <1>1, <2>1 DEF Ahead
<1> QED BY <1>4, <1>5, <1>6, QuietNow

LEMMA QuietLoad ==
  ASSUME Types, SoFar, NEW s \in Sessions, QuietAt(s), s \notin shared',
         NEW t \in Tabs, NEW r \in Sessions, LoadEntry(t, r)
  PROVE  QuietAt(s)'
<1>0. OneAt(tasks, s) /\ Ready(s, tasks, mem, disk.kv, due[s]) /\ Ahead(s, mem, disk.kv, due[s])
  BY QuietParts
<1>1. /\ up[t] = "entries"
      /\ \A u \in Tabs, q \in Sessions : u # t \/ q # r => mem'[u][q] = mem[u][q]
      /\ \/ UNCHANGED <<mem, shared>>
         \/ /\ disk.kv.rec[r] # None
            /\ mem'[t][r].there /\ ~mem'[t][r].live /\ mem'[t][r].ver = disk.kv.rec[r]
            /\ shared' = IF \E u \in Tabs : mem[u][r].there THEN shared \cup {r} ELSE shared
      /\ UNCHANGED <<disk, tasks, due>>
  BY LoadFacts
<1>2. tasks[t] = <<>> /\ Len(tasks[t]) = 0 /\ 1..0 = {}
  <2>1. Len(<<>>) = 0 /\ 1..0 = {}
    OBVIOUS
  <2> QED BY <1>1, <2>1, SoFarParts DEF OnlyUp
<1>3. OneAt(tasks', s)
  BY <1>0, <1>1
<1>4. \A u \in Tabs : u # t => mem'[u][s] = mem[u][s]
  BY <1>1
<1>5. Ready(s, tasks', mem', disk'.kv, due'[s])
  BY <1>0, <1>1, <1>2, <1>4 DEF Ready
<1>6. Ahead(s, mem', disk'.kv, due'[s])
  <2>1. CASE \A u \in Tabs : mem'[u][s] = mem[u][s]
    BY <1>0, <1>1, <2>1 DEF Ahead
  <2>2. CASE ~\A u \in Tabs : mem'[u][s] = mem[u][s]
    <3>1. r = s /\ disk.kv.rec[s] # None /\ mem'[t][s].ver = disk.kv.rec[s]
          /\ \A u \in Tabs : ~mem[u][s].there
      BY <1>1, <2>2
    <3>2. disk.kv.rec[s] \in Nat
      BY Ranges
    <3>3. disk.kv.rec[s] <= disk.kv.rec[s]
      BY <3>2
    <3>4. /\ disk.kv.msgs[s] <= disk.kv.rec[s] /\ due[s] <= disk.kv.rec[s]
          /\ due[s] <= disk.kv.msgs[s]
      BY <1>0, <3>1 DEF Ahead
    <3>5. \A u \in Tabs : mem'[u][s].there => u = t
      BY <1>4, <3>1
    <3> QED BY <1>1, <3>1, <3>3, <3>4, <3>5 DEF Ahead
  <2> QED BY <2>1, <2>2
<1> QED BY <1>3, <1>5, <1>6, QuietNow

LEMMA QuietOperated ==
  ASSUME Types, SoFar, NEW s \in Sessions, QuietAt(s), s \notin raced',
         NEW t \in Tabs, NEW r \in Sessions, NEW ks \in Seq(Tasks), Operated(t, r, ks)
  PROVE  QuietAt(s)'
<1>0. OneAt(tasks, s) /\ Ready(s, tasks, mem, disk.kv, due[s]) /\ Ahead(s, mem, disk.kv, due[s])
  BY QuietParts
<1>1. /\ ks # <<>> /\ Begin(tasks, t, ks)
      /\ \A i \in 1..Len(ks) : ks[i] # Clear /\ ks[i].s = r /\ ks[i].part = "rec"
      /\ Len(ks) = 1 => \/ ks[1].kind = "persist" /\ mem'[t][r].there /\ ks[1].ver = ops + 1
                        \/ ks[1].kind = "remove" /\ due'[r] = None
      /\ mem'[t][r].ver = ops + 1
      /\ \A u \in Tabs, q \in Sessions : u # t \/ q # r => mem'[u][q] = mem[u][q]
      /\ mem[t][r].there \/ (~mem[t][r].there /\ r \notin used /\ r \in used')
      /\ \A q \in Sessions : due'[q] = due[q] \/ (q = r /\ due'[q] = None)
      /\ UNCHANGED disk
  BY DEF Operated, Begun
<1>2. tasks \in [Tabs -> Seq(Tasks)]
  BY LenTasks
<1>3. \A i \in 1..Len(ks) : Concerns(ks[i]) = {r}
  <2> TAKE i \in 1..Len(ks)
  <2>1. ks[i] \in Tasks /\ ks[i] # Clear /\ ks[i].s = r
    BY <1>1, ElementOfSeq
  <2>2. Concerns(ks[i]) = {ks[i].s}
    BY <2>1, ConcernFacts
  <2> QED BY <2>1, <2>2
<1>5. CASE s # r
  <2>1. /\ \A u \in Tabs : mem'[u][s] = mem[u][s]
        /\ due'[s] = due[s]
    BY <1>1, <1>5
  <2>2. Ready(s, tasks, mem', disk.kv, due'[s])
    BY <1>0, <2>1 DEF Ready
  <2>3. Len(ks) = 1 => Stage(ks[1], s, mem'[t][s], disk.kv, due'[s])
    <3>1. 1 \in 1..1
      OBVIOUS
    <3> QED BY <1>3, <1>5, <3>1 DEF Stage
  <2>4. OneAt(tasks', s) /\ Ready(s, tasks', mem', disk.kv, due'[s])
    BY <1>0, <1>1, <1>2, <2>2, <2>3, QuietBegin
  <2>5. Ahead(s, mem', disk.kv, due'[s])
    BY <1>0, <2>1 DEF Ahead
  <2> QED BY <1>1, <2>4, <2>5, QuietNow
<1>6. CASE s = r
  <2>1. s \in About(ks)
    <3>1. 1 \in 1..Len(ks)
      BY <1>1, LenProperties
    <3> QED BY <1>3, <1>6, <3>1, AboutFacts
  <2>2. Len(ks) = 1 => Stage(ks[1], s, mem'[t][s], disk.kv, due'[s])
    <3>1. 1 \in 1..1
      OBVIOUS
    <3> QED BY <1>1, <1>6, <3>1 DEF Stage
  <2>3. OneAt(tasks', s) /\ Ready(s, tasks', mem', disk.kv, due'[s])
    BY <1>0, <1>1, <1>2, <2>1, <2>2, QuietBegin
  <2>4. \A u \in Tabs : mem'[u][s].there => u = t
    <3> SUFFICES ASSUME NEW u \in Tabs, mem'[u][s].there, u # t PROVE FALSE
      OBVIOUS
    <3>1. mem[u][s].there
      BY <1>1
    <3>2. s \in used
      BY <3>1, SoFarParts DEF MemSoFar
    <3> QED BY <1>0, <1>1, <1>6, <3>1, <3>2 DEF Ahead
  <2>5. /\ ops \in Nat /\ disk.kv.rec[s] \in Nat /\ disk.kv.msgs[s] \in Nat /\ due[s] \in Nat
        /\ disk.kv.rec[s] <= ops /\ disk.kv.msgs[s] <= ops /\ due[s] <= ops
    BY Ranges, SoFarParts DEF DiskSoFar
  <2>6. due'[s] = due[s] \/ due'[s] = 0
    BY <1>1
  <2>7. /\ disk.kv.rec[s] <= ops + 1 /\ disk.kv.msgs[s] <= ops + 1 /\ due'[s] <= ops + 1
        /\ 0 <= disk.kv.rec[s] /\ 0 <= disk.kv.msgs[s]
    BY <2>5, <2>6
  <2>8. due'[s] <= disk.kv.rec[s] /\ due'[s] <= disk.kv.msgs[s]
    BY <1>0, <2>6, <2>7 DEF Ahead
  <2>9. disk.kv.rec[s] # None => disk.kv.msgs[s] <= disk.kv.rec[s]
    BY <1>0 DEF Ahead
  <2>10. mem'[t][s].ver = ops + 1
    BY <1>1, <1>6
  <2>11. Ahead(s, mem', disk.kv, due'[s])
    BY <2>4, <2>7, <2>8, <2>9, <2>10 DEF Ahead
  <2> QED BY <1>1, <2>3, <2>11, QuietNow
<1> QED BY <1>5, <1>6

LEMMA QuietEnable ==
  ASSUME Types, NEW s \in Sessions, QuietAt(s), s \notin raced',
         NEW t \in Tabs, EnableSecretPersistence(t)
  PROVE  QuietAt(s)'
<1>0. OneAt(tasks, s) /\ Ready(s, tasks, mem, disk.kv, due[s]) /\ Ahead(s, mem, disk.kv, due[s])
  BY QuietParts
<1>1. /\ \/ UNCHANGED <<tasks, raced, crowded>>
         \/ \E r \in Sessions : \E ks \in Seq(Tasks) : OneSave(t, r, ks) /\ Begin(tasks, t, ks)
      /\ UNCHANGED <<disk, mem, due>>
  BY EnableFacts
<1>2. CASE UNCHANGED tasks
  BY <1>0, <1>1, <1>2, QuietNow
<1>3. ASSUME NEW r \in Sessions, NEW ks \in Seq(Tasks), OneSave(t, r, ks), Begin(tasks, t, ks)
      PROVE  OneAt(tasks', s) /\ Ready(s, tasks', mem, disk.kv, due[s])
  <2>1. /\ ks # <<>> /\ tasks \in [Tabs -> Seq(Tasks)]
        /\ ks[1] # Clear /\ ks[1].kind = "persist" /\ ks[1].s = r /\ ks[1].part = "rec"
        /\ mem[t][r].there /\ ks[1].ver = mem[t][r].ver
    BY <1>3, LenTasks DEF OneSave
  <2>2. ks[1].s # None
    BY <2>1, NamesAssumption
  <2>3. Stage(ks[1], s, mem[t][s], disk.kv, due[s])
    BY <2>1, <2>2 DEF Stage, Concerns
  <2> QED BY <1>0, <1>3, <2>1, <2>3, QuietBegin
<1> QED BY <1>0, <1>1, <1>2, <1>3, QuietNow

LEMMA QuietClear ==
  ASSUME Types, NEW s \in Sessions, QuietAt(s), s \notin raced',
         NEW t \in Tabs, ClearPersistedData(t)
  PROVE  QuietAt(s)'
<1>0. OneAt(tasks, s) /\ Ready(s, tasks, mem, disk.kv, due[s]) /\ Ahead(s, mem, disk.kv, due[s])
  BY QuietParts
<1>1. /\ <<Clear>> \in Seq(Tasks) /\ <<Clear>> # <<>> /\ Len(<<Clear>>) = 1
      /\ <<Clear>>[1] = Clear /\ Begin(tasks, t, <<Clear>>)
      /\ due'[s] = None /\ UNCHANGED <<disk, mem>>
  BY ClearFacts
<1> DEFINE ks == <<Clear>>
<1>2. /\ ks \in Seq(Tasks) /\ ks # <<>> /\ Begin(tasks, t, ks) /\ Len(ks) = 1 /\ ks[1] = Clear
      /\ 1 \in 1..Len(ks)
  BY <1>1
<1> HIDE DEF ks
<1>3. s \in About(ks)
  BY <1>2, AboutFacts, ConcernFacts, TaskFacts
<1>4. Stage(ks[1], s, mem[t][s], disk.kv, due'[s])
  BY <1>1, <1>2, TaskFacts DEF Stage
<1>5. tasks \in [Tabs -> Seq(Tasks)]
  BY LenTasks
<1>6. OneAt(tasks', s) /\ Ready(s, tasks', mem, disk.kv, due'[s])
  BY <1>0, <1>2, <1>3, <1>4, <1>5, QuietBegin
<1>7. /\ disk.kv.rec[s] \in Nat /\ disk.kv.msgs[s] \in Nat
      /\ \A u \in Tabs : mem[u][s].ver \in Nat
  BY Ranges
<1>8. 0 <= disk.kv.rec[s] /\ 0 <= disk.kv.msgs[s] /\ \A u \in Tabs : 0 <= mem[u][s].ver
  BY <1>7
<1>9. Ahead(s, mem, disk.kv, due'[s])
  BY <1>0, <1>1, <1>8 DEF Ahead
<1> QED BY <1>1, <1>6, <1>9, QuietNow

\* The write of a task that is not about s.
LEMMA WriteElsewhere ==
  ASSUME Types, NEW s \in Sessions, NEW t \in Tabs, NEW k \in Tasks, s \notin Concerns(k),
         Wrote(t, k),
         due' = IF k.kind = "persist" /\ k.part = "idx" THEN [due EXCEPT ![k.s] = k.ver] ELSE due
  PROVE  /\ k # Clear /\ k.s # s
         /\ disk'.kv.rec[s] = disk.kv.rec[s] /\ disk'.kv.msgs[s] = disk.kv.msgs[s]
         /\ due'[s] = due[s]
<1>1. k # Clear /\ k.s # s
  BY ConcernFacts
<1>2. disk'.kv.rec[s] = disk.kv.rec[s] /\ disk'.kv.msgs[s] = disk.kv.msgs[s]
  BY <1>1 DEF Wrote
<1>3. due'[s] = due[s]
  BY <1>1 DEF Types, GhostType
<1> QED BY <1>1, <1>2, <1>3

\* The write of a save of s.
LEMMA WriteSave ==
  ASSUME Types, NEW s \in Sessions, NEW t \in Tabs, NEW k \in Tasks, k.kind = "persist",
         s \in Concerns(k), Wrote(t, k), Stage(k, s, mem[t][s], disk.kv, due[s]),
         Ahead(s, mem, disk.kv, due[s]),
         due' = IF k.kind = "persist" /\ k.part = "idx" THEN [due EXCEPT ![k.s] = k.ver] ELSE due
  PROVE  /\ k # Clear /\ k.s = s
         /\ Ahead(s, mem, disk'.kv, due'[s])
         /\ k.part # "idx" =>
              \A n \in Tasks : n = NextPart(t, k) => Stage(n, s, mem[t][s], disk'.kv, due'[s])
<1>1. k # Clear /\ k.s = s /\ k.part \in {"rec", "sec", "msgs", "idx"}
  BY ConcernFacts, TaskFacts DEF Parts
<1> DEFINE v == mem[t][s].ver
           rec == disk.kv.rec[s]
           msgs == disk.kv.msgs[s]
           rec1 == disk'.kv.rec[s]
           msgs1 == disk'.kv.msgs[s]
<1>2. /\ mem[t][s].there /\ k.ver = v
      /\ k.part # "rec" => rec = v
      /\ k.part = "msgs" => k.log = v
      /\ k.part = "idx" => msgs = v
  BY DEF Stage
<1>3. /\ rec1 = IF k.part = "rec" THEN v ELSE rec
      /\ msgs1 = IF k.part = "msgs" THEN v ELSE msgs
  BY <1>1, <1>2 DEF Wrote
<1>4. due'[s] = IF k.part = "idx" THEN v ELSE due[s]
  BY <1>1, <1>2 DEF Types, GhostType
<1>5. /\ \A u \in Tabs : mem[u][s].there => u = t
      /\ rec <= v /\ msgs <= v /\ due[s] <= v
      /\ due[s] <= rec /\ due[s] <= msgs
      /\ rec # None => msgs <= rec
  BY <1>2 DEF Ahead
<1>6. v \in Nat /\ rec \in Nat /\ msgs \in Nat /\ due[s] \in Nat
  BY Ranges
<1>a. \A u \in Tabs : mem[u][s].there => mem[u][s].ver = v
  BY <1>5
<1> HIDE DEF v, rec, msgs, rec1, msgs1
<1>7. v <= v
  BY <1>6
<1>8. /\ rec1 <= v /\ msgs1 <= v /\ due'[s] <= v
      /\ due'[s] <= rec1 /\ due'[s] <= msgs1
      /\ rec1 # None => msgs1 <= rec1
  <2>1. CASE k.part = "rec"
    BY <1>3, <1>4, <1>5, <1>7, <2>1
  <2>2. CASE k.part = "sec"
    BY <1>2, <1>3, <1>4, <1>5, <1>7, <2>2
  <2>3. CASE k.part = "msgs"
    BY <1>2, <1>3, <1>4, <1>5, <1>7, <2>3
  <2>4. CASE k.part = "idx"
    BY <1>2, <1>3, <1>4, <1>5, <1>7, <2>4
  <2> QED BY <1>1, <2>1, <2>2, <2>3, <2>4
<1>9. Ahead(s, mem, disk'.kv, due'[s])
  BY <1>5, <1>8, <1>a DEF Ahead, rec1, msgs1
<1>10. ASSUME k.part # "idx", NEW n \in Tasks, n = NextPart(t, k)
       PROVE  Stage(n, s, mem[t][s], disk'.kv, due'[s])
  <2>1. /\ n.kind = "persist" /\ n.ver = k.ver
        /\ k.part = "rec" <=> n.part = "sec"
        /\ k.part = "sec" <=> n.part = "msgs"
        /\ k.part = "msgs" <=> n.part = "idx"
        /\ n.log = IF n.part = "msgs" THEN mem[t][k.s].ver ELSE None
    BY <1>1, <1>10, NextFacts
  <2>2. n.ver = v /\ (n.part = "msgs" => n.log = v)
    BY <1>1, <1>2, <2>1 DEF v
  <2>3. rec1 = v
    BY <1>2, <1>3
  <2>4. n.part = "idx" => msgs1 = v
    BY <1>3, <2>1
  <2> QED BY <1>2, <2>1, <2>2, <2>3, <2>4 DEF Stage, rec1, msgs1, v
<1> QED BY <1>1, <1>9, <1>10

\* The write of a removal of s, or of a clear.
LEMMA WriteRemoval ==
  ASSUME Types, NEW s \in Sessions, NEW t \in Tabs, NEW k \in Tasks, k.kind # "persist",
         s \in Concerns(k), Wrote(t, k), Stage(k, s, mem[t][s], disk.kv, due[s]),
         Ahead(s, mem, disk.kv, due[s]),
         due' = IF k.kind = "persist" /\ k.part = "idx" THEN [due EXCEPT ![k.s] = k.ver] ELSE due
  PROVE  /\ Ahead(s, mem, disk'.kv, due'[s])
         /\ k # Clear /\ k.part # "idx" =>
              \A n \in Tasks : n = NextPart(t, k) => Stage(n, s, mem[t][s], disk'.kv, due'[s])
<1>1. due[s] = 0 /\ due'[s] = 0
  BY DEF Stage
<1>2. k # Clear => k.ver = 0 /\ k.log = 0
  BY TaskFacts DEF Removals
<1> DEFINE rec == disk.kv.rec[s]
           msgs == disk.kv.msgs[s]
           rec1 == disk'.kv.rec[s]
           msgs1 == disk'.kv.msgs[s]
<1>3. (rec1 = 0 /\ msgs1 = 0) \/ (rec1 \in {rec, 0} /\ msgs1 \in {msgs, 0})
  <2>1. CASE k = Clear
    BY <2>1, EmptyFacts DEF Wrote
  <2>2. CASE k # Clear
    BY <1>2, <2>2 DEF Wrote
  <2> QED BY <2>1, <2>2
<1>4. /\ rec \in Nat /\ msgs \in Nat /\ \A u \in Tabs : mem[u][s].ver \in Nat
  BY Ranges
<1>5. /\ \A u, w \in Tabs : mem[u][s].there /\ mem[w][s].there => u = w
      /\ \A u \in Tabs : mem[u][s].there => rec <= mem[u][s].ver /\ msgs <= mem[u][s].ver
      /\ rec # None => msgs <= rec
  BY DEF Ahead
<1> HIDE DEF rec, msgs, rec1, msgs1
<1>6. /\ 0 <= rec /\ 0 <= msgs /\ 0 <= 0 /\ \A u \in Tabs : 0 <= mem[u][s].ver
  BY <1>4
<1>7. /\ \A u \in Tabs : mem[u][s].there => rec1 <= mem[u][s].ver /\ msgs1 <= mem[u][s].ver
      /\ 0 <= rec1 /\ 0 <= msgs1
      /\ rec1 # None => msgs1 <= rec1
  BY <1>3, <1>5, <1>6
<1>8. Ahead(s, mem, disk'.kv, due'[s])
  BY <1>1, <1>5, <1>6, <1>7 DEF Ahead, rec1, msgs1
<1>9. ASSUME k # Clear, k.part # "idx", NEW n \in Tasks, n = NextPart(t, k)
      PROVE  Stage(n, s, mem[t][s], disk'.kv, due'[s])
  <2>1. n.kind = k.kind
    BY <1>9, NextFacts
  <2> QED BY <1>1, <2>1 DEF Stage
<1> QED BY <1>8, <1>9

LEMMA QuietWrite ==
  ASSUME Types, NEW s \in Sessions, QuietAt(s), s \notin raced',
         NEW t \in Tabs, NEW i, Write(t, i)
  PROVE  QuietAt(s)'
<1> DEFINE k == tasks[t][i]
           kv == disk'.kv
           d == due'[s]
<1>0. OneAt(tasks, s) /\ Ready(s, tasks, mem, disk.kv, due[s]) /\ Ahead(s, mem, disk.kv, due[s])
  BY QuietParts
<1>1. i \in 1..Len(tasks[t]) /\ k \in Tasks
  BY WriteFacts
<1>2. Wrote(t, k)
  BY WriteFacts
<1>3. GoesOn(t, i, k) \/ Ended(t, i, k) \/ Continues(t, i, k)
  BY WriteFacts
<1>4. due' = IF k.kind = "persist" /\ k.part = "idx" THEN [due EXCEPT ![k.s] = k.ver] ELSE due
  BY WriteFacts
<1>5. mem' = mem
  BY WriteFacts
<1>a. k = tasks[t][i]
  OBVIOUS
<1>b. kv = disk'.kv /\ d = due'[s]
  OBVIOUS
<1> HIDE DEF k, kv, d
<1>6. Stage(k, s, mem[t][s], disk.kv, due[s])
  BY <1>0, <1>1, <1>a DEF Ready
\* What is on disk, and the next write, if there is one.
<1>7. /\ Ahead(s, mem, kv, d)
      /\ k # Clear /\ k.part # "idx" =>
           \A n \in Tasks : n = NextPart(t, k) => Stage(n, s, mem[t][s], kv, d)
  <2>1. CASE s \notin Concerns(k)
    <3>1. /\ k # Clear /\ k.s # s
          /\ kv.rec[s] = disk.kv.rec[s] /\ kv.msgs[s] = disk.kv.msgs[s] /\ d = due[s]
      BY <1>1, <1>2, <1>4, <1>b, <2>1, WriteElsewhere
    <3>2. Ahead(s, mem, kv, d)
      BY <1>0, <3>1 DEF Ahead
    <3>3. ASSUME k.part # "idx", NEW n \in Tasks, n = NextPart(t, k)
          PROVE  Stage(n, s, mem[t][s], kv, d)
      <4>1. n # Clear /\ n.s = k.s
        BY <1>1, <3>1, <3>3, NextFacts
      <4>2. s \notin Concerns(n)
        BY <3>1, <4>1, ConcernFacts
      <4> QED BY <4>2 DEF Stage
    <3> QED BY <3>2, <3>3
  <2>2. CASE s \in Concerns(k) /\ k.kind = "persist"
    BY <1>0, <1>1, <1>2, <1>4, <1>6, <1>b, <2>2, WriteSave
  <2>3. CASE s \in Concerns(k) /\ k.kind # "persist"
    BY <1>0, <1>1, <1>2, <1>4, <1>6, <1>b, <2>3, WriteRemoval
  <2> QED BY <2>1, <2>2, <2>3
\* The other tasks.
<1>8. ASSUME NEW u \in Tabs, NEW j \in 1..Len(tasks[u]), ~(u = t /\ j = i)
      PROVE  Stage(tasks[u][j], s, mem[u][s], kv, d)
  <2>1. CASE s \in Concerns(k)
    <3>1. s \notin Concerns(tasks[u][j])
      BY <1>0, <1>1, <1>8, <1>a, <2>1 DEF OneAt
    <3> QED BY <3>1 DEF Stage
  <2>2. CASE s \notin Concerns(k)
    <3>1. kv.rec[s] = disk.kv.rec[s] /\ kv.msgs[s] = disk.kv.msgs[s] /\ d = due[s]
      BY <1>1, <1>2, <1>4, <1>b, <2>2, WriteElsewhere
    <3>2. Stage(tasks[u][j], s, mem[u][s], disk.kv, due[s])
      BY <1>0 DEF Ready
    <3> QED BY <3>1, <3>2 DEF Stage
  <2> QED BY <2>1, <2>2
<1>9. OneAt(Rest(t, i), s) /\ Ready(s, Rest(t, i), mem, kv, d)
  BY <1>0, <1>1, <1>8, QuietRest
<1>10. ASSUME GoesOn(t, i, k) PROVE OneAt(tasks', s) /\ Ready(s, tasks', mem, kv, d)
  <2>1. /\ k # Clear /\ k.part # "idx" /\ Len(tasks'[t]) = Len(tasks[t])
        /\ \A u \in Tabs : u # t => tasks'[u] = tasks[u]
        /\ \A j \in 1..Len(tasks[t]) : j # i => tasks'[t][j] = tasks[t][j]
        /\ tasks'[t][i] = NextPart(t, k)
    BY <1>10 DEF GoesOn
  <2> DEFINE n == NextPart(t, k)
  <2>2. n \in Tasks /\ n # Clear /\ n.s = k.s
    BY <1>1, <2>1, NextFacts
  <2>n. n = NextPart(t, k)
    OBVIOUS
  <2> HIDE DEF n
  <2>3. Concerns(n) = {n.s} /\ Concerns(k) = {k.s}
    BY <1>1, <2>1, <2>2, ConcernFacts
  <2>4. Stage(n, s, mem[t][s], kv, d)
    BY <1>7, <2>1, <2>2, <2>n
  <2>5. ASSUME NEW u \in Tabs, NEW j \in 1..Len(tasks'[u])
        PROVE  /\ j \in 1..Len(tasks[u])
               /\ s \in Concerns(tasks'[u][j]) => s \in Concerns(tasks[u][j])
               /\ Stage(tasks'[u][j], s, mem[u][s], kv, d)
    <3>1. CASE u = t /\ j = i
      BY <1>1, <1>a, <2>1, <2>2, <2>3, <2>4, <2>n, <3>1
    <3>2. CASE ~(u = t /\ j = i)
      <4>1. j \in 1..Len(tasks[u]) /\ tasks'[u][j] = tasks[u][j]
        BY <2>1, <3>2
      <4> QED BY <1>8, <3>2, <4>1
    <3> QED BY <3>1, <3>2
  <2>6. OneAt(tasks', s)
    BY <1>0, <2>5 DEF OneAt
  <2>7. Ready(s, tasks', mem, kv, d)
    BY <2>5 DEF Ready
  <2> QED BY <2>6, <2>7
<1>11. ASSUME Ended(t, i, k) PROVE OneAt(tasks', s) /\ Ready(s, tasks', mem, kv, d)
  BY <1>9, <1>11 DEF Ended
<1>12. ASSUME Continues(t, i, k) PROVE OneAt(tasks', s) /\ Ready(s, tasks', mem, kv, d)
  <2>1. PICK r \in Sessions, ks \in Seq(Tasks) : OneSave(t, r, ks) /\ Begin(Rest(t, i), t, ks)
    BY <1>12 DEF Continues
  <2> DEFINE T == Rest(t, i)
  <2>2. /\ ks # <<>> /\ T \in [Tabs -> Seq(Tasks)] /\ Begin(T, t, ks)
        /\ OneAt(T, s) /\ Ready(s, T, mem, kv, d)
    BY <1>1, <1>9, <2>1, RestFacts DEF OneSave
  <2>3. /\ ks[1] # Clear /\ ks[1].kind = "persist" /\ ks[1].s = r /\ ks[1].part = "rec"
        /\ mem[t][r].there /\ ks[1].ver = mem[t][r].ver /\ r # None
    BY <2>1, NamesAssumption DEF OneSave
  <2>4. Stage(ks[1], s, mem[t][s], kv, d)
    BY <2>3 DEF Stage, Concerns
  <2> HIDE DEF T
  <2> QED BY <2>2, <2>4, QuietBegin
<1>13. OneAt(tasks', s) /\ Ready(s, tasks', mem, kv, d)
  BY <1>3, <1>10, <1>11, <1>12
<1> QED BY <1>5, <1>7, <1>13, <1>b, QuietNow

LEMMA QuietNext ==
  ASSUME Types, SoFar, QuietInv, [Next]_vars
  PROVE  QuietInv'
<1>a. ASSUME UNCHANGED <<mem, tasks, disk.kv, due, raced, shared>> PROVE QuietInv'
  BY <1>a DEF QuietInv, QuietAt, OneAt, Stage, Concerns
<1>1. CASE UNCHANGED vars
  BY <1>1, <1>a DEF vars, tabVars, ghosts
<1>2. ASSUME NEW t \in Tabs, NextOf(t) PROVE QuietInv'
  <2>1. CASE \/ OpenTab(t) \/ ReadIndex(t) \/ Booted(t) \/ LoadFails(t)
             \/ FindKey(t) \/ StoreKey(t)
    <3>1. UNCHANGED <<mem, tasks, disk.kv, due, raced, shared>>
      BY <2>1, OpenFacts, AsideFacts, FindFacts, StoreFacts DEF Aside, ghosts
    <3> QED BY <3>1, <1>a
  <2>b. ASSUME raced \subseteq raced', shared \subseteq shared',
               \A s \in Sessions : QuietAt(s) /\ s \notin raced' /\ s \notin shared' => QuietAt(s)'
        PROVE  QuietInv'
    BY <2>b DEF QuietInv
  <2>c. ASSUME NEW T \in [Tabs -> Seq(Tasks)], NEW ks \in Seq(Tasks), ks # <<>>, Begin(T, t, ks)
        PROVE  raced \subseteq raced'
    BY <2>c, BeginFacts
  <2>t. tasks \in [Tabs -> Seq(Tasks)]
    BY LenTasks
  <2>3. ASSUME NEW r \in Sessions, LoadEntry(t, r) PROVE QuietInv'
    <3>1. shared \subseteq shared' /\ UNCHANGED raced
      BY <2>3, LoadFacts
    <3> QED BY <2>3, <2>b, <3>1, QuietLoad
  <2>4. ASSUME NEW r \in Sessions, NEW ks \in Seq(Tasks), Operated(t, r, ks) PROVE QuietInv'
    <3>1. ks # <<>> /\ Begin(tasks, t, ks) /\ UNCHANGED shared
      BY <2>4 DEF Operated, Begun
    <3>2. raced \subseteq raced'
      BY <2>c, <2>t, <3>1
    <3> QED BY <2>4, <2>b, <3>1, <3>2, QuietOperated
  <2>5. CASE CloseTab(t)
    <3>1. UNCHANGED <<raced, shared>>
      BY <2>5, CloseFacts
    <3> QED BY <2>5, <2>b, <3>1, QuietClose
  <2>6. CASE EnableSecretPersistence(t)
    <3>1. /\ \/ UNCHANGED <<tasks, raced, crowded>>
             \/ \E s \in Sessions : \E ks \in Seq(Tasks) : OneSave(t, s, ks) /\ Begin(tasks, t, ks)
          /\ UNCHANGED shared
      BY <2>6, EnableFacts
    <3>2. raced \subseteq raced'
      BY <2>c, <2>t, <3>1 DEF OneSave
    <3> QED BY <2>6, <2>b, <3>1, <3>2, QuietEnable
  <2>7. CASE ClearPersistedData(t)
    <3>1. /\ <<Clear>> \in Seq(Tasks) /\ <<Clear>> # <<>> /\ Begin(tasks, t, <<Clear>>)
          /\ UNCHANGED shared
      BY <2>7, ClearFacts
    <3>2. raced \subseteq raced'
      BY <2>c, <2>t, <3>1
    <3> QED BY <2>7, <2>b, <3>1, <3>2, QuietClear
  <2>8. ASSUME NEW i \in 1..MaxTasks, Write(t, i) PROVE QuietInv'
    <3>1. i \in 1..Len(tasks[t]) /\ UNCHANGED shared
      BY <2>8, WriteFacts
    <3>2. \/ GoesOn(t, i, tasks[t][i]) \/ Ended(t, i, tasks[t][i])
          \/ Continues(t, i, tasks[t][i])
      BY <2>8, WriteFacts
    <3>3. Rest(t, i) \in [Tabs -> Seq(Tasks)]
      BY <3>1, RestFacts
    <3>4. raced \subseteq raced'
      BY <2>c, <3>2, <3>3 DEF GoesOn, Ended, Continues, OneSave
    <3> QED BY <2>8, <2>b, <3>1, <3>4, QuietWrite
  <2> QED BY <1>2, <2>1, <2>3, <2>4, <2>5, <2>6, <2>7, <2>8 DEF NextOf
<1> QED BY <1>1, <1>2, Steps

-----------------------------------------------------------------------------
(* Theorems *)

Inv == Types /\ SoFar /\ KeyInv /\ ClearedInv /\ QuietInv /\ IndexInv

\* The invariant of the tabs and the disk: whose the key is, what each task has put so
\* far, and how far the disk is behind the tab that has the session (SessionManager.js,
\* IndexedDbStorageAdapter.js).
THEOREM Invariant == Spec => []Inv
<1>1. Init => Inv
  BY TypeInit, SoFarInit, KeyInit, ClearedInit, QuietInit, IndexInit DEF Inv
<1>2. Inv /\ [Next]_vars => Inv'
  BY TypeNext, SoFarNext, KeyNext, ClearedNext, QuietNext, IndexNext DEF Inv
<1> QED BY <1>1, <1>2, PTL DEF Spec

\* The range of a task, as TypeOK has it.
InRange(k) ==
  /\ k.kind \in {"persist", "remove", "clear"} /\ k.s \in Sessions \cup {None}
  /\ k.part \in {"rec", "sec", "msgs", "idx", "all"} /\ k.secret \in BOOLEAN
  /\ k.ver \in 0..MaxOps /\ k.log \in 0..MaxOps
  /\ k.ids \subseteq Sessions /\ k.seen \subseteq Sessions

LEMMA TaskTypes ==
  ASSUME Types, NEW t \in Tabs, NEW k \in ToSet(tasks[t])
  PROVE  InRange(k)
<1>1. k \in Tasks
  <2>1. tasks[t] \in Seq(Tasks)
    BY LenTasks
  <2> QED BY <2>1, ToSetDef
<1>2. Clear.ids = {}
  BY DEF Clear
<1>3. k.part \in Parts \cup {"all"} /\ k.s \in Sessions \cup {None} /\ k.ids \subseteq Sessions
  BY <1>1, <1>2, TaskFacts
<1> QED BY <1>1, <1>3, TaskFacts DEF Parts, InRange

\* Every variable stays in its range, and the key is stored before the first value
\* (_getEncryptionKey and save in IndexedDbStorageAdapter.js).
THEOREM TypeCorrect == Spec => []TypeOK
<1>1. Types /\ KeyInv => TypeOK
  <2> SUFFICES ASSUME Types, KeyInv PROVE TypeOK
    OBVIOUS
  <2>1. /\ disk.enc \in Tabs \cup {None} /\ disk.kv \in Stores
        /\ disk.enc = None => disk.kv = EmptyStore
    BY DEF Types, DiskType, KeyInv
  <2>2. \A t \in Tabs : Len(tasks[t]) <= MaxTasks /\ \A k \in ToSet(tasks[t]) : InRange(k)
    BY TaskTypes DEF Types, TaskType
  <2> QED BY <2>1, <2>2 DEF Types, TabType, MemType, GhostType, CountType, Stores, Entries,
                            InRange, TypeOK
<1> QED BY <1>1, Invariant, PTL DEF Inv

\* All tabs use the key on disk, and no value is of another one, unless two tabs made a
\* key at once (_getEncryptionKey in IndexedDbStorageAdapter.js).
THEOREM SharedKey == Spec => []KeyIsShared
<1>1. KeyInv => KeyIsShared
  BY DEF KeyInv, KeyIsShared
<1> QED BY <1>1, Invariant, PTL DEF Inv

\* After a clear with nothing under way no secrets come back until a user has them kept,
\* whatever is saved meanwhile (clearPersistedData and _persistSession in
\* SessionManager.js).
THEOREM SecretsStayGone == Spec => []ClearedSecretsAreGone
<1>1. Types /\ ClearedInv => ClearedSecretsAreGone
  <2> SUFFICES ASSUME Types, ClearedInv, cleared,
                      \A t \in Tabs : Clear \notin ToSet(tasks[t])
               PROVE  disk.kv.sec = {}
    BY DEF ClearedSecretsAreGone
  <2>1. ASSUME NEW t \in Tabs, NEW i \in 1..Len(tasks[t]) PROVE tasks[t][i] # Clear
    <3>1. tasks[t] \in Seq(Tasks)
      BY LenTasks
    <3>2. ToSet(tasks[t]) = {tasks[t][j] : j \in 1..Len(tasks[t])}
      BY <3>1, ToSetDef
    <3> QED BY <3>2
  <2> QED BY <2>1 DEF ClearedInv
<1> QED BY <1>1, Invariant, PTL DEF Inv

\* What the last task to end was called with is on disk, or a later state is, of a session
\* that no two tasks and no two tabs had at once, wherever the tab was closed
\* (_persistSession in SessionManager.js).
THEOREM SavedStaysSaved == Spec => []Durable
<1>1. Types /\ QuietInv => Durable
  <2> SUFFICES ASSUME Types, QuietInv, NEW s \in Sessions, s \notin raced, s \notin shared
               PROVE  disk.kv.rec[s] >= due[s] /\ disk.kv.msgs[s] >= due[s]
    BY DEF Durable, Quiet
  <2>1. due[s] <= disk.kv.rec[s] /\ due[s] <= disk.kv.msgs[s]
    BY DEF QuietInv, QuietAt
  <2> QED BY <2>1, Ranges
<1> QED BY <1>1, Invariant, PTL DEF Inv

\* Of such a session the messages on disk are never newer than the record with its
\* counters: _persistSession puts the record first.
THEOREM RecordFirst == Spec => []HistoryWithinRecord
<1>1. QuietInv => HistoryWithinRecord
  BY DEF HistoryWithinRecord, Quiet, QuietInv, QuietAt
<1> QED BY <1>1, Invariant, PTL DEF Inv

\* No step takes a session that its tab has out of the index but a deletion or a clear,
\* unless tasks overlapped (the index that _persistSession and _removePersistedSession
\* save).
THEOREM IndexOfHeld == Spec => IndexKeepsWhatIsHeld
<1>1. Inv /\ [Next]_vars =>
        [~crowded => \A s \in disk.kv.idx \ disk.kv.idx' :
           \E t \in Tabs : \/ tasks'[t] # tasks[t] /\ ~mem[t][s].there
                           \/ Clear \in ToSet(tasks[t])]_vars
  BY IndexStep DEF Inv
<1> QED BY <1>1, Invariant, PTL DEF Spec, IndexKeepsWhatIsHeld
=============================================================================
