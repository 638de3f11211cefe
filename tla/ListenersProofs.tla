--------------------------- MODULE ListenersProofs ---------------------------
(***************************************************************************)
(* Of the watchers, for any watchers, configurations and bounds: what runs     *)
(* follows the rows and a stopped instance is quiet.  Of a voice session, for   *)
(* any bounds: an interrupted turn is not heard again.                        *)
(***************************************************************************)
EXTENDS Listeners, FiniteSetTheorems, TLAPS

\* Only the instance in the entry runs, under the entry's signature.
EntryRuns ==
    \A i \in Instance : Up(i) => i[2] = entry[i[1]] /\ inst[i].cfg = signature[i[1]]

\* Numbers are given in order.
NumbersGrow ==
    /\ \A w \in Watcher : entry[w] <= made[w]
    /\ \A i \in Instance : i[2] > made[i[1]] => inst[i] = None

\* An entry names a running instance, unless it is stranded.
EntryIsUp ==
    \A w \in Watcher :
        /\ entry[w] # 0 /\ w \notin stranded => Up(<<w, entry[w]>>)
        /\ w \in stranded => entry[w] # 0 /\ ~Up(<<w, entry[w]>>)

\* What a reload has made of the rows it has read.
Synced ==
    \A w \in Watcher \ unread :
        IF Wanted(row[w])
        THEN IF entry[w] = 0 THEN row[w].cfg \in Faulty
             ELSE signature[w] = row[w].cfg \/ w \in stranded
        ELSE entry[w] = 0

\* Polls of an instance do not overlap, and a stopped one that is kept waits for its
\* last answer.
OneRequest ==
    \A i \in Instance : inst[i] # None =>
        /\ inst[i].polling \/ inst[i].asked = {}
        /\ inst[i].asked = {} \/ \E a \in 0..MaxVersion : inst[i].asked = {a}
        /\ inst[i].armed \/ (~inst[i].timer /\ inst[i].asked # {})

Supervised == EntryRuns /\ NumbersGrow /\ EntryIsUp /\ Synced
IInv == TypeOK /\ Supervised /\ OneRequest

-----------------------------------------------------------------------------
\* What the operators of Reload return.

LEMMA Pairs == \A i \in Instance : i[1] \in Watcher /\ i[2] \in 1..MaxInstances /\ i = <<i[1], i[2]>>
BY DEF Instance

LEMMA WantedIsRow ==
    ASSUME NEW r \in Row \cup {None, Gone}, Wanted(r)
    PROVE  r \in Row /\ r.cfg \in Config
BY DEF Wanted, Row

\* A new instance runs under its configuration and has at most its first request.
LEMMA SpawnedRuns ==
    ASSUME TypeOK, NEW w \in Watcher, NEW c \in Polled \cup Watched
    PROVE  LET r == Spawn(w, c)
           IN  /\ r \in Status /\ r # None /\ r.armed /\ r.cfg = c
               /\ r.polling \/ r.asked = {}
               /\ r.asked = {} \/ \E a \in 0..MaxVersion : r.asked = {a}
<1>1. version[c] \in 0..MaxVersion BY DEF TypeOK, Config
<1>2. Spawn(w, c) \in Status BY <1>1, WatchersAssumption DEF Spawn, Status
<1> QED BY <1>1, <1>2, WatchersAssumption DEF Spawn

\* An instance that is kept has its type; one that is not is none.
LEMMA KeptTypes ==
    ASSUME NEW r \in Status
    PROVE  /\ Kept(r) \in {None} \cup Status
           /\ Kept(r) # None => Kept(r) = r /\ (r.armed \/ r.timer \/ r.asked # {})
           /\ r.armed => Kept(r) = r
BY DEF Kept

\* A stopped instance does not run, and waits at most for its request.
LEMMA HaltedIsDown ==
    ASSUME NEW i \in Instance, inst[i] \in Status
    PROVE  /\ Halt(i) \in {None} \cup Status
           /\ Halt(i) # None => /\ ~Halt(i).armed /\ ~Halt(i).timer
                                /\ Halt(i).asked = inst[i].asked /\ Halt(i).asked # {}
                                /\ Halt(i).polling = inst[i].polling
<1> DEFINE r == [inst[i] EXCEPT !.armed = FALSE, !.timer = FALSE]
<1>1. /\ r \in Status /\ ~r.armed /\ ~r.timer
      /\ r.asked = inst[i].asked /\ r.polling = inst[i].polling
    BY DEF Status
<1>2. Halt(i) = Kept(r) BY DEF Halt
<1> HIDE DEF r
<1> QED BY <1>1, <1>2, KeptTypes

-----------------------------------------------------------------------------
\* Steps that make and stop no instance: what runs goes on under its configuration.

Calm ==
    /\ row' = row /\ unread' = unread /\ entry' = entry /\ signature' = signature
    /\ made' = made /\ stranded' = stranded
    /\ \A i \in Instance :
         /\ inst'[i] # None => inst[i] # None
         /\ Up(i)' <=> Up(i)
         /\ Up(i) => inst'[i].cfg = inst[i].cfg

LEMMA CalmKeeps ==
    ASSUME TypeOK, Supervised, Calm PROVE Supervised'
<1>1. EntryRuns' BY Pairs DEF Supervised, EntryRuns, Calm
<1>2. NumbersGrow' BY Pairs DEF Supervised, NumbersGrow, Calm
<1>3. ASSUME NEW w \in Watcher PROVE entry[w] # 0 => <<w, entry[w]>> \in Instance
    BY WatchersAssumption DEF TypeOK, Instance
<1>4. EntryIsUp' BY <1>3 DEF Supervised, EntryIsUp, Calm
<1>5. Synced' BY DEF Supervised, Synced, Calm
<1> QED BY <1>1, <1>2, <1>4, <1>5 DEF Supervised

\* One instance is replaced by what Kept leaves of a record that runs as it did.
LEMMA OneChanges ==
    ASSUME TypeOK, OneRequest, NEW i \in Instance, inst[i] # None, NEW r \in Status,
           r.armed = inst[i].armed, r.cfg = inst[i].cfg, ~r.armed => ~r.timer,
           r.polling \/ r.asked = {}, r.asked = {} \/ \E a \in 0..MaxVersion : r.asked = {a},
           inst' = [inst EXCEPT ![i] = Kept(r)],
           row' = row, unread' = unread, entry' = entry, signature' = signature,
           made' = made, stranded' = stranded
    PROVE  Calm /\ OneRequest' /\ inst' \in [Instance -> {None} \cup Status]
<1>1. inst'[i] = Kept(r) /\ \A j \in Instance \ {i} : inst'[j] = inst[j] BY DEF TypeOK
<1>2. inst' \in [Instance -> {None} \cup Status] BY KeptTypes DEF TypeOK
<1>3. inst'[i] # None => inst'[i] = r /\ (r.armed \/ r.timer \/ r.asked # {}) BY <1>1, KeptTypes
<1>4. r.armed => inst'[i] = r BY <1>1, KeptTypes
<1>5. r # None BY WatchersAssumption
<1>6. Calm BY <1>1, <1>3, <1>4, <1>5 DEF Calm, Up
<1>7. OneRequest' BY <1>1, <1>3 DEF OneRequest
<1> QED BY <1>2, <1>6, <1>7

-----------------------------------------------------------------------------

LEMMA InitIInv == Init => IInv
<1> SUFFICES ASSUME Init PROVE IInv OBVIOUS
<1>1. TypeOK BY WatchersAssumption DEF Init, TypeOK
<1>2. Supervised BY WatchersAssumption, Pairs DEF Init, Supervised, EntryRuns, NumbersGrow, EntryIsUp, Synced, Up, Wanted
<1>3. OneRequest BY DEF Init, OneRequest
<1> QED BY <1>1, <1>2, <1>3 DEF IInv

\* A reload, after which the store holds the rows it read.
LEMMA ReloadKeeps ==
    ASSUME IInv, NEW rows \in [Watcher -> Row \cup {None, Gone}], row' = rows, Reload(rows),
           UNCHANGED <<version, recent>>
    PROVE  IInv'
<1> USE WatchersAssumption DEF IInv
<1>1. ASSUME NEW w \in Made(rows)
      PROVE  /\ w \in Watcher /\ Wanted(rows[w]) /\ rows[w].cfg \in Polled \cup Watched
             /\ made[w] + 1 \in 1..MaxInstances
    <2>1. /\ w \in Watcher /\ Wanted(rows[w]) /\ rows[w].cfg \notin Faulty
          /\ made[w] < MaxInstances
        BY DEF Made, Differs, Reload
    <2>2. rows[w].cfg \in Config BY <2>1, WantedIsRow
    <2> QED BY <2>1, <2>2 DEF Config, TypeOK
<1>2. ASSUME NEW i \in Instance
      PROVE  \/ /\ i[1] \in Left(rows) /\ i[2] = entry[i[1]] /\ inst[i] # None
                /\ inst'[i] = Halt(i)
             \/ /\ i[1] \in Made(rows) /\ i[2] = made[i[1]] + 1
                /\ inst'[i] = Spawn(i[1], rows[i[1]].cfg) /\ inst[i] = None
             \/ /\ ~(i[1] \in Left(rows) /\ i[2] = entry[i[1]] /\ inst[i] # None)
                /\ ~(i[1] \in Made(rows) /\ i[2] = made[i[1]] + 1)
                /\ inst'[i] = inst[i]
    <2>1. i[2] = made[i[1]] + 1 => inst[i] = None
        BY Pairs DEF Supervised, NumbersGrow, TypeOK
    <2> QED BY <2>1 DEF Reload
<1>3. \A i \in Instance : inst[i] # None => inst[i] \in Status BY DEF TypeOK
<1>4. TypeOK'
    <2>1. inst' \in [Instance -> {None} \cup Status]
        <3>1. ASSUME NEW i \in Instance PROVE inst'[i] \in {None} \cup Status
            BY <1>1, <1>2, <1>3, Pairs, SpawnedRuns, HaltedIsDown DEF TypeOK
        <3>2. inst' = [i \in Instance |-> inst'[i]] BY DEF Reload
        <3> QED BY <3>1, <3>2
    <2>2. \A w \in Watcher : Wanted(rows[w]) => rows[w].cfg \in Config BY WantedIsRow
    <2>3. entry' \in [Watcher -> 0..MaxInstances] /\ made' \in [Watcher -> 0..MaxInstances]
        BY <1>1 DEF Reload, TypeOK
    <2>4. signature' \in [Watcher -> {None} \cup Config]
        BY <1>1, <2>2 DEF Reload, TypeOK
    <2>5. stranded' \subseteq Watcher BY DEF Reload, Left, TypeOK
    <2>6. unread' \subseteq Watcher BY DEF Reload
    <2> QED BY <2>1, <2>3, <2>4, <2>5, <2>6 DEF TypeOK
<1>5. OneRequest'
    <2>1. ASSUME NEW i \in Instance, inst'[i] # None
          PROVE  /\ inst'[i].polling \/ inst'[i].asked = {}
                 /\ inst'[i].asked = {} \/ \E a \in 0..MaxVersion : inst'[i].asked = {a}
                 /\ inst'[i].armed \/ (~inst'[i].timer /\ inst'[i].asked # {})
        <3>1. CASE inst[i] # None /\ inst'[i] = Halt(i)
            BY <1>3, <2>1, <3>1, HaltedIsDown DEF OneRequest
        <3>2. CASE i[1] \in Made(rows) /\ inst'[i] = Spawn(i[1], rows[i[1]].cfg)
            BY <1>1, <3>2, SpawnedRuns
        <3>3. CASE inst'[i] = inst[i] BY <2>1, <3>3 DEF OneRequest
        <3> QED BY <1>2, <3>1, <3>2, <3>3
    <2> QED BY <2>1 DEF OneRequest
\* How the entry of each watcher comes out.
<1>6. ASSUME NEW w \in Watcher
      PROVE  \/ ~Wanted(rows[w]) /\ entry'[w] = 0 /\ made'[w] = made[w] /\ w \notin stranded'
             \/ /\ w \in Made(rows) /\ entry'[w] = made[w] + 1 /\ made'[w] = made[w] + 1
                /\ signature'[w] = rows[w].cfg /\ w \notin stranded'
             \/ /\ Wanted(rows[w]) /\ w \notin Made(rows)
                /\ entry'[w] = entry[w] /\ made'[w] = made[w] /\ signature'[w] = signature[w]
                /\ w \in stranded' <=> (w \in stranded \/ w \in Left(rows))
    BY <1>1 DEF Reload
<1>7. NumbersGrow'
    <2>1. \A w \in Watcher : entry'[w] <= made'[w]
        BY <1>6 DEF Supervised, NumbersGrow, TypeOK
    <2>2. ASSUME NEW i \in Instance, i[2] > made'[i[1]] PROVE inst'[i] = None
        <3>1. i[1] \in Watcher /\ i[2] \in 1..MaxInstances BY Pairs
        <3>2. made[i[1]] <= made'[i[1]] BY <1>6, <3>1 DEF TypeOK
        <3>3. inst[i] = None /\ i[2] # entry[i[1]]
            BY <2>2, <3>1, <3>2, <1>4 DEF Supervised, NumbersGrow, TypeOK
        <3>4. i[1] \in Made(rows) => i[2] # made[i[1]] + 1
            BY <1>6, <2>2, <3>1, <1>1 DEF TypeOK, Made
        <3> QED BY <1>2, <3>3, <3>4
    <2> QED BY <2>1, <2>2 DEF NumbersGrow
<1>8. ASSUME NEW i \in Instance, Up(i)'
      PROVE  i[2] = entry'[i[1]] /\ inst'[i].cfg = signature'[i[1]] /\ i[1] \notin stranded'
    <2>1. i[1] \in Watcher BY Pairs
    <2>2. CASE i[1] \in Made(rows) /\ i[2] = made[i[1]] + 1 /\ inst'[i] = Spawn(i[1], rows[i[1]].cfg)
        BY <1>1, <1>6, <2>1, <2>2, SpawnedRuns
    <2>3. CASE inst'[i] = Halt(i) /\ inst[i] # None
        BY <1>3, <1>8, <2>3, HaltedIsDown DEF Up
    <2>4. CASE /\ inst'[i] = inst[i]
               /\ ~(i[1] \in Left(rows) /\ i[2] = entry[i[1]] /\ inst[i] # None)
        <3>1. Up(i) BY <1>8, <2>4 DEF Up
        <3>2. i[2] = entry[i[1]] /\ inst[i].cfg = signature[i[1]] BY <3>1 DEF Supervised, EntryRuns
        <3>3. entry[i[1]] # 0 BY <3>2, Pairs
        <3>4. i[1] \notin Left(rows) BY <2>4, <3>1, <3>2 DEF Up
        <3>5. Wanted(rows[i[1]]) /\ i[1] \notin Made(rows) BY <2>1, <3>3, <3>4 DEF Left, Made
        <3>6. i[1] \notin stranded BY <2>1, <3>1, <3>2, Pairs DEF Supervised, EntryIsUp
        <3> QED BY <1>6, <2>1, <2>4, <3>2, <3>4, <3>5, <3>6
    <2> QED BY <1>2, <2>2, <2>3, <2>4
<1>9. EntryIsUp'
    <2>1. ASSUME NEW w \in Watcher, w \in stranded'
          PROVE  entry'[w] # 0 /\ ~Up(<<w, entry[w]>>)'
        <3>1. /\ entry'[w] = entry[w] /\ (w \in stranded \/ w \in Left(rows))
            BY <1>6, <2>1
        <3>2. entry[w] # 0 BY <3>1 DEF Left, Supervised, EntryIsUp
        <3>3. <<w, entry[w]>> \in Instance BY <3>2 DEF TypeOK, Instance
        <3> QED BY <1>8, <2>1, <3>1, <3>2, <3>3
    <2>2. ASSUME NEW w \in Watcher, entry'[w] # 0, w \notin stranded'
          PROVE  Up(<<w, entry[w]>>)'
        <3>1. CASE w \in Made(rows) /\ entry'[w] = made[w] + 1
            <4> DEFINE i == <<w, entry'[w]>>
            <4>1. i \in Instance /\ i[1] = w /\ i[2] = made[w] + 1 BY <1>1, <3>1 DEF Instance
            <4>2. entry[w] # made[w] + 1 BY <1>1 DEF Supervised, NumbersGrow, TypeOK
            <4>3. inst'[i] = Spawn(w, rows[w].cfg) BY <1>2, <3>1, <4>1, <4>2
            <4> QED BY <1>1, <3>1, <4>3, SpawnedRuns DEF Up
        <3>2. CASE /\ Wanted(rows[w]) /\ w \notin Made(rows) /\ entry'[w] = entry[w]
                   /\ w \notin stranded /\ w \notin Left(rows)
            <4> DEFINE i == <<w, entry[w]>>
            <4>1. i \in Instance /\ i[1] = w BY <2>2, <3>2 DEF TypeOK, Instance
            <4>2. Up(i) BY <2>2, <3>2 DEF Supervised, EntryIsUp
            <4>3. inst'[i] = inst[i] BY <1>2, <3>2, <4>1
            <4> QED BY <3>2, <4>2, <4>3 DEF Up
        <3> QED BY <1>6, <2>2, <3>1, <3>2
    <2> QED BY <2>1, <2>2 DEF EntryIsUp
<1>10. Synced'
    <2>1. ASSUME NEW w \in Watcher
          PROVE  IF Wanted(rows[w])
                 THEN IF entry'[w] = 0 THEN rows[w].cfg \in Faulty
                      ELSE signature'[w] = rows[w].cfg \/ w \in stranded'
                 ELSE entry'[w] = 0
        <3>1. CASE ~Wanted(rows[w]) BY <1>6, <1>1, <3>1
        <3>2. CASE w \in Made(rows) BY <1>1, <1>6, <3>2 DEF TypeOK
        <3>3. CASE Wanted(rows[w]) /\ w \notin Made(rows)
            <4>1. w \in Differs(rows) => rows[w].cfg \in Faulty BY <3>3 DEF Made
            <4>2. w \in Differs(rows) <=> entry[w] = 0 \/ signature[w] # rows[w].cfg
                BY <3>3 DEF Differs
            <4>3. w \in Differs(rows) /\ entry[w] # 0 => w \in Left(rows) BY DEF Left
            <4> QED BY <1>6, <3>3, <4>1, <4>2, <4>3
        <3> QED BY <3>1, <3>2, <3>3
    <2> QED BY <2>1 DEF Synced, Wanted
<1>11. EntryRuns' BY <1>8 DEF EntryRuns
<1> QED BY <1>4, <1>5, <1>7, <1>9, <1>10, <1>11 DEF Supervised

LEMMA EditsAreRows ==
    ASSUME TypeOK, NEW w \in Watcher, NEW r \in Edits(w)
    PROVE  [row EXCEPT ![w] = r] \in [Watcher -> Row \cup {None, Gone}]
<1>1. r \in Row \cup {Gone} BY DEF Edits, Row
<1> QED BY <1>1 DEF TypeOK

LEMMA RouteEditKeeps == ASSUME IInv, NEW w \in Watcher, RouteEdit(w) PROVE IInv'
<1> PICK r \in Edits(w) : /\ row' = [row EXCEPT ![w] = r]
                          /\ Reload(row') /\ UNCHANGED <<version, recent>>
    BY DEF RouteEdit
<1>1. row' \in [Watcher -> Row \cup {None, Gone}] BY EditsAreRows DEF IInv
<1> QED BY <1>1, ReloadKeeps

LEMMA ToolEditKeeps == ASSUME IInv, NEW w \in Watcher, ToolEdit(w) PROVE IInv'
<1> PICK r \in Edits(w) : row' = [row EXCEPT ![w] = r] BY DEF ToolEdit
<1> USE DEF IInv
<1>1. TypeOK' BY EditsAreRows DEF ToolEdit, TypeOK
<1>2. EntryRuns' /\ NumbersGrow' /\ EntryIsUp'
    BY DEF ToolEdit, Supervised, EntryRuns, NumbersGrow, EntryIsUp, Up
<1>3. Synced'
    <2>1. \A v \in Watcher \ unread' : v \notin unread /\ row'[v] = row[v] BY DEF ToolEdit, TypeOK
    <2> QED BY <2>1 DEF ToolEdit, Supervised, Synced
<1>4. OneRequest' BY DEF ToolEdit, OneRequest
<1> QED BY <1>1, <1>2, <1>3, <1>4 DEF Supervised

LEMMA ChangeKeeps == ASSUME IInv, NEW c \in Polled \cup Watched, Change(c) PROVE IInv'
<1> USE WatchersAssumption DEF IInv
<1>1. ASSUME NEW i \in Instance
      PROVE  \/ inst'[i] = inst[i]
             \/ Up(i) /\ inst[i] \in Status /\ inst'[i] = [inst[i] EXCEPT !.timer = TRUE]
    BY DEF Change, Up, TypeOK
<1>2. ASSUME NEW i \in Instance, inst[i] \in Status
      PROVE  LET r == [inst[i] EXCEPT !.timer = TRUE]
             IN  /\ r \in Status /\ r.armed = inst[i].armed /\ r.cfg = inst[i].cfg
                 /\ r.asked = inst[i].asked /\ r.polling = inst[i].polling /\ r # None
    BY <1>2 DEF Status
<1>3. inst' \in [Instance -> {None} \cup Status]
    <2>1. inst' = [i \in Instance |-> inst'[i]] BY DEF Change
    <2>2. \A i \in Instance : inst'[i] \in {None} \cup Status BY <1>1, <1>2 DEF TypeOK
    <2> QED BY <2>1, <2>2
<1>4. TypeOK' BY <1>3 DEF Change, TypeOK, Config
<1>5. Calm BY <1>1, <1>2 DEF Change, Calm, Up
<1>6. ASSUME NEW i \in Instance, inst'[i] # None
      PROVE  /\ inst'[i].polling \/ inst'[i].asked = {}
             /\ inst'[i].asked = {} \/ \E a \in 0..MaxVersion : inst'[i].asked = {a}
             /\ inst'[i].armed \/ (~inst'[i].timer /\ inst'[i].asked # {})
    <2>1. CASE inst'[i] = inst[i] BY <1>6, <2>1 DEF OneRequest
    <2>2. CASE Up(i) /\ inst[i] \in Status /\ inst'[i] = [inst[i] EXCEPT !.timer = TRUE]
        BY <1>2, <2>2 DEF OneRequest, Up
    <2> QED BY <1>1, <2>1, <2>2
<1>7. OneRequest' BY <1>6 DEF OneRequest
<1> QED BY <1>4, <1>5, <1>7, CalmKeeps

LEMMA PollKeeps == ASSUME IInv, NEW i \in Instance, Poll(i) PROVE IInv'
<1> USE WatchersAssumption DEF IInv
<1> DEFINE r == [inst[i] EXCEPT !.polling = TRUE, !.asked = @ \cup {version[inst[i].cfg]}]
<1>1. inst[i] # None /\ inst[i] \in Status /\ inst[i].armed /\ inst[i].asked = {}
    BY DEF Poll, Up, TypeOK, OneRequest
<1>2. version[inst[i].cfg] \in 0..MaxVersion BY <1>1 DEF Status, TypeOK, Config
<1>3. /\ r \in Status /\ r.armed /\ r.cfg = inst[i].cfg /\ r.polling
      /\ r.asked = {version[inst[i].cfg]}
    BY <1>1, <1>2 DEF Status
<1>4. Kept(r) = r BY <1>3, KeptTypes
<1>5. inst' = [inst EXCEPT ![i] = r] BY DEF Poll
<1>6. /\ Calm /\ OneRequest' /\ inst' \in [Instance -> {None} \cup Status]
    <2>1. UNCHANGED <<row, unread, entry, signature, made, version, recent, stranded>> BY DEF Poll
    <2>2. \E a \in 0..MaxVersion : r.asked = {a} BY <1>2, <1>3
    <2> HIDE DEF r
    <2>3. inst' = [inst EXCEPT ![i] = Kept(r)] BY <1>4, <1>5
    <2> QED BY <1>1, <1>3, <2>1, <2>2, <2>3, OneChanges
<1>7. TypeOK' BY <1>6 DEF Poll, TypeOK
<1> QED BY <1>6, <1>7, CalmKeeps

LEMMA PollFailedKeeps == ASSUME IInv, NEW i \in Instance, PollFailed(i) PROVE IInv'
<1> USE WatchersAssumption DEF IInv
<1> PICK a \in inst[i].asked :
        inst' = [inst EXCEPT ![i] = Kept([inst[i] EXCEPT !.asked = @ \ {a}, !.polling = FALSE])]
    BY DEF PollFailed
<1> DEFINE r == [inst[i] EXCEPT !.asked = @ \ {a}, !.polling = FALSE]
<1>1. inst[i] # None /\ inst[i] \in Status /\ inst[i].asked = {a}
    BY DEF PollFailed, TypeOK, OneRequest
<1>2. /\ r \in Status /\ r.armed = inst[i].armed /\ r.cfg = inst[i].cfg
      /\ r.asked = {} /\ r.timer = inst[i].timer
    BY <1>1 DEF Status
<1>3. inst' = [inst EXCEPT ![i] = Kept(r)] OBVIOUS
<1>4. /\ Calm /\ OneRequest' /\ inst' \in [Instance -> {None} \cup Status]
    <2>1. ~r.armed => ~r.timer BY <1>1, <1>2 DEF OneRequest
    <2>2. UNCHANGED <<row, unread, entry, signature, made, version, recent, stranded>> BY DEF PollFailed
    <2> HIDE DEF r
    <2> QED BY <1>1, <1>2, <1>3, <2>1, <2>2, OneChanges
<1>5. TypeOK' BY <1>4 DEF PollFailed, TypeOK
<1> QED BY <1>4, <1>5, CalmKeeps

LEMMA FiredTypes ==
    ASSUME NEW r \in Status, NEW v \in 0..MaxVersion
    PROVE  LET s == Fired(r, v)
           IN  /\ s \in Status /\ s.armed = r.armed /\ s.cfg = r.cfg /\ s.timer = r.timer
               /\ s.asked = r.asked /\ s.polling = r.polling
BY DEF Fired, Status

LEMMA TriggerTypes ==
    ASSUME TypeOK, NEW i \in Instance, Trigger(i) \/ UNCHANGED recent
    PROVE  recent' \subseteq Watcher
BY Pairs DEF TypeOK, Trigger

LEMMA AnsweredKeeps == ASSUME IInv, NEW i \in Instance, Answered(i) PROVE IInv'
<1> USE WatchersAssumption DEF IInv
<1> DEFINE r(a, v) == [inst[i] EXCEPT !.polling = FALSE, !.asked = @ \ {a}, !.seen = v]
           news(v) == inst[i].seen \notin {None, v}
           s(a, v) == IF news(v) THEN Fired(r(a, v), v) ELSE r(a, v)
<1> PICK a \in inst[i].asked :
        \E v \in a..version[inst[i].cfg] :
            /\ inst' = [inst EXCEPT ![i] = Kept(s(a, v))]
            /\ IF news(v) THEN Trigger(i) ELSE UNCHANGED recent
    BY DEF Answered
<1> PICK v \in a..version[inst[i].cfg] :
        /\ inst' = [inst EXCEPT ![i] = Kept(s(a, v))]
        /\ IF news(v) THEN Trigger(i) ELSE UNCHANGED recent
    OBVIOUS
<1>1. /\ inst[i] # None /\ inst[i] \in Status /\ inst[i].asked = {a}
      /\ inst[i].armed \/ ~inst[i].timer
    BY DEF Answered, TypeOK, OneRequest
<1>2. a \in 0..MaxVersion /\ version[inst[i].cfg] \in 0..MaxVersion
    BY <1>1 DEF Status, TypeOK, Config
<1>3. v \in 0..MaxVersion BY <1>2
<1>4. /\ r(a, v) \in Status /\ r(a, v).armed = inst[i].armed /\ r(a, v).cfg = inst[i].cfg
      /\ r(a, v).asked = {} /\ r(a, v).timer = inst[i].timer
    BY <1>1, <1>3 DEF Status
<1>5. /\ s(a, v) \in Status /\ s(a, v).armed = inst[i].armed /\ s(a, v).cfg = inst[i].cfg
      /\ s(a, v).asked = {} /\ s(a, v).timer = inst[i].timer
    <2> HIDE DEF r
    <2> QED BY <1>3, <1>4, FiredTypes
<1>6. /\ Calm /\ OneRequest' /\ inst' \in [Instance -> {None} \cup Status]
    <2> HIDE DEF s
    <2> QED BY <1>1, <1>5, OneChanges DEF Answered
<1>7. TypeOK' BY <1>6, TriggerTypes DEF Answered, TypeOK
<1> QED BY <1>6, <1>7, CalmKeeps

LEMMA WindowClosesKeeps == ASSUME IInv, NEW i \in Instance, WindowCloses(i) PROVE IInv'
<1> USE WatchersAssumption DEF IInv
<1> DEFINE v == version[inst[i].cfg]
           r == [inst[i] EXCEPT !.timer = FALSE, !.seen = v]
           s == Fired(r, v)
<1>1. /\ inst[i] # None /\ inst[i] \in Status
      /\ inst[i].polling \/ inst[i].asked = {}
      /\ inst[i].asked = {} \/ \E a \in 0..MaxVersion : inst[i].asked = {a}
    BY DEF WindowCloses, TypeOK, OneRequest
<1>2. v \in 0..MaxVersion BY <1>1 DEF Status, TypeOK, Config
<1>3. /\ r \in Status /\ r.armed = inst[i].armed /\ r.cfg = inst[i].cfg
      /\ r.asked = inst[i].asked /\ r.polling = inst[i].polling /\ ~r.timer
    BY <1>1, <1>2 DEF Status
<1>4. /\ s \in Status /\ s.armed = inst[i].armed /\ s.cfg = inst[i].cfg
      /\ s.asked = inst[i].asked /\ s.polling = inst[i].polling /\ ~s.timer
    <2> HIDE DEF r, v
    <2> QED BY <1>2, <1>3, FiredTypes
<1>5. inst' = [inst EXCEPT ![i] = Kept(s)] BY DEF WindowCloses
<1>6. /\ Calm /\ OneRequest' /\ inst' \in [Instance -> {None} \cup Status]
    <2>1. UNCHANGED <<row, unread, entry, signature, made, version, stranded>> BY DEF WindowCloses
    <2> HIDE DEF s
    <2> QED BY <1>1, <1>4, <1>5, <2>1, OneChanges
<1>7. TypeOK' BY <1>6, TriggerTypes DEF WindowCloses, TypeOK
<1> QED BY <1>6, <1>7, CalmKeeps

LEMMA HeldEndsKeeps == ASSUME IInv, NEW i \in Instance, HeldEnds(i) PROVE IInv'
<1> USE WatchersAssumption DEF IInv
<1> DEFINE r == [inst[i] EXCEPT !.held = FALSE]
<1>1. /\ inst[i] # None /\ inst[i] \in Status
      /\ inst[i].polling \/ inst[i].asked = {}
      /\ inst[i].asked = {} \/ \E a \in 0..MaxVersion : inst[i].asked = {a}
      /\ inst[i].armed \/ (~inst[i].timer /\ inst[i].asked # {})
    BY DEF HeldEnds, TypeOK, OneRequest
<1>2. /\ r \in Status /\ r.armed = inst[i].armed /\ r.cfg = inst[i].cfg
      /\ r.asked = inst[i].asked /\ r.polling = inst[i].polling /\ r.timer = inst[i].timer
    BY <1>1 DEF Status
<1>3. Kept(r) = r BY <1>1, <1>2 DEF Kept
<1>4. inst' = [inst EXCEPT ![i] = r] BY DEF HeldEnds
<1>5. /\ Calm /\ OneRequest' /\ inst' \in [Instance -> {None} \cup Status]
    <2>1. UNCHANGED <<row, unread, entry, signature, made, version, recent, stranded>> BY DEF HeldEnds
    <2> HIDE DEF r
    <2>2. inst' = [inst EXCEPT ![i] = Kept(r)] BY <1>3, <1>4
    <2>3. r.polling \/ r.asked = {} BY <1>1, <1>2
    <2>4. r.asked = {} \/ \E a \in 0..MaxVersion : r.asked = {a} BY <1>1, <1>2
    <2>5. ~r.armed => ~r.timer BY <1>1, <1>2
    <2> QED BY <1>1, <1>2, <2>1, <2>2, <2>3, <2>4, <2>5, OneChanges
<1>6. TypeOK' BY <1>5 DEF HeldEnds, TypeOK
<1> QED BY <1>5, <1>6, CalmKeeps

LEMMA QuietStepKeeps ==
    ASSUME IInv, UNCHANGED <<row, unread, entry, signature, made, inst, version, stranded>>,
           recent' \subseteq Watcher
    PROVE  IInv'
<1> USE DEF IInv
<1>1. TypeOK' BY DEF TypeOK
<1>2. Calm BY DEF Calm, Up
<1>3. OneRequest' BY DEF OneRequest
<1> QED BY <1>1, <1>2, <1>3, CalmKeeps

LEMMA NextKeeps == ASSUME IInv, [Next]_vars PROVE IInv'
<1>1. ASSUME NEW w \in Watcher, RouteEdit(w) PROVE IInv' BY <1>1, RouteEditKeeps
<1>2. ASSUME NEW w \in Watcher, ToolEdit(w) PROVE IInv' BY <1>2, ToolEditKeeps
<1>3. ASSUME NEW w \in Watcher, CoolDownEnds(w) PROVE IInv'
    BY <1>3, QuietStepKeeps DEF CoolDownEnds, IInv, TypeOK
<1>4. ASSUME NEW c \in Polled \cup Watched, Change(c) PROVE IInv' BY <1>4, ChangeKeeps
<1>5. ASSUME NEW i \in Instance, Poll(i) PROVE IInv' BY <1>5, PollKeeps
<1>6. ASSUME NEW i \in Instance, Answered(i) PROVE IInv' BY <1>6, AnsweredKeeps
<1>7. ASSUME NEW i \in Instance, PollFailed(i) PROVE IInv' BY <1>7, PollFailedKeeps
<1>8. ASSUME NEW i \in Instance, WindowCloses(i) PROVE IInv' BY <1>8, WindowClosesKeeps
<1>9. ASSUME NEW i \in Instance, HeldEnds(i) PROVE IInv' BY <1>9, HeldEndsKeeps
<1>10. CASE UNCHANGED vars BY <1>10, QuietStepKeeps DEF vars, IInv, TypeOK
<1> QED BY <1>1, <1>2, <1>3, <1>4, <1>5, <1>6, <1>7, <1>8, <1>9, <1>10 DEF Next

-----------------------------------------------------------------------------

\* What the invariant says of the properties.
LEMMA SupervisedFollows == IInv => FollowsRows /\ StoppedIsQuiet
<1> SUFFICES ASSUME IInv PROVE FollowsRows /\ StoppedIsQuiet OBVIOUS
<1> USE DEF IInv
<1>1. FollowsRows
    <2> SUFFICES ASSUME NEW w \in Watcher
                 PROVE  LET up == {i \in Instance : i[1] = w /\ Up(i)}
                        IN  /\ up \subseteq {<<w, entry[w]>>}
                            /\ w \notin unread =>
                                 IF Wanted(row[w])
                                 THEN IF up = {} THEN row[w].cfg \in Faulty \/ w \in stranded
                                      ELSE \A i \in up : inst[i].cfg = row[w].cfg
                                 ELSE up = {}
        BY DEF FollowsRows
    <2> DEFINE up == {i \in Instance : i[1] = w /\ Up(i)}
    <2>1. \A i \in up : i = <<w, entry[w]>> /\ entry[w] # 0 /\ inst[i].cfg = signature[w]
        BY Pairs DEF Supervised, EntryRuns
    <2>2. entry[w] # 0 => <<w, entry[w]>> \in Instance
        BY WatchersAssumption DEF TypeOK, Instance
    <2>3. entry[w] # 0 /\ w \notin stranded => up # {} BY <2>2 DEF Supervised, EntryIsUp
    <2>4. up # {} => w \notin stranded BY <2>1 DEF Supervised, EntryIsUp
    <2>5. w \notin unread =>
            IF Wanted(row[w])
            THEN IF entry[w] = 0 THEN row[w].cfg \in Faulty
                 ELSE signature[w] = row[w].cfg \/ w \in stranded
            ELSE entry[w] = 0
        BY DEF Supervised, Synced
    <2> HIDE DEF up
    <2>6. w \notin unread =>
            IF Wanted(row[w])
            THEN IF up = {} THEN row[w].cfg \in Faulty \/ w \in stranded
                 ELSE \A i \in up : inst[i].cfg = row[w].cfg
            ELSE up = {}
        BY <2>1, <2>3, <2>4, <2>5
    <2> QED BY <2>1, <2>6 DEF up
<1>2. StoppedIsQuiet
    <2> SUFFICES ASSUME NEW i \in Instance, inst[i] # None, ~inst[i].armed
                 PROVE  ~inst[i].timer /\ Cardinality(inst[i].asked) = 1
        BY DEF StoppedIsQuiet
    <2>1. ~inst[i].timer /\ \E a \in 0..MaxVersion : inst[i].asked = {a} BY DEF OneRequest
    <2> QED BY <2>1, FS_Singleton
<1> QED BY <1>1, <1>2

\* Every variable keeps its type.
THEOREM TypeCorrect == Spec => []TypeOK
<1>1. IInv => TypeOK BY DEF IInv
<1> QED BY <1>1, InitIInv, NextKeeps, PTL DEF Spec

\* What runs is what the rows ask for as of the last reload, and a stopped instance
\* reports at most what its last request brings.
THEOREM RunningFollowsRows == Spec => []WatchersFollowRows
<1>1. IInv => WatchersFollowRows BY SupervisedFollows DEF WatchersFollowRows
<1> QED BY <1>1, InitIInv, NextKeeps, PTL DEF Spec
-----------------------------------------------------------------------------
\* What is in flight is never older than what was reported: polls do not overlap, and
\* only a file watcher has a debounce window.

InOrder ==
    \A i \in Instance : inst[i] # None =>
        /\ inst[i].told <= version[inst[i].cfg]
        /\ \A a \in inst[i].asked : inst[i].told <= a
        /\ inst[i].timer => inst[i].cfg \in Watched
        /\ inst[i].asked # {} => inst[i].cfg \in Polled

News == \A i \in Instance : inst[i] = None \/ inst'[i] = None \/ inst'[i].told >= inst[i].told

\* One instance is replaced by what Kept leaves of a record that reports in order.
LEMMA OneInOrder ==
    ASSUME TypeOK, InOrder, NEW i \in Instance, inst[i] # None, NEW r \in Status,
           inst' = [inst EXCEPT ![i] = Kept(r)], version' = version,
           r.cfg = inst[i].cfg, r.told >= inst[i].told, r.told <= version[r.cfg],
           \A a \in r.asked : r.told <= a,
           r.timer => r.cfg \in Watched, r.asked # {} => r.cfg \in Polled
    PROVE  InOrder' /\ News
<1>1. inst'[i] = Kept(r) /\ \A j \in Instance \ {i} : inst'[j] = inst[j] BY DEF TypeOK
<1>2. inst'[i] # None => inst'[i] = r BY <1>1, KeptTypes
<1>3. InOrder' BY <1>1, <1>2 DEF InOrder
<1>4. \A j \in Instance : inst[j] # None => inst[j].told \in Nat BY DEF TypeOK, Status
<1>5. News BY <1>1, <1>2, <1>4 DEF News
<1> QED BY <1>3, <1>5

\* No instance is touched.
LEMMA NoneInOrder ==
    ASSUME TypeOK, InOrder, inst' = inst, version' = version PROVE InOrder' /\ News
<1>1. \A j \in Instance : inst[j] # None => inst[j].told \in Nat BY DEF TypeOK, Status
<1>2. InOrder' BY DEF InOrder
<1>3. News BY <1>1 DEF News
<1> QED BY <1>2, <1>3

\* A reload stops instances, which report no less, and makes some that have reported
\* nothing.
LEMMA ReloadInOrder ==
    ASSUME IInv, InOrder, NEW rows \in [Watcher -> Row \cup {None, Gone}], Reload(rows),
           version' = version
    PROVE  InOrder' /\ News
<1> USE WatchersAssumption DEF IInv
<1> SUFFICES ASSUME NEW i \in Instance
             PROVE  /\ inst[i] = None \/ inst'[i] = None \/ inst'[i].told >= inst[i].told
                    /\ inst'[i] # None =>
                         /\ inst'[i].told <= version[inst'[i].cfg]
                         /\ \A a \in inst'[i].asked : inst'[i].told <= a
                         /\ inst'[i].timer => inst'[i].cfg \in Watched
                         /\ inst'[i].asked # {} => inst'[i].cfg \in Polled
    BY DEF InOrder, News
<1>1. inst[i] # None => inst[i] \in Status /\ inst[i].told \in Nat BY DEF TypeOK, Status
<1>2. CASE inst[i] # None /\ inst'[i] = Halt(i)
    <2> DEFINE r == [inst[i] EXCEPT !.armed = FALSE, !.timer = FALSE]
    <2>1. /\ r \in Status /\ r.cfg = inst[i].cfg /\ ~r.timer
          /\ r.asked = inst[i].asked /\ r.told = inst[i].told
        BY <1>1, <1>2 DEF Status
    <2>2. inst'[i] = Kept(r) BY <1>2 DEF Halt
    <2> HIDE DEF r
    <2>3. inst'[i] # None => inst'[i] = r BY <2>1, <2>2, KeptTypes
    <2> QED BY <1>1, <1>2, <2>1, <2>3 DEF InOrder
<1>3. CASE /\ inst[i] = None /\ i[1] \in Made(rows) /\ i[2] = made[i[1]] + 1
           /\ inst'[i] = Spawn(i[1], rows[i[1]].cfg)
    <2> DEFINE c == rows[i[1]].cfg
    <2>1. /\ i[1] \in Watcher /\ Wanted(rows[i[1]]) /\ c \notin Faulty
        BY <1>3, Pairs DEF Made, Differs
    <2>2. c \in Polled \cup Watched BY <2>1, WantedIsRow DEF Config
    <2>3. version[c] \in Nat BY <2>2 DEF TypeOK, Config
    <2> HIDE DEF c
    <2>4. /\ inst'[i].told = 0 /\ inst'[i].cfg = c /\ ~inst'[i].timer
          /\ inst'[i].asked = IF c \in Polled THEN {version[c]} ELSE {}
        BY <1>3 DEF Spawn, c
    <2> QED BY <1>3, <2>3, <2>4
<1>4. CASE inst'[i] = inst[i] BY <1>1, <1>4 DEF InOrder
<1>5. i[2] = made[i[1]] + 1 => inst[i] = None
    BY Pairs DEF Supervised, NumbersGrow, TypeOK
<1> QED BY <1>2, <1>3, <1>4, <1>5 DEF Reload

LEMMA ChangeInOrder ==
    ASSUME IInv, InOrder, NEW c \in Polled \cup Watched, Change(c) PROVE InOrder' /\ News
<1> USE WatchersAssumption DEF IInv
<1>1. \A d \in Config : version'[d] \in Nat /\ version[d] \in Nat /\ version'[d] >= version[d]
    BY DEF Change, TypeOK, Config
<1> SUFFICES ASSUME NEW i \in Instance, inst[i] # None
             PROVE  /\ inst'[i].told >= inst[i].told
                    /\ inst'[i].told <= version'[inst'[i].cfg]
                    /\ \A a \in inst'[i].asked : inst'[i].told <= a
                    /\ inst'[i].timer => inst'[i].cfg \in Watched
                    /\ inst'[i].asked # {} => inst'[i].cfg \in Polled
    <2>1. \A i \in Instance : inst'[i] # None => inst[i] # None BY DEF Change, Up
    <2> QED BY <2>1 DEF InOrder, News
<1>2. inst[i] \in Status /\ inst[i].told \in Nat /\ inst[i].cfg \in Config
    BY DEF TypeOK, Status, Config
<1>3. /\ inst'[i].told = inst[i].told /\ inst'[i].cfg = inst[i].cfg /\ inst'[i].asked = inst[i].asked
      /\ inst'[i].timer => inst[i].timer \/ inst[i].cfg \in Watched
    BY <1>2 DEF Change, Status
<1>4. inst[i].told <= version[inst[i].cfg] BY DEF InOrder
<1>5. inst[i].told <= version'[inst[i].cfg] BY <1>1, <1>2, <1>4
<1> QED BY <1>2, <1>3, <1>5 DEF InOrder

LEMMA PollInOrder == ASSUME IInv, InOrder, NEW i \in Instance, Poll(i) PROVE InOrder' /\ News
<1> USE WatchersAssumption DEF IInv
<1> DEFINE r == [inst[i] EXCEPT !.polling = TRUE, !.asked = @ \cup {version[inst[i].cfg]}]
<1>1. inst[i] # None /\ inst[i] \in Status /\ inst[i].armed /\ inst[i].told \in Nat
    BY DEF Poll, Up, TypeOK, Status
<1>2. version[inst[i].cfg] \in 0..MaxVersion BY <1>1 DEF Status, TypeOK, Config
<1>3. /\ r \in Status /\ r.armed /\ r.cfg = inst[i].cfg /\ r.told = inst[i].told
      /\ r.timer = inst[i].timer /\ r.asked = inst[i].asked \cup {version[inst[i].cfg]}
    BY <1>1, <1>2 DEF Status
<1>4. inst' = [inst EXCEPT ![i] = Kept(r)] BY <1>3, KeptTypes DEF Poll
<1>5. inst[i].cfg \in Polled /\ version' = version BY DEF Poll
<1> HIDE DEF r
<1>6. /\ r.told >= inst[i].told /\ r.told <= version[r.cfg] /\ \A a \in r.asked : r.told <= a
      /\ r.timer => r.cfg \in Watched
      /\ r.asked # {} => r.cfg \in Polled
    BY <1>1, <1>2, <1>3, <1>5 DEF InOrder
<1> QED BY <1>1, <1>3, <1>4, <1>5, <1>6, OneInOrder

LEMMA AnsweredInOrder == ASSUME IInv, InOrder, NEW i \in Instance, Answered(i) PROVE InOrder' /\ News
<1> USE WatchersAssumption DEF IInv
<1> DEFINE r(a, v) == [inst[i] EXCEPT !.polling = FALSE, !.asked = @ \ {a}, !.seen = v]
           news(v) == inst[i].seen \notin {None, v}
           s(a, v) == IF news(v) THEN Fired(r(a, v), v) ELSE r(a, v)
<1> PICK a \in inst[i].asked :
        \E v \in a..version[inst[i].cfg] : inst' = [inst EXCEPT ![i] = Kept(s(a, v))]
    BY DEF Answered
<1> PICK v \in a..version[inst[i].cfg] : inst' = [inst EXCEPT ![i] = Kept(s(a, v))] OBVIOUS
<1>1. inst[i] # None /\ inst[i] \in Status /\ inst[i].asked = {a} /\ inst[i].told \in Nat
    BY DEF Answered, TypeOK, OneRequest, Status
<1>2. /\ a \in 0..MaxVersion /\ v \in 0..MaxVersion
      /\ a <= v /\ v <= version[inst[i].cfg] /\ inst[i].told <= a
    BY <1>1 DEF Status, TypeOK, Config, InOrder
<1>3. /\ r(a, v) \in Status /\ r(a, v).cfg = inst[i].cfg /\ r(a, v).asked = {}
      /\ r(a, v).timer = inst[i].timer /\ r(a, v).told = inst[i].told
    BY <1>1, <1>2 DEF Status
<1>4. /\ s(a, v) \in Status /\ s(a, v).cfg = inst[i].cfg /\ s(a, v).asked = {}
      /\ s(a, v).timer = inst[i].timer /\ s(a, v).told \in {inst[i].told, v}
    <2> HIDE DEF r
    <2>1. LET f == Fired(r(a, v), v)
          IN  /\ f \in Status /\ f.cfg = inst[i].cfg /\ f.asked = {}
              /\ f.timer = inst[i].timer /\ f.told \in {inst[i].told, v}
        BY <1>2, <1>3 DEF Fired, Status
    <2> QED BY <1>3, <2>1
<1>5. version' = version /\ (inst[i].timer => inst[i].cfg \in Watched)
    BY <1>1 DEF Answered, InOrder
<1>6. s(a, v).told >= inst[i].told /\ s(a, v).told <= version[inst[i].cfg]
    BY <1>1, <1>2, <1>4 DEF InOrder
<1> HIDE DEF s
<1> QED BY <1>1, <1>4, <1>5, <1>6, OneInOrder

LEMMA PollFailedInOrder == ASSUME IInv, InOrder, NEW i \in Instance, PollFailed(i) PROVE InOrder' /\ News
<1> USE WatchersAssumption DEF IInv
<1> PICK a \in inst[i].asked :
        inst' = [inst EXCEPT ![i] = Kept([inst[i] EXCEPT !.asked = @ \ {a}, !.polling = FALSE])]
    BY DEF PollFailed
<1> DEFINE r == [inst[i] EXCEPT !.asked = @ \ {a}, !.polling = FALSE]
<1>1. inst[i] # None /\ inst[i] \in Status /\ inst[i].told \in Nat
    BY DEF PollFailed, TypeOK, Status
<1>2. /\ r \in Status /\ r.cfg = inst[i].cfg /\ r.told = inst[i].told
      /\ r.asked \subseteq inst[i].asked /\ r.timer = inst[i].timer
    BY <1>1 DEF Status
<1>3. inst' = [inst EXCEPT ![i] = Kept(r)] /\ version' = version BY DEF PollFailed
<1> HIDE DEF r
<1>4. /\ r.told >= inst[i].told /\ r.told <= version[r.cfg] /\ \A b \in r.asked : r.told <= b
      /\ r.timer => r.cfg \in Watched
      /\ r.asked # {} => r.cfg \in Polled
    BY <1>1, <1>2 DEF InOrder
<1> QED BY <1>1, <1>2, <1>3, <1>4, OneInOrder

LEMMA WindowClosesInOrder ==
    ASSUME IInv, InOrder, NEW i \in Instance, WindowCloses(i) PROVE InOrder' /\ News
<1> USE WatchersAssumption DEF IInv
<1> DEFINE v == version[inst[i].cfg]
           r == [inst[i] EXCEPT !.timer = FALSE, !.seen = v]
           s == Fired(r, v)
<1>1. /\ inst[i] # None /\ inst[i] \in Status /\ inst[i].told \in Nat /\ inst[i].timer
      /\ inst[i].asked = {}
    BY DEF WindowCloses, TypeOK, Status, InOrder
<1>2. v \in 0..MaxVersion /\ inst[i].told <= v BY <1>1 DEF Status, TypeOK, Config, InOrder
<1>3. /\ r \in Status /\ r.cfg = inst[i].cfg /\ r.asked = {} /\ ~r.timer /\ r.told = inst[i].told
    BY <1>1, <1>2 DEF Status
<1>4. /\ s \in Status /\ s.cfg = inst[i].cfg /\ s.asked = {} /\ ~s.timer
      /\ s.told \in {inst[i].told, v}
    <2> HIDE DEF r, v
    <2> QED BY <1>2, <1>3 DEF Fired, Status
<1>5. inst' = [inst EXCEPT ![i] = Kept(s)] /\ version' = version BY DEF WindowCloses
<1>6. s.told >= inst[i].told /\ s.told <= version[s.cfg] BY <1>1, <1>2, <1>4
<1> HIDE DEF s
<1> QED BY <1>1, <1>4, <1>5, <1>6, OneInOrder

LEMMA HeldEndsInOrder == ASSUME IInv, InOrder, NEW i \in Instance, HeldEnds(i) PROVE InOrder' /\ News
<1> USE WatchersAssumption DEF IInv
<1> DEFINE r == [inst[i] EXCEPT !.held = FALSE]
<1>1. /\ inst[i] # None /\ inst[i] \in Status /\ inst[i].told \in Nat
      /\ inst[i].armed \/ inst[i].asked # {}
    BY DEF HeldEnds, TypeOK, Status, OneRequest
<1>2. /\ r \in Status /\ r.armed = inst[i].armed /\ r.cfg = inst[i].cfg
      /\ r.asked = inst[i].asked /\ r.timer = inst[i].timer /\ r.told = inst[i].told
    BY <1>1 DEF Status
<1>3. inst' = [inst EXCEPT ![i] = Kept(r)] /\ version' = version
    BY <1>1, <1>2 DEF Kept, HeldEnds
<1> HIDE DEF r
<1>4. /\ r.told >= inst[i].told /\ r.told <= version[r.cfg] /\ \A b \in r.asked : r.told <= b
      /\ r.timer => r.cfg \in Watched
      /\ r.asked # {} => r.cfg \in Polled
    BY <1>1, <1>2 DEF InOrder
<1> QED BY <1>1, <1>2, <1>3, <1>4, OneInOrder

LEMMA NextInOrder == ASSUME IInv, InOrder, [Next]_vars PROVE InOrder' /\ News
<1>1. ASSUME NEW w \in Watcher, RouteEdit(w) PROVE InOrder' /\ News
    <2> PICK r \in Edits(w) : /\ row' = [row EXCEPT ![w] = r]
                              /\ Reload(row') /\ UNCHANGED <<version, recent>>
        BY <1>1 DEF RouteEdit
    <2>1. row' \in [Watcher -> Row \cup {None, Gone}] BY EditsAreRows DEF IInv
    <2> QED BY <2>1, ReloadInOrder
<1>2. ASSUME NEW w \in Watcher, ToolEdit(w) PROVE InOrder' /\ News
    BY <1>2, NoneInOrder DEF ToolEdit, IInv
<1>3. ASSUME NEW w \in Watcher, CoolDownEnds(w) PROVE InOrder' /\ News
    BY <1>3, NoneInOrder DEF CoolDownEnds, IInv
<1>4. ASSUME NEW c \in Polled \cup Watched, Change(c) PROVE InOrder' /\ News BY <1>4, ChangeInOrder
<1>5. ASSUME NEW i \in Instance, Poll(i) PROVE InOrder' /\ News BY <1>5, PollInOrder
<1>6. ASSUME NEW i \in Instance, Answered(i) PROVE InOrder' /\ News BY <1>6, AnsweredInOrder
<1>7. ASSUME NEW i \in Instance, PollFailed(i) PROVE InOrder' /\ News BY <1>7, PollFailedInOrder
<1>8. ASSUME NEW i \in Instance, WindowCloses(i) PROVE InOrder' /\ News BY <1>8, WindowClosesInOrder
<1>9. ASSUME NEW i \in Instance, HeldEnds(i) PROVE InOrder' /\ News BY <1>9, HeldEndsInOrder
<1>10. CASE UNCHANGED vars BY <1>10, NoneInOrder DEF vars, IInv
<1> QED BY <1>1, <1>2, <1>3, <1>4, <1>5, <1>6, <1>7, <1>8, <1>9, <1>10 DEF Next

\* Each report of an instance is newer than the one before, however slow an answer.
THEOREM ReportsInOrder == Spec => ReportsAreNews
<1>1. Init => InOrder BY DEF Init, InOrder
<1>2. IInv /\ InOrder /\ [Next]_vars => InOrder' /\ [News]_vars BY NextInOrder
<1>3. Spec => [][News]_vars BY <1>1, <1>2, InitIInv, NextKeeps, PTL DEF Spec
<1> QED BY <1>3, PTL DEF ReportsAreNews, News

-----------------------------------------------------------------------------
(* The voice session. *)

\* Whose voice a text or a request may be.
Speaker == Voice!Turn \cup {Voice!Own}
Asked == [said : SUBSET Speaker, phase : {"asked", "playing", "aborted"}]

\* As long as the session lasts, an interrupted turn that the interruption could end
\* has no text left, in the buffer or in a request, and once the interruption is over
\* no reply that could bring more.
Quieted ==
    /\ interrupted \subseteq 1..turns
    /\ state # "disconnected" =>
          \A t \in interrupted \ outlived :
              /\ t \notin text
              /\ \A r \in Voice!Request : Voice!Live(r) => t \notin request[r].said
              /\ state # "cancelling" => reply[t] # "going"

VoiceInv == Voice!TypeOK /\ Quieted /\ Voice!InterruptedIsSilent

-----------------------------------------------------------------------------
\* A flush gives what is said to a request, or leaves it in the buffer.
LEMMA FlushIs ==
    ASSUME Voice!TypeOK, NEW said \in SUBSET Speaker, Voice!Flush(said)
    PROVE  /\ text' \in SUBSET Speaker /\ text' \subseteq said
           /\ request' \in [Voice!Request -> {None} \cup Asked]
           /\ control' \in Voice!Request \cup {None}
           /\ \A r \in Voice!Request :
                  request'[r] = request[r] \/ (request'[r] \in Asked /\ request'[r].said = said)
<1>0. request \in [Voice!Request -> {None} \cup Asked] /\ control \in Voice!Request \cup {None}
  BY DEF Voice!TypeOK, Speaker, Asked
<1>1. CASE text' = said /\ UNCHANGED <<request, control>>
  BY <1>0, <1>1
<1>2. CASE ~(text' = said /\ UNCHANGED <<request, control>>)
  <2>1. PICK r \in Voice!Request :
            /\ request' = [request EXCEPT ![r] = [said |-> said, phase |-> "asked"]]
            /\ control' = r /\ text' = {}
    BY <1>2 DEF Voice!Flush
  <2>2. [said |-> said, phase |-> "asked"] \in Asked
    BY DEF Asked
  <2>3. request' \in [Voice!Request -> {None} \cup Asked]
    BY <1>0, <2>1, <2>2
  <2>4. \A q \in Voice!Request : request'[q] = request[q] \/ (request'[q] \in Asked /\ request'[q].said = said)
    BY <1>0, <2>1, <2>2
  <2> QED
    BY <2>1, <2>3, <2>4
<1> QED
  BY <1>1, <1>2

\* A request keeps what it says whatever becomes of it.
LEMMA PhaseIs ==
    ASSUME NEW a \in Asked, NEW p \in {"asked", "playing", "aborted"}
    PROVE  [a EXCEPT !.phase = p] \in Asked /\ [a EXCEPT !.phase = p].said = a.said
           /\ [a EXCEPT !.phase = p].phase = p
BY DEF Asked

LEMMA CancelIs ==
    ASSUME Voice!TypeOK, Voice!Cancel
    PROVE  /\ text' = {} /\ control' = None
           /\ request' \in [Voice!Request -> {None} \cup Asked]
           /\ \A r \in Voice!Request : Voice!Live(r)' => Voice!Live(r) /\ r # control /\ request'[r] = request[r]
<1>0. request \in [Voice!Request -> {None} \cup Asked]
  BY DEF Voice!TypeOK, Speaker, Asked
<1>1. /\ request' = [r \in Voice!Request |-> IF r = control /\ request[r] # None
                                             THEN [request[r] EXCEPT !.phase = "aborted"] ELSE request[r]]
      /\ text' = {} /\ control' = None
  BY DEF Voice!Cancel
<1>2. \A r \in Voice!Request : request[r] # None =>
          [request[r] EXCEPT !.phase = "aborted"] \in Asked /\ [request[r] EXCEPT !.phase = "aborted"].phase = "aborted"
  BY <1>0, PhaseIs
<1>3. request' \in [Voice!Request -> {None} \cup Asked]
  BY <1>0, <1>1, <1>2
<1>4. ASSUME NEW r \in Voice!Request, Voice!Live(r)' PROVE Voice!Live(r) /\ r # control /\ request'[r] = request[r]
  <2>1. request'[r] # None /\ request'[r].phase # "aborted"
    BY <1>4 DEF Voice!Live
  <2>2. ~(r = control /\ request[r] # None)
    BY <1>1, <1>2, <2>1
  <2>3. request'[r] = request[r]
    BY <1>1, <2>2
  <2> QED
    BY <2>1, <2>2, <2>3 DEF Voice!Live
<1> QED
  BY <1>1, <1>3, <1>4

\* The requests are of the type they have, said in one place.
LEMMA TypedAsks == Voice!TypeOK <=>
    /\ state \in {"listening", "capturing", "buffering", "thinking", "filler", "speaking",
                  "cancelling", "disconnected"}
    /\ heard \in BOOLEAN /\ silenceTimer \in BOOLEAN /\ prompts \in 0..MaxPrompts /\ turns \in 0..MaxTurns
    /\ reply \in [Voice!Turn -> {"none", "going", "over"}] /\ sentence \subseteq Voice!Turn
    /\ text \in SUBSET Speaker /\ request \in [Voice!Request -> {None} \cup Asked]
    /\ control \in Voice!Request \cup {None}
    /\ interrupted \subseteq Voice!Turn /\ outlived \subseteq Voice!Turn /\ stale \subseteq Voice!Turn
    /\ silent \in BOOLEAN
BY DEF Voice!TypeOK, Speaker, Asked

\* Whatever a step flushes, ends or begins, nothing of a quieted turn comes back.
LEMMA StaysQuiet ==
    ASSUME VoiceInv, interrupted' = interrupted, outlived \subseteq outlived', turns' \in Nat, turns <= turns',
           state = "disconnected" => state' = "disconnected",
           \A t \in interrupted \ outlived :
               /\ t \in text' => t \in text
               /\ \A r \in Voice!Request : Voice!Live(r)' /\ t \in request'[r].said =>
                     t \in text \/ \E q \in Voice!Request : Voice!Live(q) /\ t \in request[q].said
               /\ state' # "cancelling" /\ reply'[t] = "going" =>
                     (state # "cancelling" /\ reply[t] = "going") \/ t \in outlived'
    PROVE  Quieted'
<1>1. turns \in Nat
  BY DEF VoiceInv, Voice!TypeOK
<1>2. interrupted' \subseteq 1..turns'
  BY <1>1 DEF VoiceInv, Quieted
<1>3. ASSUME state' # "disconnected", NEW t \in interrupted' \ outlived'
      PROVE  /\ t \notin text'
             /\ \A r \in Voice!Request : Voice!Live(r)' => t \notin request'[r].said
             /\ state' # "cancelling" => reply'[t] # "going"
  <2>1. t \in interrupted \ outlived /\ state # "disconnected"
    BY <1>3
  <2> QED
    BY <1>3, <2>1 DEF VoiceInv, Quieted
<1> QED
  BY <1>2, <1>3 DEF Quieted

\* Speech: the requests.
LEMMA AudioKeeps ==
    ASSUME VoiceInv, NEW r \in Voice!Request, Voice!Audio(r)
    PROVE  VoiceInv'
<1> USE DEF Voice!session, Voice!replies
<1>0. /\ request \in [Voice!Request -> {None} \cup Asked] /\ turns \in Nat /\ Voice!TypeOK
      /\ interrupted \subseteq Voice!Turn /\ stale \subseteq Voice!Turn
  BY TypedAsks DEF VoiceInv
<1>1. /\ Voice!Live(r) /\ request' = [request EXCEPT ![r].phase = "playing"]
      /\ UNCHANGED <<turns, reply, sentence, text, control, interrupted, outlived, silent, heard, silenceTimer, prompts>>
  BY DEF Voice!Audio
<1>2. \/ state \in {"cancelling", "disconnected"} /\ UNCHANGED <<state, stale>>
      \/ /\ state \notin {"cancelling", "disconnected"}
         /\ state' = (IF state \in {"thinking", "filler"} THEN "speaking" ELSE state)
         /\ stale' = stale \cup (request[r].said \cap interrupted)
  BY DEF Voice!Audio
<1>3. /\ request' \in [Voice!Request -> {None} \cup Asked]
      /\ request'[r].said = request[r].said
      /\ \A q \in Voice!Request : q # r => request'[q] = request[q]
  <2>1. request[r] \in Asked
    BY <1>0, <1>1 DEF Voice!Live
  <2>2. request' = [request EXCEPT ![r] = [request[r] EXCEPT !.phase = "playing"]]
    BY <1>0, <1>1
  <2> QED
    BY <1>0, <2>1, <2>2, PhaseIs
<1>4. \A q \in Voice!Request : Voice!Live(q)' => Voice!Live(q) /\ request'[q].said = request[q].said
  BY <1>1, <1>3 DEF Voice!Live
<1>5. Quieted'
  <2>1. \A t \in interrupted \ outlived : \A q \in Voice!Request : Voice!Live(q)' /\ t \in request'[q].said =>
            t \in text \/ \E p \in Voice!Request : Voice!Live(p) /\ t \in request[p].said
    BY <1>4
  <2>2. state = "disconnected" => state' = "disconnected"
    BY <1>2
  <2>3. state' # "cancelling" => state # "cancelling"
    BY <1>2
  <2> QED
    BY <1>0, <1>1, <2>1, <2>2, <2>3, StaysQuiet
<1>6. Voice!InterruptedIsSilent' /\ stale' \subseteq Voice!Turn
  <2>1. CASE UNCHANGED stale
    BY <1>0, <1>1, <2>1 DEF VoiceInv, Voice!InterruptedIsSilent
  <2>2. CASE state \notin {"cancelling", "disconnected"} /\ stale' = stale \cup (request[r].said \cap interrupted)
    <3>1. request[r].said \cap interrupted \subseteq outlived
      BY <1>1, <2>2 DEF VoiceInv, Quieted
    <3> QED
      BY <1>0, <1>1, <2>2, <3>1 DEF VoiceInv, Voice!InterruptedIsSilent
  <2> QED
    BY <1>2, <2>1, <2>2
<1>7. Voice!TypeOK'
  <2>1. state' \in {"listening", "capturing", "buffering", "thinking", "filler", "speaking", "cancelling", "disconnected"}
    BY <1>0, <1>2, TypedAsks
  <2> QED
    BY <1>0, <1>1, <1>3, <1>6, <2>1, TypedAsks DEF Voice!TypeOK, Speaker, Asked
<1> QED
  BY <1>5, <1>6, <1>7 DEF VoiceInv

LEMMA RequestEnds ==
    ASSUME VoiceInv, NEW r \in Voice!Request, Voice!Flushed(r) \/ Voice!SpeechFails(r)
    PROVE  VoiceInv'
<1>0. /\ request \in [Voice!Request -> {None} \cup Asked] /\ turns \in Nat /\ Voice!TypeOK
      /\ control \in Voice!Request \cup {None} /\ silent \in BOOLEAN /\ silenceTimer \in BOOLEAN
  BY TypedAsks DEF VoiceInv
<1>1. /\ request' = [request EXCEPT ![r] = None] /\ control' \in {control, None}
      /\ UNCHANGED <<heard, prompts, turns, reply, sentence, text, interrupted, outlived, stale>>
      /\ state' = state \/ (state = "speaking" /\ state' = "listening")
      /\ silent' \in BOOLEAN /\ silenceTimer' \in BOOLEAN
  BY <1>0 DEF Voice!Flushed, Voice!SpeechFails, Voice!session, Voice!replies
<1>2. /\ request' \in [Voice!Request -> {None} \cup Asked]
      /\ \A q \in Voice!Request : Voice!Live(q)' => Voice!Live(q) /\ request'[q] = request[q]
  BY <1>0, <1>1 DEF Voice!Live
<1>3. Quieted'
  BY <1>0, <1>1, <1>2, StaysQuiet
<1>4. Voice!TypeOK'
  <2>1. state' \in {"listening", "capturing", "buffering", "thinking", "filler", "speaking", "cancelling", "disconnected"}
    BY <1>0, <1>1, TypedAsks
  <2>2. control' \in Voice!Request \cup {None}
    BY <1>0, <1>1
  <2> QED
    BY <1>0, <1>1, <1>2, <2>1, <2>2, TypedAsks DEF Voice!TypeOK, Speaker, Asked
<1>5. Voice!InterruptedIsSilent'
  BY <1>1 DEF VoiceInv, Voice!InterruptedIsSilent
<1> QED
  BY <1>3, <1>4, <1>5 DEF VoiceInv

\* Both an interruption and a disconnection cancel.
LEMMA InterruptKeeps ==
    ASSUME VoiceInv, Voice!Interrupt, ~Voice!Closed
    PROVE  VoiceInv'
<1> DEFINE U == UNION {request[r].said : r \in {q \in Voice!Request \ {control} : Voice!Live(q)}}
<1>0. turns \in 0..MaxTurns /\ Voice!TypeOK /\ request \in [Voice!Request -> {None} \cup Asked]
  BY TypedAsks DEF VoiceInv
<1>1. /\ state' = "cancelling" /\ interrupted' = 1..turns /\ Voice!Cancel
      /\ outlived' = outlived \cup (U \ {Voice!Own})
      /\ UNCHANGED <<heard, silenceTimer, prompts, turns, reply, sentence, stale, silent>>
  BY DEF Voice!Interrupt, Voice!replies
<1>a. \A t : t \in U <=> \E r \in Voice!Request : r # control /\ Voice!Live(r) /\ t \in request[r].said
  OBVIOUS
<1> HIDE DEF U
<1>2. /\ text' = {} /\ control' = None
      /\ request' \in [Voice!Request -> {None} \cup Asked]
      /\ \A r \in Voice!Request : Voice!Live(r)' => Voice!Live(r) /\ r # control /\ request'[r] = request[r]
  BY <1>0, <1>1, CancelIs
<1>3. interrupted' \subseteq Voice!Turn /\ interrupted' \subseteq 1..turns'
  BY <1>0, <1>1, ListenersAssumption DEF Voice!Turn
<1>4. outlived' \subseteq Voice!Turn
  <2>1. \A r \in Voice!Request : Voice!Live(r) => request[r].said \subseteq Speaker
    BY <1>0 DEF Voice!Live, Asked
  <2>2. outlived \subseteq Voice!Turn
    BY <1>0, TypedAsks
  <2>3. ASSUME NEW t \in outlived', t \notin outlived PROVE t \in Voice!Turn
    <3>1. t \in U /\ t # Voice!Own
      BY <1>1, <2>3
    <3>2. PICK r \in Voice!Request : Voice!Live(r) /\ t \in request[r].said
      BY <1>a, <3>1
    <3> QED
      BY <2>1, <3>1, <3>2 DEF Speaker
  <2> QED
    BY <2>2, <2>3
<1>5. ASSUME NEW t \in interrupted' \ outlived', NEW r \in Voice!Request, Voice!Live(r)' PROVE t \notin request'[r].said
  <2>1. Voice!Live(r) /\ r # control /\ request'[r] = request[r]
    BY <1>2, <1>5
  <2>2. t # Voice!Own
    BY <1>3 DEF Voice!Turn, Voice!Own
  <2>3. t \notin U
    BY <1>1, <1>5, <2>2
  <2> QED
    BY <1>a, <2>1, <2>3
<1>6. Quieted'
  BY <1>1, <1>2, <1>3, <1>5 DEF Quieted
<1>7. Voice!TypeOK'
  BY <1>0, <1>1, <1>2, <1>3, <1>4, TypedAsks DEF Voice!TypeOK, Speaker, Asked
<1>8. Voice!InterruptedIsSilent'
  BY <1>1 DEF VoiceInv, Voice!InterruptedIsSilent
<1> QED
  BY <1>6, <1>7, <1>8 DEF VoiceInv

LEMMA DisconnectionKeeps ==
    ASSUME VoiceInv, Voice!Disconnect
    PROVE  VoiceInv'
<1>0. Voice!TypeOK /\ request \in [Voice!Request -> {None} \cup Asked]
  BY TypedAsks DEF VoiceInv
<1>1. /\ state' = "disconnected" /\ silenceTimer' = FALSE /\ Voice!Cancel
      /\ UNCHANGED <<heard, prompts, turns, reply, sentence, interrupted, outlived, stale, silent>>
  BY DEF Voice!Disconnect, Voice!replies, Voice!ghosts
<1>2. text' = {} /\ control' = None /\ request' \in [Voice!Request -> {None} \cup Asked]
  BY <1>0, <1>1, CancelIs
<1>3. Quieted' /\ Voice!InterruptedIsSilent'
  BY <1>1 DEF VoiceInv, Quieted, Voice!InterruptedIsSilent
<1>4. Voice!TypeOK'
  BY <1>0, <1>1, <1>2, TypedAsks DEF Voice!TypeOK, Speaker, Asked
<1> QED
  BY <1>3, <1>4 DEF VoiceInv

\* The steps of the session that say nothing.
LEMMA SessionKeeps ==
    ASSUME VoiceInv,
           \/ (state = "listening" /\ Voice!SpeechStarted) \/ Voice!CancelOver \/ Voice!Transcript
           \/ Voice!ProcessTranscript \/ Voice!Filler \/ UNCHANGED Voice!vars
    PROVE  VoiceInv'
<1> USE DEF Voice!session, Voice!replies, Voice!speech, Voice!ghosts, Voice!Closed
<1>0. Voice!TypeOK /\ turns \in Nat /\ MaxTurns \in Nat
  BY TypedAsks, ListenersAssumption DEF VoiceInv
<1>1. UNCHANGED <<prompts, sentence, text, request, control, interrupted, stale>>
  BY DEF Voice!SpeechStarted, Voice!Interrupt, Voice!CancelOver, Voice!Transcript, Voice!ProcessTranscript, Voice!Filler,
         Voice!vars
<1>2. \A r \in Voice!Request : Voice!Live(r)' <=> Voice!Live(r)
  BY <1>1 DEF Voice!Live
<1>3. CASE Voice!CancelOver
  <2>1. /\ state = "cancelling" /\ state' = "listening" /\ silenceTimer' = TRUE
        /\ outlived' = outlived \cup {t \in Voice!Turn : reply[t] = "going"}
        /\ UNCHANGED <<heard, turns, reply, silent>>
    BY <1>3 DEF Voice!CancelOver
  <2>2. interrupted \subseteq Voice!Turn
    BY <1>0 DEF Voice!TypeOK
  <2>3. Quieted'
    BY <1>0, <1>1, <1>2, <2>1, <2>2, StaysQuiet
  <2>4. Voice!TypeOK' /\ Voice!InterruptedIsSilent'
    BY <1>0, <1>1, <2>1 DEF VoiceInv, Voice!TypeOK, Voice!InterruptedIsSilent
  <2> QED
    BY <2>3, <2>4 DEF VoiceInv
<1>4. CASE Voice!ProcessTranscript /\ turns' = turns + 1
  <2>1. /\ state \in {"capturing", "buffering"} /\ state' = "thinking" /\ heard' = FALSE /\ turns < MaxTurns
        /\ reply' = [reply EXCEPT ![turns + 1] = "going"]
        /\ silent' = FALSE /\ UNCHANGED <<outlived, silenceTimer>>
    BY <1>0, <1>4 DEF Voice!ProcessTranscript
  <2>2. \A t \in interrupted : t # turns + 1 /\ t \in Voice!Turn
    <3>1. interrupted \subseteq 1..turns /\ interrupted \subseteq Voice!Turn
      BY <1>0 DEF VoiceInv, Quieted, Voice!TypeOK
    <3> QED
      BY <1>0, <3>1
  <2>3. reply \in [Voice!Turn -> {"none", "going", "over"}]
    BY <1>0 DEF Voice!TypeOK
  <2>4. \A t \in interrupted : reply'[t] = reply[t]
    BY <2>1, <2>2, <2>3
  <2>5. Quieted'
    BY <1>0, <1>1, <1>2, <1>4, <2>1, <2>4, StaysQuiet
  <2>6. Voice!TypeOK'
    <3>1. turns' \in 0..MaxTurns
      BY <1>0, <1>4, <2>1
    <3>2. reply' \in [Voice!Turn -> {"none", "going", "over"}]
      BY <2>1, <2>3
    <3> QED
      BY <1>0, <1>1, <2>1, <3>1, <3>2 DEF Voice!TypeOK
  <2>7. Voice!InterruptedIsSilent'
    BY <1>1, <2>1 DEF VoiceInv, Voice!InterruptedIsSilent
  <2> QED
    BY <2>5, <2>6, <2>7 DEF VoiceInv
<1>5. CASE ~Voice!CancelOver /\ ~(Voice!ProcessTranscript /\ turns' = turns + 1)
  <2>1. /\ UNCHANGED <<turns, reply, outlived, silent>>
        /\ heard' \in BOOLEAN /\ silenceTimer' \in BOOLEAN
        /\ state' = state \/ (state # "disconnected" /\ state # "cancelling" /\
                              state' \in {"listening", "capturing", "buffering", "filler"})
    BY <1>0, <1>5 DEF Voice!SpeechStarted, Voice!Transcript, Voice!ProcessTranscript, Voice!Filler, Voice!vars, Voice!TypeOK
  <2>2. Quieted'
    BY <1>0, <1>1, <1>2, <2>1, StaysQuiet
  <2>3. Voice!TypeOK' /\ Voice!InterruptedIsSilent'
    BY <1>0, <1>1, <2>1 DEF VoiceInv, Voice!TypeOK, Voice!InterruptedIsSilent
  <2> QED
    BY <2>2, <2>3 DEF VoiceInv
<1> QED
  BY <1>3, <1>4, <1>5

LEMMA PromptKeeps ==
    ASSUME VoiceInv, Voice!SilencePrompt
    PROVE  VoiceInv'
<1>0. Voice!TypeOK /\ turns \in Nat /\ interrupted \subseteq Voice!Turn /\ text \in SUBSET Speaker
  BY TypedAsks DEF VoiceInv
<1>1. /\ state = "listening" /\ silenceTimer' = FALSE /\ prompts' = prompts + 1 /\ prompts < MaxPrompts
      /\ Voice!Flush(text \cup {Voice!Own})
      /\ UNCHANGED <<state, heard, turns, reply, sentence, interrupted, outlived, stale, silent>>
  BY DEF Voice!SilencePrompt, Voice!replies, Voice!ghosts
<1>2. text \cup {Voice!Own} \in SUBSET Speaker
  BY <1>0 DEF Speaker
<1>3. /\ text' \in SUBSET Speaker /\ text' \subseteq text \cup {Voice!Own}
      /\ request' \in [Voice!Request -> {None} \cup Asked] /\ control' \in Voice!Request \cup {None}
      /\ \A r \in Voice!Request :
             request'[r] = request[r] \/ (request'[r] \in Asked /\ request'[r].said = text \cup {Voice!Own})
  BY <1>0, <1>1, <1>2, FlushIs
<1>4. \A t \in interrupted : t # Voice!Own
  BY <1>0 DEF Voice!Turn, Voice!Own
<1>5. \A t \in interrupted : \A r \in Voice!Request : Voice!Live(r)' /\ t \in request'[r].said =>
          t \in text \/ \E q \in Voice!Request : Voice!Live(q) /\ t \in request[q].said
  BY <1>3, <1>4 DEF Voice!Live
<1>6. Quieted'
  BY <1>0, <1>1, <1>3, <1>4, <1>5, StaysQuiet
<1>7. Voice!TypeOK'
  <2>1. prompts' \in 0..MaxPrompts
    BY <1>0, <1>1, ListenersAssumption DEF Voice!TypeOK
  <2> QED
    BY <1>0, <1>1, <1>3, <2>1, TypedAsks DEF Voice!TypeOK, Speaker, Asked
<1>8. Voice!InterruptedIsSilent'
  BY <1>1 DEF VoiceInv, Voice!InterruptedIsSilent
<1> QED
  BY <1>6, <1>7, <1>8 DEF VoiceInv

\* A reply that ends flushes what is in the buffer, with its own last sentence only
\* while the session is not interrupted.
LEMMA FinishKeeps ==
    ASSUME VoiceInv, NEW t \in Voice!Turn, reply[t] = "going", NEW voice, NEW said \in SUBSET Speaker,
           said \subseteq text \cup {Voice!Own} \/ (said = text \cup {t} /\ state \notin {"cancelling", "disconnected"}),
           Voice!Finish(t, voice, said)
    PROVE  VoiceInv'
<1>0. Voice!TypeOK /\ turns \in Nat /\ interrupted \subseteq Voice!Turn
      /\ reply \in [Voice!Turn -> {"none", "going", "over"}] /\ sentence \subseteq Voice!Turn
  BY TypedAsks DEF VoiceInv
<1>1. /\ reply' = [reply EXCEPT ![t] = "over"] /\ sentence' = sentence \ {t} /\ Voice!Flush(said)
      /\ silent' = (silent \/ (t = turns /\ voice \notin said \cup Voice!Said))
      /\ UNCHANGED <<state, heard, silenceTimer, prompts, turns, interrupted, outlived, stale>>
  BY DEF Voice!Finish, Voice!session
<1>2. /\ text' \in SUBSET Speaker /\ text' \subseteq said
      /\ request' \in [Voice!Request -> {None} \cup Asked] /\ control' \in Voice!Request \cup {None}
      /\ \A r \in Voice!Request : request'[r] = request[r] \/ (request'[r] \in Asked /\ request'[r].said = said)
  BY <1>0, <1>1, FlushIs
<1>3. ASSUME NEW u \in interrupted \ outlived, state # "disconnected", u \in said PROVE u \in text
  <2>1. u # Voice!Own
    BY <1>0, <1>3 DEF Voice!Turn, Voice!Own
  <2>2. CASE said \subseteq text \cup {Voice!Own}
    BY <1>3, <2>1, <2>2
  <2>3. CASE said = text \cup {t} /\ state \notin {"cancelling", "disconnected"}
    <3>1. u # t
      BY <1>3, <2>3 DEF VoiceInv, Quieted
    <3> QED
      BY <1>3, <2>3, <3>1
  <2> QED
    BY <2>2, <2>3
<1>4. \A u \in Voice!Turn : reply'[u] = "going" => reply[u] = "going"
  BY <1>0, <1>1
<1>5. Quieted'
  <2>1. CASE state = "disconnected"
    BY <1>1, <2>1 DEF VoiceInv, Quieted
  <2>2. CASE state # "disconnected"
    <3>1. \A u \in interrupted \ outlived : \A r \in Voice!Request : Voice!Live(r)' /\ u \in request'[r].said =>
              u \in text \/ \E q \in Voice!Request : Voice!Live(q) /\ u \in request[q].said
      BY <1>2, <1>3, <2>2 DEF Voice!Live
    <3>2. \A u \in interrupted \ outlived : u \in text' => u \in text
      BY <1>2, <1>3, <2>2
    <3>3. \A u \in interrupted \ outlived : reply'[u] = "going" => reply[u] = "going"
      BY <1>0, <1>4
    <3> QED
      BY <1>0, <1>1, <3>1, <3>2, <3>3, StaysQuiet
  <2> QED
    BY <2>1, <2>2
<1>6. Voice!TypeOK'
  <2>1. reply' \in [Voice!Turn -> {"none", "going", "over"}] /\ sentence' \subseteq Voice!Turn
    BY <1>0, <1>1
  <2>2. silent' \in BOOLEAN
    BY <1>0, <1>1, Zenon DEF Voice!TypeOK
  <2> QED
    BY <1>0, <1>1, <1>2, <2>1, <2>2, TypedAsks DEF Voice!TypeOK, Speaker, Asked
<1>7. Voice!InterruptedIsSilent'
  BY <1>1 DEF VoiceInv, Voice!InterruptedIsSilent
<1> QED
  BY <1>5, <1>6, <1>7 DEF VoiceInv

LEMMA ReplyKeeps ==
    ASSUME VoiceInv, NEW t \in Voice!Turn, Voice!Token(t) \/ Voice!Complete(t) \/ Voice!AgentFails(t)
    PROVE  VoiceInv'
<1>0. /\ Voice!TypeOK /\ turns \in Nat /\ text \in SUBSET Speaker /\ sentence \subseteq Voice!Turn
      /\ text \cup {t} \in SUBSET Speaker /\ text \cup {Voice!Own} \in SUBSET Speaker
  BY TypedAsks DEF VoiceInv, Speaker
<1>1. reply[t] = "going"
  BY DEF Voice!Token, Voice!Complete, Voice!AgentFails
<1>2. CASE Voice!Token(t) /\ state \in {"cancelling", "disconnected"}
  BY <1>0, <1>1, <1>2, FinishKeeps DEF Voice!Token
<1>3. CASE Voice!Token(t) /\ state \notin {"cancelling", "disconnected"}
  <2>1. /\ \/ sentence' = sentence \cup {t} /\ text' = text
           \/ sentence' = sentence \ {t} /\ text' = text \cup {t}
        /\ UNCHANGED <<state, heard, silenceTimer, prompts, turns, reply, request, control,
                       interrupted, outlived, stale, silent>>
    BY <1>3 DEF Voice!Token, Voice!session, Voice!ghosts
  <2>2. t \notin interrupted \ outlived
    BY <1>1, <1>3 DEF VoiceInv, Quieted
  <2>3. \A u \in interrupted \ outlived : u \in text' => u \in text
    BY <2>1, <2>2
  <2>4. \A r \in Voice!Request : Voice!Live(r)' <=> Voice!Live(r)
    BY <2>1 DEF Voice!Live
  <2>5. Quieted'
    BY <1>0, <2>1, <2>3, <2>4, StaysQuiet
  <2>6. sentence' \subseteq Voice!Turn /\ text' \in SUBSET Speaker
    BY <1>0, <2>1
  <2>7. Voice!TypeOK' /\ Voice!InterruptedIsSilent'
    BY <1>0, <2>1, <2>6 DEF VoiceInv, Voice!TypeOK, Voice!InterruptedIsSilent, Speaker
  <2> QED
    BY <2>5, <2>7 DEF VoiceInv
<1>4. CASE Voice!Complete(t) /\ t \in sentence /\ state \notin {"cancelling", "disconnected"}
  <2>1. Voice!Finish(t, t, text \cup {t})
    BY <1>4 DEF Voice!Complete
  <2> QED
    BY <1>0, <1>1, <1>4, <2>1, FinishKeeps
<1>5. CASE Voice!Complete(t) /\ ~(t \in sentence /\ state \notin {"cancelling", "disconnected"})
  <2>1. Voice!Finish(t, t, text)
    BY <1>5, Zenon DEF Voice!Complete
  <2> QED
    BY <1>0, <1>1, <2>1, FinishKeeps
<1>6. CASE Voice!AgentFails(t) /\ Voice!Closed
  <2>1. Voice!Finish(t, Voice!Own, text)
    BY <1>6, Zenon DEF Voice!AgentFails
  <2> QED
    BY <1>0, <1>1, <2>1, FinishKeeps
<1>7. CASE Voice!AgentFails(t) /\ ~Voice!Closed
  <2>1. Voice!Finish(t, Voice!Own, text \cup {Voice!Own})
    BY <1>7, Zenon DEF Voice!AgentFails
  <2> QED
    BY <1>0, <1>1, <2>1, FinishKeeps
<1> QED
  BY <1>2, <1>3, <1>4, <1>5, <1>6, <1>7

LEMMA VoiceHolds == Voice!Spec => []VoiceInv
<1>1. Voice!Init => VoiceInv
  <2> SUFFICES ASSUME Voice!Init PROVE VoiceInv
    OBVIOUS
  <2>1. Voice!TypeOK
    <3>1. 0 \in 0..MaxTurns /\ 0 \in 0..MaxPrompts
      BY ListenersAssumption
    <3>2. /\ [t \in Voice!Turn |-> "none"] \in [Voice!Turn -> {"none", "going", "over"}]
          /\ [r \in Voice!Request |-> None] \in [Voice!Request -> {None} \cup Asked]
      OBVIOUS
    <3> QED
      BY <3>1, <3>2, TypedAsks DEF Voice!Init
  <2> QED
    BY <2>1 DEF Voice!Init, VoiceInv, Quieted, Voice!InterruptedIsSilent
<1>2. VoiceInv /\ [Voice!Next]_(Voice!vars) => VoiceInv'
  <2> SUFFICES ASSUME VoiceInv, [Voice!Next]_(Voice!vars) PROVE VoiceInv'
    OBVIOUS
  <2>1. CASE Voice!SpeechStarted \/ Voice!InterruptByHand
    <3>1. CASE Voice!Interrupt /\ ~Voice!Closed
      BY <3>1, InterruptKeeps
    <3>2. CASE state = "listening" /\ Voice!SpeechStarted
      BY <3>2, SessionKeeps
    <3> QED
      BY <2>1, <3>1, <3>2 DEF Voice!SpeechStarted, Voice!InterruptByHand, Voice!Closed
  <2>2. CASE Voice!CancelOver \/ Voice!Transcript \/ Voice!ProcessTranscript \/ Voice!Filler \/ UNCHANGED Voice!vars
    BY <2>2, SessionKeeps
  <2>3. CASE Voice!SilencePrompt \/ Voice!Disconnect
    BY <2>3, PromptKeeps, DisconnectionKeeps
  <2>4. ASSUME NEW t \in Voice!Turn, Voice!Token(t) \/ Voice!Complete(t) \/ Voice!AgentFails(t) PROVE VoiceInv'
    BY <2>4, ReplyKeeps
  <2>5. ASSUME NEW r \in Voice!Request, Voice!Audio(r) \/ Voice!Flushed(r) \/ Voice!SpeechFails(r) PROVE VoiceInv'
    BY <2>5, AudioKeeps, RequestEnds
  <2> QED
    BY <2>1, <2>2, <2>3, <2>4, <2>5 DEF Voice!Next
<1> QED
  BY <1>1, <1>2, PTL DEF Voice!Spec

\* Of a turn the user has interrupted nothing is heard any more, but for what the
\* interruption could not reach (VoiceSession.handleCancellation, OpenAITTS.cancel).
THEOREM InterruptionSilences == Voice!Spec => []InterruptedIsSilent
<1>1. VoiceInv => InterruptedIsSilent
  BY DEF VoiceInv, InterruptedIsSilent
<1> QED
  BY <1>1, VoiceHolds, PTL

\* Every reachable state of a voice session is well typed.
THEOREM VoiceTyped == Voice!Spec => []Voice!TypeOK
<1>1. VoiceInv => Voice!TypeOK
  BY DEF VoiceInv
<1> QED
  BY <1>1, VoiceHolds, PTL

\* In the run of both, each part moves as its own specification says, fairness
\* included, so that what is proved of a part holds there.
THEOREM EachListenerIsItself == ListenersSpec => Spec /\ Voice!FairSpec
<1>1. ListenersInit => Init /\ Voice!Init
  BY DEF ListenersInit
<1>2. [ListenersNext]_allVars => [Next]_vars
  BY DEF ListenersNext, allVars
<1>3. [ListenersNext]_allVars => [Voice!Next]_(Voice!vars)
  BY DEF ListenersNext, allVars, voiceVars, Voice!vars, Voice!session, Voice!replies, Voice!speech, Voice!ghosts
<1> QED
  BY <1>1, <1>2, <1>3, PTL DEF ListenersSpec, Spec, Voice!FairSpec, Voice!Spec
=============================================================================
