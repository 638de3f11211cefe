----------------------------- MODULE ToolsProofs -----------------------------
(***************************************************************************)
(* Theorems about the three parts of Tools, each for any size.               *)
(*                                                                           *)
(* The crews.  Registry says what the Set objects hold and who points at      *)
(* them: a Set is named by a run that has begun, serves one crew, and holds   *)
(* runs that joined it and are still going.  Sessions says what the rows and  *)
(* the cache of sessions agree on.                                            *)
(*                                                                           *)
(* The bridge.  BridgeInv says what its listeners know while they are under   *)
(* way: what they wait for, what they carry, and what they are about to do.   *)
(*                                                                           *)
(* The detector.  Its verdict is read off its window, so what is refused or   *)
(* let through is a fact about sequences of ten calls.                        *)
(***************************************************************************)
EXTENDS Tools, FiniteSetTheorems, SequenceTheorems, WellFoundedInduction, TLAPS

(* The crews.                                                              *)

Phase == {"new", "primary", "summary", "ended", "lost"}

\* The part of TypeOK that the registry needs.
Typed ==
    /\ index \in [Crew -> Run \cup {None}]
    /\ members \in [Run -> SUBSET Run]
    /\ at \in [Run -> Phase]
    /\ crew \in [Run -> Crew \cup {None}]
    /\ mine \in [Run -> Run \cup {None}]
    /\ stopped \subseteq Run

Registry ==
    /\ \A r \in Run : at[r] = "new" => members[r] = {} /\ r \notin stopped
    /\ \A r \in Run : at[r] # "new" =>
          crew[r] \in Crew /\ mine[r] \in Run /\ at[mine[r]] # "new" /\ crew[mine[r]] = crew[r]
    /\ \A o \in Run : \A q \in members[o] : mine[q] = o /\ q \in InFlight \ stopped
    /\ \A c \in Crew : index[c] # None =>
          at[index[c]] # "new" /\ crew[index[c]] = c /\ members[index[c]] # {}

\* A run that goes on unstopped is in the Set it joined, and its crew's entry is
\* that Set unless a stopped run of the crew has unwound.
Joined ==
    \A r \in InFlight \ stopped :
        /\ r \in members[mine[r]]
        /\ index[crew[r]] = mine[r] \/ \E q \in stopped : crew[q] = crew[r] /\ at[q] = "ended"

-----------------------------------------------------------------------------
\* Tool calls keep their results in a stretch of rows.
Whole(rs) ==
    \A i \in 1..Len(rs) :
        rs[i].kind = "call" =>
            /\ i < Len(rs)
            /\ rs[i + 1] = [by |-> rs[i].by, kind |-> "result"]

\* Appending whole rows to whole rows separates no call from its result.
LEMMA WholeConcat ==
    ASSUME NEW rs \in Seq(Row), NEW new \in Seq(Row), Whole(rs), Whole(new)
    PROVE  Whole(rs \o new)
<1> DEFINE all == rs \o new
<1>1. /\ Len(all) = Len(rs) + Len(new) /\ Len(rs) \in Nat /\ Len(new) \in Nat
      /\ \A i \in 1..Len(rs) : all[i] = rs[i]
      /\ \A i \in 1..Len(new) : all[Len(rs) + i] = new[i]
  OBVIOUS
<1> HIDE DEF all
<1>2. ASSUME NEW i \in 1..Len(all), all[i].kind = "call"
      PROVE  i < Len(all) /\ all[i + 1] = [by |-> all[i].by, kind |-> "result"]
  <2>1. CASE i \in 1..Len(rs)
    <3>1. i < Len(rs) /\ rs[i + 1] = [by |-> rs[i].by, kind |-> "result"]
      BY <1>1, <1>2, <2>1 DEF Whole
    <3>2. i + 1 \in 1..Len(rs)
      BY <1>1, <2>1, <3>1
    <3>3. all[i] = rs[i] /\ all[i + 1] = rs[i + 1]
      BY <1>1, <2>1, <3>2
    <3>4. QED
      BY <1>1, <2>1, <3>1, <3>3
  <2>2. CASE i \notin 1..Len(rs)
    <3>1. PICK k \in 1..Len(new) : i = Len(rs) + k
      <4>1. i - Len(rs) \in 1..Len(new) /\ i = Len(rs) + (i - Len(rs))
        BY <1>1, <2>2
      <4>2. QED
        BY <4>1
    <3>2. new[k].kind = "call"
      BY <1>1, <1>2, <3>1
    <3>3. k < Len(new) /\ new[k + 1] = [by |-> new[k].by, kind |-> "result"]
      BY <3>1, <3>2 DEF Whole
    <3>4. k + 1 \in 1..Len(new) /\ all[Len(rs) + (k + 1)] = new[k + 1] /\ i + 1 = Len(rs) + (k + 1)
      BY <1>1, <3>1, <3>3
    <3>5. all[i] = new[k] /\ all[i + 1] = new[k + 1]
      BY <1>1, <3>1, <3>4
    <3>6. QED
      BY <1>1, <3>1, <3>3, <3>5
  <2>3. QED
    BY <2>1, <2>2
<1>3. QED
  BY <1>2 DEF Whole, all

\* The rows a run appends at once: one without a call, or a block and a row
\* that is none.
LEMMA WholeBlocks ==
    ASSUME NEW r \in Run, NEW k \in {"task", "text", "summarise"}
    PROVE  /\ <<[by |-> r, kind |-> k]>> \in Seq(Row)
           /\ Whole(<<[by |-> r, kind |-> k]>>)
           /\ Append(Block(r), [by |-> r, kind |-> k]) \in Seq(Row)
           /\ Whole(Append(Block(r), [by |-> r, kind |-> k]))
<1>1. [by |-> r, kind |-> k] \in Row /\ [by |-> r, kind |-> "call"] \in Row
      /\ [by |-> r, kind |-> "result"] \in Row
  BY DEF Row
<1>2. <<[by |-> r, kind |-> k]>> \in Seq(Row) /\ Block(r) \in Seq(Row)
  BY <1>1 DEF Block
<1>3. Whole(<<[by |-> r, kind |-> k]>>)
  BY DEF Whole
<1> DEFINE block == Append(Block(r), [by |-> r, kind |-> k])
<1>4. /\ block \in Seq(Row) /\ Len(block) = 3
      /\ block[1] = [by |-> r, kind |-> "call"] /\ block[2] = [by |-> r, kind |-> "result"]
      /\ block[3] = [by |-> r, kind |-> k]
  BY <1>1 DEF Block
<1> HIDE DEF block
<1>5. Whole(block)
  BY <1>4 DEF Whole
<1>6. QED
  BY <1>2, <1>3, <1>4, <1>5 DEF block

-----------------------------------------------------------------------------
\* Rows are only ever appended to, by whole blocks, or deleted with a session.
LEMMA AppendRows ==
    ASSUME rows \in [Sess -> Seq(Row)], CallsKeepResults,
           NEW s, NEW new \in Seq(Row), Whole(new),
           rows' = [rows EXCEPT ![s] = @ \o new]
    PROVE  rows' \in [Sess -> Seq(Row)] /\ CallsKeepResults'
<1>1. \A x \in Sess : rows'[x] = rows[x] \/ rows'[x] = rows[x] \o new
  OBVIOUS
<1>2. \A x \in Sess : Whole(rows[x])
  <2>1. \A x \in Sess : DOMAIN rows[x] = 1..Len(rows[x])
    OBVIOUS
  <2>2. QED
    BY <2>1 DEF CallsKeepResults, Whole
<1>3. \A x \in Sess : Whole(rows'[x]) /\ rows'[x] \in Seq(Row)
  BY <1>1, <1>2, WholeConcat
<1>4. rows' \in [Sess -> Seq(Row)]
  BY <1>3
<1>5. \A x \in Sess : DOMAIN rows'[x] = 1..Len(rows'[x])
  BY <1>4
<1>6. QED
  BY <1>3, <1>4, <1>5 DEF CallsKeepResults, Whole

LEMMA StoresRows ==
    ASSUME rows \in [Sess -> Seq(Row)], CallsKeepResults,
           NEW r \in Run, NEW new \in Seq(Row), Whole(new), Stores(r, new)
    PROVE  rows' \in [Sess -> Seq(Row)] /\ CallsKeepResults'
  BY AppendRows DEF Stores

\* Runs of a crew that share its session never separate a call from its result.
THEOREM SharingKeepsResults == Spec => [](rows \in [Sess -> Seq(Row)] /\ CallsKeepResults)
<1> DEFINE Inv == rows \in [Sess -> Seq(Row)] /\ CallsKeepResults
<1>1. Init => Inv
  BY DEF Init, CallsKeepResults
<1>2. Inv /\ [Next]_vars => Inv'
  <2> SUFFICES ASSUME rows \in [Sess -> Seq(Row)], CallsKeepResults, [Next]_vars
               PROVE  rows' \in [Sess -> Seq(Row)] /\ CallsKeepResults'
    OBVIOUS
  <2>1. ASSUME NEW r \in Run, NEW c \in Crew, Begin(r, c)
        PROVE  rows' \in [Sess -> Seq(Row)] /\ CallsKeepResults'
    <3> DEFINE new == <<[by |-> r, kind |-> "task"]>>
    <3>1. PICK s : rows' = [rows EXCEPT ![s] = Append(@, [by |-> r, kind |-> "task"])]
      BY <2>1 DEF Begin
    <3>2. new \in Seq(Row) /\ Whole(new)
      BY WholeBlocks
    <3>3. \A x \in Sess : Append(rows[x], [by |-> r, kind |-> "task"]) = rows[x] \o new
      OBVIOUS
    <3>4. rows' = [rows EXCEPT ![s] = @ \o new]
      BY <3>1, <3>3
    <3> HIDE DEF new
    <3>5. QED
      BY <3>2, <3>4, AppendRows
  <2>2. ASSUME NEW r \in Run, RunStep(r)
        PROVE  rows' \in [Sess -> Seq(Row)] /\ CallsKeepResults'
    <3>1. CASE RunFails(r)
      BY <3>1 DEF RunFails, tables, CallsKeepResults
    <3>2. CASE PrimaryEnds(r)
      BY <3>2, StoresRows, WholeBlocks DEF PrimaryEnds
    <3>3. CASE PrimaryLacksText(r)
      BY <3>3, StoresRows, WholeBlocks DEF PrimaryLacksText
    <3>4. CASE SummaryEnds(r)
      BY <3>4, StoresRows, WholeBlocks DEF SummaryEnds
    <3>5. QED
      BY <2>2, <3>1, <3>2, <3>3, <3>4 DEF RunStep
  <2>3. ASSUME NEW s \in Sess, DeleteSession(s)
        PROVE  rows' \in [Sess -> Seq(Row)] /\ CallsKeepResults'
    <3>1. rows' = [rows EXCEPT ![s] = <<>>] /\ <<>> \in Seq(Row)
      BY <2>3 DEF DeleteSession
    <3>2. \A x \in Sess : rows'[x] = rows[x] \/ rows'[x] = <<>>
      BY <3>1
    <3>3. rows' \in [Sess -> Seq(Row)]
      BY <3>1
    <3>4. QED
      BY <3>2, <3>3 DEF CallsKeepResults
  <2>4. ASSUME UNCHANGED rows
        PROVE  rows' \in [Sess -> Seq(Row)] /\ CallsKeepResults'
    BY <2>4 DEF CallsKeepResults
  <2>5. ASSUME NEW c \in Crew, Stop(c) PROVE UNCHANGED rows
    BY <2>5 DEF Stop, tables
  <2>6. StopAll \/ Restart \/ UNCHANGED vars => UNCHANGED rows
    BY DEF StopAll, Restart, vars, tables
  <2>7. QED
    BY <2>1, <2>2, <2>3, <2>4, <2>5, <2>6 DEF Next
<1>3. QED
  BY <1>1, <1>2, PTL DEF Spec

-----------------------------------------------------------------------------
\* The entry of a crew with a Set is that Set.
LEMMA RegistryShows == ASSUME Typed, Registry PROVE EntryIsLive
<1> USE CrewRunsAssumption DEF Registry, Typed
<1>1. SUFFICES ASSUME NEW c \in Crew, index[c] # None
               PROVE  /\ members[index[c]] # {}
                      /\ \A r \in members[index[c]] : r \in InFlight \ stopped /\ crew[r] = c
  BY DEF EntryIsLive
<1>2. index[c] \in Run /\ at[index[c]] # "new" /\ crew[index[c]] = c /\ members[index[c]] # {}
  BY <1>1
<1>3. ASSUME NEW r \in members[index[c]]
      PROVE  r \in InFlight \ stopped /\ crew[r] = c
  <2>1. r \in Run /\ mine[r] = index[c] /\ r \in InFlight \ stopped
    BY <1>2
  <2>2. at[r] # "new"
    BY <2>1 DEF InFlight
  <2>3. QED
    BY <1>2, <2>1, <2>2
<1>4. QED
  BY <1>2, <1>3

\* A run begins: it names a new Set or joins its crew's.
LEMMA BeginJoins ==
    ASSUME Typed, Registry, Joined, NEW r \in Run, NEW c \in Crew, Begin(r, c)
    PROVE  Typed' /\ Registry' /\ Joined'
<1> USE CrewRunsAssumption DEF Phase
<1> DEFINE o == IF index[c] = None THEN r ELSE index[c]
<1>1. /\ at[r] = "new" /\ o \in Run
      /\ mine' = [mine EXCEPT ![r] = o]
      /\ index' = [index EXCEPT ![c] = o]
      /\ members' = [members EXCEPT ![o] = @ \cup {r}]
      /\ crew' = [crew EXCEPT ![r] = c]
      /\ at' = [at EXCEPT ![r] = "primary"]
      /\ stopped' = stopped
  BY DEF Begin, Join, Typed
<1>2. Typed'
  BY <1>1 DEF Typed
<1>3. /\ members[r] = {} /\ r \notin stopped
      /\ o # r => at[o] # "new" /\ crew[o] = c /\ index[c] = o
      /\ o = r => index[c] = None
  BY <1>1 DEF Registry, Typed
<1> HIDE DEF o
<1>4. /\ \A q \in Run : at'[q] # "new" <=> (at[q] # "new" \/ q = r)
      /\ InFlight' = InFlight \cup {r}
      /\ mine'[r] = o /\ crew'[r] = c /\ index'[c] = o /\ members'[o] = members[o] \cup {r}
      /\ \A q \in Run \ {r} : mine'[q] = mine[q] /\ crew'[q] = crew[q] /\ at'[q] = at[q]
      /\ \A q \in Run \ {o} : members'[q] = members[q]
      /\ \A d \in Crew \ {c} : index'[d] = index[d]
  BY <1>1 DEF Typed, InFlight
<1>5. \A q \in Run : at[q] # "new" => q # r /\ mine[q] # r
  BY <1>1 DEF Registry
<1>6. \A q \in Run : at'[q] # "new" =>
          crew'[q] \in Crew /\ mine'[q] \in Run /\ at'[mine'[q]] # "new" /\ crew'[mine'[q]] = crew'[q]
  <2>1. SUFFICES ASSUME NEW q \in Run, at'[q] # "new"
                 PROVE  /\ crew'[q] \in Crew /\ mine'[q] \in Run
                        /\ at'[mine'[q]] # "new" /\ crew'[mine'[q]] = crew'[q]
    OBVIOUS
  <2>2. CASE q = r
    BY <2>2, <1>1, <1>3, <1>4
  <2>3. CASE q # r
    <3>1. at[q] # "new" /\ mine[q] # r
      BY <2>1, <2>3, <1>4, <1>5
    <3>2. crew[q] \in Crew /\ mine[q] \in Run /\ at[mine[q]] # "new" /\ crew[mine[q]] = crew[q]
      BY <3>1 DEF Registry
    <3>3. QED
      BY <2>3, <3>1, <3>2, <1>4
  <2>4. QED
    BY <2>2, <2>3
<1>7. \A p \in Run : \A q \in members'[p] : mine'[q] = p /\ q \in InFlight' \ stopped'
  <2>1. SUFFICES ASSUME NEW p \in Run, NEW q \in members'[p]
                 PROVE  mine'[q] = p /\ q \in InFlight' \ stopped'
    OBVIOUS
  <2>2. CASE q = r
    <3>1. r \notin members[p]
      BY <1>1 DEF Registry, InFlight
    <3>2. p = o
      BY <2>1, <2>2, <3>1, <1>4
    <3>3. QED
      BY <2>2, <3>2, <1>1, <1>3, <1>4
  <2>3. CASE q # r
    <3>1. q \in members[p] /\ q \in Run
      BY <2>1, <2>3, <1>1, <1>4 DEF Typed
    <3>2. mine[q] = p /\ q \in InFlight \ stopped
      BY <3>1 DEF Registry
    <3>3. QED
      BY <2>3, <3>1, <3>2, <1>1, <1>4
  <2>4. QED
    BY <2>2, <2>3
<1>8. \A d \in Crew : index'[d] # None =>
          at'[index'[d]] # "new" /\ crew'[index'[d]] = d /\ members'[index'[d]] # {}
  <2>1. SUFFICES ASSUME NEW d \in Crew, index'[d] # None
                 PROVE  at'[index'[d]] # "new" /\ crew'[index'[d]] = d /\ members'[index'[d]] # {}
    OBVIOUS
  <2>2. CASE d = c
    BY <2>2, <1>1, <1>3, <1>4
  <2>3. CASE d # c
    <3>1. index'[d] = index[d] /\ index[d] \in Run
      BY <2>1, <2>3, <1>4 DEF Typed
    <3>2. at[index[d]] # "new" /\ crew[index[d]] = d /\ members[index[d]] # {}
      BY <2>1, <3>1 DEF Registry
    <3>3. index[d] # r /\ index[d] # o
      BY <2>3, <3>2, <1>1, <1>3
    <3>4. QED
      BY <3>1, <3>2, <3>3, <1>4
  <2>4. QED
    BY <2>2, <2>3
<1>9. Registry'
  <2>1. \A q \in Run : at'[q] = "new" => members'[q] = {} /\ q \notin stopped'
    BY <1>1, <1>3, <1>4 DEF Registry
  <2>2. QED
    BY <2>1, <1>6, <1>7, <1>8 DEF Registry
<1>10. Joined'
  <2>1. SUFFICES ASSUME NEW q \in InFlight' \ stopped'
                 PROVE  /\ q \in members'[mine'[q]]
                        /\ index'[crew'[q]] = mine'[q]
                           \/ \E x \in stopped' : crew'[x] = crew'[q] /\ at'[x] = "ended"
    BY DEF Joined
  <2>2. CASE q = r
    BY <2>2, <1>4
  <2>3. CASE q # r
    <3>1. q \in InFlight \ stopped /\ q \in Run
      BY <2>1, <2>3, <1>1, <1>4 DEF InFlight
    <3>2. /\ q \in members[mine[q]]
          /\ index[crew[q]] = mine[q] \/ \E x \in stopped : crew[x] = crew[q] /\ at[x] = "ended"
      BY <3>1 DEF Joined
    <3>3. crew[q] \in Crew /\ mine[q] \in Run /\ mine[q] # None
      BY <3>1 DEF Registry, InFlight
    <3>4. q \in members'[mine'[q]]
      BY <2>3, <3>1, <3>2, <3>3, <1>4
    <3>5. CASE index[crew[q]] = mine[q]
      BY <2>3, <3>1, <3>3, <3>4, <3>5, <1>3, <1>4
    <3>6. CASE \E x \in stopped : crew[x] = crew[q] /\ at[x] = "ended"
      BY <2>3, <3>1, <3>4, <3>6, <1>1, <1>3, <1>4 DEF Typed
    <3>7. QED
      BY <3>2, <3>5, <3>6
  <2>4. QED
    BY <2>2, <2>3
<1>11. QED
  BY <1>2, <1>9, <1>10

\* A run leaves the Set it joined.  If the Set is empty then, its crew loses the
\* entry: the run's own, or another's if the run had been stopped.
LEMMA FinallyLeaves ==
    ASSUME Typed, Registry, Joined, NEW r \in InFlight, Finally(r),
           UNCHANGED <<crew, mine, stopped>>
    PROVE  Typed' /\ Registry' /\ Joined'
<1> USE CrewRunsAssumption DEF Phase
<1> DEFINE o == mine[r]
           c == crew[r]
<1>1. r \in Run /\ at[r] # "new" /\ o \in Run /\ c \in Crew /\ at[o] # "new" /\ crew[o] = c
  BY DEF InFlight, Registry
<1> HIDE DEF o, c
<1>2. /\ members' = [members EXCEPT ![o] = @ \ {r}]
      /\ index' = IF members'[o] = {} THEN [index EXCEPT ![c] = None] ELSE index
      /\ at' = [at EXCEPT ![r] = "ended"]
  BY DEF Finally, o, c
<1>3. Typed'
  BY <1>1, <1>2 DEF Typed
<1>4. /\ members'[o] = members[o] \ {r} /\ \A p \in Run \ {o} : members'[p] = members[p]
      /\ at'[r] = "ended" /\ \A q \in Run \ {r} : at'[q] = at[q]
      /\ InFlight' = InFlight \ {r}
      /\ \A q \in Run : at'[q] = "new" <=> at[q] = "new"
  BY <1>1, <1>2 DEF Typed, InFlight
<1>5. \A d \in Crew : index'[d] = index[d] \/ (d = c /\ index'[d] = None /\ members'[o] = {})
  BY <1>1, <1>2 DEF Typed
<1>6. \A p \in Run : \A q \in members'[p] : mine[q] = p /\ q \in InFlight' \ stopped
  <2>1. SUFFICES ASSUME NEW p \in Run, NEW q \in members'[p]
                 PROVE  mine[q] = p /\ q \in InFlight' \ stopped
    OBVIOUS
  <2>2. q \in members[p]
    BY <1>1, <1>4
  <2>3. mine[q] = p /\ q \in InFlight \ stopped
    BY <2>2 DEF Registry
  <2>4. q # r
    BY <2>3, <1>4 DEF o
  <2>5. QED
    BY <2>3, <2>4, <1>4
<1>7. \A d \in Crew : index'[d] # None =>
          at'[index'[d]] # "new" /\ crew[index'[d]] = d /\ members'[index'[d]] # {}
  <2>1. SUFFICES ASSUME NEW d \in Crew, index'[d] # None
                 PROVE  at'[index'[d]] # "new" /\ crew[index'[d]] = d /\ members'[index'[d]] # {}
    OBVIOUS
  <2>2. index'[d] = index[d] /\ index[d] \in Run
    BY <2>1, <1>5 DEF Typed
  <2>3. at[index[d]] # "new" /\ crew[index[d]] = d /\ members[index[d]] # {}
    BY <2>1, <2>2 DEF Registry
  <2>4. CASE index[d] = o
    <3>1. d = c
      BY <2>3, <2>4, <1>1
    <3>2. members'[o] # {}
      BY <2>1, <3>1, <1>1, <1>2 DEF Typed
    <3>3. QED
      BY <2>2, <2>3, <2>4, <3>2, <1>4
  <2>5. CASE index[d] # o
    BY <2>2, <2>3, <2>5, <1>4
  <2>6. QED
    BY <2>4, <2>5
<1>8. Registry'
  <2>1. \A q \in Run : at'[q] = "new" => members'[q] = {} /\ q \notin stopped
    BY <1>1, <1>4 DEF Registry
  <2>2. \A q \in Run : at'[q] # "new" =>
            crew[q] \in Crew /\ mine[q] \in Run /\ at'[mine[q]] # "new" /\ crew[mine[q]] = crew[q]
    BY <1>4 DEF Registry
  <2>3. QED
    BY <2>1, <2>2, <1>6, <1>7 DEF Registry
<1>9. Joined'
  <2>1. SUFFICES ASSUME NEW q \in InFlight' \ stopped
                 PROVE  /\ q \in members'[mine[q]]
                        /\ index'[crew[q]] = mine[q]
                           \/ \E x \in stopped : crew[x] = crew[q] /\ at'[x] = "ended"
    BY DEF Joined
  <2>2. q # r /\ q \in InFlight \ stopped /\ q \in Run /\ crew[q] \in Crew /\ mine[q] \in Run
    BY <1>4 DEF InFlight, Registry
  <2>3. /\ q \in members[mine[q]]
        /\ index[crew[q]] = mine[q] \/ \E x \in stopped : crew[x] = crew[q] /\ at[x] = "ended"
    BY <2>2 DEF Joined
  <2>4. q \in members'[mine[q]]
    BY <2>2, <2>3, <1>4
  <2>5. CASE \E x \in stopped : crew[x] = crew[q] /\ at[x] = "ended"
    BY <2>4, <2>5, <1>4 DEF Typed
  <2>6. CASE index[crew[q]] = mine[q] /\ index'[crew[q]] = index[crew[q]]
    BY <2>4, <2>6
  <2>7. CASE index[crew[q]] = mine[q] /\ index'[crew[q]] # index[crew[q]]
    <3>1. crew[q] = c /\ members'[o] = {}
      BY <2>2, <2>7, <1>5
    <3>2. index[c] # o
      BY <2>4, <2>7, <3>1
    <3>3. CASE r \in stopped
      BY <2>4, <3>1, <3>3, <1>4 DEF c
    <3>4. CASE r \notin stopped
      <4>1. \E x \in stopped : crew[x] = c /\ at[x] = "ended"
        BY <3>2, <3>4 DEF Joined, o, c
      <4>2. QED
        BY <2>4, <3>1, <4>1, <1>4 DEF Typed
    <3>5. QED
      BY <3>3, <3>4
  <2>8. QED
    BY <2>3, <2>5, <2>6, <2>7
<1>10. QED
  BY <1>3, <1>8, <1>9

\* Sets are emptied, and every entry that held one of them goes.
LEMMA SetsEmptied ==
    ASSUME Typed, Registry, Joined, NEW C \in SUBSET Crew,
           LET sets == {index[c] : c \in C} \ {None}
           IN  /\ stopped' = stopped \cup UNION {members[o] : o \in sets}
               /\ members' = [o \in Run |-> IF o \in sets THEN {} ELSE members[o]]
               /\ index' = [c \in Crew |-> IF c \in C THEN None ELSE index[c]],
           UNCHANGED <<at, crew, mine>>
    PROVE  Typed' /\ Registry' /\ Joined'
<1> USE CrewRunsAssumption DEF Phase
<1> DEFINE sets == {index[c] : c \in C} \ {None}
<1>1. /\ stopped' = stopped \cup UNION {members[o] : o \in sets}
      /\ members' = [o \in Run |-> IF o \in sets THEN {} ELSE members[o]]
      /\ index' = [c \in Crew |-> IF c \in C THEN None ELSE index[c]]
  OBVIOUS
<1>2. sets \subseteq Run /\ \A o \in sets : crew[o] \in C /\ index[crew[o]] = o
  <2>1. ASSUME NEW o \in sets PROVE o \in Run /\ crew[o] \in C /\ index[crew[o]] = o
    <3>1. PICK c \in C : index[c] = o /\ o # None
      OBVIOUS
    <3>2. crew[o] = c /\ o \in Run
      BY <3>1 DEF Registry, Typed
    <3>3. QED
      BY <3>1, <3>2
  <2>2. QED
    BY <2>1
<1>3. \A c \in C : index[c] # None => index[c] \in sets
  OBVIOUS
<1> HIDE DEF sets
<1>4. \A q \in Run : q \in stopped' <=> (q \in stopped \/ \E o \in sets : q \in members[o])
  BY <1>1
<1>5. \A o \in Run : members'[o] = {} \/ (o \notin sets /\ members'[o] = members[o])
  BY <1>1
<1>6. Typed'
  BY <1>1, <1>2 DEF Typed
<1>7. \A p \in Run : \A q \in members'[p] : mine[q] = p /\ q \in InFlight \ stopped'
  <2>1. SUFFICES ASSUME NEW p \in Run, NEW q \in members'[p]
                 PROVE  mine[q] = p /\ q \in InFlight \ stopped'
    OBVIOUS
  <2>2. p \notin sets /\ q \in members[p] /\ q \in Run
    BY <1>5 DEF Typed
  <2>3. mine[q] = p /\ q \in InFlight \ stopped
    BY <2>2 DEF Registry
  <2>4. \A o \in sets : q \notin members[o]
    BY <2>2, <2>3, <1>2 DEF Registry
  <2>5. QED
    BY <2>2, <2>3, <2>4, <1>4
<1>8. Registry'
  <2>1. \A q \in Run : at[q] = "new" => members'[q] = {} /\ q \notin stopped'
    <3>1. \A q \in Run : \A o \in Run : q \in members[o] => at[q] # "new"
      BY DEF Registry, InFlight
    <3>2. QED
      BY <3>1, <1>2, <1>4, <1>5 DEF Registry
  <2>2. \A c \in Crew : index'[c] # None =>
            at[index'[c]] # "new" /\ crew[index'[c]] = c /\ members'[index'[c]] # {}
    <3>1. SUFFICES ASSUME NEW c \in Crew, index'[c] # None
                   PROVE  at[index'[c]] # "new" /\ crew[index'[c]] = c /\ members'[index'[c]] # {}
      OBVIOUS
    <3>2. c \notin C /\ index'[c] = index[c] /\ index[c] \in Run
      BY <3>1, <1>1 DEF Typed
    <3>3. at[index[c]] # "new" /\ crew[index[c]] = c /\ members[index[c]] # {}
      BY <3>1, <3>2 DEF Registry
    <3>4. index[c] \notin sets
      BY <3>2, <3>3, <1>2
    <3>5. QED
      BY <3>2, <3>3, <3>4, <1>1
  <2>3. InFlight' = InFlight
    BY DEF InFlight
  <2>4. \A q \in Run : at[q] # "new" =>
            crew[q] \in Crew /\ mine[q] \in Run /\ at[mine[q]] # "new" /\ crew[mine[q]] = crew[q]
    BY DEF Registry
  <2>5. QED
    BY <2>1, <2>2, <2>3, <2>4, <1>7 DEF Registry
<1>9. Joined'
  <2>1. SUFFICES ASSUME NEW q \in InFlight \ stopped'
                 PROVE  /\ q \in members'[mine[q]]
                        /\ index'[crew[q]] = mine[q]
                           \/ \E x \in stopped' : crew[x] = crew[q] /\ at[x] = "ended"
    BY DEF Joined, InFlight
  <2>2. q \in Run /\ q \in InFlight \ stopped /\ \A o \in sets : q \notin members[o]
    BY <1>4 DEF InFlight
  <2>3. crew[q] \in Crew /\ mine[q] \in Run /\ mine[q] # None /\ crew[mine[q]] = crew[q]
    BY <2>2 DEF InFlight, Registry
  <2>4. /\ q \in members[mine[q]]
        /\ index[crew[q]] = mine[q] \/ \E x \in stopped : crew[x] = crew[q] /\ at[x] = "ended"
    BY <2>2 DEF Joined
  <2>5. mine[q] \notin sets
    BY <2>2, <2>4
  <2>6. q \in members'[mine[q]]
    BY <2>3, <2>4, <2>5, <1>1
  <2>7. CASE index[crew[q]] = mine[q]
    BY <2>3, <2>5, <2>6, <2>7, <1>1, <1>3
  <2>8. CASE \E x \in stopped : crew[x] = crew[q] /\ at[x] = "ended"
    BY <2>6, <2>8, <1>1
  <2>9. QED
    BY <2>4, <2>7, <2>8
<1>10. QED
  BY <1>6, <1>8, <1>9

LEMMA RegistryHolds == Spec => [](Typed /\ Registry /\ Joined)
<1> USE CrewRunsAssumption DEF Phase
<1>1. Init => Typed /\ Registry /\ Joined
  BY DEF Init, Typed, Registry, Joined, InFlight
<1>2. Typed /\ Registry /\ Joined /\ [Next]_vars => Typed' /\ Registry' /\ Joined'
  <2> SUFFICES ASSUME Typed, Registry, Joined, [Next]_vars
               PROVE  Typed' /\ Registry' /\ Joined'
    OBVIOUS
  <2>1. ASSUME NEW r \in Run, NEW c \in Crew, Begin(r, c)
        PROVE  Typed' /\ Registry' /\ Joined'
    BY <2>1, BeginJoins
  <2>2. ASSUME NEW r \in Run, RunStep(r) PROVE Typed' /\ Registry' /\ Joined'
    <3>1. CASE PrimaryLacksText(r)
      <4>1. /\ at' = [at EXCEPT ![r] = "summary"] /\ at[r] = "primary"
            /\ UNCHANGED <<index, members, crew, used, mine, stopped>>
        BY <3>1 DEF PrimaryLacksText, registry, locals
      <4>2. /\ \A q \in Run : (at'[q] = "new" <=> at[q] = "new") /\ (at'[q] = "ended" <=> at[q] = "ended")
            /\ InFlight' = InFlight
        BY <4>1 DEF Typed, InFlight
      <4>3. Typed'
        BY <4>1 DEF Typed
      <4>4. Registry'
        BY <4>1, <4>2 DEF Registry, Typed
      <4>5. Joined'
        BY <4>1, <4>2 DEF Joined, Typed
      <4>6. QED
        BY <4>3, <4>4, <4>5
    <3>2. CASE RunFails(r) \/ PrimaryEnds(r) \/ SummaryEnds(r)
      <4>1. r \in InFlight /\ Finally(r) /\ UNCHANGED <<crew, mine, stopped>>
        BY <3>2 DEF RunFails, PrimaryEnds, SummaryEnds, InFlight, locals
      <4>2. QED
        BY <4>1, FinallyLeaves
    <3>3. QED
      BY <2>2, <3>1, <3>2 DEF RunStep
  <2>3. ASSUME NEW c \in Crew, Stop(c) PROVE Typed' /\ Registry' /\ Joined'
    <3>1. {c} \in SUBSET Crew /\ {index[d] : d \in {c}} \ {None} = {index[c]} /\ index[c] \in Run
      BY <2>3 DEF Stop, Typed
    <3>2. /\ stopped' = stopped \cup UNION {members[o] : o \in {index[c]}}
          /\ members' = [o \in Run |-> IF o \in {index[c]} THEN {} ELSE members[o]]
          /\ index' = [d \in Crew |-> IF d \in {c} THEN None ELSE index[d]]
      <4>1. UNION {members[o] : o \in {index[c]}} = members[index[c]]
        OBVIOUS
      <4>2. stopped' = stopped \cup members[index[c]]
            /\ members' = [members EXCEPT ![index[c]] = {}]
            /\ index' = [index EXCEPT ![c] = None]
        BY <2>3 DEF Stop
      <4>3. members \in [Run -> SUBSET Run] /\ index \in [Crew -> Run \cup {None}]
        BY DEF Typed
      <4>4. members' = [o \in Run |-> IF o \in {index[c]} THEN {} ELSE members[o]]
        BY <4>2, <4>3
      <4>5. index' = [d \in Crew |-> IF d \in {c} THEN None ELSE index[d]]
        BY <4>2, <4>3
      <4>6. QED
        BY <4>1, <4>2, <4>4, <4>5
    <3>3. UNCHANGED <<at, crew, mine>>
      BY <2>3 DEF Stop, locals
    <3>4. QED
      BY <3>1, <3>2, <3>3, SetsEmptied
  <2>4. CASE StopAll
    <3>1. Crew \in SUBSET Crew /\ UNCHANGED <<at, crew, mine>>
      BY <2>4 DEF StopAll, locals
    <3>2. /\ stopped' = stopped \cup UNION {members[o] : o \in {index[c] : c \in Crew} \ {None}}
          /\ members' = [o \in Run |-> IF o \in {index[c] : c \in Crew} \ {None} THEN {} ELSE members[o]]
          /\ index' = [c \in Crew |-> IF c \in Crew THEN None ELSE index[c]]
      BY <2>4 DEF StopAll
    <3>3. QED
      BY <3>1, <3>2, SetsEmptied
  <2>5. CASE Restart
    <3>1. /\ at' = [r \in Run |-> IF r \in InFlight THEN "lost" ELSE at[r]]
          /\ index' = [c \in Crew |-> None] /\ members' = [r \in Run |-> {}]
          /\ UNCHANGED <<crew, mine, stopped>>
      BY <2>5 DEF Restart, locals
    <3>2. InFlight' = {} /\ \A r \in Run : at'[r] = "new" <=> at[r] = "new"
      BY <3>1 DEF InFlight
    <3>3. Typed'
      BY <3>1 DEF Typed
    <3>4. \A r \in Run : members'[r] = {} /\ \A c \in Crew : index'[c] = None
      BY <3>1
    <3>5. Registry'
      BY <3>1, <3>2, <3>4 DEF Registry
    <3>6. QED
      BY <3>2, <3>3, <3>5 DEF Joined
  <2>6. CASE UNCHANGED <<index, members, at, crew, mine, stopped>>
    BY <2>6 DEF Typed, Registry, Joined, InFlight
  <2>7. ASSUME NEW s \in Sess, DeleteSession(s)
        PROVE  UNCHANGED <<index, members, at, crew, mine, stopped>>
    BY <2>7 DEF DeleteSession, registry, locals
  <2>8. UNCHANGED vars => UNCHANGED <<index, members, at, crew, mine, stopped>>
    BY DEF vars, registry, locals
  <2>9. QED
    BY <2>1, <2>2, <2>3, <2>4, <2>5, <2>6, <2>7, <2>8 DEF Next
<1>3. QED
  BY <1>1, <1>2, PTL DEF Spec

\* What stop() counts and listActive() shows is real, for any number of runs of
\* any crews stopped and started in any order.
THEOREM EntriesAreLive == Spec => []EntryIsLive
<1>1. Typed /\ Registry /\ Joined => EntryIsLive
  BY RegistryShows
<1>2. QED
  BY <1>1, RegistryHolds, PTL

\* An unstopped run is out of stop_crew's reach only behind a stopped run of its
\* crew that has unwound.
THEOREM OutOfReachBehindStopped == Spec => []LostOnlyBehindStopped
<1>1. Typed /\ Registry /\ Joined => LostOnlyBehindStopped
  <2> SUFFICES ASSUME Typed, Registry, Joined, NEW r \in InFlight \ stopped
               PROVE  Reachable(r) \/ \E q \in stopped : crew[q] = crew[r] /\ at[q] = "ended"
    BY DEF LostOnlyBehindStopped
  <2>1. mine[r] \in Run /\ r \in members[mine[r]]
    BY DEF Joined, Registry, InFlight
  <2>2. index[crew[r]] = mine[r] \/ \E q \in stopped : crew[q] = crew[r] /\ at[q] = "ended"
    BY DEF Joined
  <2>3. index[crew[r]] = mine[r] => Reachable(r)
    BY <2>1, CrewRunsAssumption DEF Reachable
  <2>4. QED
    BY <2>2, <2>3
<1>2. QED
  BY <1>1, RegistryHolds, PTL

-----------------------------------------------------------------------------
(* Sessions.  recency lists every session row once, so touching a session     *)
(* moves it and deleting it removes it; a crew's cache names a session of     *)
(* the crew, and its latest row is one if it has any.                         *)

Once(q) == \A i, j \in 1..Len(q) : q[i] = q[j] => i = j
In(s, q) == \E i \in 1..Len(q) : q[i] = s

\* A sequence that lists each thing once lists the rest once without one of them.
LEMMA RemoveAtIs ==
    ASSUME NEW S, NEW q \in Seq(S), Once(q), NEW i \in 1..Len(q)
    PROVE  /\ RemoveAt(q, i) \in Seq(S) /\ Once(RemoveAt(q, i))
           /\ \A x : In(x, RemoveAt(q, i)) <=> In(x, q) /\ x # q[i]
<1> DEFINE w == SubSeq(q, 1, i - 1) \o SubSeq(q, i + 1, Len(q))
<1>1. Len(q) \in Nat /\ i \in 1..Len(q)
  OBVIOUS
<1>2. RemoveAt(q, i) = w
  BY DEF RemoveAt
<1>3. /\ SubSeq(q, 1, i - 1) \in Seq(S) /\ Len(SubSeq(q, 1, i - 1)) = i - 1
      /\ \A k \in 1..(i - 1) : SubSeq(q, 1, i - 1)[k] = q[k]
  BY <1>1
<1>4. /\ SubSeq(q, i + 1, Len(q)) \in Seq(S)
      /\ Len(SubSeq(q, i + 1, Len(q))) = Len(q) - i
      /\ \A k \in 1..(Len(q) - i) : SubSeq(q, i + 1, Len(q))[k] = q[i + k]
  <2> DEFINE j == i + 1
             z == SubSeq(q, j, Len(q))
  <2>1. j \in 1..(Len(q) + 1) /\ \A k \in j..Len(q) : k \in 1..Len(q)
    BY <1>1
  <2> HIDE DEF j
  <2>2. z \in Seq(S) /\ Len(z) = Len(q) - j + 1
        /\ \A k \in 1..(Len(q) - j + 1) : z[k] = q[j + k - 1]
    BY <1>1, <2>1, SubSeqProperties
  <2>3. Len(q) - j + 1 = Len(q) - i /\ \A k \in Int : j + k - 1 = i + k
    BY <1>1 DEF j
  <2>4. ASSUME NEW k \in 1..(Len(q) - i) PROVE z[k] = q[i + k]
    <3>1. k \in 1..(Len(q) - j + 1) /\ j + k - 1 = i + k
      BY <2>3
    <3> HIDE DEF z
    <3> QED
      BY <2>2, <3>1
  <2>5. z \in Seq(S) /\ Len(z) = Len(q) - i
    BY <2>2, <2>3
  <2> QED
    BY <2>4, <2>5 DEF j
<1>5. /\ w \in Seq(S) /\ Len(w) = Len(q) - 1
      /\ \A k \in 1..(i - 1) : w[k] = q[k]
      /\ \A k \in i..(Len(q) - 1) : w[k] = q[k + 1]
  <2> DEFINE a == SubSeq(q, 1, i - 1)
             z == SubSeq(q, i + 1, Len(q))
  <2>1. w = a \o z
    OBVIOUS
  <2> HIDE DEF a, z, w
  <2>2. a \in Seq(S) /\ Len(a) = i - 1 /\ z \in Seq(S) /\ Len(z) = Len(q) - i
    BY <1>3, <1>4 DEF a, z
  <2>3. w \in Seq(S) /\ Len(w) = Len(q) - 1
    <3>1. w \in Seq(S) /\ Len(w) = Len(a) + Len(z)
      BY <2>1, <2>2, ConcatProperties
    <3> QED
      BY <1>1, <2>2, <3>1
  <2>4. \A k \in 1..(Len(q) - 1) : w[k] = IF k <= i - 1 THEN a[k] ELSE z[k - (i - 1)]
    BY <1>1, <2>1, <2>2
  <2>5. ASSUME NEW k \in 1..(i - 1) PROVE w[k] = q[k]
    <3>1. k \in 1..(Len(q) - 1) /\ k <= i - 1
      BY <1>1
    <3>2. a[k] = q[k]
      BY <1>3 DEF a
    <3> QED
      BY <2>4, <3>1, <3>2
  <2>6. ASSUME NEW k \in i..(Len(q) - 1) PROVE w[k] = q[k + 1]
    <3>1. k \in 1..(Len(q) - 1) /\ ~(k <= i - 1)
          /\ k - (i - 1) \in 1..(Len(q) - i) /\ i + (k - (i - 1)) = k + 1
      BY <1>1
    <3>2. z[k - (i - 1)] = q[i + (k - (i - 1))]
      BY <1>4, <3>1 DEF z
    <3> QED
      BY <2>4, <3>1, <3>2
  <2> QED
    BY <2>3, <2>5, <2>6
<1> HIDE DEF w
<1>6. \A k \in 1..Len(w) : \/ k \in 1..(i - 1) /\ w[k] = q[k]
                           \/ k \in i..(Len(q) - 1) /\ w[k] = q[k + 1]
  BY <1>1, <1>5
<1>7. Once(w)
  <2> SUFFICES ASSUME NEW k \in 1..Len(w), NEW l \in 1..Len(w), w[k] = w[l] PROVE k = l
    BY DEF Once
  <2>1. \A m \in 1..Len(w) : m \in 1..Len(q) /\ m + 1 \in 1..Len(q) /\ m \in Nat
    BY <1>1, <1>5
  <2> QED
    BY <1>1, <1>6, <2>1 DEF Once
<1>8. ASSUME NEW x, In(x, w) PROVE In(x, q) /\ x # q[i]
  <2>1. PICK k \in 1..Len(w) : w[k] = x
    BY <1>8 DEF In
  <2>2. k \in 1..Len(q) /\ k + 1 \in 1..Len(q)
    BY <1>1, <1>5
  <2>3. PICK m \in 1..Len(q) : q[m] = x /\ m # i
    <3>1. CASE k \in 1..(i - 1) /\ w[k] = q[k]
      BY <1>1, <2>1, <2>2, <3>1
    <3>2. CASE k \in i..(Len(q) - 1) /\ w[k] = q[k + 1]
      BY <1>1, <2>1, <2>2, <3>2
    <3> QED
      BY <1>6, <3>1, <3>2
  <2> QED
    BY <1>1, <2>3 DEF In, Once
<1>9. ASSUME NEW x, In(x, q), x # q[i] PROVE In(x, w)
  <2>1. PICK m \in 1..Len(q) : q[m] = x
    BY <1>9 DEF In
  <2>2. m # i
    BY <1>1, <1>9, <2>1
  <2>3. CASE m < i
    BY <1>1, <1>5, <2>1, <2>3 DEF In
  <2>4. CASE m > i
    <3>1. m - 1 \in i..(Len(q) - 1) /\ (m - 1) + 1 = m /\ m - 1 \in 1..Len(w)
      BY <1>1, <1>5, <2>4
    <3>2. w[m - 1] = x
      BY <1>5, <2>1, <3>1
    <3> QED
      BY <3>1, <3>2 DEF In
  <2> QED
    BY <1>1, <2>2, <2>3, <2>4
<1> QED
  BY <1>2, <1>5, <1>7, <1>8, <1>9

LEMMA WithoutIs ==
    ASSUME recency \in Seq(Sess), Once(recency), NEW s
    PROVE  /\ Without(s) \in Seq(Sess) /\ Once(Without(s))
           /\ \A x : In(x, Without(s)) <=> In(x, recency) /\ x # s
<1>0. Len(recency) \in Nat /\ DOMAIN recency = 1..Len(recency)
  OBVIOUS
<1>1. Exists(s) <=> In(s, recency)
  BY <1>0 DEF Exists, In
<1>2. CASE ~Exists(s)
  BY <1>1, <1>2 DEF Without, In
<1>3. CASE Exists(s)
  <2> DEFINE i == CHOOSE i \in DOMAIN recency : recency[i] = s
  <2>1. i \in 1..Len(recency) /\ recency[i] = s
    BY <1>0, <1>3 DEF Exists
  <2>2. Without(s) = RemoveAt(recency, i)
    BY <1>3 DEF Without
  <2> HIDE DEF i
  <2> QED
    BY <2>1, <2>2, RemoveAtIs
<1> QED
  BY <1>2, <1>3

LEMMA TouchedIs ==
    ASSUME recency \in Seq(Sess), Once(recency), NEW s \in Sess
    PROVE  /\ Touched(s) \in Seq(Sess) /\ Once(Touched(s))
           /\ \A x : In(x, Touched(s)) <=> In(x, recency) \/ x = s
<1> DEFINE w == Without(s)
           t == Append(w, s)
<1>1. w \in Seq(Sess) /\ Once(w) /\ \A x : In(x, w) <=> In(x, recency) /\ x # s
  BY WithoutIs
<1>2. Touched(s) = t
  BY DEF Touched
<1> HIDE DEF w
<1>3. /\ t \in Seq(Sess) /\ Len(t) = Len(w) + 1 /\ t[Len(w) + 1] = s /\ Len(w) \in Nat
      /\ \A k \in 1..Len(w) : t[k] = w[k] /\ k \in 1..Len(t)
      /\ \A k \in 1..Len(t) : k \in 1..Len(w) \/ k = Len(w) + 1
      /\ Len(w) + 1 \in 1..Len(t)
  BY <1>1
<1> HIDE DEF t
<1>4. \A k \in 1..Len(w) : w[k] # s
  BY <1>1 DEF In
<1>5. Once(t)
  <2> SUFFICES ASSUME NEW k \in 1..Len(t), NEW l \in 1..Len(t), t[k] = t[l] PROVE k = l
    BY DEF Once
  <2>1. CASE k \in 1..Len(w) /\ l \in 1..Len(w)
    BY <1>1, <1>3, <2>1 DEF Once
  <2> QED
    BY <1>3, <1>4, <2>1
<1>6. ASSUME NEW x PROVE In(x, t) <=> In(x, w) \/ x = s
  BY <1>3 DEF In
<1> QED
  BY <1>1, <1>2, <1>3, <1>5, <1>6

\* findLatestSessionBySource finds a session of the crew if there is one.
LEMMA LatestIs ==
    ASSUME recency \in Seq(Sess), NEW c \in Crew
    PROVE  \/ LatestOf(c) = None /\ \A s : Exists(s) => source[s] # c
           \/ LatestOf(c) \in Sess /\ Exists(LatestOf(c)) /\ source[LatestOf(c)] = c
<1> DEFINE own == {i \in DOMAIN recency : source[recency[i]] = c}
<1>1. DOMAIN recency = 1..Len(recency) /\ Len(recency) \in Nat
  OBVIOUS
<1>2. CASE own = {}
  BY <1>2 DEF LatestOf, Exists
<1>3. CASE own # {}
  <2> DEFINE D == {n \in Nat : \E i \in own : n = Len(recency) - i}
  <2>1. D # {} /\ D \subseteq Nat
    <3>1. PICK i \in own : TRUE
      BY <1>3
    <3>2. i \in 1..Len(recency) /\ Len(recency) - i \in Nat
      BY <1>1
    <3>3. Len(recency) - i \in D
      BY <3>2
    <3> QED
      BY <3>3
  <2>2. PICK n \in D : \A m \in D : ~(<<m, n>> \in OpToRel(<, Nat))
    BY <2>1, NatLessThanWellFounded, WFMin
  <2>3. \A m \in D : n <= m
    <3> SUFFICES ASSUME NEW m \in D, m < n PROVE FALSE
      BY <2>1
    <3>1. <<m, n>> \in OpToRel(<, Nat)
      BY <2>1 DEF OpToRel
    <3> QED
      BY <2>2, <3>1
  <2>4. PICK i \in own : n = Len(recency) - i
    OBVIOUS
  <2>5. \A j \in own : Len(recency) - j \in D
    BY <1>1
  <2>6. \A j \in own : n <= Len(recency) - j
    BY <2>3, <2>5
  <2>7. \A j \in own : j <= i
    BY <1>1, <2>4, <2>6
  <2> DEFINE l == CHOOSE k \in own : \A j \in own : j <= k
  <2>8. l \in own
    BY <2>7
  <2>9. LatestOf(c) = recency[l]
    BY <1>3 DEF LatestOf
  <2> HIDE DEF l
  <2>10. l \in DOMAIN recency /\ source[recency[l]] = c /\ recency[l] \in Sess
    BY <2>8
  <2> QED
    BY <2>9, <2>10 DEF Exists
<1> QED
  BY <1>2, <1>3

Begun == {r \in Run : crew[r] # None}

Sessions ==
    /\ recency \in Seq(Sess) /\ Once(recency)
    /\ source \in [Sess -> Crew \cup {None}]
    /\ cache \in [Crew -> Sess \cup {None}]
    /\ crew \in [Run -> Crew \cup {None}] /\ at \in [Run -> Phase] /\ IsFiniteSet(Begun)
    /\ used \in [Run -> Sess \cup {None}]
    /\ \A r \in Run : at[r] = "new" => crew[r] = None
    /\ \A c \in Crew : cache[c] # None => source[cache[c]] = c

SessionsOf(c) == {s \in Sess : Exists(s) /\ source[s] = c}
FreshOf(c) == {r \in Fresh : crew[r] = c}

LEMMA SessionsFinite ==
    ASSUME Sessions, NEW c \in Crew
    PROVE  /\ IsFiniteSet(SessionsOf(c)) /\ Cardinality(SessionsOf(c)) \in Nat
           /\ IsFiniteSet(FreshOf(c)) /\ Cardinality(FreshOf(c)) \in Nat
<1> DEFINE A == {recency[i] : i \in 1..Len(recency)}
           f == [i \in 1..Len(recency) |-> recency[i]]
<1>1. Len(recency) \in Nat /\ DOMAIN recency = 1..Len(recency)
  BY DEF Sessions
<1>2. IsFiniteSet(1..Len(recency))
  BY <1>1, FS_Interval
<1>3. f \in Surjection(1..Len(recency), A)
  BY DEF Surjection
<1>4. IsFiniteSet(A)
  BY <1>2, <1>3, FS_Surjection
<1>5. SessionsOf(c) \subseteq A
  BY <1>1 DEF SessionsOf, Exists
<1>6. FreshOf(c) \subseteq Begun
  BY CrewRunsAssumption DEF FreshOf, Begun
<1> QED
  BY <1>4, <1>5, <1>6, FS_Subset, FS_CardinalityType DEF Sessions

\* A run begins: its session is one of its crew, or a new one when the crew has
\* none or the run asked for a fresh one.
LEMMA BeginSessions ==
    ASSUME Sessions, OneSessionPerCrew, NEW r \in Run, NEW c \in Crew, Begin(r, c)
    PROVE  Sessions' /\ OneSessionPerCrew'
<1> USE CrewRunsAssumption DEF Phase
<1>0. recency \in Seq(Sess) /\ Once(recency) /\ DOMAIN recency = 1..Len(recency) /\ at[r] = "new"
  BY DEF Sessions, Begin
<1>1. PICK s \in SessionFor(r, c) :
          /\ recency' = Touched(s)
          /\ source' = [source EXCEPT ![s] = c]
          /\ cache' = [cache EXCEPT ![c] = s]
          /\ used' = [used EXCEPT ![r] = s]
  BY DEF Begin
<1>2. /\ crew' = [crew EXCEPT ![r] = c] /\ at' = [at EXCEPT ![r] = "primary"]
  BY DEF Begin
<1>3. /\ s \in Sess /\ s # None
      /\ \/ Exists(s) /\ source[s] = c
         \/ /\ ~Exists(s) /\ source[s] = None
            /\ r \in Fresh \/ \A x : Exists(x) => source[x] # c
  <2>1. CASE r \notin Fresh /\ cache[c] # None /\ Exists(cache[c])
    <3>1. s = cache[c]
      BY <1>1, <2>1 DEF SessionFor
    <3> QED
      BY <2>1, <3>1 DEF Sessions
  <2>2. CASE ~(r \notin Fresh /\ cache[c] # None /\ Exists(cache[c])) /\ r \notin Fresh /\ LatestOf(c) # None
    <3>1. s = LatestOf(c)
      BY <1>1, <2>2 DEF SessionFor
    <3> QED
      BY <1>0, <2>2, <3>1, LatestIs
  <2>3. CASE ~(r \notin Fresh /\ cache[c] # None /\ Exists(cache[c])) /\ ~(r \notin Fresh /\ LatestOf(c) # None)
    <3>1. s \in Sess /\ ~Exists(s) /\ source[s] = None
      BY <1>1, <2>3 DEF SessionFor
    <3>2. r \in Fresh \/ \A x : Exists(x) => source[x] # c
      BY <1>0, <2>3, LatestIs
    <3> QED
      BY <3>1, <3>2
  <2> QED
    BY <2>1, <2>2, <2>3
<1>4. recency' \in Seq(Sess) /\ Once(recency') /\ \A x : In(x, recency') <=> In(x, recency) \/ x = s
  BY <1>0, <1>1, <1>3, TouchedIs
<1>5. \A x : (Exists(x) <=> In(x, recency)) /\ (Exists(x)' <=> In(x, recency'))
  BY <1>0, <1>4 DEF Exists, In
<1>6. \A x : Exists(x)' <=> Exists(x) \/ x = s
  BY <1>4, <1>5
<1>7. crew[r] = None /\ r \notin Begun
  BY <1>0 DEF Sessions, Begun
<1>8. Sessions'
  <2>1. Begun' = Begun \cup {r}
    BY <1>2, <1>7 DEF Sessions, Begun
  <2>2. IsFiniteSet(Begun')
    BY <2>1, FS_AddElement DEF Sessions
  <2>3. source' \in [Sess -> Crew \cup {None}] /\ cache' \in [Crew -> Sess \cup {None}]
        /\ crew' \in [Run -> Crew \cup {None}] /\ at' \in [Run -> Phase]
        /\ used' \in [Run -> Sess \cup {None}]
    BY <1>1, <1>2, <1>3 DEF Sessions
  <2>4. \A q \in Run : at'[q] = "new" => crew'[q] = None
    BY <1>2 DEF Sessions
  <2>5. ASSUME NEW d \in Crew, cache'[d] # None PROVE source'[cache'[d]] = d
    <3>1. CASE d = c
      BY <1>1, <1>3, <3>1 DEF Sessions
    <3>2. CASE d # c
      <4>1. cache'[d] = cache[d] /\ cache[d] \in Sess /\ source[cache[d]] = d
        BY <1>1, <2>5, <3>2 DEF Sessions
      <4>2. cache[d] # s
        BY <1>3, <3>2, <4>1
      <4> QED
        BY <1>1, <4>1, <4>2 DEF Sessions
    <3> QED
      BY <3>1, <3>2
  <2> QED
    BY <1>4, <2>2, <2>3, <2>4, <2>5 DEF Sessions
<1>9. ASSUME NEW d \in Crew
      PROVE  Cardinality(SessionsOf(d))' <= 1 + Cardinality(FreshOf(d))'
  <2>0. \A x \in Sess : source'[x] = (IF x = s THEN c ELSE source[x])
    BY <1>1 DEF Sessions
  <2>1. Cardinality(SessionsOf(d)) <= 1 + Cardinality(FreshOf(d))
    BY DEF OneSessionPerCrew, SessionsOf, FreshOf
  <2>2. SessionsOf(d)' = {x \in Sess : Exists(x)' /\ source'[x] = d}
        /\ FreshOf(d)' = {q \in Fresh : crew'[q] = d}
    BY DEF SessionsOf, FreshOf
  <2>3. CASE d # c
    <3>1. SessionsOf(d)' = SessionsOf(d)
      BY <1>3, <1>6, <2>0, <2>2, <2>3 DEF SessionsOf
    <3>2. FreshOf(d)' = FreshOf(d)
      BY <1>2, <1>7, <2>2, <2>3 DEF FreshOf, Sessions
    <3> QED
      BY <2>1, <3>1, <3>2
  <2>4. CASE d = c
    <3>1. FreshOf(c)' = IF r \in Fresh THEN FreshOf(c) \cup {r} ELSE FreshOf(c)
      BY <1>2, <2>2, <2>4 DEF FreshOf, Sessions
    <3>2. SessionsOf(c)' = SessionsOf(c) \cup {s}
      BY <1>3, <1>6, <2>0, <2>2, <2>4 DEF SessionsOf
    <3>3. r \notin FreshOf(c)
      BY <1>7 DEF FreshOf
    <3>4. /\ IsFiniteSet(SessionsOf(c)) /\ Cardinality(SessionsOf(c)) \in Nat
          /\ IsFiniteSet(FreshOf(c)) /\ Cardinality(FreshOf(c)) \in Nat
      BY SessionsFinite
    <3>5. /\ Cardinality(FreshOf(c) \cup {r}) = Cardinality(FreshOf(c)) + 1
          /\ Cardinality(SessionsOf(c) \cup {s})
                 = IF s \in SessionsOf(c) THEN Cardinality(SessionsOf(c)) ELSE Cardinality(SessionsOf(c)) + 1
      BY <3>3, <3>4, FS_AddElement
    <3>6. CASE Exists(s) /\ source[s] = c
      <4>1. s \in SessionsOf(c)
        BY <1>3, <3>6 DEF SessionsOf
      <4>2. Cardinality(SessionsOf(c))' = Cardinality(SessionsOf(c))
        BY <3>2, <3>5, <4>1
      <4>3. Cardinality(FreshOf(c))' \in {Cardinality(FreshOf(c)), Cardinality(FreshOf(c)) + 1}
        BY <3>1, <3>5
      <4> QED
        BY <2>1, <2>4, <3>4, <4>2, <4>3
    <3>7. CASE r \in Fresh
      <4>1. Cardinality(FreshOf(c))' = Cardinality(FreshOf(c)) + 1
        BY <3>1, <3>5, <3>7
      <4>2. Cardinality(SessionsOf(c))' \in {Cardinality(SessionsOf(c)), Cardinality(SessionsOf(c)) + 1}
        BY <3>2, <3>5
      <4> QED
        BY <2>1, <2>4, <3>4, <4>1, <4>2
    <3>8. CASE r \notin Fresh /\ \A x : Exists(x) => source[x] # c
      <4>1. SessionsOf(c) = {} /\ FreshOf(c)' = FreshOf(c)
        BY <3>1, <3>8 DEF SessionsOf
      <4>2. Cardinality({s}) = 1
        BY FS_Singleton
      <4>3. Cardinality(SessionsOf(c))' = 1 /\ Cardinality(FreshOf(c))' = Cardinality(FreshOf(c))
        BY <3>2, <4>1, <4>2
      <4> QED
        BY <2>4, <3>4, <4>3
    <3> QED
      BY <1>3, <3>6, <3>7, <3>8
  <2> QED
    BY <2>3, <2>4
<1> QED
  BY <1>8, <1>9 DEF OneSessionPerCrew, SessionsOf, FreshOf

\* No other step adds a session, or gives one to a crew.
LEMMA FewerSessions ==
    ASSUME Sessions, OneSessionPerCrew, UNCHANGED <<source, crew, used>>,
           recency' \in Seq(Sess), Once(recency'), \A x : In(x, recency') => In(x, recency),
           at' \in [Run -> Phase], \A r \in Run : at'[r] = "new" => at[r] = "new",
           cache' = cache \/ cache' = [c \in Crew |-> None]
    PROVE  Sessions' /\ OneSessionPerCrew'
<1>1. \A x : (Exists(x) <=> In(x, recency)) /\ (Exists(x)' <=> In(x, recency'))
  <2>1. DOMAIN recency = 1..Len(recency) /\ DOMAIN recency' = 1..Len(recency')
    BY DEF Sessions
  <2> QED
    BY <2>1 DEF Exists, In
<1>2. Sessions'
  <2>1. Begun' = Begun
    BY DEF Begun
  <2>2. cache' \in [Crew -> Sess \cup {None}] /\ \A c \in Crew : cache'[c] # None => source[cache'[c]] = c
    BY DEF Sessions
  <2> QED
    BY <2>1, <2>2 DEF Sessions
<1>3. ASSUME NEW d \in Crew
      PROVE  Cardinality(SessionsOf(d))' <= 1 + Cardinality(FreshOf(d))'
  <2>1. Cardinality(SessionsOf(d)) <= 1 + Cardinality(FreshOf(d))
    BY DEF OneSessionPerCrew, SessionsOf, FreshOf
  <2>2. SessionsOf(d)' \subseteq SessionsOf(d) /\ FreshOf(d)' = FreshOf(d)
    BY <1>1 DEF SessionsOf, FreshOf
  <2>3. /\ IsFiniteSet(SessionsOf(d)) /\ Cardinality(SessionsOf(d)) \in Nat
        /\ Cardinality(FreshOf(d)) \in Nat
    BY SessionsFinite
  <2>4. Cardinality(SessionsOf(d)') <= Cardinality(SessionsOf(d)) /\ Cardinality(SessionsOf(d)') \in Nat
    BY <2>2, <2>3, FS_Subset, FS_CardinalityType
  <2> QED
    BY <2>1, <2>2, <2>3, <2>4
<1> QED
  BY <1>2, <1>3 DEF OneSessionPerCrew, SessionsOf, FreshOf

LEMMA SessionsHold == Spec => [](Sessions /\ OneSessionPerCrew)
<1> DEFINE Inv == Sessions /\ OneSessionPerCrew
<1> USE CrewRunsAssumption DEF Phase
<1>1. Init => Inv
  <2> SUFFICES ASSUME Init PROVE Inv
    OBVIOUS
  <2>1. Sessions
    <3>1. Begun = {} /\ IsFiniteSet({})
      BY FS_EmptySet DEF Init, Begun
    <3> QED
      BY <3>1 DEF Init, Sessions, Once
  <2>2. ASSUME NEW c \in Crew PROVE Cardinality(SessionsOf(c)) <= 1 + Cardinality(FreshOf(c))
    <3>1. SessionsOf(c) = {}
      BY DEF Init, SessionsOf, Exists
    <3>2. Cardinality(SessionsOf(c)) = 0 /\ Cardinality(FreshOf(c)) \in Nat
      BY <2>1, <3>1, FS_EmptySet, SessionsFinite
    <3> QED
      BY <3>2
  <2> QED
    BY <2>1, <2>2 DEF OneSessionPerCrew, SessionsOf, FreshOf
<1>2. Inv /\ [Next]_vars => Inv'
  <2> SUFFICES ASSUME Sessions, OneSessionPerCrew, [Next]_vars
               PROVE  Sessions' /\ OneSessionPerCrew'
    OBVIOUS
  <2>0. recency \in Seq(Sess) /\ Once(recency) /\ at \in [Run -> Phase]
    BY DEF Sessions
  <2>1. ASSUME NEW r \in Run, NEW c \in Crew, Begin(r, c) PROVE Sessions' /\ OneSessionPerCrew'
    BY <2>1, BeginSessions
  <2>2. ASSUME NEW r \in Run, RunStep(r) PROVE Sessions' /\ OneSessionPerCrew'
    <3>1. UNCHANGED <<source, crew, used, cache>> /\ (recency' = recency \/ \E new : Stores(r, new))
      BY <2>2 DEF RunStep, RunFails, PrimaryEnds, PrimaryLacksText, SummaryEnds, tables, locals
    <3>2. at' \in [Run -> Phase] /\ \A q \in Run : at'[q] = "new" => at[q] = "new"
      BY <2>0, <2>2 DEF RunStep, RunFails, PrimaryEnds, PrimaryLacksText, SummaryEnds, Finally
    <3>3. recency' \in Seq(Sess) /\ Once(recency') /\ \A x : In(x, recency') => In(x, recency)
      <4>1. CASE recency' = recency
        BY <2>0, <4>1
      <4>2. CASE \E new : Stores(r, new)
        <5>1. Exists(used[r]) /\ recency' = Touched(used[r])
          BY <4>2 DEF Stores
        <5>2. In(used[r], recency) /\ used[r] \in Sess
          BY <2>0, <5>1 DEF Exists, In
        <5> QED
          BY <2>0, <5>1, <5>2, TouchedIs
      <4> QED
        BY <3>1, <4>1, <4>2
    <3> QED
      BY <3>1, <3>2, <3>3, FewerSessions
  <2>3. ASSUME NEW s \in Sess, DeleteSession(s) PROVE Sessions' /\ OneSessionPerCrew'
    <3>1. recency' = Without(s) /\ UNCHANGED <<source, crew, used, cache, at>>
      BY <2>3 DEF DeleteSession, locals
    <3>2. recency' \in Seq(Sess) /\ Once(recency') /\ \A x : In(x, recency') => In(x, recency)
      BY <2>0, <3>1, WithoutIs
    <3> QED
      BY <2>0, <3>1, <3>2, FewerSessions
  <2>4. ASSUME Restart PROVE Sessions' /\ OneSessionPerCrew'
    <3>1. /\ UNCHANGED <<recency, source, crew, used>> /\ cache' = [c \in Crew |-> None]
          /\ at' = [r \in Run |-> IF r \in InFlight THEN "lost" ELSE at[r]]
      BY <2>4 DEF Restart, tables, locals
    <3>2. at' \in [Run -> Phase] /\ \A q \in Run : at'[q] = "new" => at[q] = "new"
      BY <2>0, <3>1
    <3> QED
      BY <2>0, <3>1, <3>2, FewerSessions
  <2>5. ASSUME UNCHANGED <<recency, source, crew, used, cache, at>>
        PROVE  Sessions' /\ OneSessionPerCrew'
    BY <2>0, <2>5, FewerSessions
  <2>6. ASSUME NEW c \in Crew, Stop(c) PROVE UNCHANGED <<recency, source, crew, used, cache, at>>
    BY <2>6 DEF Stop, tables, locals
  <2>7. StopAll \/ UNCHANGED vars => UNCHANGED <<recency, source, crew, used, cache, at>>
    BY DEF StopAll, vars, tables, locals
  <2> QED
    BY <2>1, <2>2, <2>3, <2>4, <2>5, <2>6, <2>7 DEF Next
<1> QED
  BY <1>1, <1>2, PTL DEF Spec

\* A crew has a second session only if a run asked for a fresh one, for any runs,
\* deletions and restarts.
THEOREM CrewsKeepTheirSession == Spec => []OneSessionPerCrew
<1>1. Sessions /\ OneSessionPerCrew => OneSessionPerCrew
  OBVIOUS
<1> QED
  BY <1>1, SessionsHold, PTL

\* Every reachable state of any instance is well typed.
THEOREM TypeCorrect == Spec => []TypeOK
<1> DEFINE Few == crashes \in 0..MaxCrashes
<1> USE CrewRunsAssumption
<1>1. Init => Few
  BY DEF Init
<1>2. Few /\ [Next]_vars => Few'
  <2> SUFFICES ASSUME Few, [Next]_vars PROVE Few'
    OBVIOUS
  <2>1. CASE Restart
    BY <2>1 DEF Restart
  <2>2. CASE UNCHANGED crashes
    BY <2>2
  <2>3. (\E r \in Run : RunStep(r) \/ \E c \in Crew : Begin(r, c)) => UNCHANGED crashes
    BY DEF Begin, RunStep, RunFails, PrimaryEnds, PrimaryLacksText, SummaryEnds
  <2>4. (\E c \in Crew : Stop(c)) \/ StopAll \/ (\E s \in Sess : DeleteSession(s)) \/ UNCHANGED vars
            => UNCHANGED crashes
    BY DEF Stop, StopAll, DeleteSession, vars
  <2> QED
    BY <2>1, <2>2, <2>3, <2>4 DEF Next
<1>3. Spec => []Few
  BY <1>1, <1>2, PTL DEF Spec
<1>4. Few /\ Typed /\ Sessions /\ rows \in [Sess -> Seq(Row)] => TypeOK
  BY DEF Typed, Sessions, TypeOK, Phase
<1> QED
  BY <1>3, <1>4, RegistryHolds, SessionsHold, SharingKeepsResults, PTL

-----------------------------------------------------------------------------
(* The bridge.                                                             *)

Listener == [kind : {"none", "connected", "refreshed", "seed", "load", "reload"},
             pc : {"free", "token", "run", "yield", "discover"},
             acct : Account \cup {None}, tok : Nat \cup {None}]

Waits(h) == handler[h].pc = "token"
Runs(h) == handler[h].pc = "run"
NewestToken == IF order = <<>> THEN None ELSE token[Head(order)]

\* The part of TypeOK the bridge needs; a stored account has a token.
BridgeTyped ==
    /\ order \in Seq(Account) /\ Once(order)
    /\ token \in [Account -> Nat \cup {None}]
    /\ \A a \in Account : In(a, order) => token[a] # None
    /\ issued \in Nat
    /\ inflight \in [Account -> Nat \cup {None}]
    /\ handler \in [Bridge!Handler -> Listener]

\* While the vault is locked nothing is refreshed, nobody waits, who goes on has no
\* token, and the bridge, if accounts are stored, has stored none since it started.
LockedIsStill ==
    /\ locked => /\ \A a \in Account : inflight[a] = None
                 /\ \A h \in Bridge!Handler : ~Waits(h) /\ (Runs(h) => handler[h].tok = None)
                 /\ primed => order = <<>>
    /\ \A h \in Bridge!Handler : handler[h].kind = "seed" =>
          ~Waits(h) /\ (Runs(h) => handler[h].tok = None)

\* Who waits for a token waits for a refresh of the newest account, which set out
\* with its stored token; who has a token has that; and so has the cache when all
\* have used theirs.
AskedForNewest ==
    ~crossed =>
        /\ \A h \in Bridge!Handler : Waits(h) =>
              order # <<>> /\ handler[h].acct = Head(order) /\ inflight[Head(order)] # None
        /\ \A a \in Account : inflight[a] # None => inflight[a] = token[a]
        /\ ~locked => \A h \in Bridge!Handler : Runs(h) => handler[h].tok = NewestToken
        /\ primed /\ (\A h \in Bridge!Handler : ~Waits(h) /\ ~Runs(h)) => tokenCache = NewestToken

\* Who is about to enable the server after an account was connected.
Raises(h) == (Waits(h) \/ Runs(h)) /\ handler[h].kind = "connected"
Yields(h) == handler[h].pc = "yield"

\* The server is as was decided last, but for what listeners are about to do.
ServerFollows ==
    ~overtaken =>
        /\ \A h \in Bridge!Handler : Raises(h) /\ setting # "gone" => wish.setting = "on" /\ wish.entry = TRUE
        /\ setting = wish.setting \/ (setting # "gone" /\ \E h \in Bridge!Handler : Raises(h))
        /\ \A h \in Bridge!Handler : Yields(h) => wish.entry = TRUE
        /\ server # None => wish.entry = TRUE
        /\ wish.entry = TRUE =>
              \/ server # None
              \/ \E h \in Bridge!Handler : Yields(h)
              \/ setting # "gone" /\ \E h \in Bridge!Handler : Raises(h)

CrewFollows ==
    /\ synced = TRUE => order # <<>> \/ byHand = TRUE
    /\ order # <<>> /\ synced # TRUE => revived = TRUE \/ barred = TRUE \/ staged # TRUE

-----------------------------------------------------------------------------
LEMMA UpsertedIs ==
    ASSUME BridgeTyped, NEW a \in Account
    PROVE  /\ Bridge!Upserted(a) \in Seq(Account) /\ Once(Bridge!Upserted(a)) /\ Bridge!Upserted(a) # <<>>
           /\ \A x : In(x, Bridge!Upserted(a)) <=> In(x, order) \/ x = a
           /\ Head(Bridge!Upserted(a)) = IF In(a, order) THEN Head(order) ELSE a
           /\ Head(Bridge!Upserted(a)) \in Account
<1>1. order \in Seq(Account) /\ Len(order) \in Nat /\ Once(order)
  BY DEF BridgeTyped
<1>2. Bridge!Contains(order, a) <=> In(a, order)
  BY DEF Bridge!Contains, In
<1>3. CASE In(a, order)
  <2>1. order # <<>>
    BY <1>1, <1>3 DEF In
  <2>2. Head(order) \in Account
    BY <1>1, <2>1
  <2>3. Bridge!Upserted(a) = order
    BY <1>2, <1>3 DEF Bridge!Upserted
  <2> QED
    BY <1>1, <1>3, <2>1, <2>2, <2>3
<1>4. CASE ~In(a, order)
  <2> DEFINE u == <<a>> \o order
  <2>1. Bridge!Upserted(a) = u
    BY <1>2, <1>4 DEF Bridge!Upserted
  <2>2. <<a>> \in Seq(Account) /\ Len(<<a>>) = 1 /\ <<a>>[1] = a
    OBVIOUS
  <2>3. /\ u \in Seq(Account) /\ Len(u) = Len(order) + 1
        /\ \A i \in 1..Len(order) + 1 : u[i] = IF i <= 1 THEN <<a>>[i] ELSE order[i - 1]
    BY <1>1, <2>2, ConcatProperties
  <2>4. u[1] = a /\ \A i \in 1..Len(order) : u[i + 1] = order[i]
    <3>1. 1 \in 1..Len(order) + 1
      BY <1>1
    <3>2. ASSUME NEW i \in 1..Len(order) PROVE i + 1 \in 1..Len(order) + 1 /\ ~(i + 1 <= 1) /\ (i + 1) - 1 = i
      BY <1>1
    <3> HIDE DEF u
    <3> QED
      BY <2>2, <2>3, <3>1, <3>2
  <2> HIDE DEF u
  <2>5. u # <<>> /\ Head(u) = u[1]
    BY <1>1, <2>3
  <2>6. \A i \in 1..Len(u) : i = 1 \/ \E j \in 1..Len(order) : i = j + 1 /\ u[i] = order[j]
    <3> SUFFICES ASSUME NEW i \in 1..Len(u), i # 1 PROVE \E j \in 1..Len(order) : i = j + 1 /\ u[i] = order[j]
      OBVIOUS
    <3>1. i - 1 \in 1..Len(order) /\ i = (i - 1) + 1
      BY <1>1, <2>3
    <3> QED
      BY <2>4, <3>1
  <2>7. Once(u)
    <3> SUFFICES ASSUME NEW i \in 1..Len(u), NEW j \in 1..Len(u), u[i] = u[j] PROVE i = j
      BY DEF Once
    <3>1. CASE i = 1 \/ j = 1
      <4>1. ASSUME NEW k \in 1..Len(order) PROVE order[k] # a
        BY <1>4 DEF In
      <4> QED
        BY <2>4, <2>6, <3>1, <4>1
    <3>2. CASE i # 1 /\ j # 1
      <4>1. PICK k \in 1..Len(order) : i = k + 1 /\ u[i] = order[k]
        BY <2>6, <3>2
      <4>2. PICK l \in 1..Len(order) : j = l + 1 /\ u[j] = order[l]
        BY <2>6, <3>2
      <4>3. k = l
        BY <1>1, <4>1, <4>2 DEF Once
      <4> QED
        BY <4>1, <4>2, <4>3
    <3> QED
      BY <3>1, <3>2
  <2>8. \A x : In(x, u) <=> In(x, order) \/ x = a
    <3>1. 1 \in 1..Len(u) /\ \A i \in 1..Len(order) : i + 1 \in 1..Len(u)
      BY <1>1, <2>3
    <3> QED
      BY <2>4, <2>6, <3>1 DEF In
  <2> QED
    BY <1>4, <2>1, <2>3, <2>4, <2>5, <2>7, <2>8
<1> QED
  BY <1>3, <1>4

LEMMA RestIs ==
    ASSUME BridgeTyped, NEW a \in Account, Bridge!Contains(order, a)
    PROVE  /\ Bridge!Without(a) \in Seq(Account) /\ Once(Bridge!Without(a))
           /\ \A x : In(x, Bridge!Without(a)) <=> In(x, order) /\ x # a
<1>1. order \in Seq(Account) /\ DOMAIN order = 1..Len(order) /\ Once(order)
  BY DEF BridgeTyped
<1> DEFINE i == CHOOSE i \in DOMAIN order : order[i] = a
<1>2. i \in 1..Len(order) /\ order[i] = a
  BY <1>1 DEF Bridge!Contains
<1>3. Bridge!Without(a) = RemoveAt(order, i)
  BY DEF Bridge!Without, Bridge!RemoveAt, RemoveAt
<1> HIDE DEF i
<1> QED
  BY <1>1, <1>2, <1>3, RemoveAtIs

\* refreshToken() as the code calls it.
LEMMA AskIs ==
    ASSUME NEW kind \in {"connected", "refreshed"}, NEW ord \in Seq(Account), NEW nr,
           NEW tk \in [Account -> Nat \cup {None}]
    PROVE  LET r == Bridge!Ask(kind, ord, tk, nr) IN
           /\ r \in Listener /\ r.kind = kind /\ r.pc \in {"token", "run"}
           /\ r.pc = "token" => ~locked /\ ord # <<>> /\ r.acct = Head(ord) /\ Head(ord) \in nr
           /\ r.pc = "run" => r.tok = IF locked \/ ord = <<>> THEN None ELSE tk[Head(ord)]
<1>1. ord # <<>> => Head(ord) \in Account
  OBVIOUS
<1>2. CASE locked \/ ord = <<>>
  BY <1>2 DEF Bridge!Ask, Listener
<1>3. CASE ~(locked \/ ord = <<>>) /\ Head(ord) \in nr
  BY <1>1, <1>3 DEF Bridge!Ask, Listener
<1>4. CASE ~(locked \/ ord = <<>>) /\ Head(ord) \notin nr
  <2>1. tk[Head(ord)] \in Nat \cup {None}
    BY <1>1, <1>4
  <2> QED
    BY <1>4, <2>1 DEF Bridge!Ask, Listener
<1> QED
  BY <1>2, <1>3, <1>4

LEMMA JoinedIs ==
    ASSUME NEW fl \in [Account -> Nat \cup {None}], NEW tk \in [Account -> Nat \cup {None}], NEW ask
    PROVE  LET j == Bridge!Joined(fl, ask, tk) IN
           /\ ask.pc # "token" => j = fl
           /\ ask.pc = "token" /\ ask.acct \in Account =>
                 /\ j \in [Account -> Nat \cup {None}]
                 /\ \A a \in Account : j[a] = IF a = ask.acct /\ fl[a] = None THEN tk[a] ELSE fl[a]
BY DEF Bridge!Joined

LEMMA SlotIs ==
    ASSUME Bridge!FreeHandlers # {}
    PROVE  Bridge!Slot \in Bridge!Handler /\ handler[Bridge!Slot].pc = "free"
BY DEF Bridge!FreeHandlers, Bridge!Slot

-----------------------------------------------------------------------------
\* A listener starts and asks, beside the listeners and refreshes there are.
Asks(others, fl, kind) ==
    \E s \in Bridge!Handler :
        /\ handler[s].pc = "free" /\ handler'[s].kind = kind
        /\ \A h \in Bridge!Handler : h # s => handler'[h] = others[h]
        /\ \/ /\ handler'[s].pc = "token" /\ ~locked
              /\ order' # <<>> /\ handler'[s].acct = Head(order') /\ Head(order') \in near'
              /\ \A a \in Account :
                    inflight'[a] = IF a = Head(order') /\ fl[a] = None THEN token'[a] ELSE fl[a]
           \/ /\ handler'[s].pc = "run" /\ inflight' = fl
              /\ handler'[s].tok = IF locked \/ order' = <<>> THEN None ELSE token'[Head(order')]

LEMMA Asking ==
    ASSUME NEW others \in [Bridge!Handler -> Listener], NEW fl \in [Account -> Nat \cup {None}],
           NEW kind \in {"connected", "refreshed"}, Bridge!FreeHandlers # {},
           order' \in Seq(Account), token' \in [Account -> Nat \cup {None}],
           handler' = [others EXCEPT ![Bridge!Slot] = Bridge!Ask(kind, order', token', near')],
           inflight' = Bridge!Joined(fl, Bridge!Ask(kind, order', token', near'), token')
    PROVE  /\ handler' \in [Bridge!Handler -> Listener] /\ inflight' \in [Account -> Nat \cup {None}]
           /\ Asks(others, fl, kind)
<1> DEFINE r == Bridge!Ask(kind, order', token', near')
           s == Bridge!Slot
<1>1. s \in Bridge!Handler /\ handler[s].pc = "free"
  BY SlotIs
<1>2. /\ r \in Listener /\ r.kind = kind /\ r.pc \in {"token", "run"}
      /\ r.pc = "token" => ~locked /\ order' # <<>> /\ r.acct = Head(order') /\ Head(order') \in near'
      /\ r.pc = "run" => r.tok = IF locked \/ order' = <<>> THEN None ELSE token'[Head(order')]
  BY AskIs
<1>3. handler' = [others EXCEPT ![s] = r] /\ inflight' = Bridge!Joined(fl, r, token')
  OBVIOUS
<1> HIDE DEF r, s
<1>4. /\ handler' \in [Bridge!Handler -> Listener] /\ handler'[s] = r
      /\ \A h \in Bridge!Handler : h # s => handler'[h] = others[h]
  BY <1>1, <1>2, <1>3
<1>5. CASE r.pc = "token"
  <2>1. r.acct = Head(order') /\ r.acct \in Account
    BY <1>2, <1>5
  <2>2. /\ inflight' \in [Account -> Nat \cup {None}]
        /\ \A a \in Account : inflight'[a] = IF a = r.acct /\ fl[a] = None THEN token'[a] ELSE fl[a]
    BY <1>3, <1>5, <2>1, JoinedIs
  <2> QED
    BY <1>1, <1>2, <1>4, <1>5, <2>1, <2>2 DEF Asks
<1>6. CASE r.pc = "run"
  <2>1. inflight' = fl
    BY <1>3, <1>6, JoinedIs
  <2> QED
    BY <1>1, <1>2, <1>4, <1>6, <2>1 DEF Asks
<1> QED
  BY <1>2, <1>5, <1>6

\* Account a has been stored with a new token.
Stored(a) ==
    /\ order' \in Seq(Account) /\ Once(order') /\ order' # <<>>
    /\ \A x : In(x, order') <=> In(x, order) \/ x = a
    /\ Head(order') = IF In(a, order) THEN Head(order) ELSE a
    /\ Head(order') \in Account
    /\ issued' \in Nat /\ token' = [token EXCEPT ![a] = issued'] /\ near' = near \ {a}

LEMMA StoredTyped ==
    ASSUME BridgeTyped, NEW a \in Account, Stored(a)
    PROVE  /\ token' \in [Account -> Nat \cup {None}]
           /\ \A x \in Account : In(x, order') => token'[x] # None
BY ToolsAssumption DEF BridgeTyped, Stored

LEMMA ConnectDoes ==
    ASSUME BridgeTyped, NEW a \in Account, Bridge!Connect(a)
    PROVE  /\ Stored(a) /\ BridgeTyped' /\ Asks(handler, inflight, "connected")
           /\ Bridge!Quiet /\ ~locked /\ synced' = (synced \/ staged)
           /\ crossed' = (crossed \/ Bridge!Crossing({a}, order'))
           /\ wish'.setting = (IF setting = "gone" THEN wish.setting ELSE "on")
           /\ wish'.entry = (setting # "gone" \/ wish.entry)
           /\ UNCHANGED <<tokenCache, setting, server, staged, barred, byHand, locked, overtaken, revived, primed>>
<1>1. Stored(a)
  BY UpsertedIs DEF Bridge!Connect, Stored, BridgeTyped
<1>2. handler' \in [Bridge!Handler -> Listener] /\ inflight' \in [Account -> Nat \cup {None}]
      /\ Asks(handler, inflight, "connected")
  <2>1. token' \in [Account -> Nat \cup {None}] /\ order' \in Seq(Account)
    BY <1>1, StoredTyped DEF Stored
  <2>2. handler \in [Bridge!Handler -> Listener] /\ inflight \in [Account -> Nat \cup {None}]
    BY DEF BridgeTyped
  <2>3. /\ handler' = [handler EXCEPT ![Bridge!Slot] = Bridge!Ask("connected", order', token', near')]
        /\ inflight' = Bridge!Joined(inflight, Bridge!Ask("connected", order', token', near'), token')
        /\ Bridge!FreeHandlers # {}
    BY DEF Bridge!Connect
  <2> QED
    BY <2>1, <2>2, <2>3, Asking
<1>3. BridgeTyped'
  BY <1>1, <1>2, StoredTyped DEF BridgeTyped, Stored
<1>4. /\ Bridge!Quiet /\ ~locked /\ synced' = (synced \/ staged)
      /\ crossed' = (crossed \/ Bridge!Crossing({a}, order'))
      /\ wish'.setting = (IF setting = "gone" THEN wish.setting ELSE "on")
      /\ wish'.entry = (setting # "gone" \/ wish.entry)
      /\ UNCHANGED <<tokenCache, setting, server, staged, barred, byHand, locked, overtaken, revived, primed>>
  BY DEF Bridge!Connect, Bridge!bridge, Bridge!Decides
<1> QED
  BY <1>1, <1>2, <1>3, <1>4

\* The server is given up: disconnected, and set as was decided.
GivenUp ==
    /\ setting' = wish'.setting /\ server' = None /\ wish'.entry = FALSE
    /\ ~overtaken' => ~overtaken /\ \A h \in Bridge!Handler : ~Raises(h)

LEMMA GivesUpDoes ==
    ASSUME NEW set, NEW entry, Bridge!Quiet, Bridge!GivesUp(set, entry)
    PROVE  /\ wish'.setting = set /\ wish'.entry = entry
           /\ ~overtaken' => ~overtaken /\ \A h \in Bridge!Handler : ~Raises(h)
<1>1. wish' = [setting |-> set, entry |-> entry]
  BY DEF Bridge!GivesUp, Bridge!Decides
<1>2. overtaken' = (overtaken \/ \E h \in Bridge!Handler : handler[h].pc = "token" /\ handler[h].kind = "connected")
  BY DEF Bridge!GivesUp
<1>3. \A h \in Bridge!Handler : Raises(h) => handler[h].pc = "token" /\ handler[h].kind = "connected"
  BY DEF Bridge!Quiet, Raises, Waits, Runs
<1> QED
  BY <1>1, <1>2, <1>3

LEMMA DisconnectDoes ==
    ASSUME BridgeTyped, NEW a \in Account, Bridge!Disconnect(a)
    PROVE  /\ BridgeTyped' /\ Bridge!Quiet /\ In(a, order) /\ order # <<>>
           /\ \A x : In(x, order') <=> In(x, order) /\ x # a
           /\ token' = [token EXCEPT ![a] = None]
           /\ crossed' = (crossed \/ Bridge!Crossing({a}, order'))
           /\ UNCHANGED <<staged, barred, locked, revived, primed>>
           /\ \/ /\ order' = <<>> /\ tokenCache' = None /\ GivenUp
                 /\ synced' = FALSE /\ UNCHANGED <<handler, inflight>>
              \/ /\ order' # <<>> /\ Asks(handler, inflight, "refreshed")
                 /\ UNCHANGED <<tokenCache, setting, server, synced, byHand, wish, overtaken>>
<1>1. order' = Bridge!Without(a) /\ Bridge!Contains(order, a) /\ token' = [token EXCEPT ![a] = None]
  BY DEF Bridge!Disconnect
<1>2. order' \in Seq(Account) /\ Once(order') /\ \A x : In(x, order') <=> In(x, order) /\ x # a
  BY <1>1, RestIs
<1>3. In(a, order) /\ order # <<>>
  <2>1. In(a, order)
    BY <1>1 DEF Bridge!Contains, In
  <2> QED
    BY <2>1 DEF In, BridgeTyped
<1>4. /\ token' \in [Account -> Nat \cup {None}] /\ issued' \in Nat
      /\ \A x \in Account : In(x, order') => token'[x] # None
  BY <1>1, <1>2 DEF BridgeTyped, Bridge!Disconnect
<1>5. CASE order' = <<>>
  <2>1. /\ tokenCache' = None /\ GivenUp /\ synced' = FALSE
        /\ synced' = FALSE /\ UNCHANGED <<handler, inflight>>
    BY <1>5, GivesUpDoes DEF Bridge!Disconnect, GivenUp
  <2>2. BridgeTyped'
    BY <1>2, <1>4, <2>1 DEF BridgeTyped
  <2> QED
    BY <1>1, <1>2, <1>3, <1>5, <2>1, <2>2 DEF Bridge!Disconnect, Bridge!crews
<1>6. CASE order' # <<>>
  <2>1. handler \in [Bridge!Handler -> Listener] /\ inflight \in [Account -> Nat \cup {None}]
    BY DEF BridgeTyped
  <2>2. /\ handler' = [handler EXCEPT ![Bridge!Slot] = Bridge!Ask("refreshed", order', token', near')]
        /\ inflight' = Bridge!Joined(inflight, Bridge!Ask("refreshed", order', token', near'), token')
        /\ Bridge!FreeHandlers # {} /\ UNCHANGED <<tokenCache, setting, server, synced, byHand, wish, overtaken>>
    BY <1>6 DEF Bridge!Disconnect, Bridge!bridge, Bridge!crews, Bridge!decided
  <2>3. /\ handler' \in [Bridge!Handler -> Listener] /\ inflight' \in [Account -> Nat \cup {None}]
        /\ Asks(handler, inflight, "refreshed")
    BY <1>2, <1>4, <2>1, <2>2, Asking
  <2>4. BridgeTyped'
    BY <1>2, <1>4, <2>3 DEF BridgeTyped
  <2> QED
    BY <1>1, <1>2, <1>3, <1>6, <2>2, <2>3, <2>4 DEF Bridge!Disconnect, Bridge!crews
<1> QED
  BY <1>5, <1>6

\* A refresh of a has ended with this token.
LEMMA ResumedIs ==
    ASSUME BridgeTyped, NEW a \in Account, NEW tok \in Nat \cup {None}
    PROVE  /\ Bridge!Resumed(a, tok) \in [Bridge!Handler -> Listener]
           /\ \A h \in Bridge!Handler :
                 /\ Bridge!Resumed(a, tok)[h].kind = handler[h].kind
                 /\ Waits(h) /\ handler[h].acct = a =>
                       Bridge!Resumed(a, tok)[h].pc = "run" /\ Bridge!Resumed(a, tok)[h].tok = tok
                 /\ ~(Waits(h) /\ handler[h].acct = a) => Bridge!Resumed(a, tok)[h] = handler[h]
<1> DEFINE R == Bridge!Resumed(a, tok)
<1>1. handler \in [Bridge!Handler -> Listener]
  BY DEF BridgeTyped
<1>2. \A h \in Bridge!Handler :
          R[h] = IF handler[h].pc = "token" /\ handler[h].acct = a
                 THEN [handler[h] EXCEPT !.pc = "run", !.acct = None, !.tok = tok] ELSE handler[h]
  BY DEF Bridge!Resumed
<1>3. ASSUME NEW h \in Bridge!Handler
      PROVE  LET l == [handler[h] EXCEPT !.pc = "run", !.acct = None, !.tok = tok] IN
             l \in Listener /\ l.kind = handler[h].kind /\ l.pc = "run" /\ l.tok = tok
  <2>1. handler[h] \in Listener
    BY <1>1
  <2> QED
    BY <2>1 DEF Listener
<1>4. R = [h \in Bridge!Handler |-> R[h]]
  BY DEF Bridge!Resumed
<1> HIDE DEF R
<1>5. \A h \in Bridge!Handler : R[h] \in Listener
  BY <1>1, <1>2, <1>3
<1>6. R \in [Bridge!Handler -> Listener]
  BY <1>4, <1>5
<1>7. ASSUME NEW h \in Bridge!Handler
      PROVE  /\ R[h].kind = handler[h].kind
             /\ Waits(h) /\ handler[h].acct = a => R[h].pc = "run" /\ R[h].tok = tok
             /\ ~(Waits(h) /\ handler[h].acct = a) => R[h] = handler[h]
  BY <1>2, <1>3 DEF Waits
<1> QED
  BY <1>6, <1>7 DEF R

LEMMA RefreshedDoes ==
    ASSUME BridgeTyped, NEW a \in Account, Bridge!Refreshed(a)
    PROVE  /\ Stored(a) /\ BridgeTyped' /\ Bridge!Quiet /\ inflight[a] # None
           /\ Asks(Bridge!Resumed(a, issued'), [inflight EXCEPT ![a] = None], "refreshed")
           /\ crossed' = (crossed \/ Bridge!Crossing({}, order'))
           /\ revived' = (revived \/ ~In(a, order))
           /\ UNCHANGED <<tokenCache, setting, server, synced, staged, barred, byHand, locked, wish, overtaken, primed>>
<1>1. Stored(a) /\ issued' = issued + 1
  BY UpsertedIs DEF Bridge!Refreshed, Stored, BridgeTyped
<1>2. /\ handler' \in [Bridge!Handler -> Listener] /\ inflight' \in [Account -> Nat \cup {None}]
      /\ Asks(Bridge!Resumed(a, issued'), [inflight EXCEPT ![a] = None], "refreshed")
  <2>1. token' \in [Account -> Nat \cup {None}] /\ order' \in Seq(Account)
    BY <1>1, StoredTyped DEF Stored
  <2>2. /\ Bridge!Resumed(a, issued') \in [Bridge!Handler -> Listener]
        /\ [inflight EXCEPT ![a] = None] \in [Account -> Nat \cup {None}]
    BY <1>1, ResumedIs DEF BridgeTyped, Stored
  <2>3. /\ handler' = [Bridge!Resumed(a, issued') EXCEPT ![Bridge!Slot] = Bridge!Ask("refreshed", order', token', near')]
        /\ inflight' = Bridge!Joined([inflight EXCEPT ![a] = None], Bridge!Ask("refreshed", order', token', near'), token')
        /\ Bridge!FreeHandlers # {}
    BY <1>1 DEF Bridge!Refreshed
  <2> QED
    BY <2>1, <2>2, <2>3, Asking
<1>3. BridgeTyped'
  BY <1>1, <1>2, StoredTyped DEF BridgeTyped, Stored
<1>4. /\ Bridge!Quiet /\ inflight[a] # None
      /\ crossed' = (crossed \/ Bridge!Crossing({}, order'))
      /\ revived' = (revived \/ ~In(a, order))
      /\ UNCHANGED <<tokenCache, setting, server, synced, staged, barred, byHand, locked, wish, overtaken, primed>>
  BY DEF Bridge!Refreshed, Bridge!bridge, Bridge!crews, Bridge!decided, Bridge!Contains, In
<1> QED
  BY <1>1, <1>2, <1>3, <1>4

-----------------------------------------------------------------------------
(* The steps.                                                              *)

Flags == /\ setting \in Bridge!Setting /\ wish \in [setting : Bridge!Setting, entry : BOOLEAN]
         /\ overtaken \in BOOLEAN /\ staged \in BOOLEAN /\ barred \in BOOLEAN /\ byHand \in BOOLEAN
         /\ synced \in BOOLEAN /\ locked \in BOOLEAN
         /\ crossed \in BOOLEAN /\ revived \in BOOLEAN /\ primed \in BOOLEAN

LEMMA HeadIsIn ==
    ASSUME NEW q \in Seq(Account), q # <<>>
    PROVE  Head(q) \in Account /\ In(Head(q), q)
BY DEF In

\* What a starting listener leaves of the three invariants.
LEMMA AskLocked ==
    ASSUME NEW others, NEW fl, NEW kind \in {"connected", "refreshed"}, Asks(others, fl, kind),
           UNCHANGED <<locked, primed>>,
           locked => /\ \A a \in Account : fl[a] = None
                     /\ \A h \in Bridge!Handler : others[h].pc # "token" /\ (others[h].pc = "run" => others[h].tok = None)
                     /\ primed => order' = <<>>,
           inflight' \in [Account -> Nat \cup {None}],
           \A h \in Bridge!Handler : others[h].kind = "seed" =>
                 others[h].pc # "token" /\ (others[h].pc = "run" => others[h].tok = None)
    PROVE  LockedIsStill'
<1> PICK s \in Bridge!Handler :
        /\ handler'[s].kind = kind
        /\ \A h \in Bridge!Handler : h # s => handler'[h] = others[h]
        /\ \/ handler'[s].pc = "token" /\ ~locked
           \/ /\ handler'[s].pc = "run" /\ inflight' = fl
              /\ handler'[s].tok = IF locked \/ order' = <<>> THEN None ELSE token'[Head(order')]
  BY DEF Asks
<1>1. \A h \in Bridge!Handler : (handler[h].kind = "seed")' =>
          ~Waits(h)' /\ (Runs(h)' => (handler[h].tok = None)')
  BY DEF Waits, Runs
<1>2. locked => /\ \A a \in Account : inflight'[a] = None
                /\ \A h \in Bridge!Handler : ~Waits(h)' /\ (Runs(h)' => handler'[h].tok = None)
                /\ primed => order' = <<>>
  BY DEF Waits, Runs
<1> QED
  BY <1>1, <1>2 DEF LockedIsStill

LEMMA AskAsked ==
    ASSUME BridgeTyped', NEW others, NEW fl, NEW kind, Asks(others, fl, kind), locked' = locked,
           ~crossed' =>
               /\ \A h \in Bridge!Handler : others[h].pc = "token" =>
                     order' # <<>> /\ others[h].acct = Head(order') /\ fl[Head(order')] # None
               /\ \A a \in Account : fl[a] # None => fl[a] = token'[a]
               /\ ~locked => \A h \in Bridge!Handler : others[h].pc = "run" => others[h].tok = NewestToken'
    PROVE  AskedForNewest'
<1> SUFFICES ASSUME ~crossed' PROVE AskedForNewest'
  BY DEF AskedForNewest
<1>0. order' # <<>> => Head(order') \in Account /\ token'[Head(order')] # None
  BY HeadIsIn DEF BridgeTyped
<1> PICK s \in Bridge!Handler :
        /\ \A h \in Bridge!Handler : h # s => handler'[h] = others[h]
        /\ \/ /\ handler'[s].pc = "token" /\ ~locked
              /\ order' # <<>> /\ handler'[s].acct = Head(order')
              /\ \A a \in Account :
                    inflight'[a] = IF a = Head(order') /\ fl[a] = None THEN token'[a] ELSE fl[a]
           \/ /\ handler'[s].pc = "run" /\ inflight' = fl
              /\ handler'[s].tok = IF locked \/ order' = <<>> THEN None ELSE token'[Head(order')]
  BY DEF Asks
<1>1. \A a \in Account : inflight'[a] # None => inflight'[a] = token'[a]
  OBVIOUS
<1>2. \A h \in Bridge!Handler : Waits(h)' =>
          order' # <<>> /\ handler'[h].acct = Head(order') /\ inflight'[Head(order')] # None
  BY <1>0 DEF Waits
<1>3. ~locked => \A h \in Bridge!Handler : Runs(h)' => handler'[h].tok = NewestToken'
  BY DEF Runs, NewestToken
<1>4. Waits(s)' \/ Runs(s)'
  BY DEF Waits, Runs
<1> QED
  BY <1>1, <1>2, <1>3, <1>4 DEF AskedForNewest

LEMMA ServerStays ==
    ASSUME ServerFollows, UNCHANGED <<setting, server, wish, overtaken>>,
           \A h \in Bridge!Handler : (Raises(h)' <=> Raises(h)) /\ (Yields(h)' <=> Yields(h))
    PROVE  ServerFollows'
BY DEF ServerFollows

LEMMA QuietIs ==
    Bridge!Quiet => \A h \in Bridge!Handler : ~Runs(h) /\ ~Yields(h)
BY DEF Bridge!Quiet, Yields, Runs

LEMMA CrewStays ==
    ASSUME CrewFollows, UNCHANGED <<order, synced, staged, barred, byHand, revived>>
    PROVE  CrewFollows'
BY DEF CrewFollows

\* What an account may not do while the newest is asked for, if nothing is crossed.
LEMMA NotCrossed ==
    ASSUME BridgeTyped, order' \in Seq(Account), NEW as, crossed' = (crossed \/ Bridge!Crossing(as, order')), ~crossed'
    PROVE  /\ ~crossed /\ \A a \in as : inflight[a] = None
           /\ \A h \in Bridge!Handler : Waits(h) /\ order # <<>> => order' # <<>> /\ Head(order') = Head(order)
<1>1. ~crossed /\ ~Bridge!Crossing(as, order')
  OBVIOUS
<1>2. \A a \in as : inflight[a] = None
  BY <1>1 DEF Bridge!Crossing
<1>3. ASSUME NEW h \in Bridge!Handler, Waits(h), order # <<>> PROVE order' # <<>> /\ Head(order') = Head(order)
  <2>1. Bridge!Newest(order') = Bridge!Newest(order)
    BY <1>1, <1>3 DEF Bridge!Crossing, Waits
  <2>2. Head(order) \in Account /\ None \notin Account
    BY <1>3, HeadIsIn, ToolsAssumption DEF BridgeTyped
  <2> QED
    BY <1>3, <2>1, <2>2 DEF Bridge!Newest
<1> QED
  BY <1>1, <1>2, <1>3

BridgeInv == LockedIsStill /\ AskedForNewest /\ ServerFollows /\ CrewFollows

LEMMA ConnectKeeps ==
    ASSUME Flags, BridgeTyped, BridgeInv, NEW a \in Account, Bridge!Connect(a)
    PROVE  BridgeInv'
<1>1. /\ Stored(a) /\ BridgeTyped' /\ Asks(handler, inflight, "connected")
      /\ Bridge!Quiet /\ ~locked /\ synced' = (synced \/ staged)
      /\ crossed' = (crossed \/ Bridge!Crossing({a}, order'))
      /\ wish'.setting = (IF setting = "gone" THEN wish.setting ELSE "on")
      /\ wish'.entry = (setting # "gone" \/ wish.entry)
      /\ UNCHANGED <<tokenCache, setting, server, staged, barred, byHand, locked, overtaken, revived, primed>>
  BY ConnectDoes
<1>2. order' \in Seq(Account) /\ order' # <<>> /\ order \in Seq(Account)
  BY <1>1 DEF Stored, BridgeTyped
<1>3. LockedIsStill'
  <2>1. inflight' \in [Account -> Nat \cup {None}]
    BY <1>1 DEF BridgeTyped
  <2>2. \A h \in Bridge!Handler : handler[h].kind = "seed" =>
            handler[h].pc # "token" /\ (handler[h].pc = "run" => handler[h].tok = None)
    BY DEF BridgeInv, LockedIsStill, Waits, Runs
  <2> QED
    BY <1>1, <2>1, <2>2, AskLocked
<1>4. AskedForNewest'
  <2>1. ASSUME ~crossed'
        PROVE  /\ \A h \in Bridge!Handler : handler[h].pc = "token" =>
                     order' # <<>> /\ handler[h].acct = Head(order') /\ inflight[Head(order')] # None
               /\ \A x \in Account : inflight[x] # None => inflight[x] = token'[x]
               /\ ~locked => \A h \in Bridge!Handler : handler[h].pc = "run" => handler[h].tok = NewestToken'
    <3>1. /\ ~crossed /\ inflight[a] = None
          /\ \A h \in Bridge!Handler : Waits(h) /\ order # <<>> => order' # <<>> /\ Head(order') = Head(order)
      BY <1>1, <1>2, <2>1, NotCrossed
    <3>2. \A h \in Bridge!Handler : handler[h].pc = "token" =>
              order' # <<>> /\ handler[h].acct = Head(order') /\ inflight[Head(order')] # None
      BY <3>1 DEF BridgeInv, AskedForNewest, Waits
    <3>3. \A x \in Account : inflight[x] # None => inflight[x] = token'[x]
      BY <1>1, <3>1 DEF BridgeInv, AskedForNewest, Stored, BridgeTyped
    <3>4. \A h \in Bridge!Handler : handler[h].pc # "run"
      BY <1>1 DEF Bridge!Quiet
    <3> QED
      BY <3>2, <3>3, <3>4
  <2> QED
    BY <1>1, <2>1, AskAsked
<1>5. ServerFollows'
  <2> SUFFICES ASSUME ~overtaken PROVE ServerFollows'
    BY <1>1 DEF ServerFollows
  <2>1. \A h \in Bridge!Handler : ~Yields(h) /\ ~Yields(h)'
    BY <1>1, QuietIs DEF Asks, Yields
  <2>2. \A h \in Bridge!Handler : Raises(h) => Raises(h)'
    BY <1>1 DEF Asks, Raises, Waits, Runs
  <2>3. \E s \in Bridge!Handler : Raises(s)'
    BY <1>1 DEF Asks, Raises, Waits, Runs
  <2>4. CASE setting = "gone"
    BY <1>1, <2>1, <2>4 DEF BridgeInv, ServerFollows
  <2>5. CASE setting # "gone"
    BY <1>1, <2>1, <2>3, <2>5 DEF ServerFollows
  <2> QED
    BY <2>4, <2>5
<1>6. CrewFollows'
  BY <1>1, <1>2 DEF CrewFollows, Flags
<1> QED
  BY <1>3, <1>4, <1>5, <1>6 DEF BridgeInv

LEMMA DisconnectKeeps ==
    ASSUME Flags, BridgeTyped, BridgeInv, NEW a \in Account, Bridge!Disconnect(a)
    PROVE  BridgeInv'
<1>1. /\ BridgeTyped' /\ Bridge!Quiet /\ In(a, order) /\ order # <<>>
      /\ \A x : In(x, order') <=> In(x, order) /\ x # a
      /\ token' = [token EXCEPT ![a] = None]
      /\ crossed' = (crossed \/ Bridge!Crossing({a}, order'))
      /\ UNCHANGED <<staged, barred, locked, revived, primed>>
      /\ \/ /\ order' = <<>> /\ tokenCache' = None /\ GivenUp
            /\ synced' = FALSE /\ UNCHANGED <<handler, inflight>>
         \/ /\ order' # <<>> /\ Asks(handler, inflight, "refreshed")
            /\ UNCHANGED <<tokenCache, setting, server, synced, byHand, wish, overtaken>>
  BY DisconnectDoes
<1>2. order' \in Seq(Account) /\ order \in Seq(Account)
  BY <1>1 DEF BridgeTyped
<1>3. locked => ~primed
  BY <1>1 DEF BridgeInv, LockedIsStill
<1>4. ASSUME ~crossed'
      PROVE  /\ ~crossed /\ inflight[a] = None
             /\ \A h \in Bridge!Handler : Waits(h) =>
                    order' # <<>> /\ handler[h].acct = Head(order') /\ inflight[Head(order')] # None
             /\ \A x \in Account : inflight[x] # None => inflight[x] = token'[x]
  <2>1. /\ ~crossed /\ inflight[a] = None
        /\ \A h \in Bridge!Handler : Waits(h) /\ order # <<>> => order' # <<>> /\ Head(order') = Head(order)
    BY <1>1, <1>2, <1>4, NotCrossed
  <2>2. \A h \in Bridge!Handler : Waits(h) =>
            order' # <<>> /\ handler[h].acct = Head(order') /\ inflight[Head(order')] # None
    BY <1>1, <2>1 DEF BridgeInv, AskedForNewest
  <2>3. \A x \in Account : inflight[x] # None => inflight[x] = token'[x]
    BY <1>1, <2>1 DEF BridgeInv, AskedForNewest, BridgeTyped
  <2> QED
    BY <2>1, <2>2, <2>3
<1>5. CASE /\ order' = <<>> /\ tokenCache' = None /\ GivenUp
           /\ synced' = FALSE /\ UNCHANGED <<handler, inflight>>
  <2>1. \A h \in Bridge!Handler :
            (Waits(h)' <=> Waits(h)) /\ ~Runs(h)' /\ ~Yields(h)' /\ (Raises(h)' <=> Raises(h))
    BY <1>1, <1>5, QuietIs DEF Waits, Runs, Yields, Raises
  <2>2. LockedIsStill'
    BY <1>1, <1>5, <2>1 DEF BridgeInv, LockedIsStill
  <2>3. AskedForNewest'
    BY <1>4, <1>5, <2>1 DEF AskedForNewest, NewestToken
  <2>4. ServerFollows' /\ CrewFollows'
    BY <1>5, <2>1 DEF ServerFollows, CrewFollows, GivenUp
  <2> QED
    BY <2>2, <2>3, <2>4 DEF BridgeInv
<1>6. CASE /\ order' # <<>> /\ Asks(handler, inflight, "refreshed")
           /\ UNCHANGED <<tokenCache, setting, server, synced, byHand, wish, overtaken>>
  <2>1. LockedIsStill'
    <3>1. inflight' \in [Account -> Nat \cup {None}]
      BY <1>1 DEF BridgeTyped
    <3>2. \A h \in Bridge!Handler : handler[h].kind = "seed" =>
              handler[h].pc # "token" /\ (handler[h].pc = "run" => handler[h].tok = None)
      BY DEF BridgeInv, LockedIsStill, Waits, Runs
    <3>3. locked => /\ \A x \in Account : inflight[x] = None
                    /\ \A h \in Bridge!Handler : handler[h].pc # "token" /\ (handler[h].pc = "run" => handler[h].tok = None)
                    /\ primed => order' = <<>>
      BY <1>3 DEF BridgeInv, LockedIsStill, Waits, Runs
    <3> QED
      BY <1>1, <1>6, <3>1, <3>2, <3>3, AskLocked
  <2>2. AskedForNewest'
    <3>1. \A h \in Bridge!Handler : handler[h].pc # "run"
      BY <1>1 DEF Bridge!Quiet
    <3> QED
      BY <1>1, <1>4, <1>6, <3>1, AskAsked DEF Waits
  <2>3. ServerFollows'
    <3>1. \A h \in Bridge!Handler : (Raises(h)' <=> Raises(h)) /\ (Yields(h)' <=> Yields(h))
      BY <1>6 DEF Asks, Raises, Waits, Runs, Yields
    <3> QED
      BY <1>6, <3>1, ServerStays DEF BridgeInv
  <2>4. CrewFollows'
    BY <1>1, <1>6 DEF BridgeInv, CrewFollows
  <2> QED
    BY <2>1, <2>2, <2>3, <2>4 DEF BridgeInv
<1> QED
  BY <1>1, <1>5, <1>6

LEMMA RefreshedKeeps ==
    ASSUME Flags, BridgeTyped, BridgeInv, NEW a \in Account, Bridge!Refreshed(a)
    PROVE  BridgeInv'
<1> DEFINE R == Bridge!Resumed(a, issued')
           fl == [inflight EXCEPT ![a] = None]
<1>1. /\ Stored(a) /\ BridgeTyped' /\ Bridge!Quiet /\ inflight[a] # None
      /\ Asks(R, fl, "refreshed")
      /\ crossed' = (crossed \/ Bridge!Crossing({}, order'))
      /\ revived' = (revived \/ ~In(a, order))
      /\ UNCHANGED <<tokenCache, setting, server, synced, staged, barred, byHand, locked, wish, overtaken, primed>>
  BY RefreshedDoes
<1>2. /\ order' \in Seq(Account) /\ order' # <<>> /\ order \in Seq(Account) /\ issued' \in Nat
      /\ inflight \in [Account -> Nat \cup {None}] /\ token \in [Account -> Nat \cup {None}]
  BY <1>1 DEF Stored, BridgeTyped
<1>3. ~locked
  BY <1>1 DEF BridgeInv, LockedIsStill
<1>4. \A h \in Bridge!Handler :
          /\ R[h].kind = handler[h].kind
          /\ Waits(h) /\ handler[h].acct = a => R[h].pc = "run" /\ R[h].tok = issued'
          /\ ~(Waits(h) /\ handler[h].acct = a) => R[h] = handler[h]
  BY <1>2, ResumedIs
<1>5. \A x \in Account : fl[x] # None => x # a /\ fl[x] = inflight[x]
  BY <1>2
<1>6. \A x \in Account : x # a => fl[x] = inflight[x]
  BY <1>2
<1> HIDE DEF R, fl
<1>7. LockedIsStill'
  <2>1. inflight' \in [Account -> Nat \cup {None}]
    BY <1>1 DEF BridgeTyped
  <2>2. \A h \in Bridge!Handler : R[h].kind = "seed" => R[h].pc # "token" /\ (R[h].pc = "run" => R[h].tok = None)
    BY <1>4 DEF BridgeInv, LockedIsStill, Waits, Runs
  <2> QED
    BY <1>1, <1>3, <2>1, <2>2, AskLocked
<1>8. AskedForNewest'
  <2>1. ASSUME ~crossed'
        PROVE  /\ \A h \in Bridge!Handler : R[h].pc = "token" =>
                     order' # <<>> /\ R[h].acct = Head(order') /\ fl[Head(order')] # None
               /\ \A x \in Account : fl[x] # None => fl[x] = token'[x]
               /\ ~locked => \A h \in Bridge!Handler : R[h].pc = "run" => R[h].tok = NewestToken'
    <3>1. /\ ~crossed
          /\ \A h \in Bridge!Handler : Waits(h) /\ order # <<>> => order' # <<>> /\ Head(order') = Head(order)
      BY <1>1, <1>2, <2>1, NotCrossed
    <3>2. \A h \in Bridge!Handler : Waits(h) =>
              order # <<>> /\ handler[h].acct = Head(order) /\ inflight[Head(order)] # None /\ Head(order') = Head(order)
      BY <3>1 DEF BridgeInv, AskedForNewest
    <3>3. ASSUME NEW h \in Bridge!Handler, R[h].pc = "token"
          PROVE  R[h].acct = Head(order') /\ fl[Head(order')] # None
      <4>1. Waits(h) /\ handler[h].acct # a /\ R[h] = handler[h]
        BY <1>4, <3>3 DEF Waits
      <4>2. Head(order) \in Account
        BY <1>2, <3>2, <4>1, HeadIsIn
      <4> QED
        BY <1>6, <3>2, <4>1, <4>2
    <3>4. \A x \in Account : fl[x] # None => fl[x] = token'[x]
      BY <1>1, <1>2, <1>5, <3>1 DEF BridgeInv, AskedForNewest, Stored
    <3>5. ASSUME NEW h \in Bridge!Handler, R[h].pc = "run" PROVE R[h].tok = NewestToken'
      <4>1. handler[h].pc # "run"
        BY <1>1 DEF Bridge!Quiet
      <4>2. Waits(h) /\ handler[h].acct = a /\ R[h].tok = issued'
        BY <1>4, <3>5, <4>1
      <4>3. Head(order') = a
        BY <3>2, <4>2
      <4> QED
        BY <1>1, <1>2, <4>2, <4>3 DEF Stored, NewestToken
    <3> QED
      BY <1>2, <3>3, <3>4, <3>5
  <2> QED
    BY <1>1, <2>1, AskAsked
<1>9. ServerFollows'
  <2>1. \A h \in Bridge!Handler : /\ R[h].kind = handler[h].kind
                                  /\ R[h].pc = "yield" <=> Yields(h)
                                  /\ R[h].pc \in {"token", "run"} <=> Waits(h) \/ Runs(h)
    BY <1>4 DEF Waits, Runs, Yields
  <2>2. \A h \in Bridge!Handler : (Raises(h)' <=> Raises(h)) /\ (Yields(h)' <=> Yields(h))
    BY <1>1, <2>1 DEF Asks, Raises, Waits, Runs, Yields
  <2> QED
    BY <1>1, <2>2, ServerStays DEF BridgeInv
<1>10. CrewFollows'
  <2>1. CASE order = <<>>
    <3>1. ~In(a, order)
      BY <2>1 DEF In
    <3> QED
      BY <1>1, <1>2, <3>1 DEF CrewFollows
  <2>2. CASE order # <<>>
    BY <1>1, <1>2, <2>2 DEF BridgeInv, CrewFollows
  <2> QED
    BY <2>1, <2>2
<1> QED
  BY <1>7, <1>8, <1>9, <1>10 DEF BridgeInv

LEMMA RefreshFailedKeeps ==
    ASSUME Flags, BridgeTyped, BridgeInv, NEW a \in Account, Bridge!RefreshFailed(a)
    PROVE  BridgeTyped' /\ BridgeInv'
<1> DEFINE R == Bridge!Resumed(a, inflight[a])
<1>1. /\ Bridge!Quiet /\ inflight[a] # None /\ handler' = R /\ inflight' = [inflight EXCEPT ![a] = None]
      /\ UNCHANGED <<order, token, near, issued, tokenCache, setting, server, synced, staged, barred, byHand, locked,
                  wish, overtaken, crossed, revived, primed>>
  BY DEF Bridge!RefreshFailed, Bridge!store, Bridge!bridge, Bridge!crews, Bridge!decided, Bridge!ghost
<1>2. /\ order \in Seq(Account) /\ inflight \in [Account -> Nat \cup {None}] /\ token \in [Account -> Nat \cup {None}]
  BY DEF BridgeTyped
<1>3. ~locked
  BY <1>1 DEF BridgeInv, LockedIsStill
<1>4. /\ R \in [Bridge!Handler -> Listener]
      /\ \A h \in Bridge!Handler :
            /\ R[h].kind = handler[h].kind
            /\ Waits(h) /\ handler[h].acct = a => R[h].pc = "run" /\ R[h].tok = inflight[a]
            /\ ~(Waits(h) /\ handler[h].acct = a) => R[h] = handler[h]
  <2>1. inflight[a] \in Nat \cup {None}
    BY <1>2
  <2> QED
    BY <2>1, ResumedIs
<1> HIDE DEF R
<1>5. BridgeTyped'
  BY <1>1, <1>4 DEF BridgeTyped
<1>6. \A h \in Bridge!Handler : ~Runs(h) /\ ~Yields(h)
  BY <1>1, QuietIs
<1>7. \A h \in Bridge!Handler :
          /\ Waits(h)' => Waits(h) /\ handler[h].acct # a /\ handler'[h] = handler[h]
          /\ Runs(h)' => Waits(h) /\ handler[h].acct = a /\ handler'[h].tok = inflight[a]
          /\ ~Yields(h)'
          /\ ~Waits(h)' /\ ~Runs(h)' => ~Waits(h)
  BY <1>1, <1>4, <1>6 DEF Waits, Runs, Yields
<1>8. LockedIsStill'
  <2>1. \A h \in Bridge!Handler : handler'[h].kind = "seed" => handler[h].kind = "seed" /\ ~Waits(h)
    BY <1>1, <1>4 DEF BridgeInv, LockedIsStill
  <2> QED
    BY <1>1, <1>3, <1>7, <2>1 DEF LockedIsStill
<1>9. AskedForNewest'
  <2> SUFFICES ASSUME ~crossed' PROVE AskedForNewest'
    BY DEF AskedForNewest
  <2>1. /\ \A h \in Bridge!Handler : Waits(h) =>
              order # <<>> /\ handler[h].acct = Head(order) /\ inflight[Head(order)] # None
        /\ \A x \in Account : inflight[x] # None => inflight[x] = token[x]
        /\ primed /\ (\A h \in Bridge!Handler : ~Waits(h) /\ ~Runs(h)) => tokenCache = NewestToken
    BY <1>1 DEF BridgeInv, AskedForNewest
  <2>2. \A h \in Bridge!Handler : Waits(h)' =>
            order' # <<>> /\ handler'[h].acct = Head(order') /\ inflight'[Head(order')] # None
    BY <1>1, <1>2, <1>7, <2>1, HeadIsIn
  <2>3. \A x \in Account : inflight'[x] # None => inflight'[x] = token'[x]
    BY <1>1, <1>2, <2>1
  <2>4. \A h \in Bridge!Handler : Runs(h)' => handler'[h].tok = NewestToken'
    BY <1>1, <1>7, <2>1 DEF NewestToken
  <2>5. primed' /\ (\A h \in Bridge!Handler : ~Waits(h)' /\ ~Runs(h)') => tokenCache' = NewestToken'
    BY <1>1, <1>6, <1>7, <2>1 DEF NewestToken
  <2> QED
    BY <2>2, <2>3, <2>4, <2>5 DEF AskedForNewest
<1>10. ServerFollows'
  <2>1. \A h \in Bridge!Handler : (Raises(h)' <=> Raises(h)) /\ (Yields(h)' <=> Yields(h))
    BY <1>1, <1>4, <1>6 DEF Raises, Waits, Runs, Yields
  <2> QED
    BY <1>1, <2>1, ServerStays DEF BridgeInv
<1>11. CrewFollows'
  BY <1>1, CrewStays DEF BridgeInv
<1> QED
  BY <1>5, <1>8, <1>9, <1>10, <1>11 DEF BridgeInv

LEMMA UseKeeps ==
    ASSUME Flags, BridgeTyped, BridgeInv, NEW a \in Account, Bridge!Use(a)
    PROVE  BridgeTyped' /\ BridgeInv'
<1>1. /\ ~locked /\ inflight' = [inflight EXCEPT ![a] = token[a]] /\ inflight[a] = None
      /\ UNCHANGED <<order, token, issued, handler, tokenCache, setting, server, synced, staged, barred, byHand,
                     locked, wish, overtaken, crossed, revived, primed>>
  BY DEF Bridge!Use, Bridge!store, Bridge!bridge, Bridge!crews, Bridge!decided, Bridge!ghost
<1>2. token[a] # None
  BY DEF Bridge!Use, Bridge!Contains, In, BridgeTyped
<1>3. BridgeTyped'
  BY <1>1 DEF BridgeTyped
<1>4. \A h \in Bridge!Handler : /\ Waits(h)' <=> Waits(h)
                                /\ Runs(h)' <=> Runs(h)
                                /\ Raises(h)' <=> Raises(h)
                                /\ Yields(h)' <=> Yields(h)
  BY <1>1 DEF Waits, Runs, Raises, Yields
<1>5. LockedIsStill'
  BY <1>1, <1>4 DEF BridgeInv, LockedIsStill
<1>6. AskedForNewest'
  <2> SUFFICES ASSUME ~crossed' PROVE AskedForNewest'
    BY DEF AskedForNewest
  <2>1. NewestToken' = NewestToken
    BY <1>1 DEF NewestToken
  <2>2. \A x \in Account : inflight[x] # None => inflight'[x] = inflight[x]
    BY <1>1 DEF BridgeTyped
  <2>3. \A h \in Bridge!Handler : Waits(h)' =>
            order' # <<>> /\ handler'[h].acct = Head(order') /\ inflight'[Head(order')] # None
    BY <1>1, <1>4, <2>2, HeadIsIn DEF BridgeInv, AskedForNewest, BridgeTyped
  <2>4. \A x \in Account : inflight'[x] # None => inflight'[x] = token'[x]
    BY <1>1 DEF BridgeInv, AskedForNewest, BridgeTyped
  <2>5. ~locked' => \A h \in Bridge!Handler : Runs(h)' => handler'[h].tok = NewestToken'
    BY <1>1, <1>4, <2>1 DEF BridgeInv, AskedForNewest
  <2>6. primed' /\ (\A h \in Bridge!Handler : ~Waits(h)' /\ ~Runs(h)') => tokenCache' = NewestToken'
    BY <1>1, <1>4, <2>1 DEF BridgeInv, AskedForNewest
  <2> QED
    BY <2>3, <2>4, <2>5, <2>6 DEF AskedForNewest
<1>7. ServerFollows' /\ CrewFollows'
  BY <1>1, <1>4, ServerStays, CrewStays DEF BridgeInv
<1> QED
  BY <1>3, <1>5, <1>6, <1>7 DEF BridgeInv

LEMMA ProceedKeeps ==
    ASSUME Flags, BridgeTyped, BridgeInv, NEW h \in Bridge!Handler, Bridge!Proceed(h)
    PROVE  BridgeTyped' /\ BridgeInv'
<1>1. /\ Runs(h) /\ tokenCache' = handler[h].tok /\ primed' = (primed \/ handler[h].tok # None)
      /\ UNCHANGED <<order, token, issued, inflight, synced, staged, barred, byHand, locked, wish, overtaken,
                     crossed, revived>>
  BY DEF Bridge!Proceed, Bridge!store, Bridge!crews, Bridge!decided, Runs
<1>2. \/ /\ \/ handler[h].kind = "connected" /\ setting # "gone"
            \/ handler[h].kind = "seed" /\ handler[h].tok # None
         /\ setting' = "on"
         /\ handler' = [handler EXCEPT ![h].pc = IF server = None THEN "discover" ELSE "yield", ![h].tok = None]
         /\ server' = IF server = None THEN h ELSE None
      \/ /\ ~(handler[h].kind = "connected" /\ setting # "gone") /\ handler' = [handler EXCEPT ![h] = Bridge!Free]
         /\ UNCHANGED <<setting, server>>
  BY DEF Bridge!Proceed, Bridge!Connecting, Bridge!Done
<1>3. handler[h].kind = "seed" => handler[h].tok = None
  BY <1>1 DEF BridgeInv, LockedIsStill
<1>4. /\ handler' \in [Bridge!Handler -> Listener] /\ handler'[h].pc \in {"free", "discover", "yield"}
      /\ \A g \in Bridge!Handler : g # h => handler'[g] = handler[g]
  <2>1. handler \in [Bridge!Handler -> Listener] /\ Bridge!Free \in Listener
    BY DEF BridgeTyped, Listener, Bridge!Free
  <2>2. CASE handler' = [handler EXCEPT ![h].pc = IF server = None THEN "discover" ELSE "yield", ![h].tok = None]
    <3>1. handler[h] \in Listener
      BY <2>1
    <3>2. [handler[h] EXCEPT !.pc = IF server = None THEN "discover" ELSE "yield", !.tok = None] \in Listener
      BY <3>1 DEF Listener
    <3>3. handler' = [handler EXCEPT ![h] = [handler[h] EXCEPT !.pc = IF server = None THEN "discover" ELSE "yield", !.tok = None]]
      BY <2>1, <2>2
    <3> QED
      BY <2>1, <3>1, <3>2, <3>3 DEF Listener
  <2>3. CASE handler' = [handler EXCEPT ![h] = Bridge!Free]
    BY <2>1, <2>3 DEF Bridge!Free
  <2> QED
    BY <1>2, <2>2, <2>3
<1>5. BridgeTyped'
  BY <1>1, <1>4 DEF BridgeTyped
<1>6. /\ \A g \in Bridge!Handler : Waits(g)' => g # h /\ Waits(g) /\ handler'[g] = handler[g]
      /\ \A g \in Bridge!Handler : Runs(g)' => g # h /\ Runs(g) /\ handler'[g] = handler[g]
  BY <1>4 DEF Waits, Runs
<1>7. locked /\ primed' => primed
  BY <1>1 DEF BridgeInv, LockedIsStill
<1>8. LockedIsStill'
  <2>1. \A g \in Bridge!Handler : handler'[g].kind = "seed" => ~Waits(g)' /\ (Runs(g)' => handler'[g].tok = None)
    BY <1>6 DEF BridgeInv, LockedIsStill
  <2>2. locked' => /\ \A a \in Account : inflight'[a] = None
                   /\ \A g \in Bridge!Handler : ~Waits(g)' /\ (Runs(g)' => handler'[g].tok = None)
                   /\ primed' => order' = <<>>
    BY <1>1, <1>6, <1>7 DEF BridgeInv, LockedIsStill
  <2> QED
    BY <2>1, <2>2 DEF LockedIsStill
<1>9. AskedForNewest'
  <2> SUFFICES ASSUME ~crossed' PROVE AskedForNewest'
    BY DEF AskedForNewest
  <2>1. NewestToken' = NewestToken
    BY <1>1 DEF NewestToken
  <2>2. primed' => tokenCache' = NewestToken'
    <3>1. CASE locked
      BY <1>1, <1>7, <2>1, <3>1 DEF BridgeInv, LockedIsStill, NewestToken
    <3>2. CASE ~locked
      BY <1>1, <2>1, <3>2 DEF BridgeInv, AskedForNewest
    <3> QED
      BY <3>1, <3>2
  <2>3. /\ \A g \in Bridge!Handler : Waits(g)' =>
              order' # <<>> /\ handler'[g].acct = Head(order') /\ inflight'[Head(order')] # None
        /\ \A a \in Account : inflight'[a] # None => inflight'[a] = token'[a]
        /\ ~locked' => \A g \in Bridge!Handler : Runs(g)' => handler'[g].tok = NewestToken'
    BY <1>1, <1>6, <2>1 DEF BridgeInv, AskedForNewest
  <2> QED
    BY <2>2, <2>3 DEF AskedForNewest
<1>10. ServerFollows'
  <2> SUFFICES ASSUME ~overtaken PROVE ServerFollows'
    BY <1>1 DEF ServerFollows
  <2>1. CASE handler[h].kind = "connected" /\ setting # "gone"
    <3>1. wish.setting = "on" /\ wish.entry = TRUE
      BY <1>1, <2>1 DEF BridgeInv, ServerFollows, Raises
    <3>2. setting' = "on" /\ server' = (IF server = None THEN h ELSE None)
          /\ (server # None => handler'[h].pc = "yield")
      BY <1>2, <2>1 DEF BridgeTyped, Listener
    <3>3. h # None
      BY ToolsAssumption DEF Bridge!Handler
    <3>4. server' # None \/ Yields(h)'
      BY <3>2, <3>3 DEF Yields
    <3> QED
      BY <1>1, <3>1, <3>2, <3>4 DEF ServerFollows
  <2>2. CASE ~(handler[h].kind = "connected" /\ setting # "gone")
    <3>1. handler' = [handler EXCEPT ![h] = Bridge!Free] /\ UNCHANGED <<setting, server>>
      BY <1>2, <1>3, <2>2
    <3>2. \A g \in Bridge!Handler : (Raises(g)' => Raises(g)) /\ (Yields(g)' <=> Yields(g))
      BY <1>1, <1>4, <3>1 DEF Raises, Waits, Yields, Runs, Bridge!Free, BridgeTyped
    <3>3. setting # "gone" => \A g \in Bridge!Handler : Raises(g)' <=> Raises(g)
      BY <1>1, <1>4, <2>2, <3>1 DEF Raises, Waits, Yields, Runs, Bridge!Free, BridgeTyped
    <3>4. CASE setting = "gone"
      BY <1>1, <3>1, <3>2, <3>4 DEF BridgeInv, ServerFollows
    <3>5. CASE setting # "gone"
      BY <1>1, <3>1, <3>2, <3>3, <3>5, ServerStays DEF BridgeInv
    <3> QED
      BY <3>4, <3>5
  <2> QED
    BY <2>1, <2>2
<1>11. CrewFollows'
  BY <1>1, CrewStays DEF BridgeInv
<1> QED
  BY <1>5, <1>8, <1>9, <1>10, <1>11 DEF BridgeInv

\* What a step without accounts, tokens or listeners leaves as it was.
LEMMA StillKeeps ==
    ASSUME BridgeTyped, BridgeInv,
           UNCHANGED <<order, token, issued, inflight, handler, tokenCache, setting, server, synced, staged, barred,
                       byHand, locked, wish, overtaken, crossed, revived, primed>>
    PROVE  BridgeTyped' /\ BridgeInv'
<1>1. \A h \in Bridge!Handler : /\ Waits(h)' <=> Waits(h)
                                /\ Runs(h)' <=> Runs(h)
                                /\ Raises(h)' <=> Raises(h)
                                /\ Yields(h)' <=> Yields(h)
  BY DEF Waits, Runs, Raises, Yields
<1>2. NewestToken' = NewestToken
  BY DEF NewestToken
<1>3. BridgeTyped'
  BY DEF BridgeTyped
<1>4. LockedIsStill' /\ AskedForNewest'
  BY <1>1, <1>2 DEF BridgeInv, LockedIsStill, AskedForNewest
<1>5. ServerFollows' /\ CrewFollows'
  BY <1>1, ServerStays, CrewStays DEF BridgeInv
<1> QED
  BY <1>3, <1>4, <1>5 DEF BridgeInv

LEMMA RegisterKeeps ==
    ASSUME Flags, BridgeTyped, BridgeInv, NEW h \in Bridge!Handler, Bridge!Register(h)
    PROVE  BridgeTyped' /\ BridgeInv'
<1>1. /\ Yields(h) /\ handler' = [handler EXCEPT ![h].pc = "discover"] /\ server' = h
      /\ UNCHANGED <<order, token, issued, inflight, tokenCache, setting, synced, staged, barred, byHand, locked,
                     wish, overtaken, crossed, revived, primed>>
  BY DEF Bridge!Register, Bridge!store, Bridge!crews, Bridge!decided, Bridge!ghost, Yields
<1>2. handler \in [Bridge!Handler -> Listener]
  BY DEF BridgeTyped
<1>3. /\ handler' \in [Bridge!Handler -> Listener]
      /\ handler'[h].pc = "discover" /\ handler'[h].kind = handler[h].kind
      /\ \A g \in Bridge!Handler : g # h => handler'[g] = handler[g]
  <2>1. handler[h] \in Listener
    BY <1>2
  <2>2. [handler[h] EXCEPT !.pc = "discover"] \in Listener
    BY <2>1 DEF Listener
  <2>3. handler' = [handler EXCEPT ![h] = [handler[h] EXCEPT !.pc = "discover"]]
    BY <1>1, <1>2
  <2> QED
    BY <1>2, <2>1, <2>2, <2>3 DEF Listener
<1>4. \A g \in Bridge!Handler : /\ Waits(g)' <=> Waits(g)
                                /\ Runs(g)' <=> Runs(g)
                                /\ Raises(g)' <=> Raises(g)
                                /\ Yields(g)' => Yields(g)
  BY <1>1, <1>3 DEF Waits, Runs, Raises, Yields
<1>5. \A g \in Bridge!Handler : Waits(g) \/ Runs(g) => handler'[g] = handler[g]
  BY <1>1, <1>3 DEF Waits, Runs, Yields
<1>6. BridgeTyped'
  BY <1>1, <1>3 DEF BridgeTyped
<1>7. LockedIsStill'
  <2>1. \A g \in Bridge!Handler : handler'[g].kind = "seed" => ~Waits(g)' /\ (Runs(g)' => handler'[g].tok = None)
    BY <1>3, <1>4, <1>5 DEF BridgeInv, LockedIsStill
  <2>2. locked' => /\ \A a \in Account : inflight'[a] = None
                   /\ \A g \in Bridge!Handler : ~Waits(g)' /\ (Runs(g)' => handler'[g].tok = None)
                   /\ primed' => order' = <<>>
    BY <1>1, <1>4, <1>5 DEF BridgeInv, LockedIsStill
  <2> QED
    BY <2>1, <2>2 DEF LockedIsStill
<1>8. AskedForNewest'
  <2>1. NewestToken' = NewestToken
    BY <1>1 DEF NewestToken
  <2> QED
    BY <1>1, <1>4, <1>5, <2>1 DEF BridgeInv, AskedForNewest
<1>9. ServerFollows'
  <2>1. h # None
    BY ToolsAssumption DEF Bridge!Handler
  <2> QED
    BY <1>1, <1>4, <2>1 DEF BridgeInv, ServerFollows
<1>10. CrewFollows'
  BY <1>1, CrewStays DEF BridgeInv
<1> QED
  BY <1>6, <1>7, <1>8, <1>9, <1>10 DEF BridgeInv

\* Between two macrotasks only the listeners that wait matter to what is asked for.
LEMMA QuietKeeps ==
    ASSUME BridgeTyped, BridgeInv, Bridge!Quiet,
           UNCHANGED <<order, token, inflight, tokenCache, locked, crossed, primed>>,
           \A g \in Bridge!Handler : ~Runs(g)' /\ (Waits(g)' <=> Waits(g)) /\ (Waits(g) => handler'[g] = handler[g]),
           \A g \in Bridge!Handler : handler'[g].kind = "seed" => handler[g].kind = "seed"
    PROVE  LockedIsStill' /\ AskedForNewest'
<1>1. \A g \in Bridge!Handler : ~Runs(g)
  BY QuietIs
<1>2. NewestToken' = NewestToken
  BY DEF NewestToken
<1>3. LockedIsStill'
  BY DEF BridgeInv, LockedIsStill
<1>4. AskedForNewest'
  BY <1>1, <1>2 DEF BridgeInv, AskedForNewest
<1> QED
  BY <1>3, <1>4

LEMMA DiscoveredKeeps ==
    ASSUME Flags, BridgeTyped, BridgeInv, NEW h \in Bridge!Handler, Bridge!Discovered(h)
    PROVE  BridgeTyped' /\ BridgeInv'
<1>1. /\ Bridge!Quiet /\ handler[h].pc = "discover" /\ handler' = [handler EXCEPT ![h] = Bridge!Free]
      /\ server' = IF server = h THEN Bridge!Known ELSE server
      /\ UNCHANGED <<order, token, issued, inflight, tokenCache, setting, synced, staged, barred, byHand, locked,
                     wish, overtaken, crossed, revived, primed>>
  BY DEF Bridge!Discovered, Bridge!Done, Bridge!store, Bridge!crews, Bridge!decided, Bridge!ghost
<1>2. /\ handler' \in [Bridge!Handler -> Listener]
      /\ handler'[h].pc = "free" /\ handler'[h].kind = "none"
      /\ \A g \in Bridge!Handler : g # h => handler'[g] = handler[g]
  BY <1>1 DEF BridgeTyped, Listener, Bridge!Free
<1>3. \A g \in Bridge!Handler : ~Runs(g) /\ ~Yields(g)
  BY <1>1, QuietIs
<1>4. \A g \in Bridge!Handler : /\ Waits(g)' <=> Waits(g)
                                /\ ~Runs(g)' /\ ~Yields(g)'
                                /\ Raises(g)' <=> Raises(g)
                                /\ Waits(g) => handler'[g] = handler[g]
                                /\ handler'[g].kind = "seed" => handler[g].kind = "seed"
  BY <1>1, <1>2, <1>3 DEF Waits, Runs, Raises, Yields
<1>5. LockedIsStill' /\ AskedForNewest'
  BY <1>1, <1>4, QuietKeeps
<1>6. server' # None <=> server # None
  BY <1>1, ToolsAssumption DEF Bridge!Handler, Bridge!Known
<1>7. BridgeTyped'
  BY <1>1, <1>2 DEF BridgeTyped
<1>8. ServerFollows' /\ CrewFollows'
  BY <1>1, <1>3, <1>4, <1>6, CrewStays DEF BridgeInv, ServerFollows
<1> QED
  BY <1>5, <1>7, <1>8 DEF BridgeInv

\* A caller of connect() takes a free listener's place.
LEMMA CallerIs ==
    ASSUME BridgeTyped, Bridge!Quiet, NEW pc \in {"discover", "yield"}, Bridge!Calls(pc)
    PROVE  /\ handler' \in [Bridge!Handler -> Listener]
           /\ server' # None \/ \E g \in Bridge!Handler : Yields(g)'
           /\ \A g \in Bridge!Handler : /\ Waits(g)' <=> Waits(g)
                                        /\ ~Runs(g)'
                                        /\ Raises(g)' <=> Raises(g)
                                        /\ Waits(g) => handler'[g] = handler[g]
                                        /\ handler'[g].kind = "seed" => handler[g].kind = "seed"
<1>0. PICK s : s = Bridge!Slot
  OBVIOUS
<1>1. /\ s \in Bridge!Handler /\ handler[s].pc = "free"
      /\ handler' = [handler EXCEPT ![s] = [Bridge!Free EXCEPT !.kind = "reload", !.pc = pc]]
      /\ server' = (IF pc = "discover" THEN s ELSE None)
  BY <1>0, SlotIs DEF Bridge!Calls
<1>2. /\ handler' \in [Bridge!Handler -> Listener]
      /\ handler'[s].pc = pc /\ handler'[s].kind = "reload"
      /\ \A g \in Bridge!Handler : g # s => handler'[g] = handler[g]
  BY <1>1 DEF BridgeTyped, Listener, Bridge!Free
<1>3. \A g \in Bridge!Handler : ~Runs(g) /\ ~Yields(g)
  BY QuietIs
<1>4. \A g \in Bridge!Handler : /\ Waits(g)' <=> Waits(g)
                                /\ ~Runs(g)'
                                /\ Raises(g)' <=> Raises(g)
                                /\ Waits(g) => handler'[g] = handler[g]
                                /\ handler'[g].kind = "seed" => handler[g].kind = "seed"
  BY <1>1, <1>2, <1>3 DEF Waits, Runs, Raises
<1>5. server' # None \/ \E g \in Bridge!Handler : Yields(g)'
  <2>1. s # None
    BY <1>1, ToolsAssumption DEF Bridge!Handler
  <2>2. CASE pc = "discover"
    BY <1>1, <2>1, <2>2
  <2>3. CASE pc = "yield"
    BY <1>1, <1>2, <2>3 DEF Yields
  <2> QED
    BY <2>2, <2>3
<1> QED
  BY <1>2, <1>4, <1>5

LEMMA CallsKeep ==
    ASSUME Flags, BridgeTyped, BridgeInv, Bridge!SwitchOn \/ Bridge!Reload
    PROVE  BridgeTyped' /\ BridgeInv'
<1>1. /\ Bridge!Quiet /\ wish'.entry = TRUE
      /\ \/ setting' = "on" /\ wish'.setting = "on"
         \/ setting' = setting /\ wish'.setting = wish.setting
      /\ \E pc \in {"discover", "yield"} : Bridge!Calls(pc)
      /\ UNCHANGED <<order, token, issued, inflight, tokenCache, synced, staged, barred, byHand, locked,
                     overtaken, crossed, revived, primed>>
  BY DEF Bridge!SwitchOn, Bridge!Reload, Bridge!ConnectPc, Bridge!Decides, Bridge!store, Bridge!crews, Bridge!ghost
<1>2. /\ handler' \in [Bridge!Handler -> Listener]
      /\ server' # None \/ \E g \in Bridge!Handler : Yields(g)'
      /\ \A g \in Bridge!Handler : /\ Waits(g)' <=> Waits(g)
                                   /\ ~Runs(g)'
                                   /\ Raises(g)' <=> Raises(g)
                                   /\ Waits(g) => handler'[g] = handler[g]
                                   /\ handler'[g].kind = "seed" => handler[g].kind = "seed"
  BY <1>1, CallerIs
<1>3. LockedIsStill' /\ AskedForNewest'
  BY <1>1, <1>2, QuietKeeps
<1>4. BridgeTyped'
  BY <1>1, <1>2 DEF BridgeTyped
<1>5. ServerFollows'
  <2>1. CASE setting' = "on" /\ wish'.setting = "on"
    BY <1>1, <1>2, <2>1 DEF ServerFollows
  <2>2. CASE setting' = setting /\ wish'.setting = wish.setting
    BY <1>1, <1>2, <2>2 DEF BridgeInv, ServerFollows
  <2> QED
    BY <1>1, <2>1, <2>2
<1>6. CrewFollows'
  BY <1>1, CrewStays DEF BridgeInv
<1> QED
  BY <1>3, <1>4, <1>5, <1>6 DEF BridgeInv

\* What gives the server up, or edits its setting alone, concerns nothing else.
LEMMA GivesUpKeeps ==
    ASSUME Flags, BridgeTyped, BridgeInv,
           (\E set \in {"off", "gone"} : Bridge!SwitchOff(set)) \/ Bridge!EditOff \/ Bridge!Drop
    PROVE  BridgeTyped' /\ BridgeInv'
<1>1. /\ Bridge!Quiet
      /\ UNCHANGED <<order, token, issued, inflight, handler, tokenCache, synced, staged, barred, byHand, locked,
                     crossed, revived, primed>>
  BY DEF Bridge!SwitchOff, Bridge!EditOff, Bridge!Drop, Bridge!store, Bridge!crews, Bridge!ghost
<1>2. \A g \in Bridge!Handler : /\ Waits(g)' <=> Waits(g)
                                /\ ~Runs(g)' /\ ~Yields(g)'
                                /\ Raises(g)' <=> Raises(g)
  BY <1>1, QuietIs DEF Waits, Runs, Raises, Yields
<1>3. LockedIsStill' /\ AskedForNewest'
  BY <1>1, <1>2, QuietKeeps
<1>4. BridgeTyped'
  BY <1>1 DEF BridgeTyped
<1>5. /\ setting' = wish'.setting
      /\ server' # None <=> wish'.entry = TRUE
      /\ ~overtaken' => ~overtaken /\ \A h \in Bridge!Handler : ~Raises(h)
  <2>1. ASSUME NEW set \in {"off", "gone"}, Bridge!SwitchOff(set)
        PROVE  /\ setting' = wish'.setting /\ server' = None /\ wish'.entry = FALSE
               /\ ~overtaken' => ~overtaken /\ \A h \in Bridge!Handler : ~Raises(h)
    BY <1>1, <2>1, GivesUpDoes DEF Bridge!SwitchOff
  <2>2. ASSUME Bridge!EditOff
        PROVE  /\ setting' = wish'.setting /\ server' = server /\ wish'.entry = (server # None)
               /\ ~overtaken' => ~overtaken /\ \A h \in Bridge!Handler : ~Raises(h)
    BY <1>1, <2>2, GivesUpDoes DEF Bridge!EditOff
  <2>3. ASSUME Bridge!Drop
        PROVE  /\ setting' = wish'.setting /\ server' = None /\ wish'.entry = FALSE
               /\ ~overtaken' => ~overtaken /\ \A h \in Bridge!Handler : ~Raises(h)
    BY <1>1, <2>3, GivesUpDoes DEF Bridge!Drop
  <2> QED
    BY <2>1, <2>2, <2>3
<1>6. ServerFollows'
  BY <1>1, <1>2, <1>5 DEF ServerFollows
<1>7. CrewFollows'
  BY <1>1, CrewStays DEF BridgeInv
<1> QED
  BY <1>3, <1>4, <1>6, <1>7 DEF BridgeInv

LEMMA CrewSwitchKeeps ==
    ASSUME Flags, BridgeTyped, BridgeInv, Bridge!ShowCrew \/ Bridge!DisableCrew
    PROVE  BridgeTyped' /\ BridgeInv'
<1>1. /\ Bridge!Quiet
      /\ UNCHANGED <<order, token, issued, inflight, handler, tokenCache, setting, server, staged, locked, wish,
                     overtaken, crossed, revived, primed>>
  BY DEF Bridge!ShowCrew, Bridge!DisableCrew, Bridge!store, Bridge!bridge, Bridge!decided, Bridge!ghost
<1>2. \A g \in Bridge!Handler : /\ Waits(g)' <=> Waits(g)
                                /\ ~Runs(g)'
                                /\ Raises(g)' <=> Raises(g)
                                /\ Yields(g)' <=> Yields(g)
  BY <1>1, QuietIs DEF Waits, Runs, Raises, Yields
<1>3. LockedIsStill' /\ AskedForNewest'
  BY <1>1, <1>2, QuietKeeps
<1>4. BridgeTyped'
  BY <1>1 DEF BridgeTyped
<1>5. ServerFollows'
  BY <1>1, <1>2, ServerStays DEF BridgeInv
<1>6. CrewFollows'
  <2>1. CASE Bridge!ShowCrew
    BY <2>1 DEF Bridge!ShowCrew, CrewFollows
  <2>2. CASE Bridge!DisableCrew
    BY <2>2 DEF Bridge!DisableCrew, CrewFollows
  <2> QED
    BY <2>1, <2>2
<1> QED
  BY <1>3, <1>4, <1>5, <1>6 DEF BridgeInv

LEMMA UnlockKeeps ==
    ASSUME Flags, BridgeTyped, BridgeInv, Bridge!Unlock
    PROVE  BridgeTyped' /\ BridgeInv'
<1>1. /\ Bridge!Quiet /\ locked' = FALSE
      /\ UNCHANGED <<order, token, issued, inflight, handler, tokenCache, setting, server, synced, staged, barred,
                     byHand, wish, overtaken, crossed, revived, primed>>
  BY DEF Bridge!Unlock, Bridge!store, Bridge!bridge, Bridge!crews, Bridge!decided, Bridge!ghost
<1>2. \A g \in Bridge!Handler : ~Runs(g)
  BY <1>1, QuietIs
<1>3. \A g \in Bridge!Handler : /\ Waits(g)' <=> Waits(g)
                                /\ Runs(g)' <=> Runs(g)
                                /\ Raises(g)' <=> Raises(g)
                                /\ Yields(g)' <=> Yields(g)
  BY <1>1 DEF Waits, Runs, Raises, Yields
<1>4. NewestToken' = NewestToken
  BY <1>1 DEF NewestToken
<1>5. BridgeTyped'
  BY <1>1 DEF BridgeTyped
<1>6. LockedIsStill' /\ AskedForNewest'
  BY <1>1, <1>2, <1>3, <1>4 DEF BridgeInv, LockedIsStill, AskedForNewest
<1>7. ServerFollows' /\ CrewFollows'
  BY <1>1, <1>3, ServerStays, CrewStays DEF BridgeInv
<1> QED
  BY <1>5, <1>6, <1>7 DEF BridgeInv

LEMMA RestartKeeps ==
    ASSUME Flags, BridgeTyped, BridgeInv, Bridge!Restart
    PROVE  BridgeTyped' /\ BridgeInv'
<1>1. /\ Bridge!Quiet /\ locked' = TRUE /\ inflight' = [a \in Account |-> None]
      /\ handler' = [h \in Bridge!Handler |->
            IF h = 1 /\ order # <<>> THEN [Bridge!Free EXCEPT !.kind = "seed", !.pc = "run"]
            ELSE IF h = 2 /\ setting = "on" THEN [Bridge!Free EXCEPT !.kind = "load", !.pc = "discover"]
            ELSE Bridge!Free]
      /\ tokenCache' = None /\ server' = (IF setting = "on" THEN 2 ELSE None)
      /\ setting' = (IF setting = "gone" THEN "off" ELSE setting)
      /\ wish'.setting = (IF wish.setting = "gone" THEN "off" ELSE wish.setting)
      /\ wish'.entry = (wish.setting = "on")
      /\ ~overtaken' => ~overtaken /\ \A h \in Bridge!Handler : ~Raises(h)
      /\ staged' = ~barred /\ synced' = (~barred /\ order # <<>>) /\ byHand' = FALSE
      /\ primed' = (order = <<>>)
      /\ UNCHANGED <<order, token, issued, barred, crossed, revived>>
  BY GivesUpDoes DEF Bridge!Restart, Bridge!store
<1>2. \A h \in Bridge!Handler : /\ handler'[h] \in Listener /\ handler'[h].tok = None
                                /\ ~Waits(h)' /\ ~Yields(h)' /\ ~Raises(h)'
  <2> SUFFICES ASSUME NEW h \in Bridge!Handler
               PROVE  /\ handler'[h] \in Listener /\ handler'[h].tok = None
                      /\ handler'[h].pc \notin {"token", "yield"} /\ handler'[h].kind # "connected"
    BY DEF Waits, Yields, Raises
  <2>1. handler'[h] = IF h = 1 /\ order # <<>> THEN [Bridge!Free EXCEPT !.kind = "seed", !.pc = "run"]
                      ELSE IF h = 2 /\ setting = "on" THEN [Bridge!Free EXCEPT !.kind = "load", !.pc = "discover"]
                      ELSE Bridge!Free
    BY <1>1
  <2>2. CASE handler'[h] = Bridge!Free
    BY <2>2 DEF Bridge!Free, Listener
  <2>3. CASE handler'[h] = [Bridge!Free EXCEPT !.kind = "seed", !.pc = "run"]
    BY <2>3 DEF Bridge!Free, Listener
  <2>4. CASE handler'[h] = [Bridge!Free EXCEPT !.kind = "load", !.pc = "discover"]
    BY <2>4 DEF Bridge!Free, Listener
  <2> QED
    BY <2>1, <2>2, <2>3, <2>4
<1>3. handler' \in [Bridge!Handler -> Listener]
  BY <1>1, <1>2
<1>4. BridgeTyped'
  BY <1>1, <1>3 DEF BridgeTyped
<1>5. LockedIsStill'
  BY <1>1, <1>2 DEF LockedIsStill
<1>6. AskedForNewest'
  BY <1>1, <1>2 DEF AskedForNewest, NewestToken
<1>7. ServerFollows'
  <2> SUFFICES ASSUME ~overtaken' PROVE ServerFollows'
    BY DEF ServerFollows
  <2>1. ~overtaken /\ (\A h \in Bridge!Handler : ~Raises(h)) /\ 2 # None
    BY <1>1, ToolsAssumption
  <2>2. setting = wish.setting
    BY <2>1 DEF BridgeInv, ServerFollows
  <2> QED
    BY <1>1, <1>2, <2>1, <2>2 DEF ServerFollows
<1>8. CrewFollows'
  BY <1>1 DEF CrewFollows, Flags
<1> QED
  BY <1>4, <1>5, <1>6, <1>7, <1>8 DEF BridgeInv

LEMMA WishKept ==
    ASSUME NEW set \in Bridge!Setting, NEW entry \in BOOLEAN, wish' = [setting |-> set, entry |-> entry]
    PROVE  wish' \in [setting : Bridge!Setting, entry : BOOLEAN]
OBVIOUS

LEMMA GivesUpKept ==
    ASSUME Flags, NEW set \in Bridge!Setting, NEW entry \in BOOLEAN, Bridge!GivesUp(set, entry)
    PROVE  wish' \in [setting : Bridge!Setting, entry : BOOLEAN] /\ overtaken' \in BOOLEAN
BY WishKept DEF Bridge!GivesUp, Bridge!Decides, Flags

LEMMA FlagsKept ==
    ASSUME Flags, BridgeTyped, [Bridge!Next]_(Bridge!vars)
    PROVE  Flags'
<1>0. /\ {"on", "off", "gone"} = Bridge!Setting
      /\ wish.setting \in Bridge!Setting /\ wish.entry \in BOOLEAN /\ Bridge!AllOff \in Bridge!Setting
  BY DEF Flags, Bridge!Setting, Bridge!AllOff
<1>1. CASE UNCHANGED Bridge!vars
  BY <1>1 DEF Flags, Bridge!vars, Bridge!bridge, Bridge!crews, Bridge!decided, Bridge!ghost
<1>2. ASSUME NEW a \in Account, Bridge!Connect(a) PROVE Flags'
  <2>1. wish' \in [setting : Bridge!Setting, entry : BOOLEAN]
    <3> DEFINE set == IF setting = "gone" THEN wish.setting ELSE "on"
               entry == setting # "gone" \/ wish.entry
    <3>1. set \in Bridge!Setting /\ entry \in BOOLEAN
      BY <1>0
    <3>2. wish' = [setting |-> set, entry |-> entry]
      BY <1>2 DEF Bridge!Connect, Bridge!Decides
    <3> HIDE DEF set, entry
    <3> QED
      BY <3>1, <3>2, WishKept
  <2> QED
    BY <1>2, <2>1 DEF Flags, Bridge!Connect, Bridge!bridge
<1>3. ASSUME NEW a \in Account, Bridge!Disconnect(a) PROVE Flags'
  <2>1. CASE order' = <<>>
    <3>1. wish' \in [setting : Bridge!Setting, entry : BOOLEAN] /\ overtaken' \in BOOLEAN
      BY <1>0, <1>3, <2>1, GivesUpKept DEF Bridge!Disconnect
    <3> QED
      BY <1>0, <1>3, <2>1, <3>1 DEF Flags, Bridge!Disconnect
  <2>2. CASE order' # <<>>
    BY <1>3, <2>2 DEF Flags, Bridge!Disconnect, Bridge!bridge, Bridge!crews, Bridge!decided
  <2> QED
    BY <2>1, <2>2
<1>4. ASSUME NEW a \in Account, Bridge!Age(a) \/ Bridge!Use(a) \/ Bridge!RefreshFailed(a) PROVE Flags'
  BY <1>4 DEF Flags, Bridge!Age, Bridge!Use, Bridge!RefreshFailed, Bridge!bridge, Bridge!crews, Bridge!decided, Bridge!ghost
<1>5. ASSUME NEW a \in Account, Bridge!Refreshed(a) PROVE Flags'
  BY <1>5 DEF Flags, Bridge!Refreshed, Bridge!bridge, Bridge!crews, Bridge!decided
<1>6. ASSUME NEW h \in Bridge!Handler, Bridge!Proceed(h) PROVE Flags'
  BY <1>0, <1>6 DEF Flags, Bridge!Proceed, Bridge!crews, Bridge!decided
<1>7. ASSUME NEW h \in Bridge!Handler, Bridge!Register(h) \/ Bridge!Discovered(h) PROVE Flags'
  BY <1>7 DEF Flags, Bridge!Register, Bridge!Discovered, Bridge!crews, Bridge!decided, Bridge!ghost
<1>8. CASE Bridge!Unlock
  BY <1>8 DEF Flags, Bridge!Unlock, Bridge!bridge, Bridge!crews, Bridge!decided, Bridge!ghost
<1>9. CASE Bridge!Restart
  <2>1. wish' \in [setting : Bridge!Setting, entry : BOOLEAN] /\ overtaken' \in BOOLEAN
    <3> DEFINE set == IF wish.setting = "gone" THEN "off" ELSE wish.setting
               entry == wish.setting = "on"
    <3>1. set \in Bridge!Setting /\ entry \in BOOLEAN
      BY <1>0
    <3>2. Bridge!GivesUp(set, entry)
      BY <1>9 DEF Bridge!Restart
    <3> HIDE DEF set, entry
    <3> QED
      BY <3>1, <3>2, GivesUpKept
  <2>2. setting' \in Bridge!Setting
    BY <1>0, <1>9 DEF Flags, Bridge!Restart
  <2> QED
    BY <1>9, <2>1, <2>2 DEF Flags, Bridge!Restart
<1>10. CASE Bridge!SwitchOn \/ Bridge!Reload
  <2>1. wish' \in [setting : Bridge!Setting, entry : BOOLEAN] /\ setting' \in Bridge!Setting
    BY <1>0, <1>10, WishKept DEF Flags, Bridge!SwitchOn, Bridge!Reload, Bridge!Decides
  <2> QED
    BY <1>10, <2>1 DEF Flags, Bridge!SwitchOn, Bridge!Reload, Bridge!crews, Bridge!ghost
<1>11. ASSUME NEW set \in {"off", "gone"}, Bridge!SwitchOff(set) PROVE Flags'
  <2>1. wish' \in [setting : Bridge!Setting, entry : BOOLEAN] /\ overtaken' \in BOOLEAN /\ setting' \in Bridge!Setting
    BY <1>0, <1>11, GivesUpKept DEF Bridge!SwitchOff
  <2> QED
    BY <1>11, <2>1 DEF Flags, Bridge!SwitchOff, Bridge!crews, Bridge!ghost
<1>12. CASE Bridge!EditOff
  <2>1. wish' \in [setting : Bridge!Setting, entry : BOOLEAN] /\ overtaken' \in BOOLEAN /\ setting' \in Bridge!Setting
    BY <1>0, <1>12, GivesUpKept DEF Bridge!EditOff
  <2> QED
    BY <1>12, <2>1 DEF Flags, Bridge!EditOff, Bridge!crews, Bridge!ghost
<1>13. CASE Bridge!Drop
  <2>1. wish' \in [setting : Bridge!Setting, entry : BOOLEAN] /\ overtaken' \in BOOLEAN
    BY <1>0, <1>13, GivesUpKept DEF Flags, Bridge!Drop
  <2> QED
    BY <1>13, <2>1 DEF Flags, Bridge!Drop, Bridge!crews, Bridge!ghost
<1>14. CASE Bridge!ShowCrew \/ Bridge!DisableCrew
  BY <1>14 DEF Flags, Bridge!ShowCrew, Bridge!DisableCrew, Bridge!bridge, Bridge!decided, Bridge!ghost
<1> QED
  BY <1>1, <1>2, <1>3, <1>4, <1>5, <1>6, <1>7, <1>8, <1>9, <1>10, <1>11, <1>12, <1>13, <1>14
     DEF Bridge!Next, Bridge!Switches

LEMMA BridgeBegins == Bridge!Init => Flags /\ BridgeTyped /\ BridgeInv
<1> SUFFICES ASSUME Bridge!Init PROVE Flags /\ BridgeTyped /\ BridgeInv
  OBVIOUS
<1>1. /\ order = <<>> /\ token = [a \in Account |-> None] /\ issued = 0
      /\ inflight = [a \in Account |-> None] /\ handler = [h \in Bridge!Handler |-> Bridge!Free]
      /\ tokenCache = None /\ setting = "off" /\ server = None /\ synced = FALSE
      /\ staged = TRUE /\ barred = FALSE /\ byHand = FALSE
      /\ wish = [setting |-> "off", entry |-> FALSE] /\ overtaken = FALSE
      /\ locked = TRUE /\ crossed = FALSE /\ revived = FALSE /\ primed = TRUE
  BY DEF Bridge!Init
<1>2. Flags
  BY <1>1 DEF Flags, Bridge!Setting
<1>3. \A h \in Bridge!Handler : /\ handler[h] \in Listener /\ handler[h].tok = None
                                /\ ~Waits(h) /\ ~Runs(h) /\ ~Yields(h) /\ ~Raises(h)
  BY <1>1 DEF Waits, Runs, Yields, Raises, Bridge!Free, Listener
<1>4. BridgeTyped
  BY <1>1, <1>3 DEF BridgeTyped, Once, In
<1>5. BridgeInv
  BY <1>1, <1>3 DEF BridgeInv, LockedIsStill, AskedForNewest, ServerFollows, CrewFollows, NewestToken
<1> QED
  BY <1>2, <1>4, <1>5

LEMMA BridgeHolds == Bridge!Spec => [](Flags /\ BridgeTyped /\ BridgeInv)
<1> DEFINE Inv == Flags /\ BridgeTyped /\ BridgeInv
<1>1. Bridge!Init => Inv
  BY BridgeBegins
<1>2. Inv /\ [Bridge!Next]_(Bridge!vars) => Inv'
  <2> SUFFICES ASSUME Inv, [Bridge!Next]_(Bridge!vars) PROVE Inv'
    OBVIOUS
  <2>1. Flags'
    BY FlagsKept
  <2>2. CASE UNCHANGED Bridge!vars
    BY <2>1, <2>2, StillKeeps DEF Bridge!vars, Bridge!store, Bridge!bridge, Bridge!crews, Bridge!decided, Bridge!ghost
  <2>3. ASSUME NEW a \in Account, Bridge!Connect(a) PROVE Inv'
    BY <2>1, <2>3, ConnectDoes, ConnectKeeps
  <2>4. ASSUME NEW a \in Account, Bridge!Disconnect(a) PROVE Inv'
    BY <2>1, <2>4, DisconnectDoes, DisconnectKeeps
  <2>5. ASSUME NEW a \in Account, Bridge!Age(a) PROVE Inv'
    BY <2>1, <2>5, StillKeeps DEF Bridge!Age, Bridge!bridge, Bridge!crews, Bridge!decided, Bridge!ghost
  <2>6. ASSUME NEW a \in Account, Bridge!Use(a) PROVE Inv'
    BY <2>1, <2>6, UseKeeps
  <2>7. ASSUME NEW a \in Account, Bridge!Refreshed(a) PROVE Inv'
    BY <2>1, <2>7, RefreshedDoes, RefreshedKeeps
  <2>8. ASSUME NEW a \in Account, Bridge!RefreshFailed(a) PROVE Inv'
    BY <2>1, <2>8, RefreshFailedKeeps
  <2>9. ASSUME NEW h \in Bridge!Handler, Bridge!Proceed(h) \/ Bridge!Register(h) \/ Bridge!Discovered(h) PROVE Inv'
    BY <2>1, <2>9, ProceedKeeps, RegisterKeeps, DiscoveredKeeps
  <2>10. CASE Bridge!Unlock \/ Bridge!Restart
    BY <2>1, <2>10, UnlockKeeps, RestartKeeps
  <2>11. CASE Bridge!SwitchOn \/ Bridge!Reload
    BY <2>1, <2>11, CallsKeep
  <2>12. CASE (\E set \in {"off", "gone"} : Bridge!SwitchOff(set)) \/ Bridge!EditOff \/ Bridge!Drop
    BY <2>1, <2>12, GivesUpKeeps
  <2>13. CASE Bridge!ShowCrew \/ Bridge!DisableCrew
    BY <2>1, <2>13, CrewSwitchKeeps
  <2> QED
    BY <2>2, <2>3, <2>4, <2>5, <2>6, <2>7, <2>8, <2>9, <2>10, <2>11, <2>12, <2>13 DEF Bridge!Next, Bridge!Switches
<1>3. QED
  BY <1>1, <1>2, PTL DEF Bridge!Spec

\* Once the bridge's listeners have settled its cache holds the stored token of the
\* newest account, unless that changed while one of them waited, or the vault was
\* locked when the bridge started (MCPIntegrationBridge: "most-recent wins").
THEOREM CacheHoldsNewest == Bridge!Spec => []CacheIsNewest
<1>1. BridgeInv => CacheIsNewest
  <2> SUFFICES ASSUME BridgeInv, Bridge!Settled, ~crossed, primed PROVE tokenCache = NewestToken
    BY DEF CacheIsNewest, Bridge!CacheIsNewest, NewestToken
  <2>1. \A h \in Bridge!Handler : ~Waits(h) /\ ~Runs(h)
    BY DEF Bridge!Settled, Waits, Runs
  <2> QED
    BY <2>1 DEF BridgeInv, AskedForNewest
<1>2. QED
  BY <1>1, BridgeHolds, PTL

\* Once the bridge's listeners have settled the server of an integration is as was
\* decided last, by an account that came, the last one that went, or the user, unless
\* it was given up while the listener of a new account waited to enable it; its crew is
\* shown without an account only by the user, and hidden with one only where the user
\* disabled it or a late refresh revived the account (MCPIntegrationBridge,
\* IntegrationCrewSync, and the API and manage_mcp, which switch both).
THEOREM ToolsAreAsDecided == Bridge!Spec => []ToolsFollowDecisions
<1>1. Flags /\ BridgeInv => Bridge!ServerFollowsDecisions
  <2> SUFFICES ASSUME Flags, BridgeInv, Bridge!Settled, ~overtaken
               PROVE  setting = wish.setting /\ (server # None <=> wish.entry)
    BY DEF Bridge!ServerFollowsDecisions
  <2>1. \A h \in Bridge!Handler : ~Yields(h) /\ ~Raises(h)
    BY DEF Bridge!Settled, Waits, Runs, Yields, Raises
  <2>2. ~overtaken
    BY DEF Flags
  <2>3. setting = wish.setting /\ (server # None <=> wish.entry = TRUE)
    BY <2>1, <2>2 DEF BridgeInv, ServerFollows
  <2>4. wish.entry \in BOOLEAN
    BY DEF Flags
  <2> QED
    BY <2>3, <2>4
<1>2. Flags /\ BridgeInv => Bridge!CrewFollowsDecisions
  BY DEF Bridge!CrewFollowsDecisions, BridgeInv, CrewFollows, Flags
<1>3. Flags /\ BridgeInv => ToolsFollowDecisions
  BY <1>1, <1>2 DEF ToolsFollowDecisions
<1>4. QED
  BY <1>3, BridgeHolds, PTL

-----------------------------------------------------------------------------
(* The detector.                                                           *)

\* The detector's count of a set is the library's.
LEMMA SameCount == \A S : Loops!Cardinality(S) = Cardinality(S)
BY DEF Cardinality, Loops!Cardinality

Windowed ==
    /\ words \in Repertoire
    /\ history \in Seq(Loops!Call) /\ Len(history) <= 10

\* What is refused is what the patterns say of the window.
Judged == /\ blocked => Loops!Blocks(history)
          /\ history # <<>> /\ ~blocked => ~Loops!Blocks(history)

LEMMA WindowStep == Windowed /\ [Loops!Next]_(Loops!vars) => Windowed'
<1> SUFFICES ASSUME Windowed, [Loops!Next]_(Loops!vars) PROVE Windowed'
  OBVIOUS
<1>1. CASE Loops!Cleanup
  <2>1. history' \in Seq(Loops!Call) /\ Len(history') <= 10
    BY <1>1 DEF Loops!Cleanup
  <2> QED
    BY <1>1, <2>1 DEF Loops!Cleanup, Windowed
<1>2. ASSUME NEW c \in words, Loops!Record(c) PROVE Windowed'
  <2>1. c \in Loops!Call /\ history \in Seq(Loops!Call) /\ Len(history) \in Nat /\ Len(history) <= 10
    BY DEF Windowed, Loops!Call
  <2>4. words' \in Repertoire
    BY <1>2 DEF Windowed, Loops!Record
  <2>2. CASE Len(history) = 10
    <3>1. history # <<>>
      BY <2>2
    <3>2. Tail(history) \in Seq(Loops!Call) /\ Len(Tail(history)) = 9
      BY <2>1, <2>2, <3>1, HeadTailProperties
    <3>3. Append(Tail(history), c) \in Seq(Loops!Call) /\ Len(Append(Tail(history), c)) = 10
      BY <2>1, <3>2, AppendProperties
    <3>4. history' = Append(Tail(history), c)
      BY <1>2, <2>2 DEF Loops!Record, Loops!WINDOW_SIZE
    <3>5. history' \in Seq(Loops!Call) /\ Len(history') = 10
      BY <3>3, <3>4, Zenon
    <3> QED
      BY <2>4, <3>5 DEF Windowed
  <2>3. CASE Len(history) # 10
    <3>1. history' = Append(history, c)
      BY <1>2, <2>3 DEF Loops!Record, Loops!WINDOW_SIZE
    <3>2. Append(history, c) \in Seq(Loops!Call) /\ Len(Append(history, c)) = Len(history) + 1
      BY <2>1, AppendProperties
    <3>3. history' \in Seq(Loops!Call) /\ Len(history') = Len(history) + 1
      BY <3>1, <3>2, Zenon
    <3>4. Len(history) + 1 <= 10
      <4> DEFINE n == Len(history)
      <4>1. n \in Nat /\ n <= 10 /\ n # 10
        BY <2>1, <2>3
      <4> HIDE DEF n
      <4>2. n + 1 <= 10
        BY <4>1
      <4> QED
        BY <4>2 DEF n
    <3>5. Len(history') <= 10
      BY <3>3, <3>4, Zenon
    <3> QED
      BY <2>4, <3>3, <3>5, Zenon DEF Windowed
  <2> QED
    BY <2>2, <2>3
<1>3. CASE UNCHANGED Loops!vars
  BY <1>3 DEF Loops!vars, Windowed
<1> QED
  BY <1>1, <1>2, <1>3 DEF Loops!Next

LEMMA JudgedAlways == Loops!Spec => [](Windowed /\ Judged)
<1>1. Loops!Init => Windowed /\ Judged
  <2> SUFFICES ASSUME Loops!Init PROVE Windowed /\ Judged
    OBVIOUS
  <2>1. history = <<>> /\ ~blocked /\ words \in Repertoire
    BY DEF Loops!Init
  <2>2. history \in Seq(Loops!Call) /\ Len(history) <= 10
    BY <2>1
  <2> QED
    BY <2>1, <2>2 DEF Windowed, Judged
<1>2. Judged /\ [Loops!Next]_(Loops!vars) => Judged'
  <2> SUFFICES ASSUME Judged, [Loops!Next]_(Loops!vars) PROVE Judged'
    OBVIOUS
  <2>0. Loops!Blocks(history)' <=> Loops!Blocks(history')
    BY DEF Loops!Blocks, Loops!ExactRepeat, Loops!PingPong, Loops!VerifyFix, Loops!SemanticRepeat, Loops!Polling, Loops!Recent, Loops!Latest, Loops!Hash, Loops!Hashes, Loops!Tools
  <2>1. CASE Loops!Cleanup
    BY <2>1 DEF Loops!Cleanup, Judged
  <2>2. ASSUME NEW c \in words, Loops!Record(c) PROVE Judged'
    BY <2>0, <2>2 DEF Loops!Record, Judged
  <2>3. CASE UNCHANGED Loops!vars
    <3>1. Loops!Blocks(history') <=> Loops!Blocks(history)
      BY <2>3 DEF Loops!vars
    <3> QED
      BY <2>0, <2>3, <3>1 DEF Loops!vars, Judged
  <2> QED
    BY <2>1, <2>2, <2>3 DEF Loops!Next
<1> QED
  BY <1>1, <1>2, WindowStep, PTL DEF Loops!Spec

-----------------------------------------------------------------------------
LEMMA OneElement ==
    ASSUME NEW S, IsFiniteSet(S), Cardinality(S) <= 1, NEW x \in S, NEW y \in S
    PROVE  x = y
<1>1. Cardinality(S) \in Nat /\ Cardinality(S) # 0
  BY FS_CardinalityType, FS_EmptySet
<1>2. Cardinality(S) = 1
  BY <1>1
<1> QED
  BY <1>2, FS_Singleton

LEMMA SubsetOfOne ==
    ASSUME NEW S, NEW x, S \subseteq {x}
    PROVE  IsFiniteSet(S) /\ Cardinality(S) <= 1
<1>1. IsFiniteSet({x}) /\ Cardinality({x}) = 1
  BY FS_Singleton
<1> QED
  BY <1>1, FS_Subset

LEMMA SubsetOfTwo ==
    ASSUME NEW S, NEW x, NEW y, S \subseteq {x, y}
    PROVE  IsFiniteSet(S) /\ Cardinality(S) <= 2
<1>1. IsFiniteSet({x}) /\ Cardinality({x}) = 1
  BY FS_Singleton
<1>2. {x} \cup {y} = {x, y}
  OBVIOUS
<1>3. IsFiniteSet({x} \cup {y}) /\ Cardinality({x} \cup {y}) = IF y \in {x} THEN Cardinality({x}) ELSE Cardinality({x}) + 1
  BY <1>1, FS_AddElement
<1>4. IsFiniteSet({x, y}) /\ Cardinality({x, y}) <= 2
  BY <1>1, <1>2, <1>3
<1> QED
  BY <1>4, FS_Subset, FS_CardinalityType

LEMMA TwoElements ==
    ASSUME NEW S, IsFiniteSet(S), NEW x \in S, NEW y \in S, x # y
    PROVE  Cardinality(S) >= 2
<1>1. Cardinality(S) <= 1 => FALSE
  BY OneElement
<1> QED
  BY <1>1, FS_CardinalityType

LEMMA ThreeElements ==
    ASSUME NEW S, IsFiniteSet(S), NEW x \in S, NEW y \in S, NEW z \in S, x # y, y # z, x # z
    PROVE  Cardinality(S) >= 3
<1>1. IsFiniteSet(S \ {x}) /\ Cardinality(S \ {x}) = Cardinality(S) - 1
  BY FS_RemoveElement
<1>2. Cardinality(S \ {x}) >= 2
  BY <1>1, TwoElements
<1> QED
  BY <1>1, <1>2, FS_CardinalityType

LEMMA ThreeAtMost ==
    ASSUME NEW x, NEW y, NEW z
    PROVE  /\ IsFiniteSet({x, y, z}) /\ Cardinality({x, y, z}) \in Nat
           /\ Cardinality({x, y, z}) <= 3
<1>1. IsFiniteSet({x, y}) /\ Cardinality({x, y}) <= 2
  BY SubsetOfTwo
<1>2. Cardinality({x, y}) \in Nat
  BY <1>1, FS_CardinalityType
<1>3. {x, y} \cup {z} = {x, y, z}
  OBVIOUS
<1>4. /\ IsFiniteSet({x, y} \cup {z})
      /\ Cardinality({x, y} \cup {z}) = IF z \in {x, y} THEN Cardinality({x, y}) ELSE Cardinality({x, y}) + 1
  BY <1>1, FS_AddElement
<1>5. IsFiniteSet({x, y, z}) /\ Cardinality({x, y, z}) <= 3
  BY <1>1, <1>2, <1>3, <1>4
<1>6. Cardinality({x, y, z}) \in Nat
  BY <1>5, FS_CardinalityType
<1> QED
  BY <1>5, <1>6

\* The last n calls are that many, each where it was.
LEMMA RecentIs ==
    ASSUME NEW h \in Seq(Loops!Call), NEW n \in 0..Len(h)
    PROVE  /\ Loops!Recent(h, n) \in Seq(Loops!Call) /\ Len(Loops!Recent(h, n)) = n /\ DOMAIN Loops!Recent(h, n) = 1..n
           /\ \A i \in 1..n : Loops!Recent(h, n)[i] = h[Len(h) - n + i]
<1>1. Len(h) \in Nat /\ Len(h) + 1 - n \in 1..Len(h) + 1
  OBVIOUS
<1>2. /\ Loops!Recent(h, n) \in Seq(Loops!Call)
      /\ Len(Loops!Recent(h, n)) = IF Len(h) + 1 - n <= Len(h) THEN Len(h) - (Len(h) + 1 - n) + 1 ELSE 0
      /\ \A i \in 1..Len(h) - (Len(h) + 1 - n) + 1 : Loops!Recent(h, n)[i] = h[Len(h) + 1 - n + i - 1]
  BY <1>1, SubSeqProperties DEF Loops!Recent
<1>3. Len(Loops!Recent(h, n)) = n
  BY <1>1, <1>2
<1> QED
  BY <1>1, <1>2, <1>3

LEMMA FiniteParts ==
    ASSUME NEW h \in Seq(Loops!Call)
    PROVE  /\ IsFiniteSet(Loops!Tools(h)) /\ IsFiniteSet(Loops!Hashes(h)) /\ IsFiniteSet(DOMAIN h)
           /\ Cardinality(DOMAIN h) = Len(h)
<1>1. DOMAIN h = 1..Len(h) /\ Len(h) \in Nat
  OBVIOUS
<1>2. IsFiniteSet(1..Len(h)) /\ Cardinality(1..Len(h)) = Len(h)
  BY <1>1, FS_Interval
<1>3. ASSUME NEW f, f = [i \in 1..Len(h) |-> f[i]] PROVE IsFiniteSet({f[i] : i \in 1..Len(h)})
  <2>1. f \in Surjection(1..Len(h), {f[i] : i \in 1..Len(h)})
    BY <1>3 DEF Surjection
  <2> QED
    BY <1>2, <2>1, FS_Surjection
<1>4. IsFiniteSet({h[i].tool : i \in DOMAIN h}) /\ IsFiniteSet({Loops!Hash(h[i]) : i \in DOMAIN h})
  <2> DEFINE f == [i \in 1..Len(h) |-> h[i].tool]
             g == [i \in 1..Len(h) |-> Loops!Hash(h[i])]
  <2>1. IsFiniteSet({f[i] : i \in 1..Len(h)}) /\ IsFiniteSet({g[i] : i \in 1..Len(h)})
    BY <1>3
  <2>2. {f[i] : i \in 1..Len(h)} = {h[i].tool : i \in DOMAIN h} /\ {g[i] : i \in 1..Len(h)} = {Loops!Hash(h[i]) : i \in DOMAIN h}
    BY <1>1
  <2> QED
    BY <2>1, <2>2
<1> QED
  BY <1>1, <1>2, <1>3, <1>4 DEF Loops!Tools, Loops!Hashes

-----------------------------------------------------------------------------
\* A call whose hash the window has not seen is neither repeated nor the end of a
\* round of old ones.
LEMMA NewIsNoRepeat ==
    ASSUME NEW h \in Seq(Loops!Call), h # <<>>, \A i \in 1..Len(h) - 1 : Loops!Hash(h[i]) # Loops!Hash(h[Len(h)])
    PROVE  /\ ~Loops!ExactRepeat(h) /\ ~Loops!SemanticRepeat(h)
           /\ Len(h) >= 4 /\ Loops!PingPong(h) => Cardinality(Loops!Hashes(Loops!Recent(h, 4))) > 2
<1>1. Len(h) \in Nat /\ Len(h) >= 1 /\ DOMAIN h = 1..Len(h)
  OBVIOUS
<1>2. ~Loops!ExactRepeat(h)
  <2> SUFFICES ASSUME Loops!ExactRepeat(h) PROVE FALSE
    OBVIOUS
  <2>1. Len(h) >= 3 /\ Loops!Recent(h, 3)[1] = Loops!Latest(h)
    BY DEF Loops!ExactRepeat
  <2>2. Loops!Recent(h, 3)[1] = h[Len(h) - 3 + 1]
    BY <1>1, <2>1, RecentIs
  <2>3. Len(h) - 3 + 1 \in 1..Len(h) - 1
    BY <1>1, <2>1
  <2> QED
    BY <2>1, <2>2, <2>3 DEF Loops!Latest
<1>3. ~Loops!SemanticRepeat(h)
  <2>1. {i \in DOMAIN h : Loops!Hash(h[i]) = Loops!Hash(Loops!Latest(h))} \subseteq {Len(h)}
    BY <1>1 DEF Loops!Latest
  <2>2. Cardinality({i \in DOMAIN h : Loops!Hash(h[i]) = Loops!Hash(Loops!Latest(h))}) <= 1
    BY <2>1, SubsetOfOne
  <2>3. IsFiniteSet({i \in DOMAIN h : Loops!Hash(h[i]) = Loops!Hash(Loops!Latest(h))})
    BY <2>1, SubsetOfOne
  <2> QED
    BY <2>2, <2>3, FS_CardinalityType, SameCount DEF Loops!SemanticRepeat
<1>4. ASSUME Len(h) >= 4, Loops!PingPong(h) PROVE Cardinality(Loops!Hashes(Loops!Recent(h, 4))) > 2
  <2> DEFINE l == Loops!Recent(h, 4)
             H(i) == Loops!Hash(h[Len(h) - i])
  <2>1. l \in Seq(Loops!Call) /\ DOMAIN l = 1..4 /\ \A i \in 1..4 : l[i] = h[Len(h) - 4 + i]
    <3>1. 4 \in 0..Len(h)
      BY <1>1, <1>4
    <3> QED
      BY <3>1, RecentIs
  <2>2. IsFiniteSet(Loops!Hashes(l))
    BY <2>1, FiniteParts
  <2>3. l[1] = h[Len(h) - 3] /\ l[2] = h[Len(h) - 2] /\ l[3] = h[Len(h) - 1] /\ l[4] = h[Len(h)]
    <3>1. Len(h) - 4 + 1 = Len(h) - 3 /\ Len(h) - 4 + 2 = Len(h) - 2 /\ Len(h) - 4 + 3 = Len(h) - 1
          /\ Len(h) - 4 + 4 = Len(h)
      BY <1>1
    <3>2. 1 \in 1..4 /\ 2 \in 1..4 /\ 3 \in 1..4 /\ 4 \in 1..4
      OBVIOUS
    <3> QED
      BY <2>1, <3>1, <3>2
  <2>4. H(3) \in Loops!Hashes(l) /\ H(2) \in Loops!Hashes(l) /\ H(1) \in Loops!Hashes(l) /\ Loops!Hash(h[Len(h)]) \in Loops!Hashes(l)
    <3>1. 1 \in DOMAIN l /\ 2 \in DOMAIN l /\ 3 \in DOMAIN l /\ 4 \in DOMAIN l
      BY <2>1
    <3> HIDE DEF l
    <3> QED
      BY <2>3, <3>1 DEF Loops!Hashes
  <2>5. H(3) # Loops!Hash(h[Len(h)]) /\ H(2) # Loops!Hash(h[Len(h)]) /\ H(1) # Loops!Hash(h[Len(h)])
    <3>1. Len(h) - 3 \in 1..Len(h) - 1 /\ Len(h) - 2 \in 1..Len(h) - 1 /\ Len(h) - 1 \in 1..Len(h) - 1
      BY <1>1, <1>4
    <3> QED
      BY <3>1
  <2>6. H(3) # H(2) \/ H(2) # H(1) \/ H(3) # H(1)
    <3>1. CASE l[1].tool # l[2].tool
      BY <2>3, <3>1 DEF Loops!Hash
    <3>2. CASE Len(h) >= 6 /\ (\A i \in 1..3 : Loops!Recent(h, 6)[i].tool = Loops!Recent(h, 6)[i + 3].tool)
               /\ Cardinality(Loops!Tools(Loops!Recent(h, 6))) > 1
      <4> DEFINE k == Loops!Recent(h, 6)
      <4>1. k \in Seq(Loops!Call) /\ DOMAIN k = 1..6 /\ \A i \in 1..6 : k[i] = h[Len(h) - 6 + i]
        <5>1. 6 \in 0..Len(h)
          BY <1>1, <3>2
        <5> QED
          BY <5>1, RecentIs
      <4>2. k[3] = h[Len(h) - 3] /\ k[4] = h[Len(h) - 2] /\ k[5] = h[Len(h) - 1]
        <5>1. Len(h) - 6 + 3 = Len(h) - 3 /\ Len(h) - 6 + 4 = Len(h) - 2 /\ Len(h) - 6 + 5 = Len(h) - 1
          BY <1>1
        <5>2. 3 \in 1..6 /\ 4 \in 1..6 /\ 5 \in 1..6
          OBVIOUS
        <5> QED
          BY <4>1, <5>1, <5>2
      <4>3. k[1].tool = k[4].tool /\ k[2].tool = k[5].tool /\ k[3].tool = k[6].tool
        <5>1. \A i \in 1..3 : k[i].tool = k[i + 3].tool
          BY <3>2
        <5>2. k[1].tool = k[1 + 3].tool /\ k[2].tool = k[2 + 3].tool /\ k[3].tool = k[3 + 3].tool
          BY <5>1
        <5> HIDE DEF k
        <5> QED
          BY <5>2
      <4> SUFFICES ASSUME H(3) = H(2), H(2) = H(1) PROVE FALSE
        OBVIOUS
      <4>4. k[3].tool = k[4].tool /\ k[4].tool = k[5].tool
        BY <4>2 DEF Loops!Hash
      <4>5. Cardinality(Loops!Tools(k)) > 1
        BY <3>2
      <4> HIDE DEF k
      <4>6. \A i \in 1..6 : k[i].tool = k[3].tool
        <5>1. \A i \in 1..6 : i = 1 \/ i = 2 \/ i = 3 \/ i = 4 \/ i = 5 \/ i = 6
          OBVIOUS
        <5> QED
          BY <4>3, <4>4, <5>1
      <4>7. Loops!Tools(k) \subseteq {k[3].tool}
        BY <4>1, <4>6 DEF Loops!Tools
      <4>8. IsFiniteSet(Loops!Tools(k)) /\ Cardinality(Loops!Tools(k)) <= 1
        BY <4>7, SubsetOfOne
      <4> QED
        BY <4>5, <4>8, FS_CardinalityType
    <3> QED
      BY <1>4, <3>1, <3>2, SameCount DEF Loops!PingPong
  <2> HIDE DEF l, H
  <2>7. Cardinality(Loops!Hashes(l)) >= 3
    BY <2>2, <2>4, <2>5, <2>6, ThreeElements
  <2>8. Cardinality(Loops!Hashes(l)) \in Nat
    BY <2>2, FS_CardinalityType
  <2>9. Cardinality(Loops!Hashes(l)) > 2
    BY <2>7, <2>8
  <2> QED
    BY <2>9 DEF l
<1> QED
  BY <1>2, <1>3, <1>4

\* Where only one tool is used nothing is ping-pong.
LEMMA OneToolIsNoPingPong ==
    ASSUME NEW h \in Seq(Loops!Call), NEW n, \A i \in DOMAIN h : h[i].tool = n
    PROVE  ~Loops!PingPong(h)
<1>1. Len(h) \in Nat
  OBVIOUS
<1>2. ASSUME NEW k \in 0..Len(h) PROVE \A i \in 1..k : Loops!Recent(h, k)[i].tool = n
  <2>1. \A i \in 1..k : Loops!Recent(h, k)[i] = h[Len(h) - k + i] /\ Len(h) - k + i \in DOMAIN h
    BY <1>1, RecentIs
  <2> QED
    BY <2>1
<1>3. ASSUME Len(h) >= 4 PROVE Loops!Recent(h, 4)[1].tool = n /\ Loops!Recent(h, 4)[2].tool = n
  BY <1>1, <1>2, <1>3
<1>4. ASSUME Len(h) >= 6 PROVE ~(Cardinality(Loops!Tools(Loops!Recent(h, 6))) > 1)
  <2>1. DOMAIN Loops!Recent(h, 6) = 1..6
    <3>1. 6 \in 0..Len(h)
      BY <1>1, <1>4
    <3> QED
      BY <3>1, RecentIs
  <2>2. \A i \in 1..6 : Loops!Recent(h, 6)[i].tool = n
    BY <1>1, <1>2, <1>4
  <2>3. Loops!Tools(Loops!Recent(h, 6)) \subseteq {n}
    BY <2>1, <2>2 DEF Loops!Tools
  <2>4. IsFiniteSet(Loops!Tools(Loops!Recent(h, 6))) /\ Cardinality(Loops!Tools(Loops!Recent(h, 6))) <= 1
    BY <2>3, SubsetOfOne
  <2> QED
    BY <2>4, FS_CardinalityType
<1> QED
  BY <1>3, <1>4, SameCount DEF Loops!PingPong

THEOREM NewWorkIsLetThrough == Loops!Spec => []NewWorkPasses
<1>1. Windowed /\ Judged => NewWorkPasses
  <2> SUFFICES ASSUME Windowed, Judged, history # <<>>,
                      Loops!Hash(Loops!Latest(history)) \notin Loops!Hashes(SubSeq(history, 1, Len(history) - 1)),
                      \/ Loops!Tools(Loops!Recent(history, IF Len(history) < 4 THEN Len(history) ELSE 4)) \subseteq Sensitive
                      \/ Cardinality(Loops!Tools(history)) = 1,
                      blocked, ~Loops!Polling(history)
               PROVE  FALSE
    BY SameCount DEF NewWorkPasses, Loops!NewWorkPasses
  <2> DEFINE h == history
  <2>1. h \in Seq(Loops!Call) /\ Len(h) \in Nat /\ Len(h) >= 1 /\ DOMAIN h = 1..Len(h)
    BY DEF Windowed
  <2>2. \A i \in 1..Len(h) - 1 : Loops!Hash(h[i]) # Loops!Hash(h[Len(h)])
    <3> DEFINE e == SubSeq(h, 1, Len(h) - 1)
    <3>1. DOMAIN e = 1..Len(h) - 1 /\ \A i \in 1..Len(h) - 1 : e[i] = h[i]
      BY <2>1
    <3>2. Loops!Hash(h[Len(h)]) \notin Loops!Hashes(e)
      BY DEF Loops!Latest
    <3> HIDE DEF e
    <3> QED
      BY <3>1, <3>2 DEF Loops!Hashes
  <2>3. /\ ~Loops!ExactRepeat(h) /\ ~Loops!SemanticRepeat(h)
        /\ Len(h) >= 4 /\ Loops!PingPong(h) => Cardinality(Loops!Hashes(Loops!Recent(h, 4))) > 2
    BY <2>1, <2>2, NewIsNoRepeat
  <2>4. Loops!PingPong(h) /\ ~Loops!VerifyFix(h)
    BY <2>3 DEF Judged, Loops!Blocks
  <2>5. Len(h) >= 4
    BY <2>1, <2>4, SameCount DEF Loops!PingPong
  <2>6. CASE Loops!Tools(Loops!Recent(h, IF Len(h) < 4 THEN Len(h) ELSE 4)) \subseteq Sensitive
    <3>1. (IF Len(h) < 4 THEN Len(h) ELSE 4) = 4
      BY <2>1, <2>5
    <3>2. Loops!Tools(Loops!Recent(h, 4)) \subseteq Sensitive
      BY <2>6, <3>1
    <3> QED
      BY <2>3, <2>4, <2>5, <3>2, SameCount DEF Loops!VerifyFix
  <2>7. CASE Cardinality(Loops!Tools(h)) = 1
    <3>1. IsFiniteSet(Loops!Tools(h))
      BY <2>1, FiniteParts
    <3>2. \A i \in DOMAIN h : h[i].tool = h[1].tool
      <4>1. 1 \in DOMAIN h
        BY <2>1
      <4> HIDE DEF h
      <4>2. \A i \in DOMAIN h : h[i].tool \in Loops!Tools(h)
        BY DEF Loops!Tools
      <4>3. Cardinality(Loops!Tools(h)) <= 1
        BY <2>7
      <4> QED
        BY <3>1, <4>1, <4>2, <4>3, OneElement
    <3> QED
      BY <2>1, <2>4, <3>2, OneToolIsNoPingPong
  <2> QED
    BY <2>6, <2>7
<1> QED
  BY <1>1, JudgedAlways, PTL

-----------------------------------------------------------------------------
\* In a full window that goes round p calls the last three are given by what
\* they repeat.
LEMMA LastThree ==
    ASSUME NEW h \in Seq(Loops!Call), Len(h) = 10
    PROVE  /\ DOMAIN Loops!Recent(h, 3) = 1..3
           /\ Loops!Recent(h, 3)[1] = h[8] /\ Loops!Recent(h, 3)[2] = h[9] /\ Loops!Recent(h, 3)[3] = h[10]
<1>1. 3 \in 0..Len(h)
  OBVIOUS
<1>2. DOMAIN Loops!Recent(h, 3) = 1..3 /\ \A i \in 1..3 : Loops!Recent(h, 3)[i] = h[Len(h) - 3 + i]
  BY <1>1, RecentIs
<1>3. 1 \in 1..3 /\ 2 \in 1..3 /\ 3 \in 1..3
  OBVIOUS
<1> QED
  BY <1>2, <1>3

LEMMA LastFour ==
    ASSUME NEW h \in Seq(Loops!Call), Len(h) = 10
    PROVE  /\ DOMAIN Loops!Recent(h, 4) = 1..4 /\ Loops!Recent(h, 4) \in Seq(Loops!Call)
           /\ Loops!Recent(h, 4)[1] = h[7] /\ Loops!Recent(h, 4)[2] = h[8]
           /\ Loops!Recent(h, 4)[3] = h[9] /\ Loops!Recent(h, 4)[4] = h[10]
<1>1. 4 \in 0..Len(h)
  OBVIOUS
<1>2. /\ DOMAIN Loops!Recent(h, 4) = 1..4 /\ Loops!Recent(h, 4) \in Seq(Loops!Call)
      /\ \A i \in 1..4 : Loops!Recent(h, 4)[i] = h[Len(h) - 4 + i]
  BY <1>1, RecentIs
<1>3. 1 \in 1..4 /\ 2 \in 1..4 /\ 3 \in 1..4 /\ 4 \in 1..4
  OBVIOUS
<1> QED
  BY <1>2, <1>3

LEMMA LastSix ==
    ASSUME NEW h \in Seq(Loops!Call), Len(h) = 10
    PROVE  /\ DOMAIN Loops!Recent(h, 6) = 1..6 /\ Loops!Recent(h, 6) \in Seq(Loops!Call)
           /\ \A i \in 1..6 : Loops!Recent(h, 6)[i] = h[4 + i]
<1>1. 6 \in 0..Len(h)
  OBVIOUS
<1>2. /\ DOMAIN Loops!Recent(h, 6) = 1..6 /\ Loops!Recent(h, 6) \in Seq(Loops!Call)
      /\ \A i \in 1..6 : Loops!Recent(h, 6)[i] = h[Len(h) - 6 + i]
  BY <1>1, RecentIs
<1> QED
  BY <1>2

\* A window of one tool, asked for one thing, is polling.
LEMMA SameToolPolls ==
    ASSUME NEW h \in Seq(Loops!Call), Len(h) = 10, \A i \in DOMAIN h : h[i].tool = h[10].tool,
           h[10].tool \in MultiAction => \A i \in DOMAIN h : h[i].action = h[10].action
    PROVE  Loops!Polling(h)
<1>1. DOMAIN h = 1..10
  OBVIOUS
<1>2. {i \in DOMAIN h : h[i].tool = h[10].tool /\ (h[10].tool \in MultiAction => h[i].action = h[10].action)} = DOMAIN h
  OBVIOUS
<1>3. Cardinality(DOMAIN h) = 10
  BY FiniteParts
<1>4. Cardinality({i \in DOMAIN h : h[i].tool = h[10].tool /\ (h[10].tool \in MultiAction => h[i].action = h[10].action)}) >= 8
  <2>1. Cardinality({i \in DOMAIN h : h[i].tool = h[10].tool /\ (h[10].tool \in MultiAction => h[i].action = h[10].action)}) = 10
    BY <1>2, <1>3, Zenon
  <2> QED
    BY <2>1
<1> QED
  BY <1>4, SameCount DEF Loops!Polling, Loops!Latest

\* A round of up to three calls of one tool is polling, unless it is the actions
\* of a tool that has several.
LEMMA OneToolEnds ==
    ASSUME NEW h \in Seq(Loops!Call), Len(h) = 10, \A i \in DOMAIN h : \E j \in 8..10 : h[i] = h[j],
           h[8].tool = h[9].tool, h[9].tool = h[10].tool
    PROVE  Loops!Polling(h) \/ Loops!Excused(h)
<1> DEFINE l == Loops!Recent(h, 3)
           As == {l[i].action : i \in 1..3}
<1>1. DOMAIN l = 1..3 /\ l[1] = h[8] /\ l[2] = h[9] /\ l[3] = h[10]
  BY LastThree
<1>2. \A j \in 8..10 : j = 8 \/ j = 9 \/ j = 10
  OBVIOUS
<1>3. \A i \in DOMAIN h : h[i].tool = h[10].tool
  BY <1>2
<1>4. As = {h[8].action, h[9].action, h[10].action}
  <2>1. \A i \in 1..3 : i = 1 \/ i = 2 \/ i = 3
    OBVIOUS
  <2>2. 1 \in 1..3 /\ 2 \in 1..3 /\ 3 \in 1..3
    OBVIOUS
  <2> HIDE DEF l
  <2> QED
    BY <1>1, <2>1, <2>2
<1>5. Loops!Tools(l) = {h[10].tool}
  <2>1. \A i \in 1..3 : i = 1 \/ i = 2 \/ i = 3
    OBVIOUS
  <2>2. 3 \in 1..3
    OBVIOUS
  <2> HIDE DEF l
  <2> QED
    BY <1>1, <2>1, <2>2 DEF Loops!Tools
<1>6. CASE h[10].tool \in MultiAction /\ Cardinality(As) > 1
  <2>1. Cardinality(Loops!Tools(l)) = 1
    BY <1>5, FS_Singleton
  <2>2. Loops!Tools(l) \subseteq MultiAction
    BY <1>5, <1>6
  <2> QED
    BY <1>6, <2>1, <2>2, SameCount DEF Loops!Excused
<1>7. CASE ~(h[10].tool \in MultiAction /\ Cardinality(As) > 1)
  <2>1. ASSUME h[10].tool \in MultiAction PROVE \A i \in DOMAIN h : h[i].action = h[10].action
    <3>1. IsFiniteSet(As) /\ Cardinality(As) \in Nat
      <4> DEFINE T == {h[8].action, h[9].action, h[10].action}
      <4>1. IsFiniteSet(T) /\ Cardinality(T) \in Nat
        BY ThreeAtMost
      <4>2. As = T
        BY <1>4
      <4> HIDE DEF T, As
      <4> QED
        BY <4>1, <4>2
    <3>2. Cardinality(As) <= 1
      BY <1>7, <2>1, <3>1
    <3>3. h[8].action \in As /\ h[9].action \in As /\ h[10].action \in As
      BY <1>4
    <3> HIDE DEF As
    <3>4. h[8].action = h[10].action /\ h[9].action = h[10].action
      BY <3>1, <3>2, <3>3, OneElement
    <3> QED
      BY <1>2, <3>4
  <2> QED
    BY <1>3, <2>1, SameToolPolls
<1> QED
  BY <1>6, <1>7

LEMMA RoundOfOne ==
    ASSUME NEW h \in Seq(Loops!Call), Len(h) = 10, Loops!GoesRound(h, 1)
    PROVE  Loops!Blocks(h)
<1>1. h[8] = h[9] /\ h[9] = h[10]
  <2>1. 8 \in 1..Len(h) - 1 /\ 9 \in 1..Len(h) - 1
    OBVIOUS
  <2>2. h[8] = h[8 + 1] /\ h[9] = h[9 + 1]
    BY <2>1 DEF Loops!GoesRound
  <2> QED
    BY <2>2
<1>2. Loops!Recent(h, 3)[1] = h[10] /\ Loops!Recent(h, 3)[2] = h[10] /\ Loops!Recent(h, 3)[3] = h[10]
  BY <1>1, LastThree
<1>3. \A i \in 1..3 : i = 1 \/ i = 2 \/ i = 3
  OBVIOUS
<1> QED
  BY <1>2, <1>3 DEF Loops!Blocks, Loops!ExactRepeat, Loops!Latest

LEMMA RoundOfTwo ==
    ASSUME NEW h \in Seq(Loops!Call), Len(h) = 10, Loops!GoesRound(h, 2)
    PROVE  Loops!Blocks(h) \/ Loops!Excused(h)
<1>1. \A i \in 1..8 : h[i] = h[i + 2]
  BY DEF Loops!GoesRound
<1>2. /\ h[1] = h[9] /\ h[3] = h[9] /\ h[5] = h[9] /\ h[7] = h[9]
      /\ h[2] = h[10] /\ h[4] = h[10] /\ h[6] = h[10] /\ h[8] = h[10]
  BY <1>1
<1>3. CASE h[9].tool = h[10].tool
  <2>1. \A i \in DOMAIN h : \E j \in 8..10 : h[i] = h[j]
    <3>1. \A i \in DOMAIN h : \/ i = 1 \/ i = 2 \/ i = 3 \/ i = 4 \/ i = 5
                              \/ i = 6 \/ i = 7 \/ i = 8 \/ i = 9 \/ i = 10
      OBVIOUS
    <3>2. 9 \in 8..10 /\ 10 \in 8..10
      OBVIOUS
    <3> QED
      BY <1>2, <3>1, <3>2
  <2>2. Loops!Polling(h) \/ Loops!Excused(h)
    BY <1>2, <1>3, <2>1, OneToolEnds
  <2> QED
    BY <2>2 DEF Loops!Blocks
<1>4. CASE h[9].tool # h[10].tool
  <2> DEFINE l == Loops!Recent(h, 4)
  <2>1. /\ DOMAIN l = 1..4 /\ l[1] = h[9] /\ l[2] = h[10] /\ l[3] = h[9] /\ l[4] = h[10]
    BY <1>2, LastFour
  <2>2. Loops!PingPong(h)
    BY <1>4, <2>1, SameCount DEF Loops!PingPong
  <2>3. Loops!Hashes(l) \subseteq {Loops!Hash(h[9]), Loops!Hash(h[10])}
    <3>1. \A i \in DOMAIN l : i = 1 \/ i = 2 \/ i = 3 \/ i = 4
      BY <2>1
    <3> HIDE DEF l
    <3> QED
      BY <2>1, <3>1 DEF Loops!Hashes
  <2>4. IsFiniteSet(Loops!Hashes(l)) /\ Cardinality(Loops!Hashes(l)) <= 2
    BY <2>3, SubsetOfTwo
  <2>5. ~Loops!VerifyFix(h)
    BY <2>4, FS_CardinalityType, SameCount DEF Loops!VerifyFix
  <2> QED
    BY <2>2, <2>5 DEF Loops!Blocks
<1> QED
  BY <1>3, <1>4

LEMMA RoundOfThree ==
    ASSUME NEW h \in Seq(Loops!Call), Len(h) = 10, Loops!GoesRound(h, 3)
    PROVE  Loops!Blocks(h) \/ Loops!Excused(h)
<1>1. \A i \in 1..7 : h[i] = h[i + 3]
  BY DEF Loops!GoesRound
<1>2. /\ h[1] = h[10] /\ h[4] = h[10] /\ h[7] = h[10]
      /\ h[2] = h[8] /\ h[5] = h[8] /\ h[3] = h[9] /\ h[6] = h[9]
  BY <1>1
<1>3. CASE h[8].tool = h[9].tool /\ h[9].tool = h[10].tool
  <2>1. \A i \in DOMAIN h : \E j \in 8..10 : h[i] = h[j]
    <3>1. \A i \in DOMAIN h : \/ i = 1 \/ i = 2 \/ i = 3 \/ i = 4 \/ i = 5
                              \/ i = 6 \/ i = 7 \/ i = 8 \/ i = 9 \/ i = 10
      OBVIOUS
    <3>2. 8 \in 8..10 /\ 9 \in 8..10 /\ 10 \in 8..10
      OBVIOUS
    <3> QED
      BY <1>2, <3>1, <3>2
  <2>2. Loops!Polling(h) \/ Loops!Excused(h)
    BY <1>3, <2>1, OneToolEnds
  <2> QED
    BY <2>2 DEF Loops!Blocks
<1>4. CASE ~(h[8].tool = h[9].tool /\ h[9].tool = h[10].tool)
  <2> DEFINE k == Loops!Recent(h, 6)
             q == Loops!Recent(h, 4)
             l == Loops!Recent(h, 3)
  <2>1. DOMAIN k = 1..6 /\ k \in Seq(Loops!Call) /\ \A i \in 1..6 : k[i] = h[4 + i]
    BY LastSix
  <2>2. k[1] = h[8] /\ k[2] = h[9] /\ k[3] = h[10] /\ k[4] = h[8] /\ k[5] = h[9] /\ k[6] = h[10]
    <3>1. 1 \in 1..6 /\ 2 \in 1..6 /\ 3 \in 1..6 /\ 4 \in 1..6 /\ 5 \in 1..6 /\ 6 \in 1..6
      OBVIOUS
    <3>2. k[1] = h[4 + 1] /\ k[2] = h[4 + 2] /\ k[3] = h[4 + 3] /\ k[4] = h[4 + 4] /\ k[5] = h[4 + 5] /\ k[6] = h[4 + 6]
      BY <2>1, <3>1
    <3> HIDE DEF k
    <3> QED
      BY <1>2, <3>2
  <2>3. Cardinality(Loops!Tools(k)) >= 2 /\ IsFiniteSet(Loops!Tools(k))
    <3>1. IsFiniteSet(Loops!Tools(k))
      BY <2>1, FiniteParts
    <3>2. 4 \in DOMAIN k /\ 5 \in DOMAIN k /\ 6 \in DOMAIN k
      BY <2>1
    <3> HIDE DEF k
    <3>3. h[8].tool \in Loops!Tools(k) /\ h[9].tool \in Loops!Tools(k) /\ h[10].tool \in Loops!Tools(k)
      BY <2>2, <3>2 DEF Loops!Tools
    <3> QED
      BY <1>4, <3>1, <3>3, TwoElements
  <2>4. Loops!PingPong(h)
    <3>1. \A i \in 1..3 : k[i].tool = k[i + 3].tool
      <4>1. \A i \in 1..3 : i = 1 \/ i = 2 \/ i = 3
        OBVIOUS
      <4>2. k[1].tool = k[1 + 3].tool /\ k[2].tool = k[2 + 3].tool /\ k[3].tool = k[3 + 3].tool
        BY <2>2
      <4> HIDE DEF k
      <4> QED
        BY <4>1, <4>2
    <3>2. Cardinality(Loops!Tools(k)) > 1
      BY <2>3, FS_CardinalityType
    <3> QED
      BY <3>1, <3>2, SameCount DEF Loops!PingPong
  <2>5. ASSUME Loops!VerifyFix(h) PROVE Loops!Excused(h)
    <3>1. DOMAIN l = 1..3 /\ l[1] = h[8] /\ l[2] = h[9] /\ l[3] = h[10]
      BY LastThree
    <3>2. DOMAIN q = 1..4 /\ q[1] = h[10] /\ q[2] = h[8] /\ q[3] = h[9] /\ q[4] = h[10]
      BY <1>2, LastFour
    <3>3. (\A i \in DOMAIN l : i = 1 \/ i = 2 \/ i = 3) /\ 1 \in DOMAIN l /\ 2 \in DOMAIN l /\ 3 \in DOMAIN l
      BY <3>1
    <3>4. (\A i \in DOMAIN q : i = 1 \/ i = 2 \/ i = 3 \/ i = 4) /\ 2 \in DOMAIN q /\ 3 \in DOMAIN q /\ 4 \in DOMAIN q
      BY <3>2
    <3>5. Loops!Tools(q) \subseteq Sensitive /\ Cardinality(Loops!Hashes(q)) > 2
      BY <2>5, SameCount DEF Loops!VerifyFix
    <3>6. Loops!Hashes(q) = {Loops!Hash(h[8]), Loops!Hash(h[9]), Loops!Hash(h[10])}
      <4> HIDE DEF q
      <4> QED
        BY <3>2, <3>4 DEF Loops!Hashes
    <3>7. Loops!Hashes(l) = {Loops!Hash(h[8]), Loops!Hash(h[9]), Loops!Hash(h[10])}
      <4> HIDE DEF l
      <4> QED
        BY <3>1, <3>3 DEF Loops!Hashes
    <3>8. Loops!Tools(l) = {h[8].tool, h[9].tool, h[10].tool} /\ Loops!Tools(q) = {h[8].tool, h[9].tool, h[10].tool}
      <4> HIDE DEF l, q
      <4> QED
        BY <3>1, <3>2, <3>3, <3>4 DEF Loops!Tools
    <3>9. Cardinality(Loops!Hashes(l)) = 3
      <4>1. Loops!Hashes(l) = Loops!Hashes(q)
        BY <3>6, <3>7, Zenon
      <4>2. Cardinality(Loops!Hashes(q)) \in Nat /\ Cardinality(Loops!Hashes(q)) <= 3
        BY <3>6, ThreeAtMost, Zenon
      <4>3. Cardinality(Loops!Hashes(q)) > 2
        BY <3>5
      <4> HIDE DEF l, q
      <4>4. Cardinality(Loops!Hashes(q)) = 3
        BY <4>2, <4>3
      <4> QED
        BY <4>1, <4>4, Zenon
    <3>10. Cardinality(Loops!Tools(l)) > 1
      <4>1. IsFiniteSet(Loops!Tools(l)) /\ Cardinality(Loops!Tools(l)) \in Nat
        <5> DEFINE T == {h[8].tool, h[9].tool, h[10].tool}
        <5>1. IsFiniteSet(T) /\ Cardinality(T) \in Nat
          BY ThreeAtMost
        <5>2. Loops!Tools(l) = T
          BY <3>8
        <5> HIDE DEF T, l
        <5> QED
          BY <5>1, <5>2
      <4>2. h[8].tool \in Loops!Tools(l) /\ h[9].tool \in Loops!Tools(l) /\ h[10].tool \in Loops!Tools(l)
        BY <3>8
      <4> HIDE DEF l
      <4>3. Cardinality(Loops!Tools(l)) >= 2
        BY <1>4, <4>1, <4>2, TwoElements
      <4> QED
        BY <4>1, <4>3
    <3> QED
      BY <3>5, <3>8, <3>9, <3>10, SameCount DEF Loops!Excused
  <2> QED
    BY <2>4, <2>5 DEF Loops!Blocks
<1> QED
  BY <1>3, <1>4

THEOREM ShortLoopsAreEnded == Loops!Spec => []ShortLoopsEnd
<1>1. Windowed /\ Judged => ShortLoopsEnd
  <2> SUFFICES ASSUME Windowed, Judged, NEW p \in 1..3, Len(history) = 10, Loops!GoesRound(history, p)
               PROVE  blocked \/ Loops!Excused(history)
    BY DEF ShortLoopsEnd, Loops!ShortLoopsEnd, Loops!WINDOW_SIZE
  <2>1. history \in Seq(Loops!Call) /\ history # <<>>
    <3>1. history \in Seq(Loops!Call)
      BY DEF Windowed
    <3>2. history # <<>>
      OBVIOUS
    <3> QED
      BY <3>1, <3>2
  <2>2. p = 1 \/ p = 2 \/ p = 3
    OBVIOUS
  <2>3. Loops!Blocks(history) \/ Loops!Excused(history)
    BY <2>1, <2>2, RoundOfOne, RoundOfTwo, RoundOfThree
  <2> QED
    BY <2>1, <2>3 DEF Judged
<1> QED
  BY <1>1, JudgedAlways, PTL

-----------------------------------------------------------------------------
(* The three in one run.                                                   *)

\* In the run of all three, each part moves as its own specification says, so that
\* what is proved of a part holds there.
THEOREM EachToolIsItself == ToolsSpec => Spec /\ Bridge!Spec /\ Loops!Spec
<1>1. ToolsInit => Init /\ Bridge!Init /\ Loops!Init
  BY DEF ToolsInit
<1>2. [ToolsNext]_allVars => [Next]_vars
  BY DEF ToolsNext, allVars
<1>3. [ToolsNext]_allVars => [Bridge!Next]_(Bridge!vars)
  BY DEF ToolsNext, allVars, bridgeVars, Bridge!vars, Bridge!store, Bridge!bridge, Bridge!crews, Bridge!decided,
         Bridge!ghost
<1>4. [ToolsNext]_allVars => [Loops!Next]_(Loops!vars)
  BY DEF ToolsNext, allVars, loopVars, Loops!vars
<1> QED
  BY <1>1, <1>2, <1>3, <1>4, PTL DEF ToolsSpec, Spec, Bridge!Spec, Loops!Spec
=============================================================================
