--------------------------- MODULE ServicesProofs ---------------------------
(***************************************************************************)
(* That the scan queue loses no image, is never idle with work at hand and   *)
(* gives each image its own filer; that completed replies are shown whole,   *)
(* channels up exactly when they are registered, and goals checked once: for *)
(* every set of images, names, channels, operations, goals and ticks, every  *)
(* length of a reply and every limit.                                        *)
(***************************************************************************)
EXTENDS Services, Sequences, FiniteSetTheorems, TLAPS

-----------------------------------------------------------------------------
(* The scan queue.                                                         *)

\* An image whose job is over is settled: the job left the manifest so, or found
\* the image gone; what waits is not in flight; an id not given yet is nowhere.
EndingSettled ==
    \A f \in File :
        /\ job[f] = Ending => ~Unsettled(f)
        /\ f \in pending => job[f] = None
        /\ f \notin used => record[f] = None /\ job[f] = None /\ f \notin pending

IInv == TypeOK /\ NoScanLost /\ Served /\ EndingSettled

LEMMA EndingIsJob == Ending \in Job /\ Ending # None
BY NoneIsNoRecord DEF Ending, Job

-----------------------------------------------------------------------------

\* What pump() does to the types.
LEMMA PumpTypes ==
    ASSUME NEW entries \in [File -> Entry \cup {None}], NEW waiting \in SUBSET File,
           NEW jobs \in [File -> Job \cup {None}], TypeOK, Pump(entries, waiting, jobs)
    PROVE  /\ record' \in [File -> Entry \cup {None}] /\ pending' \in SUBSET File
           /\ job' \in [File -> Job \cup {None}] /\ under' \in [Name -> SUBSET File]
<1> PICK S \in SUBSET waiting :
        /\ pending' = waiting \ S
        /\ job' = [f \in File |-> IF f \notin S THEN jobs[f]
                                  ELSE IF entries[f] = None THEN Ending
                                  ELSE [phase |-> "describe", name |-> entries[f].name]]
        /\ record' = [f \in File |-> IF f \in S /\ entries[f] # None
                                     THEN [entries[f] EXCEPT !.status = "scanning"] ELSE entries[f]]
        /\ under' = [n \in Name |-> under[n] \cup {f \in S : entries[f] # None /\ entries[f].name = n}]
    BY DEF Pump
<1>1. \A f \in File : entries[f] # None =>
          /\ entries[f] \in Entry
          /\ [phase |-> "describe", name |-> entries[f].name] \in Job
          /\ [entries[f] EXCEPT !.status = "scanning"] \in Entry
    BY DEF Entry, Job
<1>2. record' \in [File -> Entry \cup {None}] BY <1>1
<1>3. job' \in [File -> Job \cup {None}] BY <1>1, EndingIsJob
<1>4. under' \in [Name -> SUBSET File] BY DEF TypeOK
<1> QED BY <1>2, <1>3, <1>4

\* pump() takes jobs as long as it may.
LEMMA PumpServes ==
    ASSUME NEW entries, NEW waiting, NEW jobs, Pump(entries, waiting, jobs)
    PROVE  Served'
<1> PICK S \in SUBSET waiting :
        LET now == [f \in File |-> IF f \notin S THEN jobs[f]
                                   ELSE IF entries[f] = None THEN Ending
                                   ELSE [phase |-> "describe", name |-> entries[f].name]]
        IN  /\ Cardinality(InFlight(now)) <= MaxConcurrency
            /\ S = waiting \/ Cardinality(InFlight(now)) = MaxConcurrency
            /\ pending' = waiting \ S
            /\ job' = now
    BY DEF Pump
<1>1. Cardinality(InFlight(job')) <= MaxConcurrency OBVIOUS
<1>2. pending' # {} => Cardinality(InFlight(job')) = MaxConcurrency OBVIOUS
<1> QED BY <1>1, <1>2 DEF Served

\* pump() loses nothing: what waited or was in flight still is, and a job it ends at
\* once is of an image that is gone.
LEMMA PumpKeeps ==
    ASSUME NEW entries \in [File -> Entry \cup {None}], NEW waiting \in SUBSET File,
           NEW jobs \in [File -> Job \cup {None}], Pump(entries, waiting, jobs),
           NEW f \in File
    PROVE  /\ f \in waiting \/ jobs[f] # None => f \in pending' \/ job'[f] # None
           /\ entries[f] = None <=> record'[f] = None
           /\ Unsettled(f)' => entries[f] # None /\ (entries[f].status \in {"pending", "scanning"} \/ f \in waiting)
           /\ job'[f] = Ending => jobs[f] = Ending \/ record'[f] = None
           /\ job'[f] # None => jobs[f] # None \/ f \in waiting
           /\ f \notin waiting => job'[f] = jobs[f] /\ record'[f] = entries[f]
           /\ f \in pending' => f \in waiting /\ job'[f] = jobs[f]
<1> PICK S \in SUBSET waiting :
        /\ pending' = waiting \ S
        /\ job' = [g \in File |-> IF g \notin S THEN jobs[g]
                                  ELSE IF entries[g] = None THEN Ending
                                  ELSE [phase |-> "describe", name |-> entries[g].name]]
        /\ record' = [g \in File |-> IF g \in S /\ entries[g] # None
                                     THEN [entries[g] EXCEPT !.status = "scanning"] ELSE entries[g]]
    BY DEF Pump
<1>1. [phase |-> "describe", name |-> entries[f].name] # Ending BY DEF Ending
<1>2. entries[f] # None => /\ [phase |-> "describe", name |-> entries[f].name] # None
                           /\ [entries[f] EXCEPT !.status = "scanning"] # None
  <2> HAVE entries[f] # None
  <2>1. entries[f] \in Entry OBVIOUS
  <2>2. [phase |-> "describe", name |-> entries[f].name] \in Job BY <2>1 DEF Entry, Job
  <2>3. [entries[f] EXCEPT !.status = "scanning"] \in Entry BY <2>1 DEF Entry
  <2> QED BY <2>2, <2>3, NoneIsNoRecord
<1>3. Ending # None BY EndingIsJob
<1> QED BY <1>1, <1>2, <1>3 DEF Unsettled

-----------------------------------------------------------------------------

LEMMA InitInv == Init => IInv
<1> SUFFICES ASSUME Init PROVE IInv OBVIOUS
<1>1. TypeOK BY ScanQueueAssumption DEF Init, TypeOK
<1>2. InFlight(job) = {} BY DEF Init, InFlight
<1>3. Served BY <1>2, FS_EmptySet, ScanQueueAssumption DEF Init, Served
<1>4. NoScanLost /\ EndingSettled BY EndingIsJob DEF Init, NoScanLost, EndingSettled, Unsettled
<1> QED BY <1>1, <1>3, <1>4 DEF IInv

\* A step that neither starts nor ends a job leaves the queue served.
LEMMA QueueServed ==
    ASSUME Served, pending' = pending, InFlight(job') = InFlight(job)
    PROVE  Served'
BY DEF Served

LEMMA TypeStep == TypeOK /\ [Next]_vars => TypeOK'
<1> SUFFICES ASSUME TypeOK, [Next]_vars PROVE TypeOK' OBVIOUS
<1> USE DEF TypeOK
<1>1. CASE CreateProject BY <1>1 DEF CreateProject
<1>2. CASE DeleteProject BY <1>2 DEF DeleteProject
<1>3. ASSUME NEW f \in File, NEW n \in Name, Upload(f, n) PROVE TypeOK'
  <2> DEFINE entries == [record EXCEPT ![f] = [status |-> "pending", name |-> n, filer |-> None]]
  <2>1. [status |-> "pending", name |-> n, filer |-> None] \in Entry BY DEF Entry
  <2>2. entries \in [File -> Entry \cup {None}] BY <2>1
  <2>3. Pump(entries, pending \cup {f}, job) BY <1>3 DEF Upload
  <2> HIDE DEF entries
  <2>4. /\ record' \in [File -> Entry \cup {None}] /\ pending' \in SUBSET File
        /\ job' \in [File -> Job \cup {None}] /\ under' \in [Name -> SUBSET File]
    BY <2>2, <2>3, PumpTypes
  <2> QED BY <1>3, <2>4 DEF Upload
<1>4. ASSUME NEW f \in File, NEW n \in Name, Rename(f, n) PROVE TypeOK'
  <2>1. record[f] \in Entry BY <1>4 DEF Rename
  <2>2. [record[f] EXCEPT !.name = n] \in Entry BY <2>1 DEF Entry
  <2> QED BY <1>4, <2>2 DEF Rename
<1>5. ASSUME NEW f \in File, Remove(f) PROVE TypeOK' BY <1>5 DEF Remove, Entry
<1>6. ASSUME NEW f \in File, Described(f) PROVE TypeOK'
  <2>1. job[f] \in Job /\ job[f] # Ending BY <1>6 DEF Described, Ending
  <2>2. [job[f] EXCEPT !.phase = "write"] \in Job /\ job[f].name \in Name BY <2>1 DEF Job
  <2> QED BY <1>6, <2>2 DEF Described
<1>7. ASSUME NEW f \in File, Written(f) PROVE TypeOK'
  <2>1. job[f] \in Job /\ job[f] # Ending BY <1>7 DEF Written, Ending
  <2>2. job[f].name \in Name BY <2>1 DEF Job
  <2>3. record' \in [File -> Entry \cup {None}]
    <3>1. CASE record[f] = None BY <1>7, <3>1 DEF Written, Patched
    <3>2. CASE record[f] # None
      <4>1. record[f] \in Entry BY <3>2
      <4>2. [[record[f] EXCEPT !.status = "completed"] EXCEPT !.filer = job[f].name] \in Entry
        BY <4>1, <2>2 DEF Entry
      <4> QED BY <1>7, <3>2, <4>1, <4>2, <2>2, ScanQueueAssumption DEF Written, Patched, Entry
    <3> QED BY <3>1, <3>2
  <2> QED BY <1>7, <2>2, <2>3, EndingIsJob DEF Written, Over
<1>8. ASSUME NEW f \in File, Failed(f) PROVE TypeOK'
  <2>1. record' \in [File -> Entry \cup {None}]
    <3>1. CASE record[f] = None BY <1>8, <3>1 DEF Failed, Patched
    <3>2. CASE record[f] # None
      <4>1. record[f] \in Entry BY <3>2
      <4> QED BY <1>8, <3>2, <4>1 DEF Failed, Patched, Entry
    <3> QED BY <3>1, <3>2
  <2> QED BY <1>8, <2>1, EndingIsJob DEF Failed, Over
<1>9. ASSUME NEW f \in File, Ended(f) PROVE TypeOK'
  <2> DEFINE jobs == [job EXCEPT ![f] = None]
  <2>1. jobs \in [File -> Job \cup {None}] OBVIOUS
  <2>2. Pump(record, pending, jobs) BY <1>9 DEF Ended
  <2> HIDE DEF jobs
  <2>3. /\ record' \in [File -> Entry \cup {None}] /\ pending' \in SUBSET File
        /\ job' \in [File -> Job \cup {None}] /\ under' \in [Name -> SUBSET File]
    BY <2>1, <2>2, PumpTypes
  <2> QED BY <1>9, <2>3 DEF Ended
<1>10. CASE Restart
  <2> DEFINE jobs == [f \in File |-> None]
             waiting == {f \in File : Unsettled(f)}
  <2>1. jobs \in [File -> Job \cup {None}] /\ waiting \in SUBSET File OBVIOUS
  <2>2. Pump(record, waiting, jobs) BY <1>10 DEF Restart
  <2> HIDE DEF jobs, waiting
  <2>3. /\ record' \in [File -> Entry \cup {None}] /\ pending' \in SUBSET File
        /\ job' \in [File -> Job \cup {None}] /\ under' \in [Name -> SUBSET File]
    BY <2>1, <2>2, PumpTypes
  <2> QED BY <1>10, <2>3, ScanQueueAssumption DEF Restart
<1>11. CASE UNCHANGED vars BY <1>11 DEF vars
<1> QED BY <1>1, <1>2, <1>3, <1>4, <1>5, <1>6, <1>7, <1>8, <1>9, <1>10, <1>11 DEF Next

-----------------------------------------------------------------------------
(* The queue and the manifest stay together.                               *)

Kept == NoScanLost /\ Served /\ EndingSettled

\* pump() keeps all three, from a manifest, a queue and jobs that agree.
LEMMA PumpStep ==
    ASSUME NEW entries \in [File -> Entry \cup {None}], NEW waiting \in SUBSET File,
           NEW jobs \in [File -> Job \cup {None}], Pump(entries, waiting, jobs),
           \A f \in File :
               LET wanted == entries[f] # None /\ entries[f].status \in {"pending", "scanning"}
               IN  /\ wanted => f \in waiting \/ jobs[f] # None
                   /\ jobs[f] = Ending => ~wanted
                   /\ f \in waiting => jobs[f] = None
                   /\ f \notin used' => entries[f] = None /\ jobs[f] = None /\ f \notin waiting
    PROVE  Kept'
<1>1. Served' BY PumpServes
<1>2. ASSUME NEW f \in File
      PROVE  /\ Unsettled(f)' => f \in pending' \/ job'[f] # None
             /\ job'[f] = Ending => ~Unsettled(f)'
             /\ f \in pending' => job'[f] = None
             /\ f \notin used' => record'[f] = None /\ job'[f] = None /\ f \notin pending'
  <2>1. /\ f \in waiting \/ jobs[f] # None => f \in pending' \/ job'[f] # None
        /\ entries[f] = None <=> record'[f] = None
        /\ Unsettled(f)' => entries[f] # None /\ (entries[f].status \in {"pending", "scanning"} \/ f \in waiting)
        /\ job'[f] = Ending => jobs[f] = Ending \/ record'[f] = None
        /\ job'[f] # None => jobs[f] # None \/ f \in waiting
        /\ f \notin waiting => job'[f] = jobs[f] /\ record'[f] = entries[f]
        /\ f \in pending' => f \in waiting /\ job'[f] = jobs[f]
    BY PumpKeeps
  <2>2. Unsettled(f)' => f \in pending' \/ job'[f] # None BY <2>1
  <2>3. job'[f] = Ending => ~Unsettled(f)' BY <2>1, EndingIsJob DEF Unsettled
  <2>4. f \in pending' => job'[f] = None BY <2>1
  <2>5. f \notin used' => record'[f] = None /\ job'[f] = None /\ f \notin pending' BY <2>1
  <2> QED BY <2>2, <2>3, <2>4, <2>5
<1> QED BY <1>1, <1>2 DEF Kept, NoScanLost, EndingSettled

\* Where no image becomes unsettled and no job begins or ends, all is kept.
LEMMA QuietStep ==
    ASSUME Kept, pending' = pending, used' = used,
           \A f \in File : /\ job'[f] = None <=> job[f] = None
                           /\ Unsettled(f)' => Unsettled(f)
                           /\ f \notin used => record'[f] = None
                           /\ job'[f] = Ending => job[f] = Ending \/ ~Unsettled(f)'
    PROVE  Kept'
<1> USE DEF Kept
<1>1. InFlight(job') = InFlight(job) BY DEF InFlight
<1>2. Served' BY <1>1, QueueServed
<1>3. NoScanLost' BY DEF NoScanLost
<1>4. EndingSettled' BY DEF EndingSettled
<1> QED BY <1>2, <1>3, <1>4

LEMMA KeptStep == IInv /\ [Next]_vars => Kept'
<1> SUFFICES ASSUME IInv, [Next]_vars PROVE Kept' OBVIOUS
<1>0. Kept /\ TypeOK BY DEF IInv, Kept
<1> USE <1>0
<1>1. CASE CreateProject
  <2>1. record' = record /\ job' = job /\ pending' = pending /\ used' = used BY <1>1 DEF CreateProject
  <2> QED BY <2>1, QuietStep DEF Unsettled, Kept, EndingSettled
<1>2. CASE DeleteProject
  <2>1. /\ job' = job /\ pending' = pending /\ used' = used
        /\ \A f \in File : record'[f] = None
    BY <1>2 DEF DeleteProject
  <2> QED BY <2>1, QuietStep DEF Unsettled
<1>3. ASSUME NEW f \in File, NEW n \in Name, Upload(f, n) PROVE Kept'
  <2> DEFINE entries == [record EXCEPT ![f] = [status |-> "pending", name |-> n, filer |-> None]]
             waiting == pending \cup {f}
  <2>1. [status |-> "pending", name |-> n, filer |-> None] \in Entry BY DEF Entry
  <2>2. entries \in [File -> Entry \cup {None}] /\ waiting \in SUBSET File BY <2>1 DEF TypeOK
  <2>3. Pump(entries, waiting, job) BY <1>3 DEF Upload
  <2>4. f \notin used /\ used' = used \cup {f} BY <1>3 DEF Upload
  <2>5. job \in [File -> Job \cup {None}] BY DEF TypeOK
  <2>6. job[f] = None /\ job[f] # Ending BY <2>4, EndingIsJob DEF Kept, EndingSettled
  <2>7. ASSUME NEW g \in File
        PROVE  LET wanted == entries[g] # None /\ entries[g].status \in {"pending", "scanning"}
               IN  /\ wanted => g \in waiting \/ job[g] # None
                   /\ job[g] = Ending => ~wanted
                   /\ g \in waiting => job[g] = None
                   /\ g \notin used' => entries[g] = None /\ job[g] = None /\ g \notin waiting
    <3>1. CASE g = f BY <3>1, <2>4, <2>6
    <3>2. CASE g # f
      <4>1. entries[g] = record[g] /\ (g \in waiting <=> g \in pending) BY <3>2 DEF TypeOK
      <4>2. g \notin used' => g \notin used BY <2>4
      <4>3. g \notin used => g \notin pending /\ record[g] = None /\ job[g] = None
        BY DEF Kept, EndingSettled, NoScanLost
      <4> QED BY <4>1, <4>2, <4>3 DEF Kept, NoScanLost, EndingSettled, Unsettled
    <3> QED BY <3>1, <3>2
  <2> HIDE DEF entries, waiting
  <2> QED BY <2>2, <2>3, <2>5, <2>7, PumpStep
<1>4. ASSUME NEW f \in File, NEW n \in Name, Rename(f, n) PROVE Kept'
  <2>1. /\ job' = job /\ pending' = pending /\ used' = used
        /\ \A g \in File : g # f => record'[g] = record[g]
        /\ record[f] # None /\ record'[f] = [record[f] EXCEPT !.name = n]
    BY <1>4 DEF Rename, TypeOK
  <2>2. record[f] \in Entry BY <2>1 DEF TypeOK
  <2>3. record'[f].status = record[f].status BY <2>1, <2>2 DEF Entry
  <2>4. f \in used BY <2>1 DEF Kept, EndingSettled
  <2> QED BY <2>1, <2>3, <2>4, QuietStep DEF Unsettled, Kept, EndingSettled
<1>5. ASSUME NEW f \in File, Remove(f) PROVE Kept'
  <2>1. /\ job' = job /\ pending' = pending /\ used' = used
        /\ \A g \in File : g # f => record'[g] = record[g]
        /\ record'[f] = None
    BY <1>5 DEF Remove, TypeOK
  <2> QED BY <2>1, QuietStep DEF Unsettled, Kept, EndingSettled
<1>6. ASSUME NEW f \in File, Described(f) PROVE Kept'
  <2>1. job[f] \in Job /\ job[f] # Ending /\ job[f] # None BY <1>6 DEF Described, Ending, TypeOK
  <2>2. [job[f] EXCEPT !.phase = "write"] \in Job /\ [job[f] EXCEPT !.phase = "write"] # Ending
    BY <2>1 DEF Job, Ending
  <2>3. [job[f] EXCEPT !.phase = "write"] # None BY <2>2, NoneIsNoRecord
  <2>4. /\ record' = record /\ pending' = pending /\ used' = used
        /\ job'[f] = [job[f] EXCEPT !.phase = "write"]
        /\ \A g \in File : g # f => job'[g] = job[g]
    BY <1>6 DEF Described, TypeOK
  <2> QED BY <2>1, <2>2, <2>3, <2>4, QuietStep DEF Unsettled, Kept, EndingSettled
<1>7. ASSUME NEW f \in File, NEW status \in {"completed", "failed"}, NEW n, job[f] # None,
             record' = Patched(f, status, n), Over(f), UNCHANGED <<used, pending>>
      PROVE  Kept'
  <2>1. job'[f] = Ending /\ \A g \in File : g # f => job'[g] = job[g] BY <1>7 DEF Over, TypeOK
  <2>2. \A g \in File : g # f => record'[g] = record[g] BY <1>7 DEF Patched, TypeOK
  <2>3. ~Unsettled(f)'
    <3>1. CASE record[f] = None BY <1>7, <3>1 DEF Patched, Unsettled
    <3>2. CASE record[f] # None
      <4>1. record[f] \in Entry BY <3>2 DEF TypeOK
      <4>2. record'[f].status = status BY <1>7, <3>2, <4>1 DEF Patched, Entry, TypeOK
      <4> QED BY <4>2 DEF Unsettled
    <3> QED BY <3>1, <3>2
  <2>4. f \in used BY <1>7 DEF Kept, EndingSettled
  <2> QED BY <1>7, <2>1, <2>2, <2>3, <2>4, EndingIsJob, QuietStep DEF Unsettled, Kept, EndingSettled
<1>8. ASSUME NEW f \in File, Written(f) PROVE Kept'
  <2>1. /\ job[f] # None /\ record' = Patched(f, "completed", job[f].name)
        /\ Over(f) /\ UNCHANGED <<used, pending>>
    BY <1>8 DEF Written
  <2> QED BY <1>7, <2>1
<1>9. ASSUME NEW f \in File, Failed(f) PROVE Kept'
  <2>1. /\ job[f] # None /\ record' = Patched(f, "failed", None)
        /\ Over(f) /\ UNCHANGED <<used, pending>>
    BY <1>9 DEF Failed
  <2> QED BY <1>7, <2>1
<1>10. ASSUME NEW f \in File, Ended(f) PROVE Kept'
  <2> DEFINE jobs == [job EXCEPT ![f] = None]
  <2>1. jobs \in [File -> Job \cup {None}] BY DEF TypeOK
  <2>2. Pump(record, pending, jobs) /\ used' = used /\ job[f] = Ending BY <1>10 DEF Ended
  <2>3. ASSUME NEW g \in File
        PROVE  LET wanted == record[g] # None /\ record[g].status \in {"pending", "scanning"}
               IN  /\ wanted => g \in pending \/ jobs[g] # None
                   /\ jobs[g] = Ending => ~wanted
                   /\ g \in pending => jobs[g] = None
                   /\ g \notin used' => record[g] = None /\ jobs[g] = None /\ g \notin pending
    <3>1. /\ Unsettled(g) => g \in pending \/ job[g] # None
          /\ job[g] = Ending => ~Unsettled(g)
          /\ g \in pending => job[g] = None
          /\ g \notin used => record[g] = None /\ job[g] = None
      BY DEF Kept, NoScanLost, EndingSettled
    <3>2. jobs[g] = IF g = f THEN None ELSE job[g] BY DEF TypeOK
    <3>3. CASE g = f
      <4>1. g \in used /\ g \notin pending /\ ~Unsettled(g) BY <3>1, <3>3, <2>2, EndingIsJob
      <4> QED BY <4>1, <3>2, <3>3, <2>2, EndingIsJob DEF Unsettled
    <3>4. CASE g # f
      <4> HIDE DEF jobs
      <4>1. jobs[g] = job[g] BY <3>2, <3>4
      <4>2. g \notin used => g \notin pending BY DEF Kept, EndingSettled, TypeOK
      <4> QED BY <4>1, <4>2, <3>1, <2>2 DEF Unsettled
    <3> QED BY <3>3, <3>4
  <2>4. record \in [File -> Entry \cup {None}] /\ pending \in SUBSET File BY DEF TypeOK
  <2> HIDE DEF jobs
  <2> QED BY <2>1, <2>2, <2>3, <2>4, PumpStep
<1>11. CASE Restart
  <2> DEFINE jobs == [f \in File |-> None]
             waiting == {f \in File : Unsettled(f)}
  <2>1. jobs \in [File -> Job \cup {None}] /\ waiting \in SUBSET File OBVIOUS
  <2>2. Pump(record, waiting, jobs) /\ used' = used BY <1>11 DEF Restart
  <2>3. record \in [File -> Entry \cup {None}] BY DEF TypeOK
  <2>4. ASSUME NEW g \in File
        PROVE  LET wanted == record[g] # None /\ record[g].status \in {"pending", "scanning"}
               IN  /\ wanted => g \in waiting \/ jobs[g] # None
                   /\ jobs[g] = Ending => ~wanted
                   /\ g \in waiting => jobs[g] = None
                   /\ g \notin used' => record[g] = None /\ jobs[g] = None /\ g \notin waiting
    BY <2>2, EndingIsJob DEF Unsettled, Kept, EndingSettled
  <2> HIDE DEF jobs, waiting
  <2> QED BY <2>1, <2>2, <2>3, <2>4, PumpStep
<1>12. CASE UNCHANGED vars
  <2>1. record' = record /\ job' = job /\ pending' = pending /\ used' = used BY <1>12 DEF vars
  <2> QED BY <2>1, QuietStep DEF Unsettled, Kept, EndingSettled
<1> QED BY <1>1, <1>2, <1>3, <1>4, <1>5, <1>6, <1>8, <1>9, <1>10, <1>11, <1>12 DEF Next

-----------------------------------------------------------------------------

LEMMA Inductive == Spec => []IInv
<1>1. Init => IInv BY InitInv
<1>2. IInv /\ [Next]_vars => IInv'
  <2>1. IInv /\ [Next]_vars => TypeOK' BY TypeStep DEF IInv
  <2>2. IInv /\ [Next]_vars => Kept' BY KeptStep
  <2> QED BY <2>1, <2>2 DEF IInv, Kept
<1> QED BY <1>1, <1>2, PTL DEF Spec

\* The manifest, the queue and the jobs keep their shapes: in particular a filer
\* recorded for an image carries a file name, and a job one it was begun under
\* (FileProjectStore.updateFile, ScanQueue.runJob).
THEOREM TypeCorrect == Spec => []TypeOK
BY Inductive, PTL DEF IInv

\* recoverPending and finally: an image the manifest calls pending or scanning is
\* always known to the queue, whatever is uploaded, renamed, removed, deleted or
\* lost in a crash meanwhile.
THEOREM NothingLost == Spec => []NoScanLost
BY Inductive, PTL DEF IInv

\* pump(): never more scans in flight than allowed, and never fewer while an image
\* waits, so nothing waits for a call that will not come.
THEOREM AlwaysServed == Spec => []Served
BY Inductive, PTL DEF IInv

-----------------------------------------------------------------------------
(* The filers.                                                             *)

\* What an image's entry and its job may say: a job works under a name its scan
\* began under, on an image that is being scanned if it is there at all, and a
\* recorded filer has such a name and, being the only scan under it, is complete.
Owns(f, entry, work) ==
    /\ work # None /\ work.phase # "end" =>
          f \in under[work.name] /\ (entry # None => entry.status = "scanning")
    /\ entry # None /\ entry.filer # None => f \in under[entry.filer]
    /\ entry # None /\ entry.status = "completed" =>
          entry.filer # None /\ (under[entry.filer] \subseteq {f} => filer[entry.filer] = f)

\* A job cut off from its project works for an image that is gone for good.
Owned == \A f \in File : Owns(f, record[f], job[f]) /\ (f \in cut => record[f] = None /\ f \in used)

\* What pump() does to an image: nothing but let its scan begin.
LEMMA PumpOwns ==
    ASSUME TypeOK, NEW entries \in [File -> Entry \cup {None}], NEW waiting \in SUBSET File,
           NEW jobs \in [File -> Job \cup {None}], Pump(entries, waiting, jobs), filer' = filer,
           NEW f \in File, Owns(f, entries[f], jobs[f])
    PROVE  Owns(f, record[f], job[f])' /\ (entries[f] = None => record'[f] = None)
<1> PICK S \in SUBSET waiting :
        /\ job' = [g \in File |-> IF g \notin S THEN jobs[g]
                                  ELSE IF entries[g] = None THEN Ending
                                  ELSE [phase |-> "describe", name |-> entries[g].name]]
        /\ record' = [g \in File |-> IF g \in S /\ entries[g] # None
                                     THEN [entries[g] EXCEPT !.status = "scanning"] ELSE entries[g]]
        /\ under' = [n \in Name |-> under[n] \cup {g \in S : entries[g] # None /\ entries[g].name = n}]
    BY DEF Pump
<1>1. \A n \in Name : under[n] \subseteq under'[n]
  OBVIOUS
<1>2. entries[f] # None => entries[f] \in Entry /\ entries[f].filer \in Name \cup {None} /\ entries[f].name \in Name
  BY DEF Entry
<1>3. jobs[f] # None /\ jobs[f].phase # "end" => jobs[f].name \in Name
  BY DEF Job, Ending
<1>4. CASE f \notin S
  <2>1. record'[f] = entries[f] /\ job'[f] = jobs[f]
    BY <1>4
  <2>2. Owns(f, entries[f], jobs[f])'
    BY <1>1, <1>2, <1>3 DEF Owns
  <2> QED BY <2>1, <2>2 DEF Owns
<1>5. CASE f \in S /\ entries[f] = None
  BY <1>5 DEF Owns, Ending
<1>6. CASE f \in S /\ entries[f] # None
  <2>1. /\ record'[f] = [entries[f] EXCEPT !.status = "scanning"]
        /\ job'[f] = [phase |-> "describe", name |-> entries[f].name]
        /\ f \in under'[entries[f].name]
    BY <1>2, <1>6
  <2>2. record'[f].status = "scanning" /\ record'[f].filer = entries[f].filer
    BY <1>2, <1>6, <2>1 DEF Entry
  <2>3. record'[f] # None
    <3>1. record'[f] \in Entry
      BY <1>2, <1>6, <2>1 DEF Entry
    <3> QED BY <3>1, NoneIsNoRecord
  <2>4. entries[f].filer # None => f \in under'[entries[f].filer]
    BY <1>1, <1>2, <1>6 DEF Owns
  <2> QED BY <1>6, <2>1, <2>2, <2>3, <2>4 DEF Owns
<1> QED BY <1>4, <1>5, <1>6

\* An entry and its job go on saying what they may.
LEMMA OwnedStep == IInv /\ Owned /\ [Next]_vars => Owned'
<1> SUFFICES ASSUME IInv, Owned, [Next]_vars PROVE Owned' OBVIOUS
<1>0. TypeOK /\ EndingSettled BY DEF IInv
<1> USE <1>0
<1>a. ASSUME NEW f \in File
      PROVE  /\ Owns(f, record[f], job[f]) /\ (f \in cut => record[f] = None /\ f \in used)
             /\ record[f] # None => /\ record[f] \in Entry /\ f \in used
                                    /\ record[f].name \in Name /\ record[f].filer \in Name \cup {None}
             /\ job[f] # None => job[f] \in Job /\ f \in used
             /\ job[f] # None /\ job[f].phase # "end" => job[f].name \in Name
  <2>1. Owns(f, record[f], job[f]) /\ (f \in cut => record[f] = None /\ f \in used) BY DEF Owned
  <2>2. record[f] # None => /\ record[f] \in Entry /\ f \in used
                            /\ record[f].name \in Name /\ record[f].filer \in Name \cup {None}
    BY DEF TypeOK, EndingSettled, Entry
  <2>3. job[f] # None => job[f] \in Job /\ f \in used BY DEF TypeOK, EndingSettled
  <2>4. job[f] # None /\ job[f].phase # "end" => job[f].name \in Name BY <2>3 DEF Job, Ending
  <2> QED BY <2>1, <2>2, <2>3, <2>4
<1>b. SUFFICES ASSUME NEW g \in File
               PROVE  Owns(g, record[g], job[g])' /\ (g \in cut' => record'[g] = None /\ g \in used')
  BY DEF Owned
<1>c. Ending.phase = "end" /\ Ending # None BY EndingIsJob DEF Ending
<1>1. CASE CreateProject
  BY <1>1, <1>a DEF CreateProject, Owns
<1>2. CASE DeleteProject
  <2>1. /\ record'[g] = None /\ job' = job /\ under' = under /\ used' = used
        /\ g \in cut' => g \in cut \/ job[g] # None
    BY <1>2 DEF DeleteProject
  <2> QED BY <2>1, <1>a DEF Owns
<1>3. ASSUME NEW f \in File, NEW n \in Name, Upload(f, n)
      PROVE  Owns(g, record[g], job[g])' /\ (g \in cut' => record'[g] = None /\ g \in used')
  <2> DEFINE entries == [record EXCEPT ![f] = [status |-> "pending", name |-> n, filer |-> None]]
             waiting == pending \cup {f}
  <2>1. [status |-> "pending", name |-> n, filer |-> None] \in Entry BY DEF Entry
  <2>2. entries \in [File -> Entry \cup {None}] /\ waiting \in SUBSET File BY <2>1 DEF TypeOK
  <2>3. Pump(entries, waiting, job) /\ filer' = filer /\ f \notin used /\ used' = used \cup {f} /\ cut' = cut
    BY <1>3 DEF Upload
  <2>4. job \in [File -> Job \cup {None}] BY DEF TypeOK
  <2>5. Owns(g, entries[g], job[g])
    <3>1. CASE g = f
      <4>1. job[g] = None BY <2>3, <3>1 DEF EndingSettled
      <4>2. entries[g] = [status |-> "pending", name |-> n, filer |-> None] BY <3>1 DEF TypeOK
      <4> QED BY <4>1, <4>2 DEF Owns
    <3>2. CASE g # f
      <4>1. entries[g] = record[g] BY <3>2 DEF TypeOK
      <4> QED BY <4>1, <1>a
    <3> QED BY <3>1, <3>2
  <2>6. g \in cut => entries[g] = None
    <3>1. g \in cut => g # f BY <1>a, <2>3
    <3> QED BY <3>1, <1>a DEF TypeOK
  <2> HIDE DEF entries, waiting
  <2>7. Owns(g, record[g], job[g])' /\ (entries[g] = None => record'[g] = None)
    BY <2>2, <2>3, <2>4, <2>5, PumpOwns
  <2> QED BY <2>3, <2>6, <2>7, <1>a
<1>4. ASSUME NEW f \in File, NEW n \in Name, Rename(f, n)
      PROVE  Owns(g, record[g], job[g])' /\ (g \in cut' => record'[g] = None /\ g \in used')
  <2>1. /\ UNCHANGED <<used, filer, job, cut, under>> /\ record[f] # None
        /\ record' = [record EXCEPT ![f].name = n]
    BY <1>4 DEF Rename
  <2>2. CASE g = f
    <3>1. record'[g] = [record[g] EXCEPT !.name = n] BY <2>1, <2>2 DEF TypeOK
    <3>2. /\ record'[g].status = record[g].status /\ record'[g].filer = record[g].filer
          /\ record[g] # None /\ g \notin cut
      BY <2>1, <2>2, <3>1, <1>a DEF Entry
    <3> QED BY <2>1, <3>2, <1>a DEF Owns
  <2>3. CASE g # f
    <3>1. record'[g] = record[g] BY <2>1, <2>3 DEF TypeOK
    <3> QED BY <2>1, <3>1, <1>a DEF Owns
  <2> QED BY <2>2, <2>3
<1>5. ASSUME NEW f \in File, Remove(f)
      PROVE  Owns(g, record[g], job[g])' /\ (g \in cut' => record'[g] = None /\ g \in used')
  <2>1. /\ UNCHANGED <<used, job, cut, under>> /\ record[f] # None
        /\ record' = [record EXCEPT ![f] = None]
        /\ filer' = IF record[f].filer = None THEN filer ELSE [filer EXCEPT ![record[f].filer] = None]
    BY <1>5 DEF Remove
  <2>2. CASE g = f
    <3>1. record'[g] = None BY <2>1, <2>2 DEF TypeOK
    <3> QED BY <2>1, <3>1, <1>a DEF Owns
  <2>3. CASE g # f
    <3>1. record'[g] = record[g] BY <2>1, <2>3 DEF TypeOK
    <3>2. record[g] # None /\ record[g].status = "completed" /\ under[record[g].filer] \subseteq {g} =>
              filer'[record[g].filer] = filer[record[g].filer]
      <4>1. record[f].filer # None => f \in under[record[f].filer] BY <2>1, <1>a DEF Owns
      <4> QED BY <2>1, <2>3, <4>1, <1>a DEF TypeOK, Owns
    <3> QED BY <2>1, <3>1, <3>2, <1>a DEF Owns
  <2> QED BY <2>2, <2>3
<1>6. ASSUME NEW f \in File, Described(f)
      PROVE  Owns(g, record[g], job[g])' /\ (g \in cut' => record'[g] = None /\ g \in used')
  <2>1. /\ UNCHANGED <<record, used, under>> /\ cut' = cut \ {f}
        /\ filer' = [filer EXCEPT ![job[f].name] = Torn]
        /\ job' = [job EXCEPT ![f].phase = "write"]
        /\ job[f] # None /\ job[f].phase = "describe"
    BY <1>6 DEF Described
  <2>2. f \in under[job[f].name] /\ (record[f] # None => record[f].status = "scanning") /\ job[f].name \in Name
    BY <2>1, <1>a DEF Owns
  <2>3. record[g] # None /\ record[g].status = "completed" /\ under[record[g].filer] \subseteq {g} =>
            filer'[record[g].filer] = filer[record[g].filer]
    BY <2>1, <2>2, <1>a DEF TypeOK, Owns
  <2>4. job'[g] # None /\ job'[g].phase # "end" => g \in under[job'[g].name] /\ (record[g] # None => record[g].status = "scanning")
    <3>1. CASE g = f
      <4>1. job[f] \in Job /\ job[f] # Ending BY <2>1, <1>a, <1>c
      <4>2. job'[f] = [job[f] EXCEPT !.phase = "write"] /\ job'[f].name = job[f].name
        BY <2>1, <4>1 DEF TypeOK, Job
      <4> QED BY <3>1, <4>2, <2>2
    <3>2. CASE g # f
      <4>1. job'[g] = job[g] BY <2>1, <3>2 DEF TypeOK
      <4> QED BY <4>1, <1>a DEF Owns
    <3> QED BY <3>1, <3>2
  <2> QED BY <2>1, <2>3, <2>4, <1>a DEF Owns
<1>7. ASSUME NEW f \in File, Written(f)
      PROVE  Owns(g, record[g], job[g])' /\ (g \in cut' => record'[g] = None /\ g \in used')
  <2> DEFINE n == job[f].name
  <2>1. /\ UNCHANGED <<used, under, cut>> /\ Over(f) /\ record' = Patched(f, "completed", n)
        /\ (f \in cut /\ filer' = filer) \/ filer' = [filer EXCEPT ![n] = f]
        /\ job[f] # None /\ job[f].phase = "write"
    BY <1>7 DEF Written
  <2>2. n \in Name /\ f \in under[n] /\ n # None
    BY <2>1, <1>a, ScanQueueAssumption DEF Owns
  <2>3. job'[f] = Ending /\ (g # f => job'[g] = job[g]) BY <2>1 DEF Over, TypeOK
  <2> HIDE DEF n
  <2>4. CASE g = f
    <3>1. CASE record[f] = None
      <4>1. record'[g] = None BY <2>1, <2>4, <3>1 DEF Patched
      <4> QED BY <2>1, <2>3, <2>4, <4>1, <1>a, <1>c DEF Owns
    <3>2. CASE record[f] # None
      <4>1. record[f] \in Entry /\ f \notin cut BY <3>2, <1>a
      <4>2. record'[f] = [[record[f] EXCEPT !.status = "completed"] EXCEPT !.filer = n]
        BY <2>1, <2>2, <3>2, <4>1 DEF Patched, TypeOK, Entry
      <4>3. record'[f].filer = n /\ record'[f].status = "completed"
        BY <4>1, <4>2 DEF Entry
      <4>4. filer'[n] = f BY <2>1, <2>2, <4>1 DEF TypeOK
      <4> QED BY <2>1, <2>2, <2>3, <2>4, <4>1, <4>3, <4>4, <1>c DEF Owns
    <3> QED BY <3>1, <3>2
  <2>5. CASE g # f
    <3>1. record'[g] = record[g] BY <2>1, <2>5 DEF Patched, TypeOK
    <3>2. record[g] # None /\ record[g].status = "completed" /\ under[record[g].filer] \subseteq {g} =>
              filer'[record[g].filer] = filer[record[g].filer]
      BY <2>1, <2>2, <2>5, <1>a DEF TypeOK, Owns
    <3> QED BY <2>1, <2>3, <2>5, <3>1, <3>2, <1>a DEF Owns
  <2> QED BY <2>4, <2>5
<1>8. ASSUME NEW f \in File, Failed(f)
      PROVE  Owns(g, record[g], job[g])' /\ (g \in cut' => record'[g] = None /\ g \in used')
  <2>1. /\ UNCHANGED <<used, under, cut, filer>> /\ Over(f) /\ record' = Patched(f, "failed", None)
        /\ job[f] # None
    BY <1>8 DEF Failed
  <2>2. job'[f] = Ending /\ (g # f => job'[g] = job[g]) BY <2>1 DEF Over, TypeOK
  <2>3. CASE g = f
    <3>1. CASE record[f] = None
      <4>1. record'[g] = None BY <2>1, <2>3, <3>1 DEF Patched
      <4> QED BY <2>1, <2>2, <2>3, <4>1, <1>a, <1>c DEF Owns
    <3>2. CASE record[f] # None
      <4>1. record[f] \in Entry /\ f \notin cut BY <3>2, <1>a
      <4>2. record'[f] = [[record[f] EXCEPT !.status = "failed"] EXCEPT !.filer = record[f].filer]
        BY <2>1, <3>2, <4>1 DEF Patched, TypeOK, Entry
      <4>3. record'[f].filer = record[f].filer /\ record'[f].status = "failed"
        BY <4>1, <4>2 DEF Entry
      <4> QED BY <2>1, <2>2, <2>3, <3>2, <4>1, <4>3, <1>a, <1>c DEF Owns
    <3> QED BY <3>1, <3>2
  <2>4. CASE g # f
    <3>1. record'[g] = record[g] BY <2>1, <2>4 DEF Patched, TypeOK
    <3> QED BY <2>1, <2>2, <2>4, <3>1, <1>a DEF Owns
  <2> QED BY <2>3, <2>4
<1>9. ASSUME NEW f \in File, Ended(f)
      PROVE  Owns(g, record[g], job[g])' /\ (g \in cut' => record'[g] = None /\ g \in used')
  <2> DEFINE jobs == [job EXCEPT ![f] = None]
  <2>1. jobs \in [File -> Job \cup {None}] BY DEF TypeOK
  <2>2. Pump(record, pending, jobs) /\ used' = used /\ filer' = filer /\ cut' = cut BY <1>9 DEF Ended
  <2>3. record \in [File -> Entry \cup {None}] /\ pending \in SUBSET File BY DEF TypeOK
  <2>4. Owns(g, record[g], jobs[g])
    <3>1. jobs[g] = None \/ jobs[g] = job[g] BY DEF TypeOK
    <3> HIDE DEF jobs
    <3> QED BY <3>1, <1>a DEF Owns
  <2> HIDE DEF jobs
  <2>5. Owns(g, record[g], job[g])' /\ (record[g] = None => record'[g] = None)
    BY <2>1, <2>2, <2>3, <2>4, PumpOwns
  <2> QED BY <2>2, <2>5, <1>a
<1>10. CASE Restart
  <2> DEFINE jobs == [f \in File |-> None]
             waiting == {f \in File : Unsettled(f)}
  <2>1. jobs \in [File -> Job \cup {None}] /\ waiting \in SUBSET File OBVIOUS
  <2>2. Pump(record, waiting, jobs) /\ filer' = filer /\ cut' = {} BY <1>10 DEF Restart
  <2>3. record \in [File -> Entry \cup {None}] BY DEF TypeOK
  <2>4. Owns(g, record[g], jobs[g]) BY <1>a DEF Owns
  <2> HIDE DEF jobs, waiting
  <2>5. Owns(g, record[g], job[g])' BY <2>1, <2>2, <2>3, <2>4, PumpOwns
  <2> QED BY <2>2, <2>5
<1>11. CASE UNCHANGED vars BY <1>11, <1>a DEF vars, Owns
<1> QED BY <1>1, <1>2, <1>3, <1>4, <1>5, <1>6, <1>7, <1>8, <1>9, <1>10, <1>11 DEF Next

\* FileProjectStore.updateFile after runJob's write: an image recorded as scanned
\* points to a whole filer of its own, through renames, removals, deleted and
\* remade projects and crashes, unless another was ever scanned under its name.
THEOREM ScannedIsOwn == Spec => []FilerIsOwn
<1>1. Init => Owned BY EndingIsJob DEF Init, Owned, Owns
<1>2. IInv /\ Owned /\ [Next]_vars => Owned' BY OwnedStep
<1>3. Owned => FilerIsOwn BY DEF Owned, Owns, FilerIsOwn
<1> QED BY <1>1, <1>2, <1>3, Inductive, PTL DEF Spec

-----------------------------------------------------------------------------
(* The reply.                                                              *)

Finals(c) == c.by = "final" \/ \E i \in DOMAIN c.waiting : c.waiting[i] = "final"
FinalResumes == \E i \in DOMAIN ready : ready[i].flush = "final"

\* The coroutines: one call at most is in flight; of those an answer resumes only
\* the first made it, and goes on before another can make one; the drain of
\* deliverFinal is in one place at most, and nowhere but during the drain.
Coroutines ==
    /\ \A c, d \in calls : c = d
    /\ \A i \in DOMAIN ready : i > 1 => ready[i].sent = "wait"
    /\ ready # <<>> /\ ready[1].sent # "wait" => calls = {}
    /\ ready # <<>> /\ ready[1].sent = "false" => failed
    /\ \A c \in calls : /\ c.by = "final" => \A i \in DOMAIN c.waiting : c.waiting[i] # "final"
                        /\ \A i, j \in DOMAIN c.waiting :
                              c.waiting[i] = "final" /\ c.waiting[j] = "final" => i = j
    /\ \A i, j \in DOMAIN ready : ready[i].flush = "final" /\ ready[j].flush = "final" => i = j
    /\ FinalResumes => \A c \in calls : ~Finals(c)
    /\ FinalResumes \/ (\E c \in calls : Finals(c)) => final = "flush"

\* The text: until the stream fails or ends, what is in the buffer is yet to be
\* sent, in the call in flight, or shown.
TextIsSomewhere ==
    connected /\ ~failed /\ ~lost /\ final \in {"idle", "flush", "decide"} =>
        \/ unsent = buffer
        \/ unsent = Reply!Empty /\ \E c \in calls : c.text = buffer
        \/ unsent = Reply!Empty /\ calls = {} /\ shown = buffer

\* The buffer has all the round has told so far, if it came as deltas; in the first
\* round it never has more than that, so the round's text:end completes it.
Buffered ==
    /\ round >= 1 /\ buffer.turn <= round
    /\ made = 0 => buffer.turn < round
    /\ round = 1 => buffer.size <= made
    /\ connected /\ ~failed /\ final \in {"idle", "flush", "decide"} /\ made > 0 =>
          (~narrated \/ (round = 1 /\ turn \in {"ended", "completed"}) => Reply!Whole(buffer))

Delivery ==
    /\ turn \in {"on", "ended"} <=> final = "idle"
    /\ turn \in {"ended", "completed"} => made > 0
    /\ final # "done" => replies = 0
    /\ connected /\ final \in {"idle", "flush", "decide"} => streaming /\ ~stopped
    /\ connected /\ final = "decide" /\ ~failed => unsent = Reply!Empty /\ calls = {}
    /\ final = "done" /\ turn = "completed" /\ connected /\ ~lost =>
          \/ replies = 1
          \/ stopped /\ calls = {} /\ (round = 1 \/ ~narrated => Reply!Whole(shown))

ReplyInv == Reply!TypeOK /\ Coroutines /\ Delivery /\ TextIsSomewhere /\ Buffered

LEMMA EmptyIsText == Reply!Empty \in Reply!Text
  BY DEF Reply!Empty, Reply!Text

\* A step that leaves the buffer and the round as they are.
LEMMA BufferedKept ==
    ASSUME Buffered, UNCHANGED <<round, made, narrated, buffer>>, connected' => connected, ~failed' => ~failed,
           final' \in {"idle", "flush", "decide"} => final \in {"idle", "flush", "decide"},
           turn' \in {"ended", "completed"} => turn \in {"ended", "completed"}
    PROVE  Buffered'
  BY DEF Buffered, Reply!Whole

\* Calls, and coroutines an answer resumes.
Call == [text : Reply!Text, by : Reply!Flush, waiting : Seq(Reply!Flush)]
Going == [flush : Reply!Flush, sent : {"true", "false", "wait"}, text : Reply!Text]

Leaves(f, text) ==
    /\ stopped' \/ (calls = {} /\ text = Reply!Empty)
    /\ unsent' = text /\ calls' = calls
    /\ final' = IF f = "final" THEN "decide" ELSE final

Makes(f, text) ==
    /\ ~stopped' /\ calls = {} /\ text # Reply!Empty
    /\ unsent' = Reply!Empty
    /\ \E c \in Call : calls' = {c} /\ c.text = text /\ c.by = f /\ c.waiting = <<>>
    /\ final' = IF f = "final" THEN "flush" ELSE final

Waits(f, text) ==
    /\ ~stopped'
    /\ unsent' = text
    /\ \E c \in calls, d \in Call :
          /\ calls = {c} /\ calls' = {d}
          /\ d.text = c.text /\ d.by = c.by /\ d.waiting = Append(c.waiting, f)
    /\ final' = IF f = "final" THEN "flush" ELSE final

\* The three things the body of the loop can come to.
LEMMA IterateOutcome ==
    ASSUME calls \subseteq Call, \A c, d \in calls : c = d,
           NEW f \in Reply!Flush, NEW text \in Reply!Text, Reply!Iterate(f, text)
    PROVE  Leaves(f, text) \/ Makes(f, text) \/ Waits(f, text)
<1>1. CASE stopped' \/ (calls = {} /\ text = Reply!Empty)
  BY <1>1 DEF Reply!Iterate, Leaves
<1>2. CASE ~stopped' /\ calls = {} /\ text # Reply!Empty
  <2> DEFINE c == [text |-> text, by |-> f, waiting |-> <<>>]
  <2>1. c \in Call /\ c.text = text /\ c.by = f /\ c.waiting = <<>>
    BY DEF Call
  <2>2. unsent' = Reply!Empty /\ calls' = {c} /\ final' = (IF f = "final" THEN "flush" ELSE final)
    BY <1>2 DEF Reply!Iterate
  <2>3. text # Reply!Empty
    BY <1>2, ServicesAssumption DEF Reply!Text
  <2> HIDE DEF c
  <2> QED
    BY <1>2, <2>1, <2>2, <2>3 DEF Makes
<1>3. CASE ~stopped' /\ calls # {}
  <2>1. PICK c \in calls : calls = {c}
    BY <1>3
  <2> DEFINE d == [c EXCEPT !.waiting = Append(c.waiting, f)]
  <2>2. c \in Call /\ c.waiting \in Seq(Reply!Flush)
    BY <2>1 DEF Call
  <2>3. Append(c.waiting, f) \in Seq(Reply!Flush)
    BY <2>2
  <2>4. d \in Call /\ d.text = c.text /\ d.by = c.by /\ d.waiting = Append(c.waiting, f)
    BY <2>2, <2>3 DEF Call
  <2>5. unsent' = text /\ calls' = {d} /\ final' = (IF f = "final" THEN "flush" ELSE final)
    BY <1>3, <2>1 DEF Reply!Iterate
  <2> HIDE DEF d
  <2> QED
    BY <1>3, <2>1, <2>4, <2>5 DEF Waits
<1> QED
  BY <1>1, <1>2, <1>3

\* A flush that goes on from where it was leaves the coroutines in order.
LEMMA IterateCoroutines ==
    ASSUME calls \subseteq Call, \A c, d \in calls : c = d, NEW f \in Reply!Flush, NEW text,
           Leaves(f, text) \/ Makes(f, text) \/ Waits(f, text),
           \A i \in DOMAIN ready' : ready'[i].sent = "wait",
           \A i, j \in DOMAIN ready' : ready'[i].flush = "final" /\ ready'[j].flush = "final" => i = j,
           \A c \in calls : /\ c.by = "final" => \A i \in DOMAIN c.waiting : c.waiting[i] # "final"
                            /\ \A i, j \in DOMAIN c.waiting :
                                  c.waiting[i] = "final" /\ c.waiting[j] = "final" => i = j,
           FinalResumes' => \A c \in calls : ~Finals(c),
           f = "final" => ~FinalResumes' /\ \A c \in calls : ~Finals(c),
           FinalResumes' \/ (\E c \in calls : Finals(c)) => final = "flush",
           ready' \in Seq(Going)
    PROVE  Coroutines'
<1>1. ready' # <<>> => ready'[1].sent = "wait"
  OBVIOUS
<1>2. CASE Leaves(f, text)
  <2>1. calls' = calls /\ final' = IF f = "final" THEN "decide" ELSE final
    BY <1>2 DEF Leaves
  <2> QED
    BY <1>1, <2>1 DEF Coroutines, FinalResumes, Finals
<1>3. CASE Makes(f, text)
  <2>1. PICK c \in Call : calls' = {c} /\ c.by = f /\ c.waiting = <<>>
    BY <1>3 DEF Makes
  <2>2. DOMAIN c.waiting = {}
    BY <2>1
  <2>3. final' = IF f = "final" THEN "flush" ELSE final
    BY <1>3 DEF Makes
  <2>4. Finals(c) <=> f = "final"
    BY <2>1, <2>2 DEF Finals
  <2>5. FinalResumes' => \A d \in calls' : ~Finals(d)
    BY <2>1, <2>4
  <2>6. FinalResumes' \/ (\E d \in calls' : Finals(d)) => final' = "flush"
    BY <2>1, <2>3, <2>4
  <2> QED
    BY <1>1, <2>1, <2>2, <2>5, <2>6 DEF Coroutines, Finals
<1>4. CASE Waits(f, text)
  <2>1. PICK c \in calls, d \in Call :
            calls = {c} /\ calls' = {d} /\ d.by = c.by /\ d.waiting = Append(c.waiting, f)
    BY <1>4 DEF Waits
  <2>2. c.waiting \in Seq(Reply!Flush)
    BY DEF Call
  <2>3. /\ DOMAIN d.waiting = 1..(Len(c.waiting) + 1) /\ d.waiting[Len(c.waiting) + 1] = f
        /\ \A i \in DOMAIN c.waiting : d.waiting[i] = c.waiting[i]
        /\ DOMAIN c.waiting = 1..Len(c.waiting) /\ Len(c.waiting) \in Nat
    BY <2>1, <2>2
  <2>4. final' = IF f = "final" THEN "flush" ELSE final
    BY <1>4 DEF Waits
  <2>5. Finals(d) <=> Finals(c) \/ f = "final"
    BY <2>1, <2>3 DEF Finals
  <2>6. d.by = "final" => \A i \in DOMAIN d.waiting : d.waiting[i] # "final"
    <3>1. d.by = "final" => f # "final" /\ \A i \in DOMAIN c.waiting : c.waiting[i] # "final"
      BY <2>1 DEF Finals
    <3> QED
      BY <2>3, <3>1
  <2>7. \A i, j \in DOMAIN d.waiting : d.waiting[i] = "final" /\ d.waiting[j] = "final" => i = j
    BY <2>1, <2>3 DEF Finals
  <2>8. FinalResumes' => \A e \in calls' : ~Finals(e)
    BY <2>1, <2>5
  <2>9. FinalResumes' \/ (\E e \in calls' : Finals(e)) => final' = "flush"
    BY <2>1, <2>4, <2>5
  <2>10. ready' # <<>> /\ ready'[1].sent # "wait" => calls' = {}
    BY <1>1
  <2> QED
    BY <1>1, <2>1, <2>6, <2>7, <2>8, <2>9, <2>10 DEF Coroutines, Finals
<1> QED
  BY <1>2, <1>3, <1>4

\* The newest text stays where it can be found, whatever the body of the loop does.
LEMMA IterateText ==
    ASSUME NEW f, NEW text \in Reply!Text, Leaves(f, text) \/ Makes(f, text) \/ Waits(f, text), ~stopped',
           text = buffer' \/ (text = Reply!Empty /\ \E c \in calls : c.text = buffer')
             \/ (text = Reply!Empty /\ calls = {} /\ shown' = buffer')
    PROVE  \/ unsent' = buffer'
           \/ unsent' = Reply!Empty /\ \E c \in calls' : c.text = buffer'
           \/ unsent' = Reply!Empty /\ calls' = {} /\ shown' = buffer'
<1>1. CASE Leaves(f, text)
  BY <1>1 DEF Leaves
<1>2. CASE Makes(f, text)
  BY <1>2, ServicesAssumption DEF Makes, Reply!Text
<1>3. CASE Waits(f, text)
  BY <1>3 DEF Waits
<1> QED
  BY <1>1, <1>2, <1>3

LEMMA IterateTypes ==
    ASSUME calls \subseteq Call, final \in {"idle", "flush", "decide", "send", "done"}, NEW f \in Reply!Flush,
           NEW text \in Reply!Text, Leaves(f, text) \/ Makes(f, text) \/ Waits(f, text)
    PROVE  /\ calls' \subseteq Call /\ final' \in {"idle", "flush", "decide", "send", "done"}
           /\ unsent' \in Reply!Text
<1>1. Reply!Empty \in Reply!Text
  BY EmptyIsText
<1>2. CASE Leaves(f, text)
  BY <1>2 DEF Leaves
<1>3. CASE Makes(f, text)
  BY <1>1, <1>3 DEF Makes
<1>4. CASE Waits(f, text)
  BY <1>4 DEF Waits
<1> QED
  BY <1>2, <1>3, <1>4

\* The timer's flush.
LEMMA TimerFiresStep == ASSUME ReplyInv, Reply!TimerFires PROVE ReplyInv'
<1>0. /\ Reply!TypeOK /\ Coroutines /\ Delivery /\ TextIsSomewhere /\ Buffered
      /\ calls \subseteq Call /\ unsent \in Reply!Text /\ "loop" \in Reply!Flush
      /\ \A c, d \in calls : c = d
  BY DEF ReplyInv, Reply!TypeOK, Call, Reply!Flush, Coroutines
<1>1. /\ ready = <<>> /\ final # "decide" /\ timer' = FALSE
      /\ UNCHANGED <<round, made, narrated, turn, streaming, connected, buffer, first, failed, stopped, ready, shown, replies, lost>>
      /\ Reply!Iterate("loop", unsent)
  BY DEF Reply!TimerFires, Reply!Quiet, Reply!turns, Reply!stream, Reply!chat
<1>2. Leaves("loop", unsent) \/ Makes("loop", unsent) \/ Waits("loop", unsent)
  BY <1>0, <1>1, IterateOutcome
<1>3. calls' \subseteq Call /\ final' \in {"idle", "flush", "decide", "send", "done"} /\ unsent' \in Reply!Text
  BY <1>0, <1>2, IterateTypes DEF Reply!TypeOK
<1>4. Reply!TypeOK'
  BY <1>0, <1>1, <1>3 DEF Reply!TypeOK, Call
<1>5. Coroutines'
  <2>1. DOMAIN ready' = {} /\ ready' \in Seq(Going)
    BY <1>1
  <2>2. ~FinalResumes'
    BY <2>1 DEF FinalResumes
  <2> QED
    BY <1>0, <1>2, <2>1, <2>2, IterateCoroutines DEF Coroutines
<1>6. final' = final /\ (stopped => calls' = calls)
  BY <1>1, <1>2 DEF Leaves, Makes, Waits
<1>7. Delivery' /\ Buffered'
  BY <1>0, <1>1, <1>6, BufferedKept DEF Delivery, Reply!Whole
<1>8. TextIsSomewhere'
  <2> SUFFICES ASSUME connected, ~failed, ~lost, final \in {"idle", "flush", "decide"}
               PROVE  \/ unsent' = buffer'
                      \/ unsent' = Reply!Empty /\ \E c \in calls' : c.text = buffer'
                      \/ unsent' = Reply!Empty /\ calls' = {} /\ shown' = buffer'
    BY <1>1, <1>6 DEF TextIsSomewhere
  <2>1. ~stopped'
    BY <1>0, <1>1 DEF Delivery
  <2>2. unsent = buffer' \/ (unsent = Reply!Empty /\ \E c \in calls : c.text = buffer')
             \/ (unsent = Reply!Empty /\ calls = {} /\ shown' = buffer')
    BY <1>0, <1>1 DEF TextIsSomewhere
  <2> QED
    BY <1>0, <1>2, <2>1, <2>2, IterateText
<1> QED
  BY <1>4, <1>5, <1>7, <1>8 DEF ReplyInv

\* What is left of the coroutines once the first has gone on.
LEMMA RestGoesOn ==
    ASSUME ready \in Seq(Going), ready # <<>>, ready' = Tail(ready), Coroutines
    PROVE  /\ ready' \in Seq(Going) /\ ready[1] \in Going
           /\ \A i \in DOMAIN ready' : ready'[i].sent = "wait"
           /\ \A i, j \in DOMAIN ready' : ready'[i].flush = "final" /\ ready'[j].flush = "final" => i = j
           /\ FinalResumes' => FinalResumes
           /\ ready[1].flush = "final" => ~FinalResumes' /\ FinalResumes
<1>1. /\ ready' \in Seq(Going) /\ ready[1] \in Going /\ Len(ready) \in Nat \ {0}
      /\ DOMAIN ready = 1..Len(ready) /\ DOMAIN ready' = 1..(Len(ready) - 1)
      /\ \A i \in DOMAIN ready' : ready'[i] = ready[i + 1] /\ i + 1 \in DOMAIN ready /\ i + 1 > 1 /\ i \in Nat
  OBVIOUS
<1>2. \A i \in DOMAIN ready' : ready'[i].sent = "wait"
  BY <1>1 DEF Coroutines
<1>3. \A i, j \in DOMAIN ready' : ready'[i].flush = "final" /\ ready'[j].flush = "final" => i = j
  BY <1>1 DEF Coroutines
<1>4. FinalResumes' => FinalResumes
  BY <1>1 DEF FinalResumes
<1>5. ASSUME ready[1].flush = "final" PROVE ~FinalResumes' /\ FinalResumes
  <2>1. 1 \in DOMAIN ready
    BY <1>1
  <2>2. \A i \in DOMAIN ready' : ready'[i].flush # "final"
    BY <1>1, <1>5, <2>1 DEF Coroutines
  <2> QED
    BY <1>5, <2>1, <2>2 DEF FinalResumes
<1> QED
  BY <1>1, <1>2, <1>3, <1>4, <1>5

\* A coroutine goes on: its own call failed, it is through, or the body of the loop
\* runs again.
LEMMA GoOnStep == ASSUME ReplyInv, Reply!GoOn PROVE ReplyInv'
<1>0. /\ Reply!TypeOK /\ Coroutines /\ Delivery /\ TextIsSomewhere /\ Buffered
      /\ calls \subseteq Call /\ unsent \in Reply!Text /\ ready \in Seq(Going)
      /\ final \in {"idle", "flush", "decide", "send", "done"}
      /\ \A c, d \in calls : c = d
  BY DEF ReplyInv, Reply!TypeOK, Call, Going, Coroutines
<1>1. /\ ready # <<>> /\ ready' = Tail(ready)
      /\ UNCHANGED <<round, made, narrated, turn, streaming, connected, buffer, first, failed, stopped, timer, shown, replies, lost>>
  BY DEF Reply!GoOn, Reply!turns, Reply!stream, Reply!chat
<1> DEFINE r == ready[1]
<1>2. /\ ready' \in Seq(Going) /\ r \in Going
      /\ \A i \in DOMAIN ready' : ready'[i].sent = "wait"
      /\ \A i, j \in DOMAIN ready' : ready'[i].flush = "final" /\ ready'[j].flush = "final" => i = j
      /\ FinalResumes' => FinalResumes
      /\ r.flush = "final" => ~FinalResumes' /\ FinalResumes
  BY <1>0, <1>1, RestGoesOn
<1>3. r.flush \in Reply!Flush /\ r.text \in Reply!Text
  BY <1>2 DEF Going
<1>4. /\ FinalResumes => \A c \in calls : ~Finals(c)
      /\ FinalResumes \/ (\E c \in calls : Finals(c)) => final = "flush"
      /\ r.sent # "wait" => calls = {}
      /\ r.sent = "false" => failed
  BY <1>0, <1>1 DEF Coroutines
<1>5. \/ r.sent = "false" /\ unsent' = r.text /\ calls' = calls
         /\ final' = (IF r.flush = "final" THEN "decide" ELSE final)
      \/ r.sent = "true" /\ unsent = Reply!Empty /\ unsent' = unsent /\ calls' = calls
         /\ final' = (IF r.flush = "final" THEN "decide" ELSE final)
      \/ Reply!Iterate(r.flush, unsent)
  BY <1>1 DEF Reply!GoOn
<1> HIDE DEF r
<1>6. CASE calls' = calls /\ calls = {} /\ final' = (IF r.flush = "final" THEN "decide" ELSE final)
           /\ \/ r.sent = "false" /\ unsent' = r.text
              \/ unsent = Reply!Empty /\ unsent' = Reply!Empty
  <2>1. Reply!TypeOK'
    BY <1>0, <1>1, <1>2, <1>3, <1>6 DEF Reply!TypeOK, Going
  <2>2. Coroutines'
    BY <1>2, <1>4, <1>6 DEF Coroutines
  <2>3. r.flush = "final" => final = "flush"
    BY <1>2, <1>4
  <2>4. Delivery' /\ Buffered'
    BY <1>0, <1>1, <1>4, <1>6, <2>3, BufferedKept DEF Delivery, Reply!Whole
  <2>5. TextIsSomewhere'
    BY <1>0, <1>1, <1>4, <1>6, <2>3 DEF TextIsSomewhere
  <2> QED
    BY <2>1, <2>2, <2>4, <2>5 DEF ReplyInv
<1>7. CASE Reply!Iterate(r.flush, unsent)
  <2>1. Leaves(r.flush, unsent) \/ Makes(r.flush, unsent) \/ Waits(r.flush, unsent)
    BY <1>0, <1>3, <1>7, IterateOutcome
  <2>2. calls' \subseteq Call /\ final' \in {"idle", "flush", "decide", "send", "done"} /\ unsent' \in Reply!Text
    BY <1>0, <1>3, <2>1, IterateTypes
  <2>3. Reply!TypeOK'
    BY <1>0, <1>1, <1>2, <2>2 DEF Reply!TypeOK, Call, Going
  <2>4. \A c \in calls : /\ c.by = "final" => \A i \in DOMAIN c.waiting : c.waiting[i] # "final"
                         /\ \A i, j \in DOMAIN c.waiting :
                               c.waiting[i] = "final" /\ c.waiting[j] = "final" => i = j
    BY <1>0 DEF Coroutines
  <2>5. Coroutines'
    BY <1>0, <1>2, <1>3, <1>4, <2>1, <2>4, IterateCoroutines
  <2>6. r.flush = "final" => final = "flush"
    BY <1>2, <1>4
  <2>7. /\ final' \in {"idle", "flush", "decide"} <=> final \in {"idle", "flush", "decide"}
        /\ final' = "idle" <=> final = "idle"
        /\ final' = "done" <=> final = "done"
        /\ stopped => calls' = calls
        /\ final' = "decide" => \/ stopped \/ (calls' = {} /\ unsent' = Reply!Empty) \/ final = "decide"
        /\ final = "decide" /\ ~stopped => (calls = {} /\ unsent = Reply!Empty => calls' = {} /\ unsent' = Reply!Empty)
    BY <1>1, <2>1, <2>6 DEF Leaves, Makes, Waits
  <2>8. Delivery' /\ Buffered'
    BY <1>0, <1>1, <2>6, <2>7, BufferedKept DEF Delivery, Reply!Whole
  <2>9. TextIsSomewhere'
    <3> SUFFICES ASSUME connected, ~failed, ~lost, final \in {"idle", "flush", "decide"}
                 PROVE  \/ unsent' = buffer'
                        \/ unsent' = Reply!Empty /\ \E c \in calls' : c.text = buffer'
                        \/ unsent' = Reply!Empty /\ calls' = {} /\ shown' = buffer'
      BY <1>1, <2>7 DEF TextIsSomewhere
    <3>1. ~stopped'
      BY <1>0, <1>1 DEF Delivery
    <3>2. unsent = buffer' \/ (unsent = Reply!Empty /\ \E c \in calls : c.text = buffer')
               \/ (unsent = Reply!Empty /\ calls = {} /\ shown' = buffer')
      BY <1>0, <1>1 DEF TextIsSomewhere
    <3> QED
      BY <1>0, <2>1, <3>1, <3>2, IterateText
  <2> QED
    BY <2>3, <2>5, <2>8, <2>9 DEF ReplyInv
<1> QED
  BY <1>4, <1>5, <1>6, <1>7

\* update() of the buffer, from onTextDelta and onTextEnd.
LEMMA UpdateStep ==
    ASSUME ReplyInv, ready = <<>>, final = "idle", ~stopped, streaming,
           round' \in Nat, made' \in Nat, narrated' \in BOOLEAN, buffer' \in Reply!Text, made' > 0,
           turn' \in {"on", "ended"}, Reply!Update(buffer'), Buffered',
           UNCHANGED <<streaming, connected, first, failed, stopped, shown, replies, lost>>
    PROVE  ReplyInv'
<1>0. /\ Reply!TypeOK /\ Coroutines /\ Delivery /\ TextIsSomewhere
      /\ calls \subseteq Call /\ unsent \in Reply!Text /\ "loop" \in Reply!Flush
      /\ \A c, d \in calls : c = d
  BY DEF ReplyInv, Reply!TypeOK, Call, Reply!Flush, Coroutines
<1>1. /\ ready' = ready
      /\ \/ unsent' = buffer' /\ timer' = TRUE /\ calls' = calls /\ final' = final
         \/ timer' = FALSE /\ Reply!Iterate("loop", buffer')
  BY DEF Reply!Update
<1>2. CASE unsent' = buffer' /\ timer' = TRUE /\ calls' = calls /\ final' = final
  <2>1. Reply!TypeOK'
    BY <1>0, <1>1, <1>2 DEF Reply!TypeOK
  <2>2. Coroutines'
    BY <1>0, <1>1, <1>2 DEF Coroutines, FinalResumes, Finals
  <2>3. Delivery' /\ TextIsSomewhere'
    BY <1>0, <1>2 DEF Delivery, TextIsSomewhere
  <2> QED
    BY <2>1, <2>2, <2>3 DEF ReplyInv
<1>3. CASE timer' = FALSE /\ Reply!Iterate("loop", buffer')
  <2>1. Leaves("loop", buffer') \/ Makes("loop", buffer') \/ Waits("loop", buffer')
    BY <1>0, <1>3, IterateOutcome
  <2>2. calls' \subseteq Call /\ final' \in {"idle", "flush", "decide", "send", "done"} /\ unsent' \in Reply!Text
    BY <1>0, <2>1, IterateTypes DEF Reply!TypeOK
  <2>3. Reply!TypeOK'
    BY <1>0, <1>1, <1>3, <2>2 DEF Reply!TypeOK, Call
  <2>4. DOMAIN ready' = {} /\ ready' \in Seq(Going)
    BY <1>1
  <2>5. ~FinalResumes'
    BY <2>4 DEF FinalResumes
  <2>6. Coroutines'
    BY <1>0, <2>1, <2>4, <2>5, IterateCoroutines DEF Coroutines
  <2>7. final' = final
    BY <2>1 DEF Leaves, Makes, Waits
  <2>8. Delivery'
    BY <1>0, <2>7 DEF Delivery
  <2>9. TextIsSomewhere'
    BY <2>1, IterateText DEF TextIsSomewhere
  <2> QED
    BY <2>3, <2>6, <2>8, <2>9 DEF ReplyInv
<1> QED
  BY <1>1, <1>2, <1>3

\* A text reaches a stream that takes no more: nothing but the round goes on.
LEMMA UnheardStep ==
    ASSUME ReplyInv, ready = <<>>, final = "idle", connected => failed,
           round' \in Nat, made' \in Nat, narrated' \in BOOLEAN, made' > 0, turn' \in {"on", "ended"},
           round' = round, made' >= made,
           UNCHANGED <<streaming, connected, buffer, first, failed, stopped, unsent, timer, calls, ready, final,
                       shown, replies, lost>>
    PROVE  ReplyInv'
<1>0. Reply!TypeOK /\ Coroutines /\ Delivery /\ TextIsSomewhere /\ Buffered
  BY DEF ReplyInv
<1>1. Reply!TypeOK'
  BY <1>0 DEF Reply!TypeOK
<1>2. Coroutines'
  BY <1>0 DEF Coroutines, FinalResumes, Finals
<1>3. Delivery' /\ TextIsSomewhere'
  BY <1>0 DEF Delivery, TextIsSomewhere
<1>4. Buffered'
  BY <1>0 DEF Buffered, Reply!TypeOK, Reply!Text
<1> QED
  BY <1>1, <1>2, <1>3, <1>4 DEF ReplyInv

LEMMA DeltaStep == ASSUME ReplyInv, Reply!Delta PROVE ReplyInv'
<1>0. /\ Reply!TypeOK /\ Delivery /\ Buffered /\ final = "idle"
      /\ round \in Nat /\ made \in Nat /\ buffer \in Reply!Text
  BY DEF ReplyInv, Reply!TypeOK, Delivery, Reply!Delta
<1>1. /\ ready = <<>> /\ turn = "on" /\ made' = made + 1 /\ made' > 0 /\ made' \in Nat
      /\ UNCHANGED <<round, narrated, turn, streaming, connected, first, failed, stopped, shown, replies, lost>>
  BY <1>0 DEF Reply!Delta, Reply!Quiet, Reply!stream, Reply!chat
<1>2. narrated' \in BOOLEAN /\ round' \in Nat
  BY <1>0, <1>1 DEF Reply!TypeOK
<1>3. CASE ~streaming \/ stopped \/ failed
  <2>1. UNCHANGED <<buffer, unsent, timer, calls, ready, final>>
    BY <1>3 DEF Reply!Delta, Reply!stream, Reply!loop
  <2>2. connected => failed
    BY <1>0, <1>3 DEF Delivery
  <2> QED
    BY <1>0, <1>1, <1>2, <2>1, <2>2, UnheardStep
<1>4. CASE ~(~streaming \/ stopped \/ failed)
  <2>1. buffer' = Reply!Longer(buffer) /\ Reply!Update(buffer')
    BY <1>4 DEF Reply!Delta
  <2>2. /\ buffer' \in Reply!Text /\ buffer'.size = buffer.size + 1 /\ buffer'.turn = round
        /\ buffer'.of = (IF buffer.turn = round THEN buffer.of ELSE 0) + 1
        /\ buffer.size \in Nat /\ buffer.turn \in Nat /\ buffer.of \in Nat
    BY <1>0, <2>1 DEF Reply!Longer, Reply!Text
  <2>3. connected /\ ~narrated => buffer'.of = made'
    <3>1. CASE made = 0
      BY <1>0, <1>1, <2>2, <3>1 DEF Buffered
    <3>2. CASE made > 0
      BY <1>0, <1>1, <1>4, <2>2, <3>2 DEF Buffered, Reply!Whole
    <3> QED
      BY <1>0, <3>1, <3>2
  <2>4. Buffered'
    BY <1>0, <1>1, <2>2, <2>3 DEF Buffered, Reply!Whole
  <2> QED
    BY <1>0, <1>1, <1>2, <1>4, <2>1, <2>2, <2>4, UpdateStep
<1> QED
  BY <1>3, <1>4

\* onTextEnd, from reply_to_user and at the end of a round.
LEMMA EndsStep ==
    ASSUME ReplyInv, ready = <<>>, turn = "on", NEW n \in 1..MaxText, Reply!Ends(Reply!Told(n)),
           made' \in Nat, made' > 0, made' >= made, made' >= n, narrated' \in BOOLEAN, turn' \in {"on", "ended"},
           ~narrated' => ~narrated /\ made = n /\ made' = made,
           turn' = "ended" => made' = n,
           UNCHANGED <<round, shown, replies, lost>>
    PROVE  ReplyInv'
<1>0. /\ Reply!TypeOK /\ Delivery /\ Buffered /\ final = "idle"
      /\ round \in Nat /\ made \in Nat /\ buffer \in Reply!Text /\ n \in Nat /\ n > 0
  BY ServicesAssumption DEF ReplyInv, Reply!TypeOK, Delivery
<1>1. CASE ~streaming \/ stopped
  <2>1. UNCHANGED <<streaming, connected, buffer, first, failed, stopped, unsent, timer, calls, ready, final>>
    BY <1>1 DEF Reply!Ends, Reply!stream, Reply!loop
  <2>2. ~connected
    BY <1>0, <1>1 DEF Delivery
  <2> QED
    BY <1>0, <2>1, <2>2, UnheardStep
<1>2. CASE ~(~streaming \/ stopped)
  <2> DEFINE text == Reply!Told(n)
  <2>1. /\ buffer' = (IF text.size >= buffer.size THEN text ELSE buffer) /\ Reply!Update(buffer')
        /\ UNCHANGED <<streaming, connected, first, failed, stopped>>
    BY <1>2 DEF Reply!Ends
  <2>2. text \in Reply!Text /\ text.size = n /\ text.turn = round /\ text.of = n
    BY <1>0 DEF Reply!Told, Reply!Text
  <2>3. buffer.size \in Nat /\ buffer.turn \in Nat /\ buffer.of \in Nat
    BY <1>0 DEF Reply!Text
  <2> HIDE DEF text
  <2>4. buffer' \in Reply!Text
    BY <1>0, <2>1, <2>2
  <2>5. Buffered'
    <3>1. /\ round' >= 1 /\ buffer'.turn <= round' /\ made' # 0
          /\ round' = 1 => buffer'.size <= made'
      BY <1>0, <2>1, <2>2, <2>3 DEF Buffered
    <3>2. ASSUME connected, ~failed, ~narrated' PROVE buffer'.turn = round /\ buffer'.of = made'
      BY <1>0, <2>1, <2>2, <2>3, <3>2 DEF Buffered, Reply!Whole
    <3>3. ASSUME round = 1, turn' = "ended" PROVE buffer'.turn = round /\ buffer'.of = made'
      <4>1. made <= n /\ buffer.size <= made
        BY <1>0, <3>3 DEF Buffered
      <4>2. buffer' = text
        BY <1>0, <2>1, <2>2, <2>3, <4>1
      <4> QED
        BY <2>2, <3>3, <4>2
    <3> QED
      BY <1>0, <2>1, <3>1, <3>2, <3>3 DEF Buffered, Reply!Whole
  <2> QED
    BY <1>0, <1>2, <2>1, <2>4, <2>5, UpdateStep
<1> QED
  BY <1>1, <1>2

LEMMA NarratesStep == ASSUME ReplyInv, NEW n \in 1..MaxText, Reply!Narrates(n) PROVE ReplyInv'
<1>0. made \in Nat /\ n \in Nat /\ n > 0
  BY ServicesAssumption DEF ReplyInv, Reply!TypeOK
<1>1. /\ ready = <<>> /\ turn = "on" /\ made' = made + n /\ narrated' = TRUE /\ Reply!Ends(Reply!Told(n))
      /\ UNCHANGED <<round, turn, shown, replies, lost>>
  BY DEF Reply!Narrates, Reply!Quiet, Reply!chat
<1>2. /\ made' \in Nat /\ made' > 0 /\ made' >= made /\ made' >= n /\ narrated' \in BOOLEAN
      /\ turn' \in {"on", "ended"} /\ turn' # "ended"
  BY <1>0, <1>1
<1> QED
  BY <1>1, <1>2, EndsStep

LEMMA TextEndStep == ASSUME ReplyInv, NEW n \in 1..MaxText, Reply!TextEnd(n) PROVE ReplyInv'
<1>0. made \in Nat /\ n \in Nat /\ n > 0 /\ narrated \in BOOLEAN
  BY ServicesAssumption DEF ReplyInv, Reply!TypeOK
<1>1. /\ ready = <<>> /\ turn = "on" /\ turn' = "ended" /\ made \in {0, n} /\ made' = n
      /\ narrated' = (narrated \/ made = 0) /\ Reply!Ends(Reply!Told(n))
      /\ UNCHANGED <<round, shown, replies, lost>>
  BY DEF Reply!TextEnd, Reply!Quiet, Reply!chat
<1>2. made' \in Nat /\ made' > 0 /\ made' >= made /\ made' >= n
  BY <1>0, <1>1
<1>3. narrated' \in BOOLEAN
  BY <1>1
<1>4. ~narrated' => ~narrated /\ made # 0
  BY <1>1, Zenon
<1>5. ~narrated' => ~narrated /\ made = n /\ made' = made
  BY <1>1, <1>4
<1>6. turn' \in {"on", "ended"} /\ (turn' = "ended" => made' = n)
  BY <1>1
<1>7. ready = <<>> /\ turn = "on" /\ Reply!Ends(Reply!Told(n)) /\ UNCHANGED <<round, shown, replies, lost>>
  BY <1>1
<1> QED
  BY <1>2, <1>3, <1>5, <1>6, <1>7, EndsStep, Zenon

\* The loop goes on: what the buffer has is now of an earlier round.
LEMMA NextRoundStep == ASSUME ReplyInv, Reply!NextRound PROVE ReplyInv'
<1>0. Reply!TypeOK /\ Coroutines /\ Delivery /\ TextIsSomewhere /\ Buffered
  BY DEF ReplyInv
<1>1. /\ turn = "ended" /\ turn' = "on" /\ round' = round + 1 /\ made' = 0 /\ narrated' = FALSE
      /\ UNCHANGED <<streaming, connected, buffer, first, failed, stopped, unsent, timer, calls, ready, final,
                     shown, replies, lost>>
  BY DEF Reply!NextRound, Reply!stream, Reply!loop, Reply!chat
<1>2. Reply!TypeOK'
  <2>1. round' \in Nat /\ made' \in Nat
    BY <1>0, <1>1 DEF Reply!TypeOK
  <2>2. narrated' \in BOOLEAN /\ turn' \in {"on", "ended", "completed", "failed"}
    BY <1>1
  <2> QED
    BY <1>0, <1>1, <2>1, <2>2 DEF Reply!TypeOK
<1>3. Coroutines'
  BY <1>0, <1>1 DEF Coroutines, FinalResumes, Finals
<1>4. Delivery' /\ TextIsSomewhere'
  BY <1>0, <1>1 DEF Delivery, TextIsSomewhere
<1>5. Buffered'
  <2>1. buffer.turn \in Nat /\ round \in Nat
    BY <1>0 DEF Reply!TypeOK, Reply!Text
  <2> QED
    BY <1>0, <1>1, <2>1 DEF Buffered
<1> QED
  BY <1>2, <1>3, <1>4, <1>5 DEF ReplyInv

\* deliverFinal begins to drain, or has no stream to drain.
LEMMA ReplyNeededStep ==
    ASSUME ReplyInv, NEW verdict \in {"completed", "failed"}, Reply!ReplyNeeded(verdict)
    PROVE  ReplyInv'
<1>0. /\ Reply!TypeOK /\ Coroutines /\ Delivery /\ TextIsSomewhere /\ Buffered
      /\ calls \subseteq Call /\ unsent \in Reply!Text /\ "final" \in Reply!Flush
      /\ \A c, d \in calls : c = d
  BY DEF ReplyInv, Reply!TypeOK, Call, Reply!Flush, Coroutines
<1>1. /\ ready = <<>> /\ final = "idle" /\ turn \in {"on", "ended"} /\ turn' = verdict
      /\ verdict = "completed" => turn = "ended"
      /\ UNCHANGED <<round, made, narrated, streaming, connected, buffer, first, failed, stopped, ready, shown, replies, lost>>
  BY <1>0 DEF Reply!ReplyNeeded, Reply!Quiet, Reply!stream, Reply!chat, Delivery
<1>2. DOMAIN ready' = {} /\ ready' \in Seq(Going)
  BY <1>1
<1>3. ~FinalResumes' /\ \A c \in calls : ~Finals(c)
  BY <1>0, <1>1, <1>2 DEF FinalResumes, Coroutines
<1>4. CASE ~streaming
  <2>1. final' = (IF connected THEN "send" ELSE "done") /\ UNCHANGED <<unsent, timer, calls>>
    BY <1>4 DEF Reply!ReplyNeeded
  <2>2. Reply!TypeOK'
    BY <1>0, <1>1, <2>1 DEF Reply!TypeOK
  <2>3. Coroutines'
    BY <1>0, <1>1, <1>2, <1>3, <2>1 DEF Coroutines
  <2>4. ~connected
    BY <1>0, <1>1, <1>4 DEF Delivery
  <2>5. Delivery' /\ TextIsSomewhere' /\ Buffered'
    BY <1>0, <1>1, <2>1, <2>4, BufferedKept DEF Delivery, TextIsSomewhere, Reply!Whole
  <2> QED
    BY <2>2, <2>3, <2>5 DEF ReplyInv
<1>5. CASE streaming
  <2>1. timer' = FALSE /\ Reply!Iterate("final", unsent)
    BY <1>5 DEF Reply!ReplyNeeded
  <2>2. Leaves("final", unsent) \/ Makes("final", unsent) \/ Waits("final", unsent)
    BY <1>0, <2>1, IterateOutcome
  <2>3. calls' \subseteq Call /\ final' \in {"idle", "flush", "decide", "send", "done"} /\ unsent' \in Reply!Text
    BY <1>0, <2>2, IterateTypes DEF Reply!TypeOK
  <2>4. Reply!TypeOK'
    BY <1>0, <1>1, <2>1, <2>3 DEF Reply!TypeOK, Call
  <2>5. Coroutines'
    BY <1>0, <1>2, <1>3, <2>2, IterateCoroutines DEF Coroutines
  <2>6. /\ final' \in {"flush", "decide"}
        /\ final' = "decide" => stopped \/ (calls' = {} /\ unsent' = Reply!Empty)
    BY <1>1, <2>2 DEF Leaves, Makes, Waits
  <2>7. Delivery' /\ Buffered'
    BY <1>0, <1>1, <2>6, BufferedKept DEF Delivery, Reply!Whole
  <2>8. TextIsSomewhere'
    <3> SUFFICES ASSUME connected, ~failed, ~lost
                 PROVE  \/ unsent' = buffer'
                        \/ unsent' = Reply!Empty /\ \E c \in calls' : c.text = buffer'
                        \/ unsent' = Reply!Empty /\ calls' = {} /\ shown' = buffer'
      BY <1>1 DEF TextIsSomewhere
    <3>1. ~stopped'
      BY <1>0, <1>1 DEF Delivery
    <3>2. unsent = buffer' \/ (unsent = Reply!Empty /\ \E c \in calls : c.text = buffer')
               \/ (unsent = Reply!Empty /\ calls = {} /\ shown' = buffer')
      BY <1>0, <1>1 DEF TextIsSomewhere
    <3> QED
      BY <1>0, <2>2, <3>1, <3>2, IterateText
  <2> QED
    BY <2>4, <2>5, <2>7, <2>8 DEF ReplyInv
<1> QED
  BY <1>4, <1>5

\* The platform's answer resumes whoever made the call and then those that wait.
LEMMA AnsweredStep ==
    ASSUME ReplyInv, NEW c \in calls, Reply!Answered(c)
    PROVE  ReplyInv'
<1>0. /\ Reply!TypeOK /\ Coroutines /\ Delivery /\ TextIsSomewhere /\ Buffered
      /\ calls \subseteq Call /\ calls = {c}
      /\ c.text \in Reply!Text /\ c.by \in Reply!Flush /\ c.waiting \in Seq(Reply!Flush)
  BY DEF ReplyInv, Reply!TypeOK, Call, Coroutines
<1>1. /\ ready = <<>> /\ final # "decide" /\ calls' = {}
      /\ UNCHANGED <<round, made, narrated, turn, streaming, connected, buffer, stopped, unsent, timer, final, replies>>
  BY <1>0 DEF Reply!Answered, Reply!turns
<1>2. PICK sent \in BOOLEAN, done \in BOOLEAN :
          /\ failed' = (failed \/ ~sent)
          /\ first' = (first \/ (sent /\ done))
          /\ shown' = IF done THEN c.text ELSE shown
          /\ lost' = (lost \/ (sent /\ ~done))
          /\ ready' = <<[flush |-> c.by, sent |-> IF sent THEN "true" ELSE "false", text |-> c.text]>>
                \o [i \in DOMAIN c.waiting |-> [flush |-> c.waiting[i], sent |-> "wait", text |-> Reply!Empty]]
  BY DEF Reply!Answered
<1> DEFINE own == [flush |-> c.by, sent |-> IF sent THEN "true" ELSE "false", text |-> c.text]
           rest == [i \in DOMAIN c.waiting |-> [flush |-> c.waiting[i], sent |-> "wait", text |-> Reply!Empty]]
<1>3. /\ own \in Going /\ own.flush = c.by /\ (own.sent = "false" => ~sent)
      /\ rest \in Seq(Going) /\ Len(rest) = Len(c.waiting)
      /\ \A i \in 1..Len(c.waiting) : rest[i].flush = c.waiting[i] /\ rest[i].sent = "wait"
  <2>1. own \in Going /\ own.flush = c.by /\ (own.sent = "false" => ~sent)
    BY <1>0 DEF Going
  <2>2. DOMAIN c.waiting = 1..Len(c.waiting) /\ Len(c.waiting) \in Nat
    BY <1>0
  <2>3. Reply!Empty \in Reply!Text
    BY EmptyIsText
  <2>4. \A i \in 1..Len(c.waiting) : rest[i] = [flush |-> c.waiting[i], sent |-> "wait", text |-> Reply!Empty]
    BY <2>2
  <2>5. \A i \in 1..Len(c.waiting) :
            [flush |-> c.waiting[i], sent |-> "wait", text |-> Reply!Empty] \in Going
    BY <1>0, <2>2, <2>3 DEF Going
  <2>6. rest \in [1..Len(c.waiting) -> Going]
    BY <2>2, <2>5
  <2>7. rest \in Seq(Going) /\ Len(rest) = Len(c.waiting)
    BY <2>2, <2>6
  <2> QED
    BY <2>1, <2>4, <2>7
<1>4. ready' = <<own>> \o rest
  BY <1>2
<1> HIDE DEF own, rest
<1>5. /\ ready' \in Seq(Going) /\ ready' # <<>> /\ ready'[1] = own
      /\ DOMAIN ready' = 1..(Len(c.waiting) + 1) /\ Len(c.waiting) \in Nat
      /\ \A i \in DOMAIN ready' : i > 1 => ready'[i] = rest[i - 1] /\ i - 1 \in 1..Len(c.waiting)
      /\ DOMAIN c.waiting = 1..Len(c.waiting)
  BY <1>0, <1>3, <1>4
<1>6. Reply!TypeOK'
  <2>1. shown' \in Reply!Text
    BY <1>0, <1>2 DEF Reply!TypeOK
  <2>2. failed' \in BOOLEAN /\ first' \in BOOLEAN /\ lost' \in BOOLEAN
    BY <1>0, <1>2 DEF Reply!TypeOK
  <2> QED
    BY <1>0, <1>1, <1>5, <2>1, <2>2 DEF Reply!TypeOK, Going
<1>7. Coroutines'
  <2>1. \A i \in DOMAIN ready' : i > 1 => ready'[i].sent = "wait" /\ ready'[i].flush = c.waiting[i - 1]
    BY <1>3, <1>5
  <2>2. ready'[1].flush = c.by /\ (ready'[1].sent = "false" => failed')
    BY <1>2, <1>3, <1>5
  <2>3. ASSUME NEW i \in DOMAIN ready', NEW j \in DOMAIN ready',
               ready'[i].flush = "final", ready'[j].flush = "final"
        PROVE  i = j
    <3>1. /\ c.by = "final" => \A k \in DOMAIN c.waiting : c.waiting[k] # "final"
          /\ \A k, l \in DOMAIN c.waiting : c.waiting[k] = "final" /\ c.waiting[l] = "final" => k = l
      BY <1>0 DEF Coroutines
    <3>2. i \in Nat /\ j \in Nat /\ i >= 1 /\ j >= 1
      BY <1>5
    <3>3. i > 1 => c.waiting[i - 1] = "final" /\ i - 1 \in DOMAIN c.waiting
      BY <1>5, <2>1, <2>3
    <3>4. j > 1 => c.waiting[j - 1] = "final" /\ j - 1 \in DOMAIN c.waiting
      BY <1>5, <2>1, <2>3
    <3>5. (i = 1 \/ j = 1) => c.by = "final"
      BY <2>2, <2>3
    <3>6. CASE i = 1 \/ j = 1
      BY <3>1, <3>2, <3>3, <3>4, <3>5, <3>6
    <3>7. CASE i > 1 /\ j > 1
      <4>1. i - 1 = j - 1
        BY <3>1, <3>3, <3>4, <3>7
      <4> QED
        BY <3>2, <4>1
    <3> QED
      BY <3>2, <3>6, <3>7
  <2>4. FinalResumes' => Finals(c)
    <3> SUFFICES ASSUME NEW i \in DOMAIN ready', ready'[i].flush = "final" PROVE Finals(c)
      BY DEF FinalResumes
    <3>1. CASE i = 1
      BY <2>2, <3>1 DEF Finals
    <3>2. CASE i # 1
      BY <1>5, <2>1, <3>2 DEF Finals
    <3> QED
      BY <3>1, <3>2
  <2>5. FinalResumes' => final' = "flush"
    BY <1>1, <2>4, <1>0 DEF Coroutines
  <2> QED
    BY <1>1, <2>1, <2>2, <2>3, <2>5 DEF Coroutines
<1>8. Delivery' /\ Buffered'
  <2>1. ~failed' => ~failed
    BY <1>2
  <2>2. ~lost' => ~lost
    BY <1>2
  <2> QED
    BY <1>0, <1>1, <2>1, <2>2, BufferedKept DEF Delivery
<1>9. TextIsSomewhere'
  <2> SUFFICES ASSUME connected, ~failed', ~lost', final \in {"idle", "flush", "decide"}
               PROVE  unsent' = buffer' \/ (unsent' = Reply!Empty /\ calls' = {} /\ shown' = buffer')
    BY <1>1 DEF TextIsSomewhere
  <2>1. ~failed /\ ~lost /\ sent /\ done
    BY <1>2
  <2>2. unsent = buffer \/ (unsent = Reply!Empty /\ c.text = buffer)
    BY <1>0, <2>1 DEF TextIsSomewhere
  <2>3. shown' = c.text
    BY <1>2, <2>1
  <2> QED
    BY <1>1, <2>2, <2>3
<1> QED
  BY <1>6, <1>7, <1>8, <1>9 DEF ReplyInv

LEMMA DecideStep == ASSUME ReplyInv, Reply!Decide PROVE ReplyInv'
<1>0. Reply!TypeOK /\ Coroutines /\ Delivery /\ TextIsSomewhere /\ Buffered /\ Reply!Empty \in Reply!Text
  BY EmptyIsText DEF ReplyInv
<1> DEFINE streamed == ~failed /\ first /\ turn # "failed"
<1>1. /\ final = "decide" /\ stopped' = TRUE /\ unsent' = Reply!Empty /\ timer' = FALSE
      /\ final' = (IF streamed THEN "done" ELSE "send") /\ streaming' = (streaming /\ ~streamed)
      /\ UNCHANGED <<round, made, narrated, turn, connected, buffer, first, failed, calls, ready, shown, replies, lost>>
  BY DEF Reply!Decide, Reply!turns, Reply!chat
<1>2. Reply!TypeOK'
  BY <1>0, <1>1 DEF Reply!TypeOK
<1>3. Coroutines'
  BY <1>0, <1>1 DEF Coroutines, FinalResumes, Finals
<1>4. connected /\ ~lost /\ streamed /\ turn = "completed" =>
          calls = {} /\ (round = 1 \/ ~narrated => Reply!Whole(shown))
  <2> SUFFICES ASSUME connected, ~lost, streamed, turn = "completed"
               PROVE  calls = {} /\ (round = 1 \/ ~narrated => Reply!Whole(shown))
    OBVIOUS
  <2>1. unsent = Reply!Empty /\ calls = {} /\ made > 0 /\ round >= 1
    BY <1>0, <1>1 DEF Delivery, Buffered
  <2>2. buffer = Reply!Empty \/ shown = buffer
    BY <1>0, <1>1, <2>1 DEF TextIsSomewhere
  <2>3. ASSUME round = 1 \/ ~narrated PROVE Reply!Whole(buffer)
    BY <1>0, <1>1, <2>1, <2>3 DEF Buffered
  <2>4. Reply!Empty.turn = 0
    BY DEF Reply!Empty
  <2>5. Reply!Whole(buffer) => buffer.turn # 0
    BY <2>1 DEF Reply!Whole
  <2> QED
    BY <2>1, <2>2, <2>3, <2>4, <2>5
<1>5. Delivery'
  BY <1>0, <1>1, <1>4 DEF Delivery, Reply!Whole
<1>6. TextIsSomewhere'
  BY <1>0, <1>1 DEF TextIsSomewhere
<1>7. Buffered'
  <2>1. /\ final' \notin {"idle", "flush", "decide"}
        /\ UNCHANGED <<round, made, narrated, turn, connected, buffer, failed>>
    BY <1>1
  <2> QED
    BY <1>0, <2>1 DEF Buffered
<1> QED
  BY <1>2, <1>3, <1>5, <1>6, <1>7 DEF ReplyInv

LEMMA SendReplyStep == ASSUME ReplyInv, Reply!SendReply PROVE ReplyInv'
<1>0. Reply!TypeOK /\ Coroutines /\ Delivery /\ TextIsSomewhere /\ Buffered
  BY DEF ReplyInv
<1>1. /\ final = "send" /\ final' = "done" /\ streaming' = FALSE
      /\ (replies' = replies + 1 /\ lost' = lost) \/ (replies' = replies /\ lost' = TRUE)
      /\ UNCHANGED <<round, made, narrated, turn, connected, buffer, first, failed, stopped, unsent, timer, calls, ready, shown>>
  BY DEF Reply!SendReply, Reply!turns, Reply!loop
<1>2. replies = 0
  BY <1>0, <1>1 DEF Delivery
<1>3. Reply!TypeOK'
  <2>1. replies' \in 0..1
    BY <1>1, <1>2
  <2>2. lost' \in BOOLEAN
    BY <1>0, <1>1 DEF Reply!TypeOK
  <2> QED
    BY <1>0, <1>1, <2>1, <2>2 DEF Reply!TypeOK
<1>4. Coroutines'
  BY <1>0, <1>1 DEF Coroutines, FinalResumes, Finals
<1>5. Delivery' /\ TextIsSomewhere' /\ Buffered'
  BY <1>0, <1>1, <1>2, BufferedKept DEF Delivery, TextIsSomewhere, Reply!Whole
<1> QED
  BY <1>3, <1>4, <1>5 DEF ReplyInv

LEMMA StreamStopsStep == ASSUME ReplyInv, Reply!StopAll PROVE ReplyInv'
<1>0. Reply!TypeOK /\ Coroutines /\ Delivery /\ Buffered /\ Reply!Empty \in Reply!Text
  BY EmptyIsText DEF ReplyInv
<1>1. /\ connected' = FALSE /\ streaming' = FALSE /\ stopped' = (stopped \/ streaming)
      /\ unsent' = (IF streaming THEN Reply!Empty ELSE unsent) /\ timer' = (timer /\ ~streaming)
      /\ UNCHANGED <<round, made, narrated, turn, buffer, first, failed, calls, ready, final, shown, replies, lost>>
  BY DEF Reply!StopAll, Reply!turns, Reply!chat
<1>2. Reply!TypeOK'
  BY <1>0, <1>1 DEF Reply!TypeOK
<1>3. Coroutines'
  BY <1>0, <1>1 DEF Coroutines, FinalResumes, Finals
<1>4. Delivery' /\ TextIsSomewhere' /\ Buffered'
  BY <1>0, <1>1, BufferedKept DEF Delivery, TextIsSomewhere, Reply!Whole
<1> QED
  BY <1>2, <1>3, <1>4 DEF ReplyInv

LEMMA ReplyInductive == Reply!Spec => []ReplyInv
<1>1. Reply!Init => ReplyInv
  <2> SUFFICES ASSUME Reply!Init PROVE ReplyInv
    OBVIOUS
  <2>1. Reply!Empty \in Reply!Text /\ <<>> \in Seq([flush : Reply!Flush, sent : {"true", "false", "wait"}, text : Reply!Text])
    BY EmptyIsText
  <2>2. Reply!TypeOK
    <3>1. round \in Nat /\ made \in Nat /\ replies \in 0..1
      BY DEF Reply!Init
    <3>4. buffer \in Reply!Text /\ unsent \in Reply!Text /\ shown \in Reply!Text
      BY <2>1 DEF Reply!Init
    <3>2. narrated \in BOOLEAN /\ streaming \in BOOLEAN /\ connected \in BOOLEAN /\ first \in BOOLEAN /\ failed \in BOOLEAN
          /\ stopped \in BOOLEAN /\ timer \in BOOLEAN /\ lost \in BOOLEAN
      BY DEF Reply!Init
    <3>3. /\ turn \in {"on", "ended", "completed", "failed"}
          /\ final \in {"idle", "flush", "decide", "send", "done"}
      BY DEF Reply!Init
    <3> QED
      BY <2>1, <3>1, <3>2, <3>3, <3>4 DEF Reply!Init, Reply!TypeOK
  <2>3. DOMAIN ready = {} /\ ready = <<>> /\ calls = {}
    BY DEF Reply!Init
  <2>4. Coroutines
    BY <2>3 DEF Coroutines, FinalResumes
  <2>5. Delivery /\ TextIsSomewhere /\ Buffered
    BY DEF Reply!Init, Delivery, TextIsSomewhere, Buffered, Reply!Empty
  <2> QED
    BY <2>2, <2>4, <2>5 DEF ReplyInv
<1>2. ReplyInv /\ [Reply!Next]_(Reply!vars) => ReplyInv'
  <2> SUFFICES ASSUME ReplyInv, [Reply!Next]_(Reply!vars) PROVE ReplyInv'
    OBVIOUS
  <2>1. CASE UNCHANGED Reply!vars
    BY <2>1 DEF Reply!vars, Reply!turns, Reply!stream, Reply!loop, Reply!chat, ReplyInv, Reply!TypeOK,
       Coroutines, FinalResumes, Finals, Delivery, TextIsSomewhere, Buffered, Reply!Whole
  <2> QED
    BY <2>1, DeltaStep, NarratesStep, TextEndStep, NextRoundStep, ReplyNeededStep, TimerFiresStep, GoOnStep, AnsweredStep, DecideStep,
       SendReplyStep, StreamStopsStep DEF Reply!Next
<1> QED
  BY <1>1, <1>2, PTL DEF Reply!Spec

\* ChannelManager's deliverFinal over StreamingEditor: a completed reply is in the
\* chat as a whole, at the end of the streamed message or as messages of its own,
\* unless the platform refused it, the channels were stopped, or it did not all come
\* as deltas and earlier rounds of the task had filled the buffer; for any number of
\* rounds, every length of their texts and every cap.
THEOREM RepliesAreWhole == Reply!Spec => []WholeReplyShown
<1>1. ReplyInv => WholeReplyShown
  BY DEF ReplyInv, Delivery, WholeReplyShown, Reply!WholeReplyShown
<1> QED
  BY <1>1, ReplyInductive, PTL

\* StreamingEditor.ts: "never overlaps API calls", whichever of update, timer and
\* deliverFinal flushes.
THEOREM CallsNeverOverlap == Reply!Spec => []Reply!NoOverlap
<1>1. ReplyInv => Reply!NoOverlap
  BY DEF ReplyInv, Coroutines, Reply!NoOverlap
<1> QED
  BY <1>1, ReplyInductive, PTL

-----------------------------------------------------------------------------
(* Channels.                                                               *)

At(p, c) == op[p] # None /\ op[p].at = c
StopsAll(p) == op[p] # None /\ op[p].kind = "stopAll"
Starts(p, c) == At(p, c) /\ op[p].kind \in {"start", "startAll"}

\* A channel no two operations were at at once, and whose stops went well: what is
\* at it is alone there and beside no other stop of all channels; it is down while it
\* is started, and once
\* a stop of all is done with it; otherwise it is up exactly when it is registered.
Listed(c) ==
    /\ \A p, q \in Op : At(p, c) /\ (At(q, c) \/ StopsAll(q)) => p = q
    /\ alive[c] \in {0, 1}
    /\ \A p \in Op : StopsAll(p) /\ At(p, c) => c \in op[p].done
    /\ \A p \in Op : Starts(p, c) => alive[c] = 0 /\ c \notin running
    /\ \A p \in Op : StopsAll(p) /\ c \in op[p].done /\ ~At(p, c) => alive[c] = 0
    /\ (\A p \in Op : ~Starts(p, c) /\ (StopsAll(p) /\ c \in op[p].done => At(p, c)))
         => (alive[c] = 1 <=> c \in running)

\* Only an operation on all channels goes on after an await.
GoesOn == \A p \in Op : op[p] # None /\ op[p].at = None => op[p].kind \in {"startAll", "stopAll"}

ChannelsInv == Chan!TypeOK /\ GoesOn /\ \A c \in Channel \ overlap : Listed(c)

LEMMA OperationIsNotNone == None \notin Chan!Operation
BY NoneIsNoOperation

\* An operation that is added, or takes another step.
LEMMA OperationRecord ==
    ASSUME NEW kind \in Chan!Kind, NEW done \in SUBSET Channel, NEW at \in Channel \cup {None},
           NEW reload \in BOOLEAN
    PROVE  LET r == [kind |-> kind, done |-> done, at |-> at, reload |-> reload]
           IN  r \in Chan!Operation /\ r # None
<1> DEFINE r == [kind |-> kind, done |-> done, at |-> at, reload |-> reload]
<1>1. r \in Chan!Operation
  BY DEF Chan!Operation
<1> HIDE DEF r
<1>2. r # None
  BY <1>1, OperationIsNotNone
<1> QED
  BY <1>1, <1>2 DEF r

LEMMA BeginAdds ==
    ASSUME Chan!TypeOK, NEW kind \in Chan!Kind, NEW at \in Channel \cup {None}, NEW reload \in BOOLEAN,
           Chan!Begin(kind, {}, at, reload)
    PROVE  /\ op' \in [Op -> Chan!Operation \cup {None}]
           /\ \E o \in Op :
                 /\ op[o] = None
                 /\ op'[o] # None /\ op'[o].kind = kind /\ op'[o].done = {} /\ op'[o].at = at
                 /\ \A p \in Op : p # o => op'[p] = op[p]
<1> DEFINE r == [kind |-> kind, done |-> {}, at |-> at, reload |-> reload]
<1>1. r \in Chan!Operation /\ r # None
  BY OperationRecord
<1>2. r.kind = kind /\ r.done = {} /\ r.at = at
  OBVIOUS
<1>3. PICK o \in Op : op[o] = None /\ op' = [op EXCEPT ![o] = r]
  BY DEF Chan!Begin, Chan!Free
<1> HIDE DEF r
<1>4. op'[o] = r /\ \A p \in Op : p # o => op'[p] = op[p]
  BY <1>3 DEF Chan!TypeOK
<1>5. op' \in [Op -> Chan!Operation \cup {None}]
  BY <1>1, <1>3 DEF Chan!TypeOK
<1> QED
  BY <1>1, <1>2, <1>3, <1>4, <1>5

LEMMA BeginsAt ==
    ASSUME Chan!TypeOK, NEW d \in Channel, NEW kind \in {"start", "stop"}, Chan!Begin(kind, {}, d, FALSE)
    PROVE  /\ op' \in [Op -> Chan!Operation \cup {None}]
           /\ \E o \in Op :
                 /\ op[o] = None
                 /\ op'[o] # None /\ op'[o].kind = kind /\ op'[o].done = {} /\ op'[o].at = d
                 /\ \A p \in Op : p # o => op'[p] = op[p]
<1> DEFINE r == [kind |-> kind, done |-> {}, at |-> d, reload |-> FALSE]
<1>1. r \in Chan!Operation
  BY DEF Chan!Operation, Chan!Kind
<1>2. r.kind = kind /\ r.done = {} /\ r.at = d
  OBVIOUS
<1>3. PICK o \in Op : op[o] = None /\ op' = [op EXCEPT ![o] = r]
  BY DEF Chan!Begin, Chan!Free
<1> HIDE DEF r
<1>4. r # None
  BY <1>1, OperationIsNotNone
<1>5. op'[o] = r /\ \A p \in Op : p # o => op'[p] = op[p]
  BY <1>3 DEF Chan!TypeOK
<1>6. op' \in [Op -> Chan!Operation \cup {None}]
  BY <1>1, <1>3 DEF Chan!TypeOK
<1> QED
  BY <1>2, <1>3, <1>4, <1>5, <1>6

\* Where an operation on all channels goes.
LEMMA AdvanceMoves ==
    ASSUME Chan!TypeOK, NEW o \in Op, Chan!Advance(o)
    PROVE  /\ op' \in [Op -> Chan!Operation \cup {None}]
           /\ \A p \in Op : p # o => op'[p] = op[p]
           /\ \/ \E c \in (IF op[o].kind = "startAll" THEN Channel \ running ELSE running) \ op[o].done :
                    /\ op'[o] # None /\ op'[o].kind = op[o].kind /\ op'[o].at = c
                    /\ op'[o].done = op[o].done \cup {c}
                    /\ Chan!Touch(o, c) /\ running' = running
              \/ /\ (IF op[o].kind = "startAll" THEN Channel \ running ELSE running) \subseteq op[o].done
                 /\ op'[o] # None => op'[o].kind = "startAll" /\ op'[o].at = None
                 /\ running' = IF op[o].kind = "stopAll" THEN {} ELSE running
                 /\ overlap' = overlap
<1> DEFINE left == (IF op[o].kind = "startAll" THEN Channel \ running ELSE running) \ op[o].done
<1>1. op[o] # None /\ op[o].at = None /\ op[o] \in Chan!Operation
  BY DEF Chan!Advance, Chan!TypeOK
<1>2. op[o].kind \in Chan!Kind /\ op[o].done \in SUBSET Channel /\ op[o].reload \in BOOLEAN
  BY <1>1 DEF Chan!Operation
<1>3. left \subseteq Channel
  BY DEF Chan!TypeOK
<1>4. CASE left # {}
  <2>1. PICK c \in left :
            /\ op' = [op EXCEPT ![o] = [op[o] EXCEPT !.at = c, !.done = op[o].done \cup {c}]]
            /\ Chan!Touch(o, c) /\ running' = running
    BY <1>4 DEF Chan!Advance
  <2> DEFINE r == [op[o] EXCEPT !.at = c, !.done = op[o].done \cup {c}]
  <2>2. r \in Chan!Operation /\ r.kind = op[o].kind /\ r.at = c /\ r.done = op[o].done \cup {c}
    BY <1>1, <1>2, <1>3 DEF Chan!Operation
  <2> HIDE DEF r
  <2>3. op' = [op EXCEPT ![o] = r]
    BY <2>1 DEF r
  <2>4. op'[o] = r /\ r # None /\ \A p \in Op : p # o => op'[p] = op[p]
    BY <2>2, <2>3, OperationIsNotNone DEF Chan!TypeOK
  <2>5. op' \in [Op -> Chan!Operation \cup {None}]
    BY <2>2, <2>3 DEF Chan!TypeOK
  <2> QED
    BY <2>1, <2>2, <2>4, <2>5
<1>5. CASE left = {}
  <2> DEFINE r == IF op[o].kind = "stopAll" /\ op[o].reload THEN [op[o] EXCEPT !.kind = "startAll", !.done = {}] ELSE None
  <2>1. /\ op' = [op EXCEPT ![o] = r]
        /\ running' = IF op[o].kind = "stopAll" THEN {} ELSE running
        /\ overlap' = overlap
    BY <1>5 DEF Chan!Advance
  <2>2. r \in Chan!Operation \cup {None} /\ (r # None => r.kind = "startAll" /\ r.at = None)
    BY <1>1, <1>2 DEF Chan!Operation, Chan!Kind
  <2> HIDE DEF r
  <2>3. op'[o] = r /\ \A p \in Op : p # o => op'[p] = op[p]
    BY <2>1 DEF Chan!TypeOK
  <2>4. op' \in [Op -> Chan!Operation \cup {None}]
    BY <2>1, <2>2 DEF Chan!TypeOK
  <2>5. (IF op[o].kind = "startAll" THEN Channel \ running ELSE running) \subseteq op[o].done
    BY <1>5
  <2> QED
    BY <2>1, <2>2, <2>3, <2>4, <2>5
<1> QED
  BY <1>4, <1>5

LEMMA ResumedTypes ==
    ASSUME Chan!TypeOK, NEW o \in Op, op[o] # None
    PROVE  /\ Chan!Resumed(o) \in Chan!Operation \cup {None}
           /\ Chan!Resumed(o) # None =>
                 /\ op[o].kind \in {"startAll", "stopAll"}
                 /\ Chan!Resumed(o).kind = op[o].kind /\ Chan!Resumed(o).at = None
                 /\ Chan!Resumed(o).done = op[o].done
           /\ op[o].kind \in {"startAll", "stopAll"} => Chan!Resumed(o) # None
<1>1. op[o] \in Chan!Operation
  BY DEF Chan!TypeOK
<1> DEFINE r == [op[o] EXCEPT !.at = None]
<1>2. r \in Chan!Operation /\ r.kind = op[o].kind /\ r.at = None /\ r.done = op[o].done
  BY <1>1 DEF Chan!Operation
<1> HIDE DEF r
<1>3. r # None
  BY <1>2, OperationIsNotNone
<1>4. Chan!Resumed(o) = IF op[o].kind \in {"startAll", "stopAll"} THEN r ELSE None
  BY DEF Chan!Resumed, r
<1> QED
  BY <1>2, <1>3, <1>4

\* For c, p does what it did.
Alike(p, c) ==
    /\ At(p, c)' <=> At(p, c)
    /\ At(p, c) => op'[p].kind = op[p].kind
    /\ (StopsAll(p)' /\ c \in op'[p].done) <=> (StopsAll(p) /\ c \in op[p].done)
    /\ StopsAll(p)' => StopsAll(p) \/ \A q \in Op : ~At(q, c)

LEMMA AlikeListed ==
    ASSUME NEW c \in Channel, Listed(c), alive'[c] = alive[c], c \in running' <=> c \in running,
           \A p \in Op : Alike(p, c)
    PROVE  Listed(c)'
<1>1. \A p \in Op : Starts(p, c)' <=> Starts(p, c)
  BY DEF Alike, Starts, At
<1>2. \A p, q \in Op : (At(p, c) /\ (At(q, c) \/ StopsAll(q)) => p = q)'
  BY DEF Alike, Listed
<1>3. \A p \in Op : (StopsAll(p) /\ At(p, c) => c \in op[p].done)'
  <2> SUFFICES ASSUME NEW p \in Op, StopsAll(p)', At(p, c)' PROVE c \in op'[p].done
    OBVIOUS
  <2>1. At(p, c) /\ StopsAll(p)
    BY DEF Alike, StopsAll, At
  <2> QED
    BY <2>1 DEF Alike, Listed
<1>4. \A p \in Op : (StopsAll(p) /\ c \in op[p].done /\ ~At(p, c) => alive[c] = 0)'
  BY DEF Alike, Listed
<1>5. (\A p \in Op : ~Starts(p, c)' /\ (StopsAll(p)' /\ c \in op'[p].done => At(p, c)'))
        => (alive'[c] = 1 <=> c \in running')
  BY <1>1 DEF Alike, Listed
<1> QED
  BY <1>1, <1>2, <1>3, <1>4, <1>5 DEF Listed

\* An operation comes to a channel that nothing else is at or stops.
LEMMA TakesUp ==
    ASSUME NEW c \in Channel, Listed(c), alive' = alive, running' = running, NEW o \in Op,
           \A p \in Op : p # o => ~At(p, c) /\ ~StopsAll(p) /\ op'[p] = op[p],
           ~At(o, c), StopsAll(o) => c \notin op[o].done,
           op'[o] # None, op'[o].at = c, op'[o].kind = "stopAll" => c \in op'[o].done,
           op'[o].kind \in {"start", "startAll"} => c \notin running
    PROVE  Listed(c)'
<1>1. alive[c] \in {0, 1} /\ (alive[c] = 1 <=> c \in running)
  BY DEF Listed, Starts
<1>2. \A p \in Op : p # o => ~At(p, c)' /\ ~StopsAll(p)'
  BY DEF At, StopsAll
<1>3. At(o, c)'
  BY DEF At
<1>4. Starts(o, c)' => alive[c] = 0 /\ c \notin running
  BY <1>1 DEF Starts
<1>5. StopsAll(o)' => c \in op'[o].done
  BY DEF StopsAll
<1> QED
  BY <1>1, <1>2, <1>3, <1>4, <1>5 DEF Listed, Starts

LEMMA NotBusy ==
    ASSUME NEW o \in Op \cup {None}, NEW c \in Channel, c \notin overlap', Chan!Touch(o, c)
    PROVE  \A p \in Op : p # o => ~At(p, c) /\ ~StopsAll(p)
<1>1. ~Chan!Busy(o, c)
  BY DEF Chan!Touch
<1> QED
  BY <1>1 DEF Chan!Busy, At, StopsAll

LEMMA StartStep ==
    ASSUME ChannelsInv, NEW d \in Channel, Chan!Start(d)
    PROVE  ChannelsInv'
<1>0. Chan!TypeOK /\ GoesOn /\ None \notin Op
  BY ServicesAssumption DEF ChannelsInv
<1>1. /\ UNCHANGED <<alive, running, disposed>> /\ Chan!Touch(None, d)
      /\ op' = op \/ (d \notin running /\ Chan!Begin("start", {}, d, FALSE))
      /\ overlap \subseteq overlap' /\ overlap' \subseteq Channel
  BY <1>0 DEF Chan!Start, Chan!Touch, Chan!TypeOK
<1>2. CASE op' = op
  <2>1. \A c \in Channel, p \in Op : Alike(p, c)
    BY <1>2 DEF Alike, At, StopsAll
  <2>2. \A c \in Channel \ overlap' : Listed(c)'
    BY <1>1, <2>1, AlikeListed DEF ChannelsInv
  <2> QED
    BY <1>0, <1>1, <1>2, <2>2 DEF ChannelsInv, Chan!TypeOK, GoesOn
<1>3. CASE d \notin running /\ Chan!Begin("start", {}, d, FALSE)
  <2>1. op' \in [Op -> Chan!Operation \cup {None}]
    BY <1>0, <1>3, BeginsAt
  <2>2. PICK o \in Op :
            /\ op[o] = None
            /\ op'[o] # None /\ op'[o].kind = "start" /\ op'[o].done = {} /\ op'[o].at = d
            /\ \A p \in Op : p # o => op'[p] = op[p]
    BY <1>0, <1>3, BeginsAt
  <2>3. d # None
    BY ServicesAssumption
  <2>4. GoesOn'
    BY <1>0, <2>2, <2>3 DEF GoesOn
  <2>5. ASSUME NEW c \in Channel \ overlap' PROVE Listed(c)'
    <3>1. Listed(c)
      BY <1>1 DEF ChannelsInv
    <3>2. CASE c = d
      <4>1. \A p \in Op : ~At(p, c) /\ ~StopsAll(p)
        BY <1>0, <1>1, <2>5, <3>2, NotBusy
      <4> QED
        BY <1>1, <1>3, <2>2, <3>1, <3>2, <4>1, TakesUp
    <3>3. CASE c # d
      <4>1. \A p \in Op : Alike(p, c)
        BY <2>2, <3>3 DEF Alike, At, StopsAll
      <4> QED
        BY <1>1, <3>1, <4>1, AlikeListed
    <3> QED
      BY <3>2, <3>3
  <2> QED
    BY <1>0, <1>1, <2>1, <2>4, <2>5 DEF ChannelsInv, Chan!TypeOK
<1> QED
  BY <1>1, <1>2, <1>3

LEMMA StopStep ==
    ASSUME ChannelsInv, NEW d \in Channel, Chan!Stop(d)
    PROVE  ChannelsInv'
<1>0. Chan!TypeOK /\ GoesOn /\ None \notin Op
  BY ServicesAssumption DEF ChannelsInv
<1>1. /\ UNCHANGED <<alive, running, disposed>> /\ Chan!Touch(None, d)
      /\ Chan!Begin("stop", {}, d, FALSE)
      /\ overlap \subseteq overlap' /\ overlap' \subseteq Channel
  BY <1>0 DEF Chan!Stop, Chan!Touch, Chan!TypeOK
<1>2. op' \in [Op -> Chan!Operation \cup {None}]
  BY <1>0, <1>1, BeginsAt
<1>3. PICK o \in Op :
          /\ op[o] = None
          /\ op'[o] # None /\ op'[o].kind = "stop" /\ op'[o].done = {} /\ op'[o].at = d
          /\ \A p \in Op : p # o => op'[p] = op[p]
  BY <1>0, <1>1, BeginsAt
<1>4. d # None
  BY ServicesAssumption
<1>5. GoesOn'
  BY <1>0, <1>3, <1>4 DEF GoesOn
<1>6. ASSUME NEW c \in Channel \ overlap' PROVE Listed(c)'
  <2>1. Listed(c)
    BY <1>1 DEF ChannelsInv
  <2>2. CASE c = d
    <3>1. \A p \in Op : ~At(p, c) /\ ~StopsAll(p)
      BY <1>0, <1>1, <1>6, <2>2, NotBusy
    <3> QED
      BY <1>1, <1>3, <2>1, <2>2, <3>1, TakesUp
  <2>3. CASE c # d
    <3>1. \A p \in Op : Alike(p, c)
      BY <1>3, <2>3 DEF Alike, At, StopsAll
    <3> QED
      BY <1>1, <2>1, <3>1, AlikeListed
  <2> QED
    BY <2>2, <2>3
<1> QED
  BY <1>0, <1>1, <1>2, <1>5, <1>6 DEF ChannelsInv, Chan!TypeOK

\* Operations on all channels begin at none of them; a stop of all overlaps with
\* whatever is awaited.
LEMMA AllBegin ==
    ASSUME ChannelsInv, op' \in [Op -> Chan!Operation \cup {None}], disposed' \in BOOLEAN,
           UNCHANGED <<alive, running>>, overlap \subseteq overlap', overlap' \subseteq Channel,
           \A p \in Op :
               \/ op'[p] = op[p]
               \/ /\ op[p] = None /\ op'[p] # None /\ op'[p].at = None /\ op'[p].done = {}
                  /\ op'[p].kind = "startAll" \/ (op'[p].kind = "stopAll" /\ Chan!Awaited \subseteq overlap')
    PROVE  ChannelsInv'
<1>0. Chan!TypeOK /\ GoesOn
  BY DEF ChannelsInv
<1>1. GoesOn'
  BY <1>0 DEF GoesOn
<1>2. ASSUME NEW c \in Channel \ overlap' PROVE Listed(c)'
  <2>1. Listed(c) /\ c # None
    BY ServicesAssumption DEF ChannelsInv
  <2>2. Chan!Awaited \subseteq overlap' => \A q \in Op : ~At(q, c)
    BY <1>2 DEF Chan!Awaited, At
  <2>3. ASSUME NEW p \in Op PROVE Alike(p, c)
    <3>1. CASE op'[p] = op[p]
      BY <3>1 DEF Alike, At, StopsAll
    <3>2. CASE op'[p] # op[p]
      BY <2>1, <2>2, <3>2 DEF Alike, At, StopsAll
    <3> QED
      BY <3>1, <3>2
  <2> QED
    BY <2>1, <2>3, AlikeListed
<1> QED
  BY <1>0, <1>1, <1>2 DEF ChannelsInv, Chan!TypeOK

LEMMA StartAllStep == ASSUME ChannelsInv, Chan!StartAll PROVE ChannelsInv'
<1>0. Chan!TypeOK
  BY DEF ChannelsInv
<1>1. Chan!Begin("startAll", {}, None, FALSE) /\ UNCHANGED <<alive, running, disposed, overlap>>
  BY DEF Chan!StartAll
<1>2. op' \in [Op -> Chan!Operation \cup {None}]
  BY <1>0, <1>1, BeginAdds DEF Chan!Kind
<1>3. PICK o \in Op :
          /\ op[o] = None
          /\ op'[o] # None /\ op'[o].kind = "startAll" /\ op'[o].done = {} /\ op'[o].at = None
          /\ \A p \in Op : p # o => op'[p] = op[p]
  BY <1>0, <1>1, BeginAdds DEF Chan!Kind
<1>4. disposed' \in BOOLEAN /\ overlap \subseteq overlap' /\ overlap' \subseteq Channel
  BY <1>0, <1>1 DEF Chan!TypeOK
<1> QED
  BY <1>1, <1>2, <1>3, <1>4, AllBegin

LEMMA StopAllStep ==
    ASSUME ChannelsInv, NEW reload \in BOOLEAN, Chan!StopAll(reload)
    PROVE  ChannelsInv'
<1>0. Chan!TypeOK
  BY DEF ChannelsInv
<1>1. /\ Chan!Begin("stopAll", {}, None, reload) /\ UNCHANGED <<alive, running>>
      /\ disposed' = TRUE /\ overlap' = overlap \cup Chan!Awaited
  BY DEF Chan!StopAll
<1>2. op' \in [Op -> Chan!Operation \cup {None}]
  BY <1>0, <1>1, BeginAdds DEF Chan!Kind
<1>3. PICK o \in Op :
          /\ op[o] = None
          /\ op'[o] # None /\ op'[o].kind = "stopAll" /\ op'[o].done = {} /\ op'[o].at = None
          /\ \A p \in Op : p # o => op'[p] = op[p]
  BY <1>0, <1>1, BeginAdds DEF Chan!Kind
<1>4. /\ disposed' \in BOOLEAN /\ overlap \subseteq overlap' /\ overlap' \subseteq Channel
      /\ Chan!Awaited \subseteq overlap'
  BY <1>0, <1>1 DEF Chan!TypeOK, Chan!Awaited
<1> QED
  BY <1>1, <1>2, <1>3, <1>4, AllBegin

LEMMA SecondLoginStep == ASSUME ChannelsInv, Chan!SecondLogin PROVE ChannelsInv'
<1>0. Chan!TypeOK
  BY DEF ChannelsInv
<1> DEFINE Fresh(kind) == [kind |-> kind, done |-> {}, at |-> None, reload |-> FALSE]
<1>1. PICK o \in Op : op[o] = None /\ \E p \in Op :
          p # o /\ op[p] = None /\ op' = [op EXCEPT ![o] = Fresh("stopAll"), ![p] = Fresh("startAll")]
  BY DEF Chan!SecondLogin, Chan!Free
<1>2. PICK p \in Op :
          p # o /\ op[p] = None /\ op' = [op EXCEPT ![o] = Fresh("stopAll"), ![p] = Fresh("startAll")]
  BY <1>1
<1>3. /\ Fresh("stopAll") \in Chan!Operation /\ Fresh("stopAll") # None
      /\ Fresh("startAll") \in Chan!Operation /\ Fresh("startAll") # None
  BY OperationRecord DEF Chan!Kind
<1>4. \A kind : Fresh(kind).kind = kind /\ Fresh(kind).done = {} /\ Fresh(kind).at = None
  OBVIOUS
<1> HIDE DEF Fresh
<1>5. op'[o] = Fresh("stopAll") /\ op'[p] = Fresh("startAll") /\ \A q \in Op \ {o, p} : op'[q] = op[q]
  BY <1>0, <1>2 DEF Chan!TypeOK
<1>6. op' \in [Op -> Chan!Operation \cup {None}]
  BY <1>0, <1>2, <1>3 DEF Chan!TypeOK
<1>7. /\ disposed' \in BOOLEAN /\ overlap \subseteq overlap' /\ overlap' \subseteq Channel
      /\ Chan!Awaited \subseteq overlap' /\ UNCHANGED <<alive, running>>
  BY <1>0 DEF Chan!SecondLogin, Chan!TypeOK, Chan!Awaited
<1>8. \A q \in Op :
          \/ op'[q] = op[q]
          \/ /\ op[q] = None /\ op'[q] # None /\ op'[q].at = None /\ op'[q].done = {}
             /\ op'[q].kind = "startAll" \/ (op'[q].kind = "stopAll" /\ Chan!Awaited \subseteq overlap')
  <2> SUFFICES ASSUME NEW q \in Op, op'[q] # op[q]
               PROVE  /\ op[q] = None /\ op'[q] # None /\ op'[q].at = None /\ op'[q].done = {}
                      /\ op'[q].kind = "startAll" \/ (op'[q].kind = "stopAll" /\ Chan!Awaited \subseteq overlap')
    OBVIOUS
  <2>1. CASE q = o
    <3>1. op'[q] = Fresh("stopAll") /\ op[q] = None
      BY <1>1, <1>5, <2>1
    <3>2. op'[q].kind = "stopAll" /\ op'[q].at = None /\ op'[q].done = {}
      BY <1>4, <3>1
    <3> QED
      BY <1>3, <1>7, <3>1, <3>2
  <2>2. CASE q = p
    BY <1>2, <1>3, <1>4, <1>5, <2>2
  <2> QED
    BY <1>5, <2>1, <2>2
<1> QED
  BY <1>6, <1>7, <1>8, AllBegin

\* The end of a stop of all channels: what it had not come to was not registered,
\* and what it had come to is down.
LEMMA StopAllEnds ==
    ASSUME NEW c \in Channel, Listed(c), alive' = alive, running' = {}, NEW o \in Op, StopsAll(o), ~At(o, c),
           running \subseteq op[o].done, op'[o] # None => op'[o].kind = "startAll" /\ op'[o].at = None,
           c # None, \A p \in Op : p # o => op'[p] = op[p]
    PROVE  Listed(c)'
<1>1. \A p \in Op : ~At(p, c)
  BY DEF Listed
<1>2. \A p \in Op : ~At(p, c)' /\ ~Starts(p, c)'
  BY <1>1 DEF At, Starts
<1>3. ~StopsAll(o)' /\ \A p \in Op : p # o => (StopsAll(p)' <=> StopsAll(p))
  BY DEF StopsAll
<1>4. \A p \in Op : StopsAll(p)' /\ c \in op'[p].done => StopsAll(p) /\ c \in op[p].done
  BY <1>3
<1>5. \A p \in Op : StopsAll(p)' /\ c \in op'[p].done => alive[c] = 0
  BY <1>1, <1>4 DEF Listed
<1>6. ASSUME \A p \in Op : ~(StopsAll(p)' /\ c \in op'[p].done) PROVE alive[c] = 0
  <2>1. CASE c \in op[o].done
    BY <2>1 DEF Listed
  <2>2. CASE c \notin op[o].done
    <3>1. \A p \in Op : ~(StopsAll(p) /\ c \in op[p].done)
      BY <1>3, <1>6, <2>2
    <3>2. \A p \in Op : ~Starts(p, c)
      BY <1>1 DEF Starts
    <3>3. alive[c] = 1 <=> c \in running
      BY <3>1, <3>2 DEF Listed
    <3> QED
      BY <2>2, <3>3 DEF Listed
  <2> QED
    BY <2>1, <2>2
<1>7. alive[c] \in {0, 1}
  BY DEF Listed
<1> QED
  BY <1>2, <1>5, <1>6, <1>7 DEF Listed

LEMMA AdvanceStep ==
    ASSUME ChannelsInv, NEW o \in Op, Chan!Advance(o)
    PROVE  ChannelsInv'
<1>0. /\ Chan!TypeOK /\ GoesOn /\ op[o] # None /\ op[o].at = None /\ alive' = alive /\ disposed' = disposed
      /\ op[o].kind \in {"startAll", "stopAll"}
  BY DEF ChannelsInv, Chan!Advance, GoesOn
<1>1. /\ op' \in [Op -> Chan!Operation \cup {None}]
      /\ \A p \in Op : p # o => op'[p] = op[p]
  BY <1>0, AdvanceMoves
<1> DEFINE domain == IF op[o].kind = "startAll" THEN Channel \ running ELSE running
<1>2. \/ \E d \in domain \ op[o].done :
            /\ op'[o] # None /\ op'[o].kind = op[o].kind /\ op'[o].at = d
            /\ op'[o].done = op[o].done \cup {d}
            /\ Chan!Touch(o, d) /\ running' = running
      \/ /\ domain \subseteq op[o].done
         /\ op'[o] # None => op'[o].kind = "startAll" /\ op'[o].at = None
         /\ running' = IF op[o].kind = "stopAll" THEN {} ELSE running
         /\ overlap' = overlap
  BY <1>0, AdvanceMoves
<1>3. domain \subseteq Channel
  BY <1>0 DEF Chan!TypeOK
<1>4. ASSUME NEW d \in domain \ op[o].done,
             op'[o] # None, op'[o].kind = op[o].kind, op'[o].at = d, op'[o].done = op[o].done \cup {d},
             Chan!Touch(o, d), running' = running
      PROVE  ChannelsInv'
  <2>1. d \in Channel /\ d # None /\ overlap \subseteq overlap' /\ overlap' \subseteq Channel
    BY <1>0, <1>3, <1>4, ServicesAssumption DEF Chan!Touch, Chan!TypeOK
  <2>2. GoesOn'
    BY <1>0, <1>1, <1>4, <2>1 DEF GoesOn
  <2>3. ASSUME NEW c \in Channel \ overlap' PROVE Listed(c)'
    <3>1. Listed(c) /\ c # None
      BY <2>1, ServicesAssumption DEF ChannelsInv
    <3>2. CASE c = d
      <4>1. \A p \in Op : p # o => ~At(p, c) /\ ~StopsAll(p) /\ op'[p] = op[p]
        BY <1>1, <1>4, <2>3, <3>2, NotBusy
      <4>2. ~At(o, c) /\ c \notin op[o].done
        BY <1>0, <1>4, <3>1, <3>2 DEF At
      <4>3. op'[o].kind \in {"start", "startAll"} => c \notin running
        BY <1>0, <1>4, <3>2
      <4> QED
        BY <1>0, <1>4, <3>1, <3>2, <4>1, <4>2, <4>3, TakesUp
    <3>3. CASE c # d
      <4>1. ASSUME NEW p \in Op PROVE Alike(p, c)
        <5>1. CASE p = o
          BY <1>0, <1>4, <3>1, <3>3, <5>1 DEF Alike, At, StopsAll
        <5>2. CASE p # o
          BY <1>1, <5>2 DEF Alike, At, StopsAll
        <5> QED
          BY <5>1, <5>2
      <4> QED
        BY <1>0, <1>4, <3>1, <4>1, AlikeListed
    <3> QED
      BY <3>2, <3>3
  <2> QED
    BY <1>0, <1>1, <1>4, <2>1, <2>2, <2>3 DEF ChannelsInv, Chan!TypeOK
<1>5. ASSUME domain \subseteq op[o].done,
             op'[o] # None => op'[o].kind = "startAll" /\ op'[o].at = None,
             running' = IF op[o].kind = "stopAll" THEN {} ELSE running,
             overlap' = overlap
      PROVE  ChannelsInv'
  <2>1. GoesOn'
    BY <1>0, <1>1, <1>5 DEF GoesOn
  <2>2. ASSUME NEW c \in Channel \ overlap' PROVE Listed(c)'
    <3>1. Listed(c) /\ c # None /\ ~At(o, c)
      BY <1>0, <1>5, ServicesAssumption DEF ChannelsInv, At
    <3>2. CASE op[o].kind = "stopAll"
      <4>1. StopsAll(o) /\ running \subseteq op[o].done /\ running' = {}
        BY <1>0, <1>5, <3>2 DEF StopsAll
      <4> QED
        BY <1>0, <1>1, <1>5, <3>1, <4>1, StopAllEnds
    <3>3. CASE op[o].kind # "stopAll"
      <4>1. ASSUME NEW p \in Op PROVE Alike(p, c)
        <5>1. CASE p = o
          BY <1>0, <1>5, <3>1, <3>3, <5>1 DEF Alike, At, StopsAll
        <5>2. CASE p # o
          BY <1>1, <5>2 DEF Alike, At, StopsAll
        <5> QED
          BY <5>1, <5>2
      <4> QED
        BY <1>0, <1>5, <3>1, <3>3, <4>1, AlikeListed
    <3> QED
      BY <3>2, <3>3
  <2>3. running' \subseteq Channel
    BY <1>0, <1>5 DEF Chan!TypeOK
  <2> QED
    BY <1>0, <1>1, <1>5, <2>1, <2>2, <2>3 DEF ChannelsInv, Chan!TypeOK
<1> HIDE DEF domain
<1> QED
  BY <1>2, <1>4, <1>5

LEMMA StartedStep ==
    ASSUME ChannelsInv, NEW o \in Op, Chan!Started(o)
    PROVE  ChannelsInv'
<1> DEFINE d == op[o].at
<1>0. /\ Chan!TypeOK /\ GoesOn /\ op[o] # None /\ op[o].kind \in {"start", "startAll"}
      /\ UNCHANGED <<disposed, overlap>> /\ op' = [op EXCEPT ![o] = Chan!Resumed(o)]
  BY DEF ChannelsInv, Chan!Started
<1>1. op[o] \in Chan!Operation /\ d \in Channel
  <2>1. op[o] \in Chan!Operation /\ op[o].at # None
    BY <1>0 DEF Chan!TypeOK, Chan!Started, Chan!Quiet
  <2> QED
    BY <2>1 DEF Chan!Operation
<1>2. \/ alive[d] < MaxInstances /\ alive' = [alive EXCEPT ![d] = alive[d] + 1] /\ running' = running \cup {d}
      \/ alive' = alive /\ running' = running
  BY DEF Chan!Started
<1>3. /\ op'[o] # None => op'[o].kind = op[o].kind /\ op'[o].at = None /\ op'[o].kind = "startAll"
      /\ \A p \in Op : p # o => op'[p] = op[p]
      /\ op' \in [Op -> Chan!Operation \cup {None}]
  <2>1. op'[o] = Chan!Resumed(o) /\ \A p \in Op : p # o => op'[p] = op[p]
    BY <1>0 DEF Chan!TypeOK
  <2>2. op' \in [Op -> Chan!Operation \cup {None}]
    BY <1>0, ResumedTypes DEF Chan!TypeOK
  <2> QED
    BY <1>0, <2>1, <2>2, ResumedTypes
<1> HIDE DEF d
<1>4. GoesOn'
  BY <1>0, <1>3 DEF GoesOn
<1>5. alive' \in [Channel -> 0..MaxInstances] /\ running' \subseteq Channel
  <2>1. alive[d] \in 0..MaxInstances
    BY <1>0, <1>1 DEF Chan!TypeOK
  <2>2. alive[d] < MaxInstances => alive[d] + 1 \in 0..MaxInstances
    BY <2>1, ServicesAssumption
  <2> QED
    BY <1>0, <1>1, <1>2, <2>2 DEF Chan!TypeOK
<1>6. ASSUME NEW c \in Channel \ overlap' PROVE Listed(c)'
  <2>1. Listed(c) /\ c # None
    BY <1>0, <1>6, ServicesAssumption DEF ChannelsInv
  <2>2. CASE c = d
    <3>1. At(o, c) /\ ~StopsAll(o) /\ Starts(o, c)
      BY <1>0, <2>2 DEF At, StopsAll, Starts, d
    <3>2. \A p \in Op : ~StopsAll(p) /\ (p # o => ~At(p, c))
      BY <2>1, <3>1 DEF Listed
    <3>3. alive[c] = 0 /\ c \notin running
      BY <2>1, <3>1 DEF Listed
    <3>4. \A p \in Op : ~StopsAll(p)' /\ ~At(p, c)' /\ ~Starts(p, c)'
      BY <1>3, <2>1, <3>2 DEF StopsAll, At, Starts
    <3>5. (alive'[c] = 1 /\ c \in running') \/ (alive'[c] = 0 /\ c \notin running')
      BY <1>0, <1>2, <2>2, <3>3 DEF Chan!TypeOK
    <3> QED
      BY <3>4, <3>5 DEF Listed
  <2>3. CASE c # d
    <3>1. ASSUME NEW p \in Op PROVE Alike(p, c)
      <4>1. CASE p = o
        BY <1>0, <1>3, <2>1, <2>3, <4>1 DEF Alike, At, StopsAll, d
      <4>2. CASE p # o
        BY <1>3, <4>2 DEF Alike, At, StopsAll
      <4> QED
        BY <4>1, <4>2
    <3>2. alive'[c] = alive[c] /\ (c \in running' <=> c \in running)
      BY <1>0, <1>2, <2>3 DEF Chan!TypeOK
    <3> QED
      BY <2>1, <3>1, <3>2, AlikeListed
  <2> QED
    BY <2>2, <2>3
<1> QED
  BY <1>0, <1>3, <1>4, <1>5, <1>6 DEF ChannelsInv, Chan!TypeOK

LEMMA StoppedStep ==
    ASSUME ChannelsInv, NEW o \in Op, Chan!Stopped(o)
    PROVE  ChannelsInv'
<1> DEFINE d == op[o].at
           single == op[o].kind = "stop"
<1>0. /\ Chan!TypeOK /\ GoesOn /\ op[o] # None /\ op[o].kind \in {"stop", "stopAll"}
      /\ disposed' = disposed
  BY DEF ChannelsInv, Chan!Stopped
<1>1. op[o] \in Chan!Operation /\ d \in Channel
  <2>1. op[o] \in Chan!Operation /\ op[o].at # None
    BY <1>0 DEF Chan!TypeOK, Chan!Stopped, Chan!Quiet
  <2> QED
    BY <2>1 DEF Chan!Operation
<1>2. /\ \/ alive' = [alive EXCEPT ![d] = IF alive[d] = 0 THEN 0 ELSE alive[d] - 1] /\ overlap' = overlap
         \/ alive' = alive /\ overlap' = overlap \cup {d}
      /\ running' = IF single THEN running \ {d} ELSE running
      /\ op' = [p \in Op |-> CASE p = o -> Chan!Resumed(o)
                               [] p # o /\ single /\ op[p] # None /\ op[p].kind = "stopAll" ->
                                      [op[p] EXCEPT !.done = op[p].done \ {d}]
                               [] OTHER -> op[p]]
  BY DEF Chan!Stopped
<1>3. /\ op'[o] # None => op'[o].kind = "stopAll" /\ op'[o].at = None /\ op'[o].done = op[o].done
      /\ op'[o] = None <=> single
      /\ op'[o] \in Chan!Operation \cup {None}
  <2>1. op'[o] = Chan!Resumed(o)
    BY <1>2
  <2>2. single => Chan!Resumed(o) = None
    BY DEF Chan!Resumed
  <2> QED
    BY <1>0, <2>1, <2>2, ResumedTypes
<1>4. ASSUME NEW p \in Op, p # o
      PROVE  /\ op'[p] \in Chan!Operation \cup {None} /\ (op'[p] = None <=> op[p] = None)
             /\ op[p] # None => /\ op'[p].kind = op[p].kind /\ op'[p].at = op[p].at
                                /\ op'[p].done = op[p].done \/ op'[p].done = op[p].done \ {d}
  <2>1. CASE single /\ op[p] # None /\ op[p].kind = "stopAll"
    <3> DEFINE r == [op[p] EXCEPT !.done = op[p].done \ {d}]
    <3>1. op'[p] = r
      BY <1>2, <1>4, <2>1
    <3>2. op[p] \in Chan!Operation
      BY <1>0, <2>1 DEF Chan!TypeOK
    <3>3. r \in Chan!Operation /\ r.kind = op[p].kind /\ r.at = op[p].at /\ r.done = op[p].done \ {d}
      BY <3>2 DEF Chan!Operation
    <3> HIDE DEF r
    <3>4. r # None
      BY <3>3, OperationIsNotNone
    <3> QED
      BY <2>1, <3>1, <3>3, <3>4
  <2>2. CASE ~(single /\ op[p] # None /\ op[p].kind = "stopAll")
    <3>1. op'[p] = op[p]
      BY <1>2, <1>4, <2>2
    <3> QED
      BY <1>0, <3>1 DEF Chan!TypeOK
  <2> QED
    BY <2>1, <2>2
<1>5. op' \in [Op -> Chan!Operation \cup {None}]
  <2>1. op' = [p \in Op |-> op'[p]]
    BY <1>2
  <2> QED
    BY <1>3, <1>4, <2>1
<1> HIDE DEF d
<1>6. GoesOn'
  BY <1>0, <1>3, <1>4 DEF GoesOn
<1>7. /\ alive' \in [Channel -> 0..MaxInstances] /\ running' \subseteq Channel
      /\ overlap \subseteq overlap' /\ overlap' \subseteq Channel
  <2> DEFINE v == IF alive[d] = 0 THEN 0 ELSE alive[d] - 1
  <2>1. alive[d] \in 0..MaxInstances
    BY <1>0, <1>1 DEF Chan!TypeOK
  <2>2. v \in 0..MaxInstances
    BY <2>1, ServicesAssumption
  <2>3. alive' = [alive EXCEPT ![d] = v] \/ alive' = alive
    BY <1>2
  <2> HIDE DEF v
  <2>4. alive' \in [Channel -> 0..MaxInstances]
    BY <1>0, <2>2, <2>3 DEF Chan!TypeOK
  <2> QED
    BY <1>0, <1>1, <1>2, <2>4 DEF Chan!TypeOK
<1>8. ASSUME NEW c \in Channel \ overlap' PROVE Listed(c)'
  <2>1. Listed(c) /\ c # None
    BY <1>7, <1>8, ServicesAssumption DEF ChannelsInv
  <2>2. CASE c = d
    <3>1. At(o, c) /\ (StopsAll(o) <=> ~single)
      BY <1>0, <2>2 DEF At, StopsAll, d
    <3>2. \A p \in Op : p # o => ~StopsAll(p) /\ ~At(p, c)
      BY <2>1, <3>1 DEF Listed
    <3>3. \A p \in Op : p # o => ~StopsAll(p)' /\ ~At(p, c)'
      BY <1>4, <3>2 DEF StopsAll, At
    <3>4. ~At(o, c)' /\ \A p \in Op : ~Starts(p, c)'
      BY <1>3, <2>1, <3>3 DEF Starts, At
    <3>5. alive'[c] = 0
      <4>1. alive[c] \in {0, 1}
        BY <2>1 DEF Listed
      <4>2. alive' = [alive EXCEPT ![d] = IF alive[d] = 0 THEN 0 ELSE alive[d] - 1]
        BY <1>2, <1>8, <2>2
      <4> QED
        BY <1>0, <2>2, <4>1, <4>2 DEF Chan!TypeOK
    <3>6. CASE single
      <4>1. ~StopsAll(o)' /\ c \notin running'
        BY <1>2, <1>3, <2>2, <3>6 DEF StopsAll
      <4> QED
        BY <3>3, <3>4, <3>5, <4>1 DEF Listed
    <3>7. CASE ~single
      <4>1. StopsAll(o)' /\ c \in op'[o].done
        BY <1>3, <2>1, <3>1, <3>7 DEF StopsAll, Listed
      <4> QED
        BY <3>3, <3>4, <3>5, <4>1 DEF Listed
    <3> QED
      BY <3>6, <3>7
  <2>3. CASE c # d
    <3>1. ASSUME NEW p \in Op PROVE Alike(p, c)
      <4>1. CASE p = o
        BY <1>0, <1>3, <2>1, <2>3, <4>1 DEF Alike, At, StopsAll, d
      <4>2. CASE p # o
        BY <1>4, <2>3, <4>2 DEF Alike, At, StopsAll
      <4> QED
        BY <4>1, <4>2
    <3>2. alive'[c] = alive[c] /\ (c \in running' <=> c \in running)
      BY <1>0, <1>2, <2>3 DEF Chan!TypeOK
    <3> QED
      BY <2>1, <3>1, <3>2, AlikeListed
  <2> QED
    BY <2>2, <2>3
<1> QED
  BY <1>0, <1>5, <1>6, <1>7, <1>8 DEF ChannelsInv, Chan!TypeOK

LEMMA ChannelsInductive == Chan!Spec => []ChannelsInv
<1>1. Chan!Init => ChannelsInv
  <2> SUFFICES ASSUME Chan!Init PROVE ChannelsInv
    OBVIOUS
  <2>1. Chan!TypeOK
    <3>1. 0 \in 0..MaxInstances
      BY ServicesAssumption
    <3>2. alive \in [Channel -> 0..MaxInstances]
      BY <3>1 DEF Chan!Init
    <3>3. op \in [Op -> Chan!Operation \cup {None}]
      BY DEF Chan!Init
    <3> QED
      BY <3>2, <3>3 DEF Chan!Init, Chan!TypeOK
  <2>2. \A p \in Op : op[p] = None
    BY DEF Chan!Init
  <2>3. \A c \in Channel : Listed(c)
    BY <2>2 DEF Chan!Init, Listed, At, Starts, StopsAll
  <2> QED
    BY <2>1, <2>2, <2>3 DEF ChannelsInv, GoesOn
<1>2. ChannelsInv /\ [Chan!Next]_(Chan!vars) => ChannelsInv'
  <2> SUFFICES ASSUME ChannelsInv, [Chan!Next]_(Chan!vars) PROVE ChannelsInv'
    OBVIOUS
  <2>1. CASE UNCHANGED Chan!vars
    BY <2>1 DEF Chan!vars, ChannelsInv, Chan!TypeOK, GoesOn, Listed, At, Starts, StopsAll
  <2> QED
    BY <2>1, StartStep, StopStep, StartAllStep, StopAllStep, SecondLoginStep, AdvanceStep, StartedStep,
       StoppedStep DEF Chan!Next
<1> QED
  BY <1>1, <1>2, PTL DEF Chan!Spec

\* ChannelManager: whatever starts, stops, reloads and logins came and went, a
\* channel that none of them is at is up exactly when it is registered, unless two
\* were at it at once or its stop threw.
THEOREM RegisteredIsUp == Chan!Spec => []RegisteredIsAlive
<1>1. ChannelsInv => RegisteredIsAlive
  <2> SUFFICES ASSUME ChannelsInv, NEW c \in Channel \ overlap, ~Chan!Busy(None, c)
               PROVE  alive[c] = 1 <=> c \in running
    BY DEF RegisteredIsAlive, Chan!RegisteredIsAlive
  <2>1. \A p \in Op : ~At(p, c) /\ ~StopsAll(p) /\ ~Starts(p, c)
    BY ServicesAssumption DEF Chan!Busy, At, StopsAll, Starts
  <2> QED
    BY <2>1 DEF ChannelsInv, Listed
<1> QED
  BY <1>1, ChannelsInductive, PTL

\* start.ts: "won't double-poll".  A channel polls twice only after two operations
\* were at it at once or its stop threw.
THEOREM PollsOnce == Chan!Spec => []Chan!OneInstance
<1>1. ChannelsInv => Chan!OneInstance
  BY DEF ChannelsInv, Listed, Chan!OneInstance
<1> QED
  BY <1>1, ChannelsInductive, PTL

-----------------------------------------------------------------------------
(* GoalPulse.                                                              *)

\* A goal no two ticks have taken at once since it became due is with one tick at
\* most, and one that was checked since is no tick's to check: while it is still
\* due, the tick that checked it awaits the task.
TakenOnce ==
    \A g \in Goal \ overlapped :
        /\ \A j, k \in Pulse!UnderWay : g \in Pulse!Taken(j) \cap Pulse!Taken(k) => j = k
        /\ checks[g] # 2
        /\ checks[g] = 1 => /\ \A k \in Pulse!UnderWay : g \notin tick[k].left
                            /\ g \in due => \E k \in Pulse!UnderWay : tick[k].at = g

LEMMA CheckIsNotNone == None \notin Pulse!Check
BY NoneIsNoOperation

LEMMA RestTypes ==
    ASSUME NEW left \in SUBSET Goal
    PROVE  /\ Pulse!Rest(left) \in {None} \cup Pulse!Check
           /\ Pulse!Rest(left) # None => Pulse!Rest(left).left = left /\ Pulse!Rest(left).at = None
BY DEF Pulse!Rest, Pulse!Check, Pulse!Task

LEMMA PulseTypes == Pulse!TypeOK /\ [Pulse!Next]_(Pulse!vars) => Pulse!TypeOK'
<1> SUFFICES ASSUME Pulse!TypeOK, [Pulse!Next]_(Pulse!vars) PROVE Pulse!TypeOK'
  OBVIOUS
<1> USE ServicesAssumption DEF Pulse!TypeOK
<1>1. ASSUME NEW k \in Tick, Pulse!Begin(k) PROVE Pulse!TypeOK'
  BY <1>1 DEF Pulse!Begin, Pulse!Task, Pulse!Check
<1>2. ASSUME NEW k \in Tick, NEW g \in Goal, Pulse!Send(k, g) PROVE Pulse!TypeOK'
  <2>1. tick[k] \in Pulse!Check
    BY <1>2 DEF Pulse!Send, Pulse!Check
  <2>2. Pulse!Rest(tick[k].left \ {g}) \in {None} \cup Pulse!Check
    BY <2>1, RestTypes DEF Pulse!Check
  <2>3. [left |-> tick[k].left \ {g}, at |-> g, task |-> "starting"] \in Pulse!Check
    BY <2>1 DEF Pulse!Check, Pulse!Task
  <2>4. tick' \in [Tick -> {None} \cup Pulse!Check]
    BY <1>2, <2>2, <2>3 DEF Pulse!Send, Pulse!Check
  <2>5. checks' \in [Goal -> 0..2]
    BY <1>2 DEF Pulse!Send, Pulse!Counted
  <2> QED
    BY <1>2, <2>4, <2>5 DEF Pulse!Send, Pulse!Check
<1>3. ASSUME NEW k \in Tick, Pulse!Registered(k) PROVE Pulse!TypeOK'
  <2>1. tick[k] \in Pulse!Check
    BY <1>3 DEF Pulse!Registered, Pulse!Check
  <2>2. [tick[k] EXCEPT !.task = "running"] \in Pulse!Check
    BY <2>1 DEF Pulse!Check, Pulse!Task
  <2> QED
    BY <1>3, <2>2 DEF Pulse!Registered, Pulse!Check
<1>4. ASSUME NEW k \in Tick, tick[k] # None, Pulse!Resume(k)
      PROVE  tick' \in [Tick -> {None} \cup Pulse!Check]
  <2>1. tick[k] \in Pulse!Check
    BY <1>4 DEF Pulse!Check
  <2>2. Pulse!Rest(tick[k].left) \in {None} \cup Pulse!Check
    BY <2>1, RestTypes DEF Pulse!Check
  <2> QED
    BY <1>4, <2>2 DEF Pulse!Resume, Pulse!Check
<1>5. ASSUME NEW k \in Tick, Pulse!Progressed(k) PROVE Pulse!TypeOK'
  <2>1. tick' \in [Tick -> {None} \cup Pulse!Check]
    BY <1>4, <1>5 DEF Pulse!Progressed
  <2>2. failures' \in [Goal -> 0..MaxFailures - 1]
    <3>1. failures' = [failures EXCEPT ![tick[k].at] = 0] /\ 0 \in 0..MaxFailures - 1
      BY <1>5 DEF Pulse!Progressed
    <3> QED
      BY <3>1
  <2> QED
    BY <1>5, <2>1, <2>2 DEF Pulse!Progressed, Pulse!Check
<1>6. ASSUME NEW k \in Tick, Pulse!CheckFailed(k) PROVE Pulse!TypeOK'
  <2>1. failures' \in [Goal -> 0..MaxFailures - 1]
    <3> DEFINE g == tick[k].at
    <3>1. CASE g \in Goal
      <4> DEFINE v == IF failures[g] + 1 >= MaxFailures THEN 0 ELSE failures[g] + 1
      <4>1. failures[g] \in 0..MaxFailures - 1
        BY <3>1
      <4>2. v \in 0..MaxFailures - 1
        BY <4>1
      <4>3. failures' = [failures EXCEPT ![g] = v]
        BY <1>6 DEF Pulse!CheckFailed
      <4> HIDE DEF v
      <4> QED
        BY <4>2, <4>3
    <3>2. CASE g \notin Goal
      BY <1>6, <3>2 DEF Pulse!CheckFailed
    <3> QED
      BY <3>1, <3>2
  <2>2. tick' \in [Tick -> {None} \cup Pulse!Check]
    BY <1>4, <1>6 DEF Pulse!CheckFailed
  <2> QED
    BY <1>6, <2>1, <2>2 DEF Pulse!CheckFailed, Pulse!Check
<1>7. ASSUME NEW g \in Goal, Pulse!Edit(g) PROVE Pulse!TypeOK'
  BY <1>7 DEF Pulse!Edit
<1>8. ASSUME NEW g \in Goal, Pulse!TimePasses(g) PROVE Pulse!TypeOK'
  BY <1>8 DEF Pulse!TimePasses
<1>9. CASE Pulse!Chat
  BY <1>9 DEF Pulse!Chat
<1>10. CASE UNCHANGED Pulse!vars
  BY <1>10 DEF Pulse!vars
<1> QED
  BY <1>1, <1>2, <1>3, <1>5, <1>6, <1>7, <1>8, <1>9, <1>10 DEF Pulse!Next

\* A tick that goes on after a task, or is over, holds what it had left.
LEMMA ResumeHolds ==
    ASSUME Pulse!TypeOK, NEW k \in Tick, tick[k] # None, Pulse!Resume(k)
    PROVE  /\ \A j \in Pulse!UnderWay' : j \in Pulse!UnderWay /\ tick'[j].left = tick[j].left
           /\ \A j \in Pulse!UnderWay' : Pulse!Taken(j)' \subseteq Pulse!Taken(j)
           /\ \A j \in Pulse!UnderWay : j # k => j \in Pulse!UnderWay' /\ tick'[j] = tick[j]
<1>1. tick[k] \in Pulse!Check /\ k \in Pulse!UnderWay
  BY DEF Pulse!TypeOK, Pulse!Check, Pulse!UnderWay
<1>2. tick[k].left \in SUBSET Goal
  BY <1>1 DEF Pulse!Check
<1>3. tick'[k] = Pulse!Rest(tick[k].left) /\ \A j \in Tick : j # k => tick'[j] = tick[j]
  BY DEF Pulse!Resume, Pulse!TypeOK
<1>4. tick'[k] # None => tick'[k].left = tick[k].left /\ tick'[k].at = None
  BY <1>2, <1>3, RestTypes
<1>5. ASSUME NEW j \in Pulse!UnderWay'
      PROVE  /\ j \in Pulse!UnderWay /\ tick'[j].left = tick[j].left
             /\ Pulse!Taken(j)' \subseteq Pulse!Taken(j)
  <2>1. CASE j = k
    BY <1>1, <1>4, <2>1 DEF Pulse!UnderWay, Pulse!Taken
  <2>2. CASE j # k
    BY <1>3, <2>2 DEF Pulse!UnderWay, Pulse!Taken
  <2> QED
    BY <2>1, <2>2
<1>6. ASSUME NEW j \in Pulse!UnderWay, j # k PROVE j \in Pulse!UnderWay' /\ tick'[j] = tick[j]
  BY <1>3, <1>6 DEF Pulse!UnderWay
<1> QED
  BY <1>5, <1>6

LEMMA TakenOnceStep ==
    Pulse!TypeOK /\ TakenOnce /\ [Pulse!Next]_(Pulse!vars) => TakenOnce'
<1> SUFFICES ASSUME Pulse!TypeOK, TakenOnce, [Pulse!Next]_(Pulse!vars),
                    NEW g \in Goal, g \notin overlapped'
             PROVE  /\ \A j, k \in Pulse!UnderWay' : g \in Pulse!Taken(j)' \cap Pulse!Taken(k)' => j = k
                    /\ checks'[g] # 2
                    /\ checks'[g] = 1 => /\ \A k \in Pulse!UnderWay' : g \notin tick'[k].left
                                         /\ g \in due' => \E k \in Pulse!UnderWay' : tick'[k].at = g
  BY DEF TakenOnce
<1> DEFINE Good == /\ \A j, k \in Pulse!UnderWay' : g \in Pulse!Taken(j)' \cap Pulse!Taken(k)' => j = k
                   /\ checks'[g] # 2
                   /\ checks'[g] = 1 => /\ \A k \in Pulse!UnderWay' : g \notin tick'[k].left
                                        /\ g \in due' => \E k \in Pulse!UnderWay' : tick'[k].at = g
<1>a. \A k \in Pulse!UnderWay : k \in Tick /\ tick[k] \in Pulse!Check
  BY DEF Pulse!UnderWay, Pulse!TypeOK, Pulse!Check
<1>b. ASSUME g \notin overlapped
      PROVE  /\ \A j, k \in Pulse!UnderWay : g \in Pulse!Taken(j) \cap Pulse!Taken(k) => j = k
             /\ checks[g] # 2
             /\ checks[g] = 1 => /\ \A k \in Pulse!UnderWay : g \notin tick[k].left
                                 /\ g \in due => \E k \in Pulse!UnderWay : tick[k].at = g
  BY <1>b DEF TakenOnce
<1>c. checks[g] \in 0..2 /\ g # None
  BY ServicesAssumption DEF Pulse!TypeOK
<1>1. ASSUME NEW k \in Tick, Pulse!Begin(k) PROVE Good
  <2> DEFINE found == due \cap active
  <2>1. /\ tick[k] = None /\ found \in SUBSET Goal
        /\ tick' = [tick EXCEPT ![k] = [left |-> found, at |-> None, task |-> "none"]]
        /\ overlapped' = overlapped \cup (found \cap UNION {Pulse!Taken(j) : j \in Pulse!UnderWay})
        /\ due' = due /\ checks' = checks
    BY <1>1 DEF Pulse!Begin, Pulse!TypeOK
  <2>2. g \notin overlapped /\ (g \in found => \A j \in Pulse!UnderWay : g \notin Pulse!Taken(j))
    BY <2>1
  <2>3. tick'[k] \in Pulse!Check /\ tick'[k] # None /\ tick'[k].left = found /\ tick'[k].at = None
    <3>1. tick'[k] = [left |-> found, at |-> None, task |-> "none"]
      BY <2>1 DEF Pulse!TypeOK
    <3>2. tick'[k] \in Pulse!Check
      BY <2>1, <3>1 DEF Pulse!Check, Pulse!Task
    <3>3. tick'[k] # None
      BY <3>2, CheckIsNotNone
    <3> QED
      BY <3>1, <3>2, <3>3
  <2>4. Pulse!UnderWay' = Pulse!UnderWay \cup {k} /\ k \notin Pulse!UnderWay
        /\ \A j \in Pulse!UnderWay : tick'[j] = tick[j]
    BY <2>1, <2>3 DEF Pulse!UnderWay, Pulse!TypeOK
  <2>5. /\ \A j \in Pulse!UnderWay : Pulse!Taken(j)' = Pulse!Taken(j)
        /\ Pulse!Taken(k)' = found
    BY <2>3, <2>4 DEF Pulse!Taken
  <2>6. checks[g] = 1 => g \notin found
    <3>1. SUFFICES ASSUME checks[g] = 1, g \in found PROVE FALSE
      OBVIOUS
    <3>2. PICK j \in Pulse!UnderWay : tick[j].at = g
      BY <1>b, <2>2, <3>1
    <3> QED
      BY <1>c, <2>2, <3>1, <3>2 DEF Pulse!Taken
  <2> HIDE DEF found
  <2>7. \A i, j \in Pulse!UnderWay' : g \in Pulse!Taken(i)' \cap Pulse!Taken(j)' => i = j
    BY <1>b, <2>2, <2>4, <2>5
  <2>8. checks'[g] = 1 => /\ \A j \in Pulse!UnderWay' : g \notin tick'[j].left
                          /\ g \in due' => \E j \in Pulse!UnderWay' : tick'[j].at = g
    BY <1>b, <2>1, <2>2, <2>3, <2>4, <2>6
  <2> QED
    BY <1>b, <2>1, <2>2, <2>7, <2>8
<1>2. ASSUME NEW k \in Tick, NEW h \in Goal, Pulse!Send(k, h) PROVE Good
  <2>1. /\ k \in Pulse!UnderWay /\ tick[k].at = None /\ h \in tick[k].left
        /\ overlapped' = overlapped /\ tick[k] \in Pulse!Check
    BY <1>2, <1>a DEF Pulse!Send, Pulse!UnderWay
  <2>2. \/ /\ tick' = [tick EXCEPT ![k] = Pulse!Rest(tick[k].left \ {h})]
           /\ due' = due \ {h}
        \/ /\ tick' = [tick EXCEPT ![k] = [left |-> tick[k].left \ {h}, at |-> h, task |-> "starting"]]
           /\ due' = due
    BY <1>2 DEF Pulse!Send
  <2>3. \A j \in Tick : j # k => tick'[j] = tick[j]
    BY <2>2 DEF Pulse!TypeOK
  <2>4. tick'[k] # None =>
            /\ tick'[k].left = tick[k].left \ {h}
            /\ tick'[k].at = None \/ tick'[k].at = h
    <3>1. tick[k].left \ {h} \in SUBSET Goal
      BY <2>1 DEF Pulse!Check
    <3> QED
      BY <2>2, <3>1, RestTypes DEF Pulse!TypeOK
  <2>5. h \in due' => k \in Pulse!UnderWay' /\ tick'[k].at = h
    <3>1. ASSUME tick' = [tick EXCEPT ![k] = [left |-> tick[k].left \ {h}, at |-> h, task |-> "starting"]]
          PROVE  k \in Pulse!UnderWay' /\ tick'[k].at = h
      <4>1. tick'[k] = [left |-> tick[k].left \ {h}, at |-> h, task |-> "starting"]
        BY <3>1 DEF Pulse!TypeOK
      <4>2. tick'[k] \in Pulse!Check
        BY <2>1, <4>1 DEF Pulse!Check, Pulse!Task
      <4> QED
        BY <4>1, <4>2, CheckIsNotNone DEF Pulse!UnderWay
    <3> QED
      BY <2>2, <3>1
  <2>6. \A j \in Pulse!UnderWay' : j \in Pulse!UnderWay /\ Pulse!Taken(j)' \subseteq Pulse!Taken(j)
    <3>1. ASSUME NEW j \in Pulse!UnderWay' PROVE j \in Pulse!UnderWay /\ Pulse!Taken(j)' \subseteq Pulse!Taken(j)
      <4>1. CASE j = k
        BY <2>1, <2>4, <4>1 DEF Pulse!Taken, Pulse!UnderWay
      <4>2. CASE j # k
        BY <2>3, <4>2 DEF Pulse!Taken, Pulse!UnderWay
      <4> QED
        BY <4>1, <4>2
    <3> QED
      BY <3>1
  <2>7. g \notin overlapped
    BY <2>1
  <2>8. \A i, j \in Pulse!UnderWay' : g \in Pulse!Taken(i)' \cap Pulse!Taken(j)' => i = j
    BY <1>b, <2>6, <2>7
  <2>9. CASE g = h
    <3>1. checks[g] = 0
      BY <1>b, <1>c, <2>1, <2>7, <2>9
    <3>2. checks'[g] = 1
      BY <1>2, <2>9, <3>1 DEF Pulse!Send, Pulse!Counted, Pulse!TypeOK
    <3>3. ASSUME NEW j \in Pulse!UnderWay' PROVE g \notin tick'[j].left
      <4>1. CASE j = k
        BY <2>4, <2>9, <4>1 DEF Pulse!UnderWay
      <4>2. CASE j # k
        <5>1. j \in Pulse!UnderWay /\ tick'[j] = tick[j]
          BY <2>3, <2>6, <1>a, <4>2
        <5>2. g \in Pulse!Taken(k)
          BY <2>1, <2>9 DEF Pulse!Taken
        <5> QED
          BY <1>b, <2>1, <2>7, <4>2, <5>1, <5>2 DEF Pulse!Taken
      <4> QED
        BY <4>1, <4>2
    <3> QED
      BY <2>5, <2>8, <2>9, <3>2, <3>3
  <2>10. CASE g # h
    <3>1. checks'[g] = checks[g]
      BY <1>2, <2>10 DEF Pulse!Send, Pulse!Counted, Pulse!TypeOK
    <3>2. \A j \in Pulse!UnderWay' : tick'[j].left \subseteq tick[j].left
      BY <2>3, <2>4, <2>6, <1>a DEF Pulse!UnderWay
    <3>3. ASSUME checks[g] = 1, g \in due' PROVE \E j \in Pulse!UnderWay' : tick'[j].at = g
      <4>1. PICK j \in Pulse!UnderWay : tick[j].at = g
        BY <1>b, <2>2, <2>7, <3>3
      <4>2. j # k
        BY <1>c, <2>1, <4>1
      <4> QED
        BY <1>a, <2>3, <4>1, <4>2 DEF Pulse!UnderWay
    <3> QED
      BY <1>b, <2>6, <2>7, <2>8, <3>1, <3>2, <3>3
  <2> QED
    BY <2>9, <2>10
<1>3. ASSUME NEW k \in Tick, Pulse!Registered(k) PROVE Good
  <2>1. tick[k] \in Pulse!Check /\ k \in Pulse!UnderWay
    BY <1>3, <1>a DEF Pulse!Registered, Pulse!UnderWay
  <2>2. tick' = [tick EXCEPT ![k] = [tick[k] EXCEPT !.task = "running"]]
        /\ UNCHANGED <<due, checks, overlapped>>
    BY <1>3 DEF Pulse!Registered
  <2>3. tick'[k].left = tick[k].left /\ tick'[k].at = tick[k].at /\ tick'[k] # None
    <3>1. tick'[k] = [tick[k] EXCEPT !.task = "running"]
      BY <2>2 DEF Pulse!TypeOK
    <3>2. tick'[k] \in Pulse!Check
      BY <2>1, <3>1 DEF Pulse!Check, Pulse!Task
    <3> QED
      BY <2>1, <3>1, <3>2, CheckIsNotNone DEF Pulse!Check
  <2>4. \A j \in Tick : j # k => tick'[j] = tick[j]
    BY <2>2 DEF Pulse!TypeOK
  <2>5. Pulse!UnderWay' = Pulse!UnderWay
        /\ \A j \in Pulse!UnderWay : tick'[j].left = tick[j].left /\ tick'[j].at = tick[j].at
    BY <2>1, <2>3, <2>4 DEF Pulse!UnderWay
  <2>6. \A j \in Pulse!UnderWay : Pulse!Taken(j)' = Pulse!Taken(j)
    BY <2>5 DEF Pulse!Taken
  <2> QED
    BY <1>b, <2>2, <2>5, <2>6
<1>4. ASSUME NEW k \in Tick, tick[k] # None, Pulse!Resume(k), due' = due \ {tick[k].at},
             UNCHANGED <<checks, overlapped>>
      PROVE  Good
  <2>1. /\ \A j \in Pulse!UnderWay' : j \in Pulse!UnderWay /\ tick'[j].left = tick[j].left
        /\ \A j \in Pulse!UnderWay' : Pulse!Taken(j)' \subseteq Pulse!Taken(j)
        /\ \A j \in Pulse!UnderWay : j # k => j \in Pulse!UnderWay' /\ tick'[j] = tick[j]
    BY <1>4, ResumeHolds
  <2>2. ASSUME checks[g] = 1, g \in due' PROVE \E j \in Pulse!UnderWay' : tick'[j].at = g
    <3>1. PICK j \in Pulse!UnderWay : tick[j].at = g
      BY <1>4, <1>b, <2>2
    <3>2. j # k
      BY <1>4, <2>2, <3>1
    <3> QED
      BY <2>1, <3>1, <3>2
  <2> QED
    BY <1>4, <1>b, <2>1, <2>2
<1>5. ASSUME NEW k \in Tick, Pulse!Progressed(k) PROVE Good
  BY <1>4, <1>5 DEF Pulse!Progressed
<1>6. ASSUME NEW k \in Tick, Pulse!CheckFailed(k) PROVE Good
  BY <1>4, <1>6 DEF Pulse!CheckFailed
<1>7. ASSUME NEW h \in Goal, Pulse!TimePasses(h) PROVE Good
  <2>1. tick' = tick /\ Pulse!UnderWay' = Pulse!UnderWay /\ \A j \in Tick : Pulse!Taken(j)' = Pulse!Taken(j)
    BY <1>7 DEF Pulse!TimePasses, Pulse!UnderWay, Pulse!Taken
  <2>2. CASE g = h
    <3>1. checks'[g] = 0
      BY <1>7, <2>2 DEF Pulse!TimePasses, Pulse!TypeOK
    <3>2. g \notin overlapped \/ ~Pulse!Shared(g)
      BY <1>7, <2>2 DEF Pulse!TimePasses
    <3>3. \A i, j \in Pulse!UnderWay : g \in Pulse!Taken(i) \cap Pulse!Taken(j) => i = j
      BY <1>b, <3>2 DEF Pulse!Shared
    <3> QED
      BY <1>a, <2>1, <3>1, <3>3
  <2>3. CASE g # h
    <3>1. checks'[g] = checks[g] /\ (g \in due' <=> g \in due) /\ g \notin overlapped
      BY <1>7, <2>3 DEF Pulse!TimePasses, Pulse!TypeOK
    <3> QED
      BY <1>a, <1>b, <2>1, <3>1
  <2> QED
    BY <2>2, <2>3
<1>8. CASE UNCHANGED <<tick, due, checks, overlapped>>
  <2>1. Pulse!UnderWay' = Pulse!UnderWay /\ \A j \in Tick : Pulse!Taken(j)' = Pulse!Taken(j)
    BY <1>8 DEF Pulse!UnderWay, Pulse!Taken
  <2> QED
    BY <1>8, <1>a, <1>b, <2>1
<1>9. ASSUME NEW h \in Goal, Pulse!Edit(h) PROVE Good
  BY <1>8, <1>9 DEF Pulse!Edit
<1>10. CASE Pulse!Chat \/ UNCHANGED Pulse!vars
  BY <1>8, <1>10 DEF Pulse!Chat, Pulse!vars
<1> QED
  BY <1>1, <1>2, <1>3, <1>5, <1>6, <1>7, <1>9, <1>10 DEF Pulse!Next

\* GoalPulse.tick: however many ticks overlap and whatever the user edits, a goal
\* is checked once each time its cron passes, unless two ticks had it at once.
THEOREM ChecksOncePerSlot == Pulse!Spec => []OncePerSlot
<1>1. Pulse!Init => Pulse!TypeOK /\ TakenOnce
  <2> SUFFICES ASSUME Pulse!Init PROVE Pulse!TypeOK /\ TakenOnce
    OBVIOUS
  <2>1. Pulse!UnderWay = {}
    BY DEF Pulse!Init, Pulse!UnderWay
  <2>2. TakenOnce
    BY <2>1 DEF Pulse!Init, TakenOnce
  <2>3. 0 \in 0..MaxFailures - 1
    BY ServicesAssumption
  <2>4. tick \in [Tick -> {None} \cup Pulse!Check]
    BY DEF Pulse!Init
  <2>5. failures \in [Goal -> 0..MaxFailures - 1] /\ checks \in [Goal -> 0..2]
    BY <2>3 DEF Pulse!Init
  <2>6. active \subseteq Goal /\ due \subseteq Goal /\ overlapped \subseteq Goal /\ chat \in BOOLEAN
    BY DEF Pulse!Init
  <2> QED
    BY <2>2, <2>4, <2>5, <2>6 DEF Pulse!TypeOK
<1>2. Pulse!TypeOK /\ TakenOnce /\ [Pulse!Next]_(Pulse!vars) => (Pulse!TypeOK /\ TakenOnce)'
  BY PulseTypes, TakenOnceStep
<1>3. Pulse!TypeOK /\ TakenOnce => OncePerSlot
  BY DEF Pulse!TypeOK, TakenOnce, OncePerSlot, Pulse!OncePerSlot
<1> QED
  BY <1>1, <1>2, <1>3, PTL DEF Pulse!Spec

-----------------------------------------------------------------------------
(* The run.                                                                *)

\* The run takes each part as its own specification says.
THEOREM EachPartIsItself == ServicesSpec => FairSpec /\ Reply!FairSpec /\ Chan!Spec /\ Pulse!FairSpec
<1>1. ServicesInit => Init /\ Reply!Init /\ Chan!Init /\ Pulse!Init
  BY DEF ServicesInit
<1>2. [ServicesNext]_allVars => [Next]_vars
  BY DEF ServicesNext, allVars
<1>3. [ServicesNext]_allVars => [Reply!Next]_(Reply!vars)
  BY DEF ServicesNext, allVars, replyVars, Reply!vars, Reply!turns, Reply!stream, Reply!loop, Reply!chat
<1>4. [ServicesNext]_allVars => [Chan!Next]_(Chan!vars)
  BY DEF ServicesNext, allVars, channelVars, Chan!vars
<1>5. [ServicesNext]_allVars => [Pulse!Next]_(Pulse!vars)
  BY DEF ServicesNext, allVars, goalVars, Pulse!vars
<1> QED
  BY <1>1, <1>2, <1>3, <1>4, <1>5, PTL
     DEF ServicesSpec, FairSpec, Spec, Reply!FairSpec, Reply!Spec, Chan!Spec, Pulse!FairSpec, Pulse!Spec
=============================================================================
