----------------------------- MODULE ScanQueue -----------------------------
(***************************************************************************)
(* The image scans of one file project (src/src/files): the manifest kept   *)
(* by FileProjectStore, the descriptions ("filers") beside it, the queue    *)
(* that writes them two at a time, and what a crash leaves for the next      *)
(* start.  Only images are modelled: other files never enter the queue.      *)
(***************************************************************************)
EXTENDS Naturals, FiniteSets

CONSTANTS
    File,            \* ids of images; an id is given once (randomUUID)
    Name,            \* file names; two images may have the same one
    MaxConcurrency,  \* scans in flight
    MaxCrashes,      \* crashes, a bound
    None, Torn       \* no value; a filer that is being written

ASSUME ScanQueueAssumption ==
    /\ MaxConcurrency \in Nat \ {0} /\ MaxCrashes \in Nat
    /\ IsFiniteSet(File)
    /\ None \notin Name \cup File /\ Torn \notin File /\ None # Torn

Entry == [status : {"pending", "scanning", "completed", "failed"}, name : Name, filer : Name \cup {None}]
Ending == [phase |-> "end", name |-> None]
Job == [phase : {"describe", "write", "end"}, name : Name] \cup {Ending}

ASSUME NoneIsNoRecord == None \notin Entry \cup Job

VARIABLES
    dir,      \* the project's directory: none, with its manifest, or bare
    record,   \* the manifest: each image's entry
    used,     \* ids given so far
    filer,    \* what the filer file of each name describes
    pending,  \* ScanQueue.pending; the order of its jobs is left open
    job,      \* jobs in flight, by image, with the name they write under
    cut,      \* jobs writing when the project's directory was removed
    under,    \* images whose scan began under a name
    crashes

vars == <<dir, record, used, filer, pending, job, cut, under, crashes>>

TypeOK ==
    /\ dir \in {"none", "project", "bare"}
    /\ record \in [File -> Entry \cup {None}]
    /\ used \subseteq File
    /\ filer \in [Name -> File \cup {None, Torn}]
    /\ pending \subseteq File
    /\ job \in [File -> Job \cup {None}]
    /\ cut \subseteq File
    /\ under \in [Name -> SUBSET File]
    /\ crashes \in 0..MaxCrashes

Init ==
    /\ dir = "none"
    /\ record = [f \in File |-> None] /\ used = {}
    /\ filer = [n \in Name |-> None]
    /\ pending = {} /\ job = [f \in File |-> None]
    /\ cut = {} /\ under = [n \in Name |-> {}] /\ crashes = 0

InFlight(jobs) == {f \in File : jobs[f] # None}
Unsettled(f) == record[f] # None /\ record[f].status \in {"pending", "scanning"}

\* A job that is over leaves before the next event.
Quiet == \A f \in File : job[f] # None => job[f].phase # "end"

\* pump(): jobs are taken until MaxConcurrency are in flight or none is left.  Each
\* runs to its first await: an image that is gone ends it, any other is being
\* scanned, under the name it has now.
Pump(entries, waiting, jobs) ==
    \E S \in SUBSET waiting :
        LET now == [f \in File |-> IF f \notin S THEN jobs[f]
                                   ELSE IF entries[f] = None THEN Ending
                                   ELSE [phase |-> "describe", name |-> entries[f].name]]
        IN  /\ Cardinality(InFlight(now)) <= MaxConcurrency
            /\ S = waiting \/ Cardinality(InFlight(now)) = MaxConcurrency
            /\ pending' = waiting \ S
            /\ job' = now
            /\ record' = [f \in File |-> IF f \in S /\ entries[f] # None
                                         THEN [entries[f] EXCEPT !.status = "scanning"] ELSE entries[f]]
            /\ under' = [n \in Name |-> under[n] \cup {f \in S : entries[f] # None /\ entries[f].name = n}]

-----------------------------------------------------------------------------
(* The routes.                                                             *)

\* create: refused while the directory exists.
CreateProject ==
    /\ Quiet /\ dir = "none"
    /\ dir' = "project"
    /\ UNCHANGED <<record, used, filer, pending, job, cut, under, crashes>>

\* delete: everything in the directory goes; the queue is not told.
DeleteProject ==
    /\ Quiet /\ dir # "none"
    /\ dir' = "none"
    /\ record' = [f \in File |-> None]
    /\ filer' = [n \in Name |-> None]
    /\ cut' = cut \cup {f \in File : job[f] # None /\ job[f].phase = "write"}
    /\ UNCHANGED <<used, pending, job, under, crashes>>

\* The upload of an image, with enqueue.
Upload(f, n) ==
    /\ Quiet /\ dir = "project" /\ f \notin used
    /\ used' = used \cup {f}
    /\ Pump([record EXCEPT ![f] = [status |-> "pending", name |-> n, filer |-> None]], pending \cup {f}, job)
    /\ UNCHANGED <<dir, filer, cut, crashes>>

Rename(f, n) ==
    /\ Quiet /\ record[f] # None
    /\ record' = [record EXCEPT ![f].name = n]
    /\ UNCHANGED <<dir, used, filer, pending, job, cut, under, crashes>>

\* removeFile: the filer goes with the image if the manifest knows of it.
Remove(f) ==
    /\ Quiet /\ record[f] # None
    /\ record' = [record EXCEPT ![f] = None]
    /\ filer' = IF record[f].filer = None THEN filer ELSE [filer EXCEPT ![record[f].filer] = None]
    /\ UNCHANGED <<dir, used, pending, job, cut, under, crashes>>

-----------------------------------------------------------------------------
(* The jobs.                                                               *)

\* updateFile: an image that is gone is left alone.
Patched(f, status, n) ==
    IF record[f] = None THEN record
    ELSE [record EXCEPT ![f].status = status, ![f].filer = IF n = None THEN @ ELSE n]

Over(f) == job' = [job EXCEPT ![f] = Ending]

\* The image is described: the filers' directory is made if it is not there, and
\* the write begins.
Described(f) ==
    /\ Quiet /\ job[f] # None /\ job[f].phase = "describe"
    /\ dir' = IF dir = "none" THEN "bare" ELSE dir
    /\ filer' = [filer EXCEPT ![job[f].name] = Torn]
    /\ job' = [job EXCEPT ![f].phase = "write"]
    /\ cut' = cut \ {f}
    /\ UNCHANGED <<record, used, pending, under, crashes>>

\* Mutant of Written: the filer is recorded under the image's name of now.
WrittenRenamed(f) ==
    /\ Quiet /\ job[f] # None /\ job[f].phase = "write"
    /\ filer' = IF f \in cut /\ dir = "none" THEN filer ELSE [filer EXCEPT ![job[f].name] = f]
    /\ record' = IF record[f] = None THEN record
                 ELSE [record EXCEPT ![f].status = "completed", ![f].filer = record[f].name]
    /\ Over(f)
    /\ UNCHANGED <<dir, used, pending, cut, under, crashes>>

\* The filer is written and recorded.  In a directory removed since, it may have
\* gone with it, or land in the directory there is now.
Written(f) ==
    /\ Quiet /\ job[f] # None /\ job[f].phase = "write"
    /\ \/ f \in cut /\ filer' = filer
       \/ (f \in cut => dir # "none") /\ filer' = [filer EXCEPT ![job[f].name] = f]
    /\ record' = Patched(f, "completed", job[f].name)
    /\ Over(f)
    /\ UNCHANGED <<dir, used, pending, cut, under, crashes>>

\* The provider, or the write, failed.
Failed(f) ==
    /\ Quiet /\ job[f] # None
    /\ record' = Patched(f, "failed", None)
    /\ Over(f)
    /\ UNCHANGED <<dir, used, filer, pending, cut, under, crashes>>

\* Mutant of Ended: the next job is not taken.
EndedIdle(f) ==
    /\ job[f] = Ending
    /\ job' = [job EXCEPT ![f] = None]
    /\ UNCHANGED <<dir, record, used, filer, pending, cut, under, crashes>>

\* finally: the job leaves and the next is taken.
Ended(f) ==
    /\ job[f] = Ending
    /\ Pump(record, pending, [job EXCEPT ![f] = None])
    /\ UNCHANGED <<dir, used, filer, cut, crashes>>

\* Mutant of Restart: only what no job had taken is recovered.
RestartPending ==
    /\ crashes < MaxCrashes /\ crashes' = crashes + 1
    /\ cut' = {}
    /\ Pump(record, {f \in File : record[f] # None /\ record[f].status = "pending"}, [f \in File |-> None])
    /\ UNCHANGED <<dir, used, filer>>

\* The process dies and starts again: recoverPending.
Restart ==
    /\ crashes < MaxCrashes /\ crashes' = crashes + 1
    /\ cut' = {}
    /\ Pump(record, {f \in File : Unsettled(f)}, [f \in File |-> None])
    /\ UNCHANGED <<dir, used, filer>>

Next ==
    \/ CreateProject \/ DeleteProject
    \/ \E f \in File, n \in Name : Upload(f, n) \/ Rename(f, n)
    \/ \E f \in File : Remove(f) \/ Described(f) \/ Written(f) \/ Failed(f) \/ Ended(f)
    \/ Restart

Spec == Init /\ [][Next]_vars

\* Providers answer or time out, and writes end.
Finish(f) == Described(f) \/ Written(f) \/ Failed(f) \/ Ended(f)
FairSpec == Spec /\ \A f \in File : WF_vars(Finish(f))

-----------------------------------------------------------------------------

\* scanQueue.ts: recoverPending "Handles 'the process crashed mid-scan' cleanly".
\* An image whose scan is due or under way, by the manifest, is known to the queue.
NoScanLost == \A f \in File : Unsettled(f) => f \in pending \/ job[f] # None

\* The queue is never idle with work at hand, and never above its limit.
Served ==
    /\ Cardinality(InFlight(job)) <= MaxConcurrency
    /\ pending # {} => Cardinality(InFlight(job)) = MaxConcurrency

\* The filer a scanned image points to is there, complete, and describes it, as
\* long as no other image was ever scanned under its name.
FilerIsOwn ==
    \A f \in File : record[f] # None /\ record[f].status = "completed" /\ under[record[f].filer] \subseteq {f} =>
        filer[record[f].filer] = f

\* Every scan comes to its end, through crashes and removals.
ScanSettles == \A f \in File : Unsettled(f) ~> ~Unsettled(f)
=============================================================================
