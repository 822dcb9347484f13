----------------------------- MODULE OciLayout -----------------------------
(***************************************************************************)
(* OciLayoutStore (store/oci_layout.py), one file operation at a time: the *)
(* blobs directory, the redaction record tombstones.json, the scratch      *)
(* files that are renamed over them, and the handles that have the         *)
(* directory open, each with its own cache of the record.                  *)
(***************************************************************************)
EXTENDS Naturals, FiniteSets

CONSTANTS
    Handles,   \* the open OciLayoutStore objects
    Writers,   \* the handles that change the store; the others only read it
    Digests,
    MaxCalls,  \* bound: how many calls are made
    Features   \* which parts of the environment a run includes

ASSUME HandlesAssumption == Writers \subseteq Handles
ASSUME BoundAssumption == MaxCalls \in Nat

VARIABLES
    blob,     \* digest -> what blobs/sha256/<hex> holds
    scratch,  \* digest -> what .tmp-<hex> holds
    fd,       \* handle -> the name of the file a put_bytes has open
    record,   \* tombstones.json: the digests in it, and its modification time
    draft,    \* .tmp-tombstones.json
    clock,    \* how often a draft has been written
    cache,    \* handle -> _tombstone_cache and _tombstone_stamp
    job,      \* handle -> the call it is in
    pc,       \* handle -> how far it is
    seen,     \* handle -> the stamp its call found on the record
    calls,    \* how many calls have been made
    reply,    \* handle -> the last answer it gave
    had,      \* history: handle -> whether its call unlinked bytes, and is not over
    removed   \* history: digests whose bytes a tombstone call took

files == <<blob, scratch, fd>>
marks == <<record, draft, clock>>
history == <<had, removed>>
vars == <<files, marks, cache, job, pc, seen, calls, reply, history>>

Mutating == {"put_bytes", "tombstone", "delete"}
Reading == {"has", "is_resolvable", "get_bytes"}
File == {"absent", "partial", "whole"}
NoCache == [known |-> FALSE, marks |-> {}, stamp |-> 0]
NoDraft == [here |-> FALSE, marks |-> {}, stamp |-> 0]
NoJob == [call |-> "none", digest |-> "none"]

\* A stamp is what stat says of the record, 0 when there is no file.  The file
\* system's clock is taken to move between two writes, so that the size adds nothing
\* to the modification time.
FilesTyped ==
    /\ blob \in [Digests -> File] /\ scratch \in [Digests -> File]
    /\ fd \in [Handles -> {"closed", "scratch", "blob", "unlinked"}]
    /\ removed \subseteq Digests

MarksTyped ==
    /\ record \in [marks : SUBSET Digests, stamp : Nat]
    /\ draft \in [here : BOOLEAN, marks : SUBSET Digests, stamp : Nat]
    /\ clock \in Nat
    /\ cache \in [Handles -> [known : BOOLEAN, marks : SUBSET Digests, stamp : Nat]]

CallsTyped ==
    /\ job \in [Handles -> [call : Mutating \cup Reading, digest : Digests] \cup {NoJob}]
    /\ pc \in [Handles -> {"idle", "start", "open", "fill", "rename", "stat", "read", "decide",
                           "swap", "restamp", "load"}]
    /\ \A h \in Handles : pc[h] = "idle" \/ job[h] # NoJob
    /\ seen \in [Handles -> Nat] /\ had \in [Handles -> BOOLEAN]
    /\ calls \in 0 .. MaxCalls

TypeOK == FilesTyped /\ MarksTyped /\ CallsTyped

Init ==
    /\ blob = [d \in Digests |-> "absent"] /\ scratch = [d \in Digests |-> "absent"]
    /\ fd = [h \in Handles |-> "closed"]
    /\ record = [marks |-> {}, stamp |-> 0]
    /\ draft = NoDraft /\ clock = 0
    /\ cache = [h \in Handles |-> NoCache]
    /\ job = [h \in Handles |-> NoJob] /\ pc = [h \in Handles |-> "idle"]
    /\ seen = [h \in Handles |-> 0]
    /\ calls = 0 /\ reply = [h \in Handles |-> <<>>]
    /\ had = [h \in Handles |-> FALSE] /\ removed = {}

-----------------------------------------------------------------------------
(* Making a call, and ending it.                                           *)

At(h, names, phase) == pc[h] = phase /\ job[h].call \in names

Goto(h, phase) == pc' = [pc EXCEPT ![h] = phase] /\ UNCHANGED <<job, reply>>

Return(h) == pc' = [pc EXCEPT ![h] = "idle"] /\ job' = [job EXCEPT ![h] = NoJob] /\ UNCHANGED reply

Answer(h, answer) ==
    /\ reply' = [reply EXCEPT ![h] = <<job[h].call, job[h].digest, answer>>]
    /\ pc' = [pc EXCEPT ![h] = "idle"] /\ job' = [job EXCEPT ![h] = NoJob]

Start(h, name, d) ==
    /\ pc[h] = "idle"
    /\ calls < MaxCalls
    /\ name \in Reading \/ h \in Writers
    /\ job' = [job EXCEPT ![h] = [call |-> name, digest |-> d]]
    /\ pc' = [pc EXCEPT ![h] = "start"]
    /\ calls' = calls + 1
    /\ UNCHANGED <<files, marks, cache, seen, reply, history>>

-----------------------------------------------------------------------------
(* put_bytes.                                                              *)

\* A target that exists is taken to hold the bytes.
PutCheck(h) ==
    /\ At(h, {"put_bytes"}, "start")
    /\ IF blob[job[h].digest] # "absent" THEN Return(h) ELSE Goto(h, "open")
    /\ UNCHANGED <<files, marks, cache, seen, calls, history>>

\* Mutant of PutOpen: the bytes are written straight to the target.
PutOpenMutant(h) ==
    /\ At(h, {"put_bytes"}, "open")
    /\ blob' = [blob EXCEPT ![job[h].digest] = "partial"]
    /\ fd' = [fd EXCEPT ![h] = "blob"]
    /\ Goto(h, "fill")
    /\ UNCHANGED <<scratch, marks, cache, seen, calls, history>>

\* write_bytes truncates the scratch file, whoever made it, and then fills it.
PutOpen(h) ==
    /\ At(h, {"put_bytes"}, "open")
    /\ scratch' = [scratch EXCEPT ![job[h].digest] = "partial"]
    /\ fd' = [fd EXCEPT ![h] = "scratch"]
    /\ Goto(h, "fill")
    /\ UNCHANGED <<blob, marks, cache, seen, calls, history>>

PutFill(h) ==
    /\ At(h, {"put_bytes"}, "fill")
    /\ scratch' = IF fd[h] = "scratch" THEN [scratch EXCEPT ![job[h].digest] = "whole"] ELSE scratch
    /\ blob' = IF fd[h] = "blob" THEN [blob EXCEPT ![job[h].digest] = "whole"] ELSE blob
    /\ fd' = [fd EXCEPT ![h] = "closed"]
    /\ Goto(h, "rename")
    /\ UNCHANGED <<marks, cache, seen, calls, history>>

\* An open file follows the name it has: a rename takes those who have the scratch
\* file open along, and leaves the file it replaces without a name.
Renamed(d) ==
    [g \in Handles |-> CASE job[g].digest = d /\ fd[g] = "scratch" -> "blob"
                         [] job[g].digest = d /\ fd[g] = "blob" -> "unlinked"
                         [] OTHER -> fd[g]]

Unnamed(d) == [g \in Handles |-> IF job[g].digest = d /\ fd[g] = "blob" THEN "unlinked" ELSE fd[g]]

\* replace raises when the scratch file is no longer there.
PutRename(h) ==
    /\ At(h, {"put_bytes"}, "rename")
    /\ LET d == job[h].digest
       IN  IF scratch[d] = "absent"
           THEN UNCHANGED files
           ELSE /\ blob' = [blob EXCEPT ![d] = scratch[d]]
                /\ scratch' = [scratch EXCEPT ![d] = "absent"]
                /\ fd' = Renamed(d)
    /\ Return(h)
    /\ UNCHANGED <<marks, cache, seen, calls, history>>

-----------------------------------------------------------------------------
(* _tombstones, which every other call goes through.                       *)

\* Mutant of Stat: the first answer is kept for the life of the handle.
StatMutant(h) ==
    /\ pc[h] = "stat"
    /\ seen' = [seen EXCEPT ![h] = record.stamp]
    /\ Goto(h, IF cache[h].known THEN "decide" ELSE "read")
    /\ UNCHANGED <<files, marks, cache, calls, history>>

\* The cache serves as long as the file has not moved.
Stat(h) ==
    /\ pc[h] = "stat"
    /\ seen' = [seen EXCEPT ![h] = record.stamp]
    /\ Goto(h, IF cache[h].known /\ cache[h].stamp = record.stamp THEN "decide" ELSE "read")
    /\ UNCHANGED <<files, marks, cache, calls, history>>

\* What is read may be newer than the stamp it is filed under.
Read(h) ==
    /\ pc[h] = "read"
    /\ cache' = [cache EXCEPT ![h] =
           [known |-> TRUE, stamp |-> seen[h], marks |-> IF seen[h] = 0 THEN {} ELSE record.marks]]
    /\ Goto(h, "decide")
    /\ UNCHANGED <<files, marks, seen, calls, history>>

-----------------------------------------------------------------------------
(* tombstone and delete.                                                   *)

\* Both take the bytes first.
Unlink(h) ==
    /\ At(h, {"tombstone", "delete"}, "start")
    /\ LET d == job[h].digest
       IN  /\ blob' = [blob EXCEPT ![d] = "absent"]
           /\ fd' = Unnamed(d)
           /\ had' = [had EXCEPT ![h] = blob[d] # "absent"]
           /\ removed' = CASE job[h].call = "delete" -> removed \ {d}
                           [] blob[d] # "absent" /\ job[h].call = "tombstone" -> removed \cup {d}
                           [] OTHER -> removed
    /\ Goto(h, "stat")
    /\ UNCHANGED <<scratch, marks, cache, seen, calls>>

\* Mutant of Marked: the record starts over with every redaction.
MarkedMutant(h) == IF job[h].call = "tombstone" THEN {job[h].digest} ELSE {}

Marked(h) == IF job[h].call = "tombstone"
             THEN cache[h].marks \cup {job[h].digest}
             ELSE cache[h].marks \ {job[h].digest}

\* _write_json, first half, taken to be one write of a small file.  A delete of a digest
\* that was not marked writes nothing.
WriteDraft(h) ==
    /\ At(h, {"tombstone", "delete"}, "decide")
    /\ IF job[h].call = "delete" /\ job[h].digest \notin cache[h].marks
       THEN /\ Return(h)
            /\ had' = [had EXCEPT ![h] = FALSE]
            /\ UNCHANGED <<draft, clock>>
       ELSE /\ clock' = clock + 1
            /\ draft' = [here |-> TRUE, marks |-> Marked(h), stamp |-> clock + 1]
            /\ Goto(h, "swap")
            /\ UNCHANGED had
    /\ UNCHANGED <<files, record, cache, seen, calls, removed>>

\* Second half: it raises when another handle has renamed the draft already.
Swap(h) ==
    /\ pc[h] = "swap"
    /\ IF draft.here
       THEN /\ record' = [marks |-> draft.marks, stamp |-> draft.stamp]
            /\ draft' = NoDraft
            /\ Goto(h, "restamp")
       ELSE Return(h) /\ UNCHANGED <<record, draft>>
    /\ had' = [had EXCEPT ![h] = FALSE]
    /\ UNCHANGED <<files, clock, cache, seen, calls, removed>>

\* _write_tombstones keeps what it wrote, under the stamp the file has by then.
Restamp(h) ==
    /\ pc[h] = "restamp"
    /\ cache' = [cache EXCEPT ![h] = [known |-> TRUE, marks |-> Marked(h), stamp |-> record.stamp]]
    /\ Return(h)
    /\ UNCHANGED <<files, marks, seen, calls, history>>

-----------------------------------------------------------------------------
(* has, is_resolvable and get_bytes.                                       *)

\* Mutant of Exists: has asks for the file only.
ExistsMutant(h) ==
    /\ At(h, Reading, "start")
    /\ LET held == blob[job[h].digest] # "absent"
       IN  CASE job[h].call = "has" -> Answer(h, IF held THEN "yes" ELSE "no")
             [] job[h].call = "is_resolvable" /\ ~ held -> Answer(h, "no")
             [] OTHER -> Goto(h, "stat")
    /\ UNCHANGED <<files, marks, cache, seen, calls, history>>

\* has and is_resolvable look at the file first, and may be done; get_bytes does not.
Exists(h) ==
    /\ At(h, Reading, "start")
    /\ LET held == blob[job[h].digest] # "absent"
       IN  CASE job[h].call = "has" /\ held -> Answer(h, "yes")
             [] job[h].call = "is_resolvable" /\ ~ held -> Answer(h, "no")
             [] OTHER -> Goto(h, "stat")
    /\ UNCHANGED <<files, marks, cache, seen, calls, history>>

\* Then they answer from the cache.
Decide(h) ==
    /\ At(h, Reading, "decide")
    /\ LET marked == job[h].digest \in cache[h].marks
       IN  CASE job[h].call = "has" -> Answer(h, IF marked THEN "yes" ELSE "no")
             [] job[h].call = "is_resolvable" -> Answer(h, IF marked THEN "no" ELSE "yes")
             [] job[h].call = "get_bytes" /\ marked -> Answer(h, "tombstoned")
             [] OTHER -> Goto(h, "load")
    /\ UNCHANGED <<files, marks, cache, seen, calls, history>>

\* get_bytes reads the file, and verifies that it hashes to the digest.
Load(h) ==
    /\ At(h, {"get_bytes"}, "load")
    /\ Answer(h, CASE blob[job[h].digest] = "whole" -> "bytes"
                   [] blob[job[h].digest] = "partial" -> "corrupt"
                   [] OTHER -> "missing")
    /\ UNCHANGED <<files, marks, cache, seen, calls, history>>

-----------------------------------------------------------------------------

\* The process dies inside a call and the directory is opened again.
Crash(h) ==
    /\ "crash" \in Features
    /\ pc[h] # "idle"
    /\ Return(h)
    /\ fd' = [fd EXCEPT ![h] = "closed"]
    /\ cache' = [cache EXCEPT ![h] = NoCache]
    /\ had' = [had EXCEPT ![h] = FALSE]
    /\ UNCHANGED <<blob, scratch, marks, seen, calls, removed>>

Steps(h) ==
    \/ \E d \in Digests, name \in Mutating \cup Reading : Start(h, name, d)
    \/ PutCheck(h) \/ PutOpen(h) \/ PutFill(h) \/ PutRename(h)
    \/ Unlink(h) \/ Exists(h) \/ Stat(h) \/ Read(h) \/ Decide(h) \/ Load(h)
    \/ WriteDraft(h) \/ Swap(h) \/ Restamp(h)
    \/ Crash(h)

Next == \E h \in Handles : Steps(h)

Spec == Init /\ [][Next]_vars

-----------------------------------------------------------------------------

\* "a reader never observes a partially written blob" (oci_layout.py:168-169): the
\* scratch file is whole by the time it is renamed, after crashes that left half of
\* one behind too.
WholeBlobs == \A d \in Digests : blob[d] # "partial"

\* With any number of writers, a blob is torn only while a put that will still fill
\* it has it open: no interleaving of two puts leaves half a file behind for good.
Settled ==
    \A d \in Digests :
        blob[d] = "partial" => \E h \in Handles : job[h].digest = d /\ fd[h] = "blob"

\* A handle decides on a view of the record that was current when its call looked: it
\* is the record, or the record has moved since ("drops itself when either moves",
\* oci_layout.py:304-305), whoever wrote it.
AnswersCurrent ==
    \A h \in Handles :
        pc[h] = "decide" => cache[h].marks = record.marks \/ seen[h] < record.stamp

\* "a removed block is never indistinguishable from a corrupted one" (base.py:88-90):
\* bytes that a tombstone call took are recorded as destroyed once it is over, and
\* the redactions that follow keep the entry.
RemovedKnown ==
    \A d \in removed :
        \/ d \in record.marks \/ blob[d] # "absent"
        \/ \E h \in Handles : job[h].call = "tombstone" /\ job[h].digest = d

\* The bytes a tombstone or a delete has unlinked count as held until it has dealt
\* with the record, which is when the call takes effect.
Held == {d \in Digests : blob[d] # "absent" \/ \E h \in Handles : job[h].digest = d /\ had[h]}

Store == INSTANCE BlockStore WITH blobs <- Held, tombstones <- record.marks

\* One handle on a directory cannot be told from the in-memory store: every answer is
\* the one that store gives, although a call is several file operations here.
Implements == Store!Spec
=============================================================================
