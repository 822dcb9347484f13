-------------------------- MODULE OciLayoutProofs --------------------------
(***************************************************************************)
(* Theorems about OciLayout, for any set of digests and of handles.        *)
(***************************************************************************)
EXTENDS OciLayout, TLAPS

-----------------------------------------------------------------------------
(* Types.                                                                  *)

LEMMA TypeInit == Init => TypeOK
BY BoundAssumption DEF Init, TypeOK, FilesTyped, MarksTyped, CallsTyped, File, NoCache, NoJob, NoDraft

\* A call in progress names a digest.
LEMMA JobTyped ==
    ASSUME CallsTyped, NEW h \in Handles, pc[h] # "idle"
    PROVE  job[h].call \in Mutating \cup Reading /\ job[h].digest \in Digests
BY DEF CallsTyped

LEMMA FilesNext == TypeOK /\ [Next]_vars => FilesTyped'
<1> SUFFICES ASSUME TypeOK, [Next]_vars PROVE FilesTyped'
  OBVIOUS
<1> USE DEF File, FilesTyped
<1>1. ASSUME NEW h \in Handles, PutOpen(h) \/ PutFill(h) PROVE FilesTyped'
  BY <1>1 DEF PutOpen, PutFill, TypeOK, history
<1>2. ASSUME NEW h \in Handles, PutRename(h) PROVE FilesTyped'
  <2>1. job[h].digest \in Digests
    BY <1>2, JobTyped DEF PutRename, At, TypeOK
  <2> QED
    BY <1>2, <2>1 DEF PutRename, TypeOK, Renamed, files, history
<1>3. ASSUME NEW h \in Handles, Unlink(h) PROVE FilesTyped'
  <2>1. job[h].digest \in Digests
    BY <1>3, JobTyped DEF Unlink, At, TypeOK
  <2> QED
    BY <1>3, <2>1 DEF Unlink, TypeOK, Unnamed
<1>4. ASSUME NEW h \in Handles, Crash(h) PROVE FilesTyped'
  BY <1>4 DEF Crash, TypeOK
<1>5. ASSUME UNCHANGED <<files, removed>> PROVE FilesTyped'
  BY <1>5 DEF TypeOK, files
<1> QED
  BY <1>1, <1>2, <1>3, <1>4, <1>5
  DEF Next, Steps, Start, PutCheck, Exists, Stat, Read, Decide, Load, WriteDraft, Swap, Restamp, vars, history

LEMMA MarksNext == TypeOK /\ [Next]_vars => MarksTyped'
<1> SUFFICES ASSUME TypeOK, [Next]_vars PROVE MarksTyped'
  OBVIOUS
<1> USE DEF MarksTyped
<1>1. ASSUME NEW h \in Handles, Read(h) PROVE MarksTyped'
  BY <1>1 DEF Read, TypeOK, CallsTyped, marks
<1>2. ASSUME NEW h \in Handles, WriteDraft(h) PROVE MarksTyped'
  <2>1. job[h].digest \in Digests
    BY <1>2, JobTyped DEF WriteDraft, At, TypeOK
  <2>2. Marked(h) \in SUBSET Digests
    BY <2>1 DEF Marked, TypeOK
  <2>3. UNCHANGED <<record, cache>>
    BY <1>2 DEF WriteDraft
  <2>4. CASE UNCHANGED <<draft, clock>>
    BY <2>3, <2>4 DEF TypeOK
  <2>5. CASE clock' = clock + 1 /\ draft' = [here |-> TRUE, marks |-> Marked(h), stamp |-> clock + 1]
    <3>1. clock + 1 \in Nat
      BY DEF TypeOK
    <3> QED
      BY <2>2, <2>3, <2>5, <3>1 DEF TypeOK
  <2> QED
    BY <1>2, <2>4, <2>5 DEF WriteDraft
<1>3. ASSUME NEW h \in Handles, Swap(h) PROVE MarksTyped'
  <2>1. UNCHANGED <<clock, cache>>
    BY <1>3 DEF Swap
  <2>2. CASE UNCHANGED <<record, draft>>
    BY <2>1, <2>2 DEF TypeOK
  <2>3. CASE record' = [marks |-> draft.marks, stamp |-> draft.stamp] /\ draft' = NoDraft
    <3>1. draft.marks \in SUBSET Digests /\ draft.stamp \in Nat
      BY DEF TypeOK
    <3> QED
      BY <2>1, <2>3, <3>1 DEF TypeOK, NoDraft
  <2> QED
    BY <1>3, <2>2, <2>3 DEF Swap
<1>4. ASSUME NEW h \in Handles, Restamp(h) PROVE MarksTyped'
  <2>1. job[h].digest \in Digests
    BY <1>4, JobTyped DEF Restamp, TypeOK
  <2>2. Marked(h) \in SUBSET Digests
    BY <2>1 DEF Marked, TypeOK
  <2> QED
    BY <1>4, <2>2 DEF Restamp, TypeOK, marks
<1>5. ASSUME NEW h \in Handles, Crash(h) PROVE MarksTyped'
  BY <1>5 DEF Crash, TypeOK, NoCache, marks
<1>6. ASSUME UNCHANGED <<marks, cache>> PROVE MarksTyped'
  BY <1>6 DEF TypeOK, marks
<1> QED
  BY <1>1, <1>2, <1>3, <1>4, <1>5, <1>6
  DEF Next, Steps, Start, PutCheck, PutOpen, PutFill, PutRename, Unlink, Exists, Stat, Decide, Load, vars

\* However a call moves on, it stays one of the calls there are.
LEMMA PhaseTyped ==
    ASSUME CallsTyped, NEW h \in Handles, pc[h] # "idle",
           UNCHANGED calls, seen' \in [Handles -> Nat], had' \in [Handles -> BOOLEAN],
           \/ Return(h)
           \/ \E answer : Answer(h, answer)
           \/ \E phase \in {"open", "fill", "rename", "stat", "read", "decide", "swap", "restamp", "load"} :
                  Goto(h, phase)
    PROVE  CallsTyped'
<1> USE DEF CallsTyped
<1>1. CASE Return(h) \/ \E answer : Answer(h, answer)
  <2>1. pc' = [pc EXCEPT ![h] = "idle"] /\ job' = [job EXCEPT ![h] = NoJob]
    BY <1>1 DEF Return, Answer
  <2> QED
    BY <2>1
<1>2. ASSUME NEW phase \in {"open", "fill", "rename", "stat", "read", "decide", "swap", "restamp", "load"},
             Goto(h, phase)
      PROVE  CallsTyped'
  BY <1>2 DEF Goto
<1> QED
  BY <1>1, <1>2

LEMMA CallsNext == TypeOK /\ [Next]_vars => CallsTyped'
<1> SUFFICES ASSUME TypeOK, [Next]_vars PROVE CallsTyped'
  OBVIOUS
<1>t. /\ CallsTyped /\ seen \in [Handles -> Nat] /\ had \in [Handles -> BOOLEAN] /\ record.stamp \in Nat
  BY DEF TypeOK, MarksTyped, CallsTyped
<1>1. ASSUME NEW h \in Handles, NEW d \in Digests, NEW name \in Mutating \cup Reading, Start(h, name, d)
      PROVE  CallsTyped'
  <2>1. [call |-> name, digest |-> d] # NoJob
    BY DEF NoJob, Mutating, Reading
  <2> QED
    BY <1>1, <1>t, <2>1, BoundAssumption DEF Start, CallsTyped, history
<1>2. ASSUME NEW h \in Handles, PutCheck(h) \/ Exists(h) \/ Decide(h) \/ Load(h) PROVE CallsTyped'
  <2>1. pc[h] # "idle" /\ UNCHANGED <<seen, had, calls>>
    BY <1>2 DEF PutCheck, Exists, Decide, Load, At, history
  <2>2. Return(h) \/ Goto(h, "open") \/ Goto(h, "stat") \/ Goto(h, "load") \/ \E answer : Answer(h, answer)
    BY <1>2 DEF PutCheck, Exists, Decide, Load
  <2> QED
    BY <1>t, <2>1, <2>2, PhaseTyped
<1>3. ASSUME NEW h \in Handles, PutOpen(h) \/ PutFill(h) \/ PutRename(h) \/ Read(h) \/ Restamp(h)
      PROVE  CallsTyped'
  <2>1. pc[h] # "idle" /\ UNCHANGED <<seen, had, calls>>
    BY <1>3 DEF PutOpen, PutFill, PutRename, Read, Restamp, At, history
  <2>2. Return(h) \/ Goto(h, "fill") \/ Goto(h, "rename") \/ Goto(h, "decide")
    BY <1>3 DEF PutOpen, PutFill, PutRename, Read, Restamp
  <2> QED
    BY <1>t, <2>1, <2>2, PhaseTyped
<1>4. ASSUME NEW h \in Handles, Unlink(h) \/ WriteDraft(h) \/ Swap(h) PROVE CallsTyped'
  <2>1. pc[h] # "idle" /\ UNCHANGED <<seen, calls>> /\ had' \in [Handles -> BOOLEAN]
    BY <1>4, <1>t DEF Unlink, WriteDraft, Swap, At
  <2>2. Return(h) \/ Goto(h, "stat") \/ Goto(h, "swap") \/ Goto(h, "restamp")
    BY <1>4 DEF Unlink, WriteDraft, Swap
  <2> QED
    BY <1>t, <2>1, <2>2, PhaseTyped
<1>5. ASSUME NEW h \in Handles, Stat(h) PROVE CallsTyped'
  <2>1. pc[h] # "idle" /\ UNCHANGED <<had, calls>> /\ seen' \in [Handles -> Nat]
    BY <1>5, <1>t DEF Stat, history
  <2>2. Goto(h, "decide") \/ Goto(h, "read")
    BY <1>5 DEF Stat
  <2> QED
    BY <1>t, <2>1, <2>2, PhaseTyped
<1>6. ASSUME NEW h \in Handles, Crash(h) PROVE CallsTyped'
  BY <1>6, <1>t, PhaseTyped DEF Crash
<1>7. CASE UNCHANGED vars
  BY <1>7, <1>t DEF vars, CallsTyped, history
<1> QED
  BY <1>1, <1>2, <1>3, <1>4, <1>5, <1>6, <1>7 DEF Next, Steps

LEMMA TypeNext == TypeOK /\ [Next]_vars => TypeOK'
BY FilesNext, MarksNext, CallsNext DEF TypeOK

\* Every file, cache and call in progress keeps its type.
THEOREM TypeCorrect == Spec => []TypeOK
BY TypeInit, TypeNext, PTL DEF Spec

-----------------------------------------------------------------------------
(* How a step moves the handle that takes it.                              *)

Moves(h, from, to) == pc[h] = from /\ pc'[h] = to /\ job'[h] = job[h]

OthersAlone(h) ==
    \A g \in Handles \ {h} :
        /\ pc'[g] = pc[g] /\ job'[g] = job[g] /\ cache'[g] = cache[g]
        /\ seen'[g] = seen[g] /\ had'[g] = had[g]

OwnMove(h) ==
    \/ pc'[h] = "idle" /\ job'[h] = NoJob
    \/ /\ pc[h] = "idle" /\ pc'[h] = "start"
       /\ job'[h].call \in Reading \/ h \in Writers
    \/ /\ job[h].call = "put_bytes"
       /\ Moves(h, "start", "open") \/ Moves(h, "open", "fill") \/ Moves(h, "fill", "rename")
    \/ job[h].call # "put_bytes" /\ Moves(h, "start", "stat")
    \/ Moves(h, "stat", "read") \/ Moves(h, "stat", "decide") \/ Moves(h, "read", "decide")
    \/ job[h].call \in {"tombstone", "delete"} /\ Moves(h, "decide", "swap")
    \/ Moves(h, "swap", "restamp")
    \/ Moves(h, "decide", "load")

\* A step of one handle leaves the calls of the others alone, and its own call moves
\* on to the next phase or ends.
LEMMA StepOfOne ==
    ASSUME TypeOK, NEW h \in Handles, Steps(h)
    PROVE  OthersAlone(h) /\ OwnMove(h)
<1> USE DEF TypeOK, MarksTyped, CallsTyped, OthersAlone, OwnMove, Moves
<1>1. ASSUME NEW d \in Digests, NEW name \in Mutating \cup Reading, Start(h, name, d)
      PROVE  OthersAlone(h) /\ OwnMove(h)
  BY <1>1 DEF Start, history
<1>2. CASE PutCheck(h)
  BY <1>2 DEF PutCheck, At, Return, Goto, history
<1>3. CASE PutOpen(h) \/ PutFill(h)
  BY <1>3 DEF PutOpen, PutFill, At, Goto, history
<1>4. CASE PutRename(h) \/ Restamp(h)
  BY <1>4 DEF PutRename, Restamp, At, Return, history
<1>5. CASE Unlink(h) \/ Stat(h) \/ Read(h)
  BY <1>5 DEF Unlink, Stat, Read, At, Goto, history
<1>6. CASE Exists(h)
  BY <1>6 DEF Exists, At, Goto, Answer, history, Reading
<1>7. CASE Decide(h) \/ Load(h)
  BY <1>7 DEF Decide, Load, At, Goto, Answer, history
<1>8. CASE WriteDraft(h)
  BY <1>8 DEF WriteDraft, At, Goto, Return
<1>9. CASE Swap(h)
  BY <1>9 DEF Swap, Goto, Return
<1>10. CASE Crash(h)
  BY <1>10 DEF Crash, Return
<1> QED
  BY <1>1, <1>2, <1>3, <1>4, <1>5, <1>6, <1>7, <1>8, <1>9, <1>10 DEF Steps

-----------------------------------------------------------------------------
(* Torn blobs are being filled.                                            *)

OpenWhileFilling == \A h \in Handles : fd[h] # "closed" => pc[h] = "fill"

ScratchSettled ==
    \A d \in Digests :
        scratch[d] = "partial" => \E h \in Handles : job[h].digest = d /\ fd[h] = "scratch"

SettledInv == OpenWhileFilling /\ ScratchSettled /\ Settled

\* A step that touches no file, of a call that has none open.
LEMMA SettledElsewhere ==
    ASSUME TypeOK, SettledInv, NEW h \in Handles, Steps(h), UNCHANGED files, pc[h] # "fill"
    PROVE  SettledInv'
<1>1. OthersAlone(h) /\ OwnMove(h)
  BY StepOfOne
<1>2. fd[h] = "closed" /\ blob' = blob /\ scratch' = scratch /\ fd' = fd
  BY DEF SettledInv, OpenWhileFilling, files
<1>3. \A g \in Handles : fd[g] # "closed" => g # h /\ pc'[g] = pc[g] /\ job'[g] = job[g]
  BY <1>1, <1>2 DEF OthersAlone
<1>4. OpenWhileFilling'
  BY <1>2, <1>3 DEF SettledInv, OpenWhileFilling
<1>5. ScratchSettled'
  BY <1>2, <1>3 DEF SettledInv, ScratchSettled
<1>6. Settled'
  BY <1>2, <1>3 DEF SettledInv, Settled
<1> QED
  BY <1>4, <1>5, <1>6 DEF SettledInv

LEMMA SettledNext ==
    ASSUME "crash" \notin Features
    PROVE  TypeOK /\ SettledInv /\ [Next]_vars => SettledInv'
<1> SUFFICES ASSUME TypeOK, SettledInv, [Next]_vars PROVE SettledInv'
  OBVIOUS
<1>1. CASE UNCHANGED vars
  BY <1>1 DEF vars, files, SettledInv, OpenWhileFilling, ScratchSettled, Settled
<1>2. ASSUME NEW h \in Handles, Steps(h) PROVE SettledInv'
  <2>o. OthersAlone(h) /\ OwnMove(h)
    BY <1>2, StepOfOne
  <2>f. \A g \in Handles : fd[g] # "closed" => pc[g] = "fill"
    BY DEF SettledInv, OpenWhileFilling
  <2>t. /\ blob \in [Digests -> File] /\ scratch \in [Digests -> File]
        /\ fd \in [Handles -> {"closed", "scratch", "blob", "unlinked"}]
        /\ pc \in [Handles -> {"idle", "start", "open", "fill", "rename", "stat", "read", "decide",
                           "swap", "restamp", "load"}]
    BY DEF TypeOK, FilesTyped, CallsTyped
  <2>s. /\ \A d \in Digests : scratch[d] = "partial"
                => \E g \in Handles : job[g].digest = d /\ fd[g] = "scratch"
        /\ \A d \in Digests : blob[d] = "partial"
                => \E g \in Handles : job[g].digest = d /\ fd[g] = "blob"
    BY DEF SettledInv, ScratchSettled, Settled
  <2>1. CASE PutOpen(h)
    <3>1. /\ fd' = [fd EXCEPT ![h] = "scratch"] /\ blob' = blob /\ job' = job
          /\ scratch' = [scratch EXCEPT ![job[h].digest] = "partial"]
          /\ pc[h] = "open" /\ pc' = [pc EXCEPT ![h] = "fill"]
      BY <2>1 DEF PutOpen, At, Goto
    <3>2. fd[h] = "closed"
      BY <2>f, <3>1
    <3> QED
      BY <2>f, <2>t, <2>s, <3>1, <3>2 DEF SettledInv, OpenWhileFilling, ScratchSettled, Settled
  <2>2. CASE PutFill(h)
    <3>1. /\ fd' = [fd EXCEPT ![h] = "closed"] /\ job' = job
          /\ pc[h] = "fill" /\ pc' = [pc EXCEPT ![h] = "rename"]
      BY <2>2 DEF PutFill, At, Goto
    <3>d. job[h].digest \in Digests
      BY <2>2, JobTyped DEF PutFill, At, TypeOK
    <3>2. OpenWhileFilling'
      BY <2>f, <2>t, <3>1 DEF OpenWhileFilling
    <3>3. ScratchSettled'
      <4> SUFFICES ASSUME NEW d \in Digests, scratch'[d] = "partial"
                   PROVE  \E g \in Handles : job[g].digest = d /\ fd'[g] = "scratch"
        BY <3>1 DEF ScratchSettled
      <4>1. scratch[d] = "partial" /\ ~ (fd[h] = "scratch" /\ d = job[h].digest)
        BY <2>2, <2>t DEF PutFill
      <4> QED
        BY <2>t, <2>s, <3>1, <4>1
    <3>4. Settled'
      <4> SUFFICES ASSUME NEW d \in Digests, blob'[d] = "partial"
                   PROVE  \E g \in Handles : job[g].digest = d /\ fd'[g] = "blob"
        BY <3>1 DEF Settled
      <4>1. blob[d] = "partial" /\ ~ (fd[h] = "blob" /\ d = job[h].digest)
        BY <2>2, <2>t DEF PutFill
      <4> QED
        BY <2>t, <2>s, <3>1, <4>1
    <3> QED
      BY <3>2, <3>3, <3>4 DEF SettledInv
  <2>3. CASE PutRename(h)
    <3>1. pc[h] = "rename" /\ job' = [job EXCEPT ![h] = NoJob] /\ pc' = [pc EXCEPT ![h] = "idle"]
      BY <2>3 DEF PutRename, At, Return
    <3>2. CASE UNCHANGED files
      BY <1>2, <3>1, <3>2, SettledElsewhere
    <3>3. CASE /\ blob' = [blob EXCEPT ![job[h].digest] = scratch[job[h].digest]]
               /\ scratch' = [scratch EXCEPT ![job[h].digest] = "absent"]
               /\ fd' = Renamed(job[h].digest)
      <4>1. \A g \in Handles : fd[g] # "closed" => g # h /\ pc'[g] = "fill" /\ job'[g] = job[g]
        BY <2>f, <2>o, <3>1 DEF OthersAlone
      <4>2. OpenWhileFilling'
        BY <3>3, <4>1 DEF OpenWhileFilling, Renamed
      <4>3. ScratchSettled'
        BY <2>t, <2>s, <3>3, <4>1 DEF ScratchSettled, Renamed
      <4>4. Settled'
        BY <2>t, <2>s, <3>3, <4>1 DEF Settled, Renamed
      <4> QED
        BY <4>2, <4>3, <4>4 DEF SettledInv
    <3> QED
      BY <2>3, <3>2, <3>3 DEF PutRename
  <2>4. CASE Unlink(h)
    <3>1. /\ pc[h] = "start" /\ job' = job /\ pc' = [pc EXCEPT ![h] = "stat"] /\ scratch' = scratch
          /\ blob' = [blob EXCEPT ![job[h].digest] = "absent"] /\ fd' = Unnamed(job[h].digest)
      BY <2>4 DEF Unlink, At, Goto
    <3>2. OpenWhileFilling'
      BY <2>f, <2>t, <3>1 DEF OpenWhileFilling, Unnamed
    <3>3. ScratchSettled'
      BY <2>s, <3>1 DEF ScratchSettled, Unnamed
    <3>4. Settled'
      BY <2>t, <2>s, <3>1 DEF Settled, Unnamed
    <3> QED
      BY <3>2, <3>3, <3>4 DEF SettledInv
  <2>5. CASE UNCHANGED files /\ pc[h] # "fill"
    BY <1>2, <2>5, SettledElsewhere
  <2> QED
    BY <1>2, <2>1, <2>2, <2>3, <2>4, <2>5
    DEF Steps, Start, PutCheck, Exists, Stat, Read, Decide, Load, WriteDraft, Swap, Restamp, Crash, At
<1> QED
  BY <1>1, <1>2 DEF Next

\* However many handles put, redact and delete at once, a blob is torn only while a
\* put that will fill it has it open, as long as none of them dies.
THEOREM AlwaysSettled ==
    ASSUME "crash" \notin Features
    PROVE  Spec => []Settled
<1>1. Init => SettledInv
  BY DEF Init, SettledInv, OpenWhileFilling, ScratchSettled, Settled
<1>2. TypeOK /\ SettledInv /\ [Next]_vars => SettledInv'
  BY SettledNext
<1>3. SettledInv => Settled
  BY DEF SettledInv
<1> QED
  BY <1>1, <1>2, <1>3, TypeInit, TypeNext, PTL DEF Spec

-----------------------------------------------------------------------------
(* A directory with one writer, beside any number of readers.              *)

OneWriter == \A v, w \in Writers : v = w

\* Only a writer is ever in a call that changes the store, in the phases of that call.
Disciplined ==
    \A h \in Handles :
        /\ job[h].call \in Mutating => h \in Writers
        /\ pc[h] \in {"open", "fill", "rename"} => job[h].call = "put_bytes"
        /\ pc[h] \in {"swap", "restamp"} => job[h].call \in {"tombstone", "delete"}
        /\ pc[h] \in {"stat", "read", "decide"} => job[h].call # "put_bytes"

LEMMA DisciplinedNext == TypeOK /\ Disciplined /\ [Next]_vars => Disciplined'
<1> SUFFICES ASSUME TypeOK, Disciplined, [Next]_vars PROVE Disciplined'
  OBVIOUS
<1>1. CASE UNCHANGED vars
  BY <1>1 DEF vars, Disciplined
<1>2. ASSUME NEW h \in Handles, Steps(h) PROVE Disciplined'
  <2>1. OthersAlone(h) /\ OwnMove(h)
    BY <1>2, StepOfOne
  <2> QED
    BY <2>1 DEF Disciplined, OthersAlone, OwnMove, Moves, NoJob, Mutating, Reading
<1> QED
  BY <1>1, <1>2 DEF Next

\* While one handle changes the store, every other is only reading it.
LEMMA OthersRead ==
    ASSUME OneWriter, TypeOK, Disciplined, NEW h \in Handles, job[h].call \in Mutating,
           NEW g \in Handles, g # h
    PROVE  job[g].call \notin Mutating /\ pc[g] \notin {"open", "fill", "rename", "swap", "restamp"}
BY DEF OneWriter, Disciplined, Mutating

\* The scratch file of a put is the one it opened, and is whole once it is filled.
PutWhole ==
    \A h \in Handles :
        /\ pc[h] = "fill" => fd[h] = "scratch"
        /\ pc[h] = "rename" => scratch[job[h].digest] = "whole"

LEMMA WholeNext ==
    ASSUME OneWriter
    PROVE  TypeOK /\ Disciplined /\ PutWhole /\ WholeBlobs /\ [Next]_vars => (PutWhole /\ WholeBlobs)'
<1> SUFFICES ASSUME TypeOK, Disciplined, PutWhole, WholeBlobs, [Next]_vars
             PROVE  (PutWhole /\ WholeBlobs)'
  OBVIOUS
<1>1. CASE UNCHANGED vars
  BY <1>1 DEF vars, files, PutWhole, WholeBlobs
<1>2. ASSUME NEW h \in Handles, Steps(h) PROVE (PutWhole /\ WholeBlobs)'
  <2>o. OthersAlone(h) /\ OwnMove(h)
    BY <1>2, StepOfOne
  <2>t. /\ blob \in [Digests -> File] /\ scratch \in [Digests -> File]
        /\ fd \in [Handles -> {"closed", "scratch", "blob", "unlinked"}]
    BY DEF TypeOK, FilesTyped
  <2>d. pc[h] # "idle" => job[h].digest \in Digests
    BY JobTyped DEF TypeOK
  <2>a. ASSUME job[h].call \in Mutating, NEW g \in Handles, g # h
        PROVE  pc'[g] \notin {"fill", "rename"}
    BY <2>a, <2>o, OthersRead DEF OthersAlone
  <2>1. CASE PutOpen(h)
    <3>1. pc'[h] = "fill" /\ fd'[h] = "scratch" /\ blob' = blob /\ job[h].call \in Mutating
      BY <2>1, <2>t DEF PutOpen, At, Goto, TypeOK, CallsTyped, Mutating
    <3> QED
      BY <2>a, <3>1 DEF PutWhole, WholeBlobs
  <2>2. CASE PutFill(h)
    <3>1. fd[h] = "scratch" /\ job[h].call \in Mutating /\ job[h].digest \in Digests
      BY <2>2, <2>d DEF PutFill, At, PutWhole, Mutating
    <3>2. pc'[h] = "rename" /\ job'[h] = job[h] /\ blob' = blob /\ scratch'[job[h].digest] = "whole"
      BY <2>2, <2>t, <3>1 DEF PutFill, At, Goto, TypeOK, CallsTyped
    <3> QED
      BY <2>a, <3>1, <3>2 DEF PutWhole, WholeBlobs
  <2>3. CASE PutRename(h)
    <3>1. /\ scratch[job[h].digest] = "whole" /\ job[h].call \in Mutating /\ job[h].digest \in Digests
          /\ pc'[h] = "idle"
      BY <2>3, <2>d DEF PutRename, At, PutWhole, Mutating, Return, TypeOK, CallsTyped
    <3>2. blob' = [blob EXCEPT ![job[h].digest] = "whole"]
      BY <2>3, <3>1 DEF PutRename
    <3> QED
      BY <2>a, <2>t, <3>1, <3>2 DEF PutWhole, WholeBlobs
  <2>4. CASE Unlink(h)
    <3>1. job[h].call \in Mutating /\ pc'[h] = "stat"
      BY <2>4 DEF Unlink, At, Mutating, Goto, TypeOK, CallsTyped
    <3>2. WholeBlobs'
      BY <2>4, <2>t DEF Unlink, WholeBlobs
    <3> QED
      BY <2>a, <3>1, <3>2 DEF PutWhole
  <2>5. CASE Crash(h)
    <3>1. pc'[h] = "idle" /\ blob' = blob /\ scratch' = scratch /\ \A g \in Handles \ {h} : fd'[g] = fd[g]
      BY <2>5, <2>t DEF Crash, Return, TypeOK, CallsTyped
    <3> QED
      BY <2>o, <3>1 DEF OthersAlone, PutWhole, WholeBlobs
  <2>6. CASE UNCHANGED files /\ pc'[h] \notin {"fill", "rename"}
    BY <2>o, <2>6 DEF files, OthersAlone, PutWhole, WholeBlobs
  <2>7. PutOpen(h) \/ PutFill(h) \/ PutRename(h) \/ Unlink(h) \/ Crash(h) \/ UNCHANGED files
    BY <1>2
    DEF Steps, Start, PutCheck, Exists, Stat, Read, Decide, Load, WriteDraft, Swap, Restamp
  <2>8. pc'[h] \in {"fill", "rename"} => PutOpen(h) \/ PutFill(h)
    <3>1. pc'[h] \in {"fill", "rename"} => job[h].call = "put_bytes" /\ pc[h] \in {"open", "fill"}
      BY <2>o DEF OwnMove, Moves
    <3> QED
      BY <1>2, <3>1
      DEF Steps, Start, PutCheck, PutOpen, PutFill, PutRename, Unlink, Exists, Stat, Read, Decide, Load,
          WriteDraft, Swap, Restamp, Crash, At, Return, TypeOK, CallsTyped, Reading
  <2> QED
    BY <2>1, <2>2, <2>3, <2>4, <2>5, <2>6, <2>7, <2>8
<1> QED
  BY <1>1, <1>2 DEF Next

\* With one writer, and crashes of any handle at any point, a reader never finds a
\* partially written blob.
THEOREM AlwaysWhole ==
    ASSUME OneWriter
    PROVE  Spec => []WholeBlobs
<1>1. Init => Disciplined /\ PutWhole /\ WholeBlobs
  BY DEF Init, Disciplined, PutWhole, WholeBlobs, NoJob, Mutating
<1>2. TypeOK /\ Disciplined /\ PutWhole /\ WholeBlobs /\ [Next]_vars => (PutWhole /\ WholeBlobs)'
  BY WholeNext
<1> QED
  BY <1>1, <1>2, TypeInit, TypeNext, DisciplinedNext, PTL DEF Spec

-----------------------------------------------------------------------------
(* Answers from the cache.                                                 *)

\* Stamps only grow, and a draft's is newer than the record's.
Stamped ==
    /\ record.stamp <= clock
    /\ draft.here => record.stamp < draft.stamp /\ draft.stamp <= clock
    /\ record.stamp = 0 => record.marks = {}
    /\ \A h \in Handles : cache[h].stamp <= record.stamp /\ seen[h] <= record.stamp

\* A cache under the record's stamp holds what the record holds.
Coherent ==
    \A h \in Handles : cache[h].known /\ cache[h].stamp = record.stamp => cache[h].marks = record.marks

\* What the writer is about to file, and then has filed, is what it worked out.
Written ==
    \A h \in Handles :
        /\ pc[h] = "swap" => draft.here /\ draft.marks = Marked(h)
        /\ pc[h] = "restamp" => record.marks = Marked(h)

CurrentInv == Stamped /\ Coherent /\ Written /\ AnswersCurrent

\* Which steps take a call to the phases in which it relies on the record.
LEMMA RecordPhases ==
    ASSUME TypeOK, NEW h \in Handles, Steps(h)
    PROVE  /\ pc'[h] = "decide" => Stat(h) \/ Read(h)
           /\ pc'[h] = "swap" => WriteDraft(h)
           /\ pc'[h] = "restamp" => Swap(h)
           /\ \/ Stat(h) \/ Read(h) \/ WriteDraft(h) \/ Swap(h) \/ Restamp(h) \/ Crash(h)
              \/ UNCHANGED <<marks, cache, seen>>
<1>1. pc \in [Handles -> {"idle", "start", "open", "fill", "rename", "stat", "read", "decide",
                          "swap", "restamp", "load"}]
  BY DEF TypeOK, CallsTyped
<1> QED
  BY <1>1
  DEF Steps, Start, PutCheck, PutOpen, PutFill, PutRename, Unlink, Exists, Stat, Read, Decide, Load,
      WriteDraft, Swap, Restamp, Crash, At, Goto, Return, Answer

LEMMA CurrentNext ==
    ASSUME OneWriter
    PROVE  TypeOK /\ Disciplined /\ CurrentInv /\ [Next]_vars => CurrentInv'
<1> SUFFICES ASSUME TypeOK, Disciplined, CurrentInv, [Next]_vars PROVE CurrentInv'
  OBVIOUS
<1> USE DEF CurrentInv
<1>1. CASE UNCHANGED vars
  BY <1>1 DEF vars, marks, Stamped, Coherent, Written, Marked, AnswersCurrent
<1>2. ASSUME NEW h \in Handles, Steps(h) PROVE CurrentInv'
  <2>o. OthersAlone(h) /\ OwnMove(h)
    BY <1>2, StepOfOne
  <2>p. /\ pc'[h] = "decide" => Stat(h) \/ Read(h)
        /\ pc'[h] = "swap" => WriteDraft(h)
        /\ pc'[h] = "restamp" => Swap(h)
    BY <1>2, RecordPhases
  <2>t. /\ record \in [marks : SUBSET Digests, stamp : Nat]
        /\ draft \in [here : BOOLEAN, marks : SUBSET Digests, stamp : Nat] /\ clock \in Nat
        /\ cache \in [Handles -> [known : BOOLEAN, marks : SUBSET Digests, stamp : Nat]]
        /\ seen \in [Handles -> Nat]
    BY DEF TypeOK, MarksTyped, CallsTyped
  <2>a. ASSUME job[h].call \in Mutating, NEW g \in Handles, g # h
        PROVE  pc'[g] \notin {"swap", "restamp"}
    BY <2>a, <2>o, OthersRead DEF OthersAlone
  <2>w. \A g \in Handles \ {h} : Marked(g)' = Marked(g)
    BY <2>o DEF OthersAlone, Marked
  <2>1. CASE Stat(h)
    <3>1. /\ record' = record /\ draft' = draft /\ clock' = clock /\ cache' = cache
          /\ seen' = [seen EXCEPT ![h] = record.stamp]
          /\ pc'[h] = "decide" => cache[h].known /\ cache[h].stamp = record.stamp
          /\ pc'[h] \in {"decide", "read"}
      BY <2>1 DEF Stat, marks, Goto, TypeOK, CallsTyped
    <3>2. Stamped' /\ Coherent'
      BY <2>t, <3>1 DEF Stamped, Coherent
    <3>3. Written'
      BY <2>o, <2>w, <3>1 DEF Written, OthersAlone
    <3>4. AnswersCurrent'
      BY <2>o, <2>t, <3>1 DEF AnswersCurrent, OthersAlone, Coherent
    <3> QED
      BY <3>2, <3>3, <3>4
  <2>2. CASE Read(h)
    <3>1. /\ record' = record /\ draft' = draft /\ clock' = clock /\ seen' = seen
          /\ cache'[h] = [known |-> TRUE, stamp |-> seen[h], marks |-> IF seen[h] = 0 THEN {} ELSE record.marks]
          /\ pc'[h] = "decide"
      BY <2>2, <2>t DEF Read, marks, Goto, TypeOK, CallsTyped
    <3>2. cache'[h].stamp = seen[h] /\ cache'[h].marks = IF seen[h] = 0 THEN {} ELSE record.marks
      BY <3>1
    <3>3. seen[h] = record.stamp => cache'[h].marks = record.marks
      BY <3>2 DEF Stamped
    <3>4. /\ record' = record /\ draft' = draft /\ clock' = clock /\ seen' = seen /\ pc'[h] = "decide"
          /\ cache'[h].stamp = seen[h]
      BY <3>1, <3>2
    <3>5. Stamped'
      BY <2>o, <2>t, <3>4 DEF Stamped, OthersAlone
    <3>6. Coherent'
      BY <2>o, <3>3, <3>4 DEF Coherent, OthersAlone
    <3>7. Written'
      BY <2>o, <2>w, <3>4 DEF Written, OthersAlone
    <3>8. seen[h] = record.stamp \/ seen[h] < record.stamp
      BY <2>t DEF Stamped
    <3>9. AnswersCurrent'
      BY <2>o, <3>3, <3>4, <3>8 DEF AnswersCurrent, OthersAlone
    <3> QED
      BY <3>5, <3>6, <3>7, <3>9
  <2>3. CASE WriteDraft(h)
    <3>1. record' = record /\ cache' = cache /\ seen' = seen /\ job[h].call \in Mutating
      BY <2>3 DEF WriteDraft, At, Mutating
    <3>2. Coherent' /\ AnswersCurrent'
      BY <2>o, <2>p, <2>3, <3>1 DEF Coherent, AnswersCurrent, OthersAlone, WriteDraft, Stat, Read, At
    <3>3. CASE draft' = draft /\ clock' = clock /\ pc'[h] = "idle"
      <4>1. Stamped'
        BY <3>1, <3>3 DEF Stamped
      <4>2. Written'
        BY <2>a, <3>1, <3>3 DEF Written
      <4> QED
        BY <3>2, <4>1, <4>2
    <3>4. CASE /\ clock' = clock + 1 /\ pc'[h] = "swap" /\ job' = job
               /\ draft' = [here |-> TRUE, marks |-> Marked(h), stamp |-> clock + 1]
      <4>1. Stamped'
        BY <2>t, <3>1, <3>4 DEF Stamped
      <4>2. Marked(h)' = Marked(h)
        BY <3>1, <3>4 DEF Marked
      <4>3. Written'
        BY <2>a, <3>1, <3>4, <4>2 DEF Written
      <4> QED
        BY <3>2, <4>1, <4>3
    <3> QED
      BY <2>3, <3>3, <3>4 DEF WriteDraft, Return, Goto, TypeOK, CallsTyped
  <2>4. CASE Swap(h)
    <3>1. clock' = clock /\ cache' = cache /\ seen' = seen /\ pc[h] = "swap" /\ job[h].call \in Mutating
      BY <2>4 DEF Swap, Disciplined, Mutating
    <3>2. draft.here /\ draft.marks = Marked(h)
      BY <3>1 DEF Written
    <3>3. /\ record' = [marks |-> draft.marks, stamp |-> draft.stamp] /\ draft' = NoDraft
          /\ pc'[h] = "restamp" /\ job' = job
      BY <2>4, <3>2 DEF Swap, Goto, TypeOK, CallsTyped
    <3>4. record'.stamp = draft.stamp /\ record'.marks = draft.marks /\ ~ draft'.here
      BY <3>3 DEF NoDraft
    <3>5. record.stamp < record'.stamp /\ record'.stamp <= clock /\ record'.stamp \in Nat
      BY <2>t, <3>2, <3>4 DEF Stamped
    <3>6. \A g \in Handles : cache'[g].stamp < record'.stamp /\ seen'[g] < record'.stamp
      BY <2>t, <3>1, <3>5 DEF Stamped
    <3>7. Stamped' /\ Coherent' /\ AnswersCurrent'
      BY <2>t, <3>1, <3>4, <3>5, <3>6 DEF Stamped, Coherent, AnswersCurrent
    <3>8. Marked(h)' = Marked(h)
      BY <3>1, <3>3 DEF Marked
    <3>9. Written'
      BY <2>a, <3>1, <3>2, <3>3, <3>4, <3>8 DEF Written
    <3> QED
      BY <3>7, <3>9
  <2>5. CASE Restamp(h)
    <3>1. /\ record' = record /\ draft' = draft /\ clock' = clock /\ seen' = seen /\ pc'[h] = "idle"
          /\ cache'[h] = [known |-> TRUE, marks |-> Marked(h), stamp |-> record.stamp]
          /\ Marked(h) = record.marks
      BY <2>5, <2>t DEF Restamp, marks, Return, TypeOK, CallsTyped, Written
    <3>2. cache'[h].marks = record.marks /\ cache'[h].stamp = record.stamp
      BY <3>1
    <3>3. Stamped' /\ Coherent'
      BY <2>o, <2>t, <3>1, <3>2 DEF Stamped, Coherent, OthersAlone
    <3>4. Written' /\ AnswersCurrent'
      BY <2>o, <2>w, <3>1 DEF Written, AnswersCurrent, OthersAlone
    <3> QED
      BY <3>3, <3>4
  <2>6. CASE Crash(h)
    <3>1. /\ record' = record /\ draft' = draft /\ clock' = clock /\ seen' = seen /\ pc'[h] = "idle"
          /\ cache'[h] = NoCache
      BY <2>6, <2>t DEF Crash, marks, Return, TypeOK, CallsTyped
    <3>2. ~ cache'[h].known /\ cache'[h].stamp = 0
      BY <3>1 DEF NoCache
    <3>3. Stamped' /\ Coherent'
      BY <2>o, <2>t, <3>1, <3>2 DEF Stamped, Coherent, OthersAlone
    <3>4. Written' /\ AnswersCurrent'
      BY <2>o, <2>w, <3>1 DEF Written, AnswersCurrent, OthersAlone
    <3> QED
      BY <3>3, <3>4
  <2>7. CASE UNCHANGED <<marks, cache, seen>> /\ pc'[h] \notin {"decide", "swap", "restamp"}
    <3>1. Stamped' /\ Coherent'
      BY <2>7 DEF marks, Stamped, Coherent
    <3>2. Written' /\ AnswersCurrent'
      BY <2>o, <2>w, <2>7 DEF marks, Written, AnswersCurrent, OthersAlone
    <3> QED
      BY <3>1, <3>2
  <2> QED
    BY <1>2, <2>p, <2>1, <2>2, <2>3, <2>4, <2>5, <2>6, <2>7, RecordPhases
<1> QED
  BY <1>1, <1>2 DEF Next

LEMMA CurrentInit == Init => Disciplined /\ CurrentInv
BY DEF Init, CurrentInv, Disciplined, Stamped, Coherent, Written, AnswersCurrent, NoJob, NoCache, NoDraft,
       Mutating

\* With one writer and crashes of any handle, a handle decides on the record as it was
\* when the call looked, although it looks at the stamp and the contents separately.
THEOREM AnswersAlwaysCurrent ==
    ASSUME OneWriter
    PROVE  Spec => []AnswersCurrent
<1>1. TypeOK /\ Disciplined /\ CurrentInv /\ [Next]_vars => CurrentInv'
  BY CurrentNext
<1>2. CurrentInv => AnswersCurrent
  BY DEF CurrentInv
<1> QED
  BY <1>1, <1>2, CurrentInit, TypeInit, TypeNext, DisciplinedNext, PTL DEF Spec

-----------------------------------------------------------------------------
(* Redactions are on record.                                               *)

\* The writer works on the record as it is: nobody else moves it.
Fresh ==
    \A h \in Handles :
        job[h].call \in {"tombstone", "delete"} =>
            /\ pc[h] \in {"read", "decide"} => seen[h] = record.stamp
            /\ pc[h] = "swap" => cache[h].marks = record.marks

\* What is being deleted need not be known any more.
Forgotten ==
    \A h \in Handles :
        job[h].call = "delete" /\ pc[h] \in {"stat", "read", "decide", "swap", "restamp"}
            => job[h].digest \notin removed

IdleFree == \A h \in Handles : pc[h] = "idle" => job[h] = NoJob

RemovedInv == IdleFree /\ Fresh /\ Forgotten /\ RemovedKnown

LEMMA RemovedNext ==
    ASSUME OneWriter, "crash" \notin Features
    PROVE  TypeOK /\ Disciplined /\ CurrentInv /\ RemovedInv /\ [Next]_vars => RemovedInv'
<1> SUFFICES ASSUME TypeOK, Disciplined, CurrentInv, RemovedInv, [Next]_vars PROVE RemovedInv'
  OBVIOUS
<1>1. CASE UNCHANGED vars
  BY <1>1 DEF vars, files, marks, history, RemovedInv, IdleFree, Fresh, Forgotten, RemovedKnown
<1>2. ASSUME NEW h \in Handles, Steps(h) PROVE RemovedInv'
  <2>o. OthersAlone(h) /\ OwnMove(h)
    BY <1>2, StepOfOne
  <2>p. /\ pc'[h] = "decide" => Stat(h) \/ Read(h)
        /\ pc'[h] = "swap" => WriteDraft(h)
        /\ pc'[h] = "restamp" => Swap(h)
    BY <1>2, RecordPhases
  <2>t. /\ record \in [marks : SUBSET Digests, stamp : Nat]
        /\ cache \in [Handles -> [known : BOOLEAN, marks : SUBSET Digests, stamp : Nat]]
        /\ seen \in [Handles -> Nat] /\ blob \in [Digests -> File] /\ removed \subseteq Digests
        /\ pc \in [Handles -> {"idle", "start", "open", "fill", "rename", "stat", "read", "decide",
                               "swap", "restamp", "load"}]
    BY DEF TypeOK, MarksTyped, FilesTyped, CallsTyped
  <2>d. pc[h] # "idle" => job[h].digest \in Digests
    BY JobTyped DEF TypeOK
  <2>a. ASSUME job[h].call \in Mutating, NEW g \in Handles, g # h
        PROVE  job'[g].call \notin Mutating
    BY <2>a, <2>o, OthersRead DEF OthersAlone
  <2>i. IdleFree'
    BY <2>o DEF RemovedInv, IdleFree, OthersAlone, OwnMove, Moves
  <2>1. CASE Unlink(h)
    <3>1. /\ job[h].call \in {"tombstone", "delete"} /\ job' = job /\ pc'[h] = "stat" /\ record' = record
          /\ blob' = [blob EXCEPT ![job[h].digest] = "absent"]
          /\ job[h].call = "delete" => removed' = removed \ {job[h].digest}
          /\ job[h].call = "tombstone" => removed' \subseteq removed \cup {job[h].digest}
      BY <2>1, <2>t DEF Unlink, At, Goto, marks
    <3>2. Fresh' /\ Forgotten'
      BY <2>a, <3>1 DEF Fresh, Forgotten, Mutating
    <3>3. RemovedKnown'
      BY <2>t, <3>1 DEF RemovedInv, RemovedKnown
    <3> QED
      BY <2>i, <3>2, <3>3 DEF RemovedInv
  <2>2. CASE PutRename(h)
    <3>1. /\ job[h].call = "put_bytes" /\ job'[h] = NoJob /\ pc'[h] = "idle" /\ record' = record
          /\ removed' = removed
      BY <2>2 DEF PutRename, At, Return, marks, history, TypeOK, CallsTyped
    <3>2. \A d \in Digests : blob[d] # "absent" => blob'[d] # "absent"
      BY <2>2, <2>t DEF PutRename, files
    <3>3. Fresh' /\ Forgotten'
      BY <2>a, <3>1 DEF Fresh, Forgotten, Mutating
    <3>4. RemovedKnown'
      BY <2>o, <2>t, <3>1, <3>2 DEF RemovedInv, RemovedKnown, OthersAlone
    <3> QED
      BY <2>i, <3>3, <3>4 DEF RemovedInv
  <2>3. CASE Stat(h) \/ Read(h)
    <3>1. blob' = blob /\ record' = record /\ removed' = removed /\ job' = job
      BY <2>3 DEF Stat, Read, Goto, files, marks, history
    <3>2. pc'[h] \in {"read", "decide"} /\ (Stat(h) \/ pc[h] = "read") /\ pc[h] \in {"stat", "read"}
      BY <2>3, <2>t DEF Stat, Read, Goto
    <3>3. Stat(h) => seen'[h] = record.stamp
      BY <2>t DEF Stat
    <3>4. Read(h) => seen' = seen
      BY DEF Read
    <3>5. Fresh'
      BY <2>o, <2>3, <3>1, <3>2, <3>3, <3>4 DEF RemovedInv, Fresh, OthersAlone
    <3>6. Forgotten'
      BY <2>o, <3>1, <3>2 DEF RemovedInv, Forgotten, OthersAlone
    <3>7. RemovedKnown'
      BY <3>1 DEF RemovedInv, RemovedKnown
    <3> QED
      BY <2>i, <3>5, <3>6, <3>7 DEF RemovedInv
  <2>4. CASE WriteDraft(h)
    <3>1. /\ blob' = blob /\ record' = record /\ removed' = removed /\ cache' = cache
          /\ job[h].call \in {"tombstone", "delete"} /\ pc[h] = "decide"
      BY <2>4 DEF WriteDraft, At, files
    <3>2. cache[h].marks = record.marks
      BY <2>t, <3>1 DEF RemovedInv, Fresh, CurrentInv, AnswersCurrent
    <3>3. \/ job[h].call = "delete" /\ pc'[h] = "idle" /\ job'[h] = NoJob
          \/ pc'[h] = "swap" /\ job'[h] = job[h]
      BY <2>4, <2>t DEF WriteDraft, Goto, Return, TypeOK, CallsTyped
    <3>4. Fresh'
      BY <2>a, <3>1, <3>2, <3>3 DEF Fresh, Mutating, NoJob
    <3>5. Forgotten'
      BY <2>a, <3>1, <3>3 DEF RemovedInv, Forgotten, Mutating, NoJob
    <3>6. RemovedKnown'
      BY <2>o, <3>1, <3>3 DEF RemovedInv, RemovedKnown, OthersAlone
    <3> QED
      BY <2>i, <3>4, <3>5, <3>6 DEF RemovedInv
  <2>5. CASE Swap(h)
    <3>1. /\ blob' = blob /\ removed' = removed /\ pc[h] = "swap"
          /\ job[h].call \in {"tombstone", "delete"} /\ draft.here /\ draft.marks = Marked(h)
          /\ cache[h].marks = record.marks
      BY <2>5 DEF Swap, files, Disciplined, CurrentInv, Written, RemovedInv, Fresh
    <3>2. record'.marks = Marked(h) /\ pc'[h] = "restamp" /\ job' = job
      BY <2>5, <2>t, <3>1 DEF Swap, Goto
    <3>3. Fresh' /\ Forgotten'
      BY <2>a, <3>1, <3>2 DEF RemovedInv, Fresh, Forgotten, Mutating
    <3>4. job[h].call = "delete" => job[h].digest \notin removed
      BY <3>1 DEF RemovedInv, Forgotten
    <3>5. \A d \in removed : d \in record.marks => d \in record'.marks
      BY <3>1, <3>2, <3>4 DEF Marked
    <3>6. RemovedKnown'
      BY <3>1, <3>2, <3>5 DEF RemovedInv, RemovedKnown
    <3> QED
      BY <2>i, <3>3, <3>6 DEF RemovedInv
  <2>6. CASE Restamp(h)
    <3>1. /\ blob' = blob /\ removed' = removed /\ record' = record /\ pc[h] = "restamp"
          /\ pc'[h] = "idle" /\ job'[h] = NoJob /\ job[h].call \in {"tombstone", "delete"}
      BY <2>6, <2>t DEF Restamp, files, marks, history, Return, Disciplined, TypeOK, CallsTyped
    <3>2. job[h].call = "tombstone" => job[h].digest \in record.marks
      BY <3>1 DEF CurrentInv, Written, Marked
    <3>3. Fresh' /\ Forgotten'
      BY <2>a, <3>1 DEF Fresh, Forgotten, Mutating, NoJob
    <3>4. RemovedKnown'
      BY <2>o, <3>1, <3>2 DEF RemovedInv, RemovedKnown, OthersAlone
    <3> QED
      BY <2>i, <3>3, <3>4 DEF RemovedInv
  <2>7. CASE Exists(h) \/ Decide(h) \/ Load(h) \/ PutCheck(h) \/ PutOpen(h) \/ PutFill(h)
    <3>1. /\ record' = record /\ removed' = removed /\ seen' = seen /\ cache' = cache
          /\ job[h].call \notin {"tombstone", "delete"}
          /\ job'[h] = job[h] \/ job'[h] = NoJob
      BY <2>7
      DEF Exists, Decide, Load, PutCheck, PutOpen, PutFill, At, Goto, Return, Answer, marks, history, Reading,
          TypeOK, CallsTyped
    <3>2. \A d \in Digests : blob[d] # "absent" => blob'[d] # "absent"
      BY <2>7, <2>t DEF Exists, Decide, Load, PutCheck, PutOpen, PutFill, files
    <3>3. Fresh' /\ Forgotten'
      BY <2>o, <3>1 DEF RemovedInv, Fresh, Forgotten, OthersAlone, NoJob
    <3>4. RemovedKnown'
      BY <2>o, <2>t, <3>1, <3>2 DEF RemovedInv, RemovedKnown, OthersAlone
    <3> QED
      BY <2>i, <3>3, <3>4 DEF RemovedInv
  <2>8. ASSUME NEW d \in Digests, NEW name \in Mutating \cup Reading, Start(h, name, d) PROVE RemovedInv'
    <3>1. /\ blob' = blob /\ record' = record /\ removed' = removed /\ job[h] = NoJob /\ pc'[h] = "start"
      BY <2>8, <2>t DEF Start, files, marks, history, RemovedInv, IdleFree
    <3>2. Fresh' /\ Forgotten'
      BY <2>o, <3>1 DEF RemovedInv, Fresh, Forgotten, OthersAlone
    <3>3. RemovedKnown'
      BY <2>o, <3>1 DEF RemovedInv, RemovedKnown, OthersAlone, NoJob
    <3> QED
      BY <2>i, <3>2, <3>3 DEF RemovedInv
  <2> QED
    BY <1>2, <2>1, <2>2, <2>3, <2>4, <2>5, <2>6, <2>7, <2>8 DEF Steps, Crash
<1> QED
  BY <1>1, <1>2 DEF Next

\* With one writer that is not cut short, bytes that a redaction took are on record as
\* destroyed once it is over, whatever is put, redacted and deleted afterwards.
THEOREM RemovedAlwaysKnown ==
    ASSUME OneWriter, "crash" \notin Features
    PROVE  Spec => []RemovedKnown
<1>1. Init => RemovedInv
  BY DEF Init, RemovedInv, IdleFree, Fresh, Forgotten, RemovedKnown, NoJob
<1>2. TypeOK /\ Disciplined /\ CurrentInv /\ [Next]_vars => CurrentInv'
  BY CurrentNext
<1>3. TypeOK /\ Disciplined /\ CurrentInv /\ RemovedInv /\ [Next]_vars => RemovedInv'
  BY RemovedNext
<1>4. RemovedInv => RemovedKnown
  BY DEF RemovedInv
<1> QED
  BY <1>1, <1>2, <1>3, <1>4, CurrentInit, TypeInit, TypeNext, DisciplinedNext, PTL DEF Spec

-----------------------------------------------------------------------------
(* One handle implements the in-memory store.                              *)

Alone == \A g, h \in Handles : g = h

\* What a call has found out still holds when it acts on it.
Knows ==
    \A h \in Handles :
        /\ pc[h] \in {"read", "decide"} => seen[h] = record.stamp
        /\ pc[h] = "swap" => cache[h].marks = record.marks
        /\ pc[h] = "load" => job[h].digest \notin record.marks
        /\ had[h] => pc[h] \in {"stat", "read", "decide", "swap"} /\ job[h].call \in {"tombstone", "delete"}
        /\ pc[h] \in {"stat", "read", "decide", "swap"} =>
               /\ job[h].call \in {"tombstone", "delete", "has"} => blob[job[h].digest] = "absent"
               /\ job[h].call = "is_resolvable" => blob[job[h].digest] # "absent"

AloneInv ==
    TypeOK /\ Disciplined /\ PutWhole /\ WholeBlobs /\ CurrentInv /\ IdleFree /\ Knows

LEMMA AloneWriter == ASSUME Alone PROVE OneWriter
BY HandlesAssumption DEF Alone, OneWriter

\* The record a lone handle decides on is the record there is.
LEMMA DecidesOnRecord ==
    ASSUME AloneInv, NEW h \in Handles, pc[h] = "decide"
    PROVE  cache[h].marks = record.marks
<1>1. seen[h] \in Nat /\ record.stamp \in Nat
  BY DEF AloneInv, TypeOK, MarksTyped, CallsTyped
<1> QED
  BY <1>1 DEF AloneInv, CurrentInv, AnswersCurrent, Knows

LEMMA KnowsNext ==
    ASSUME Alone, "crash" \notin Features, AloneInv, NEW h \in Handles, Steps(h)
    PROVE  (IdleFree /\ Knows)'
<1>o. OthersAlone(h) /\ OwnMove(h)
  BY StepOfOne DEF AloneInv
<1>i. IdleFree'
  BY <1>o DEF AloneInv, IdleFree, OthersAlone, OwnMove, Moves
<1> SUFFICES Knows'
  BY <1>i
<1>t. /\ record \in [marks : SUBSET Digests, stamp : Nat]
      /\ seen \in [Handles -> Nat] /\ had \in [Handles -> BOOLEAN] /\ blob \in [Digests -> File]
      /\ pc \in [Handles -> {"idle", "start", "open", "fill", "rename", "stat", "read", "decide",
                             "swap", "restamp", "load"}]
  BY DEF AloneInv, TypeOK, MarksTyped, FilesTyped, CallsTyped
<1>d. pc[h] # "idle" => job[h].digest \in Digests
  BY JobTyped DEF AloneInv, TypeOK
<1>k. \A g \in Handles : g = h
  BY DEF Alone
<1>h. pc[h] \notin {"stat", "read", "decide", "swap"} => ~ had[h]
  BY DEF AloneInv, Knows
<1>1. CASE pc'[h] \notin {"stat", "read", "decide", "swap", "load"} /\ (had' = had \/ ~ had'[h])
           /\ pc[h] \notin {"stat", "read", "decide", "swap"}
  BY <1>k, <1>h, <1>1 DEF Knows
<1>2. CASE pc'[h] \notin {"stat", "read", "decide", "swap", "load"} /\ ~ had'[h]
  BY <1>k, <1>2 DEF Knows
<1>3. CASE Unlink(h)
  BY <1>3, <1>k, <1>t, <1>d DEF Unlink, At, Goto, Knows
<1>4. CASE Exists(h) /\ pc'[h] = "stat"
  BY <1>4, <1>k, <1>t, <1>h DEF Exists, At, Goto, Answer, Knows, history, files, Reading
<1>5. CASE Stat(h) \/ Read(h)
  <2>1. blob' = blob /\ record' = record /\ had' = had /\ job' = job
    BY <1>5 DEF Stat, Read, Goto, files, marks, history
  <2>2. pc'[h] \in {"read", "decide"} /\ pc[h] \in {"stat", "read"} /\ seen'[h] = record.stamp
    BY <1>5, <1>t DEF Stat, Read, Goto, AloneInv, Knows
  <2> QED
    BY <1>k, <2>1, <2>2 DEF AloneInv, Knows
<1>6. CASE WriteDraft(h) /\ pc'[h] = "swap"
  <2>1. /\ blob' = blob /\ record' = record /\ had' = had /\ job' = job /\ cache' = cache
        /\ pc[h] = "decide"
    BY <1>6, <1>t DEF WriteDraft, At, Goto, Return, files
  <2>2. cache[h].marks = record.marks
    BY <2>1, DecidesOnRecord
  <2> QED
    BY <1>k, <1>6, <2>1, <2>2 DEF AloneInv, Knows
<1>7. CASE Decide(h) /\ pc'[h] = "load"
  <2>1. /\ job' = job /\ record' = record /\ had' = had /\ pc[h] = "decide"
        /\ job[h].digest \notin cache[h].marks /\ job[h].call \in Reading
    BY <1>7, <1>t DEF Decide, At, Goto, Answer, marks, history, Reading
  <2>2. cache[h].marks = record.marks
    BY <2>1, DecidesOnRecord
  <2>3. ~ had[h]
    BY <2>1 DEF AloneInv, Knows, Reading
  <2> QED
    BY <1>k, <1>7, <2>1, <2>2, <2>3 DEF Knows
<1>8. CASE (Exists(h) /\ pc'[h] # "stat") \/ PutCheck(h) \/ PutOpen(h) \/ PutFill(h) \/ PutRename(h)
           \/ Load(h) \/ Restamp(h)
  <2>1. had' = had /\ pc[h] \in {"start", "open", "fill", "rename", "load", "restamp"}
        /\ pc'[h] \in {"idle", "open", "fill", "rename"}
    BY <1>8, <1>t
    DEF Exists, PutCheck, PutOpen, PutFill, PutRename, Load, Restamp, At, Goto, Return, Answer, history
  <2> QED
    BY <1>1, <2>1
<1>9. CASE Swap(h)
  <2>1. ~ had'[h] /\ pc'[h] \in {"restamp", "idle"}
    BY <1>9, <1>t DEF Swap, Goto, Return
  <2> QED
    BY <1>2, <2>1
<1>10. CASE WriteDraft(h) /\ pc'[h] # "swap"
  <2>1. ~ had'[h] /\ pc'[h] = "idle"
    BY <1>10, <1>t DEF WriteDraft, Goto, Return
  <2> QED
    BY <1>2, <2>1
<1>11. CASE Decide(h) /\ pc'[h] # "load"
  <2>1. had' = had /\ pc'[h] = "idle" /\ job[h].call \in Reading
    BY <1>11, <1>t DEF Decide, At, Goto, Answer, history
  <2>2. ~ had'[h]
    BY <2>1 DEF AloneInv, Knows, Reading
  <2> QED
    BY <1>2, <2>1, <2>2
<1>12. ASSUME NEW d \in Digests, NEW name \in Mutating \cup Reading, Start(h, name, d)
       PROVE  Knows'
  <2>1. had' = had /\ pc[h] = "idle" /\ pc'[h] = "start"
    BY <1>12, <1>t DEF Start, history
  <2> QED
    BY <1>1, <2>1
<1> QED
  BY <1>3, <1>4, <1>5, <1>6, <1>7, <1>8, <1>9, <1>10, <1>11, <1>12 DEF Steps, Crash

LEMMA AloneNext ==
    ASSUME Alone, "crash" \notin Features
    PROVE  AloneInv /\ [Next]_vars => AloneInv'
<1> SUFFICES ASSUME AloneInv, [Next]_vars PROVE AloneInv'
  OBVIOUS
<1>1. (IdleFree /\ Knows)'
  <2>1. CASE UNCHANGED vars
    BY <2>1 DEF vars, files, marks, history, AloneInv, IdleFree, Knows
  <2>2. ASSUME NEW h \in Handles, Steps(h) PROVE (IdleFree /\ Knows)'
    BY <2>2, KnowsNext
  <2> QED
    BY <2>1, <2>2 DEF Next
<1> QED
  BY <1>1, AloneWriter, TypeNext, DisciplinedNext, WholeNext, CurrentNext DEF AloneInv

\* A lone handle that has unlinked nothing holds what the directory holds.
LEMMA HeldByFile ==
    ASSUME Alone, NEW h \in Handles, ~ had[h]
    PROVE  Held = {d \in Digests : blob[d] # "absent"}
BY DEF Alone, Held

\* Every file operation is a call of the in-memory store taking effect, or nothing.
LEMMA StoreStep ==
    ASSUME Alone, "crash" \notin Features, AloneInv, AloneInv', NEW h \in Handles, Steps(h)
    PROVE  Store!Next \/ UNCHANGED Store!absVars
<1> DEFINE d == job[h].digest
<1>k. \A g \in Handles : g = h
  BY DEF Alone
<1>t. /\ had \in [Handles -> BOOLEAN] /\ blob \in [Digests -> File]
      /\ pc \in [Handles -> {"idle", "start", "open", "fill", "rename", "stat", "read", "decide",
                             "swap", "restamp", "load"}]
  BY DEF AloneInv, TypeOK, FilesTyped, CallsTyped
<1>d. pc[h] # "idle" => d \in Digests
  BY JobTyped DEF AloneInv, TypeOK
<1>h. pc[h] \notin {"stat", "read", "decide", "swap"} \/ job[h].call \notin {"tombstone", "delete"} => ~ had[h]
  BY DEF AloneInv, Knows
<1>s. ASSUME Held' = Held, record' = record, reply' = reply PROVE UNCHANGED Store!absVars
  BY <1>s DEF Store!absVars
<1>1. CASE PutRename(h)
  <2>1. /\ scratch[d] = "whole" /\ d \in Digests /\ ~ had[h] /\ had' = had /\ record' = record
        /\ reply' = reply
    BY <1>1, <1>d, <1>h DEF PutRename, At, AloneInv, PutWhole, marks, history, Return
  <2>2. blob' = [blob EXCEPT ![d] = "whole"]
    BY <1>1, <2>1 DEF PutRename
  <2>3. Held' = Held \cup {d}
    BY <1>k, <1>t, <2>1, <2>2 DEF Held
  <2>4. Store!PutBytes(d)
    BY <2>1, <2>3 DEF Store!PutBytes
  <2> QED
    BY <2>1, <2>4 DEF Store!Next
<1>2. CASE Unlink(h)
  <2>1. /\ d \in Digests /\ ~ had[h] /\ had'[h] = (blob[d] # "absent") /\ record' = record
        /\ reply' = reply /\ job' = job /\ blob' = [blob EXCEPT ![d] = "absent"]
    BY <1>2, <1>d, <1>h, <1>t DEF Unlink, At, marks, Goto
  <2>2. Held' = Held
    BY <1>k, <1>t, <2>1 DEF Held
  <2> QED
    BY <1>s, <2>1, <2>2
<1>3. CASE WriteDraft(h)
  <2>1. /\ d \in Digests /\ pc[h] = "decide" /\ job[h].call \in {"tombstone", "delete"}
        /\ record' = record /\ reply' = reply /\ blob' = blob /\ blob[d] = "absent"
    BY <1>3, <1>d DEF WriteDraft, At, files, Goto, Return, AloneInv, Knows
  <2>2. CASE had' = had /\ job' = job
    BY <1>s, <2>1, <2>2 DEF Held
  <2>3. CASE /\ job[h].call = "delete" /\ d \notin cache[h].marks
             /\ had' = [had EXCEPT ![h] = FALSE]
    <3>1. d \notin record.marks
      BY <2>1, <2>3, DecidesOnRecord
    <3>2. Held' = Held \ {d}
      BY <1>k, <1>t, <2>1, <2>3 DEF Held
    <3>3. Store!Delete(d)
      BY <2>1, <3>1, <3>2 DEF Store!Delete
    <3> QED
      BY <2>1, <3>3 DEF Store!Next
  <2> QED
    BY <1>3, <2>2, <2>3 DEF WriteDraft, Goto
<1>4. CASE Swap(h)
  <2>1. /\ pc[h] = "swap" /\ d \in Digests /\ job[h].call \in {"tombstone", "delete"}
        /\ draft.here /\ draft.marks = Marked(h) /\ cache[h].marks = record.marks /\ blob[d] = "absent"
    BY <1>4, <1>d DEF Swap, AloneInv, Disciplined, CurrentInv, Written, Knows
  <2>2. /\ record'.marks = Marked(h) /\ reply' = reply /\ blob' = blob
        /\ had' = [had EXCEPT ![h] = FALSE]
    BY <1>4, <2>1 DEF Swap, Goto, files
  <2>3. Held' = Held \ {d}
    BY <1>k, <1>t, <2>1, <2>2 DEF Held
  <2>4. CASE job[h].call = "tombstone"
    <3>1. Store!Tombstone(d)
      BY <2>1, <2>2, <2>3, <2>4 DEF Store!Tombstone, Marked
    <3> QED
      BY <2>1, <3>1 DEF Store!Next
  <2>5. CASE job[h].call = "delete"
    <3>1. Store!Delete(d)
      BY <2>1, <2>2, <2>3, <2>5 DEF Store!Delete, Marked
    <3> QED
      BY <2>1, <3>1 DEF Store!Next
  <2> QED
    BY <2>1, <2>4, <2>5
<1>5. CASE Exists(h) \/ Decide(h) \/ Load(h)
  <2>1. /\ d \in Digests /\ ~ had[h] /\ had' = had /\ blob' = blob /\ record' = record
        /\ job[h].call \in Reading /\ pc[h] \in {"start", "decide", "load"}
    BY <1>5, <1>d, <1>h DEF Exists, Decide, Load, At, files, marks, history, Reading
  <2>2. Held' = {e \in Digests : blob[e] # "absent"} /\ Held = {e \in Digests : blob[e] # "absent"}
    BY <1>k, <2>1, HeldByFile DEF Held
  <2>3. CASE UNCHANGED reply
    BY <1>s, <2>1, <2>2, <2>3
  <2>4. ASSUME NEW answer, Answer(h, answer),
               answer = CASE job[h].call = "has" -> Store!Has(d)
                          [] job[h].call = "is_resolvable" -> Store!IsResolvable(d)
                          [] job[h].call = "get_bytes" -> Store!GetBytes(d)
        PROVE  Store!Next
    <3>1. Store!Answer(h, job[h].call, d, answer)
      BY <2>1, <2>2, <2>4 DEF Answer, Store!Answer
    <3> QED
      BY <2>1, <2>4, <3>1 DEF Store!Next, Reading
  <2>5. CASE Exists(h)
    BY <2>1, <2>2, <2>3, <2>4, <2>5 DEF Exists, Goto, Store!Has, Store!IsResolvable
  <2>6. CASE Decide(h)
    <3>1. pc[h] = "decide" /\ cache[h].marks = record.marks
      BY <2>6, DecidesOnRecord DEF Decide, At
    <3>2. /\ job[h].call = "has" => blob[d] = "absent"
          /\ job[h].call = "is_resolvable" => blob[d] # "absent"
      BY <3>1 DEF AloneInv, Knows
    <3> QED
      BY <2>1, <2>2, <2>3, <2>4, <2>6, <3>1, <3>2
      DEF Decide, Goto, Store!Has, Store!IsResolvable, Store!GetBytes
  <2>7. CASE Load(h)
    <3>1. job[h].call = "get_bytes" /\ d \notin record.marks /\ blob[d] \in {"absent", "whole"}
      BY <1>t, <2>1, <2>7 DEF Load, At, AloneInv, Knows, WholeBlobs, File
    <3> QED
      BY <2>1, <2>2, <2>4, <2>7, <3>1 DEF Load, Store!GetBytes
  <2> QED
    BY <1>5, <2>5, <2>6, <2>7
<1>6. ASSUME had' = had, record' = record, reply' = reply, blob' = blob, ~ had[h] \/ job' = job
      PROVE  UNCHANGED Store!absVars
  <2>1. Held' = Held
    BY <1>k, <1>6 DEF Held
  <2> QED
    BY <1>s, <1>6, <2>1
<1>7. CASE PutCheck(h) \/ PutOpen(h) \/ PutFill(h) \/ Restamp(h)
  <2>1. pc[h] = "fill" => fd[h] = "scratch"
    BY DEF AloneInv, PutWhole
  <2>2. had' = had /\ record' = record /\ reply' = reply /\ blob' = blob /\ ~ had[h]
    BY <1>7, <1>h, <2>1
    DEF PutCheck, PutOpen, PutFill, Restamp, At, Goto, Return, files, marks, history
  <2> QED
    BY <1>6, <2>2
<1>8. CASE Stat(h) \/ Read(h)
  <2>1. had' = had /\ record' = record /\ reply' = reply /\ blob' = blob /\ job' = job
    BY <1>8 DEF Stat, Read, Goto, files, marks, history
  <2> QED
    BY <1>6, <2>1
<1>9. ASSUME NEW e \in Digests, NEW name \in Mutating \cup Reading, Start(h, name, e)
      PROVE  UNCHANGED Store!absVars
  <2>1. had' = had /\ record' = record /\ reply' = reply /\ blob' = blob /\ ~ had[h]
    BY <1>9, <1>h DEF Start, files, marks, history
  <2> QED
    BY <1>6, <2>1
<1> QED
  BY <1>1, <1>2, <1>3, <1>4, <1>5, <1>7, <1>8, <1>9 DEF Steps, Crash

\* One handle on a directory gives the answers the in-memory store gives, and its
\* calls take effect at once, although each is several file operations: a put at its
\* rename, a redaction or a deletion when the record is swapped.
THEOREM ImplementsStore ==
    ASSUME Alone, "crash" \notin Features
    PROVE  Spec => Implements
<1>1. Init => AloneInv
  <2>1. Init => PutWhole /\ WholeBlobs /\ IdleFree /\ Knows
    BY DEF Init, PutWhole, WholeBlobs, IdleFree, Knows, NoJob
  <2> QED
    BY <2>1, TypeInit, CurrentInit DEF AloneInv
<1>2. AloneInv /\ [Next]_vars => AloneInv'
  BY AloneNext
<1>3. Init => Store!Init
  BY DEF Init, Store!Init, Held
<1>4. AloneInv /\ AloneInv' /\ [Next]_vars => [Store!Next]_Store!absVars
  <2> SUFFICES ASSUME AloneInv, AloneInv', [Next]_vars PROVE Store!Next \/ UNCHANGED Store!absVars
    OBVIOUS
  <2>1. CASE UNCHANGED vars
    BY <2>1 DEF vars, files, marks, history, Store!absVars, Held
  <2>2. ASSUME NEW h \in Handles, Steps(h) PROVE Store!Next \/ UNCHANGED Store!absVars
    BY <2>2, StoreStep
  <2> QED
    BY <2>1, <2>2 DEF Next
<1> QED
  BY <1>1, <1>2, <1>3, <1>4, PTL DEF Spec, Implements, Store!Spec
=============================================================================
