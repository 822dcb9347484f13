-------------------------- MODULE ReferrersProofs --------------------------
(***************************************************************************)
(* Proofs about Referrers, for any machines, records and limits.           *)
(***************************************************************************)
EXTENDS Referrers, FiniteSetTheorems, TLAPS

-----------------------------------------------------------------------------
(* Types.                                                                  *)

Things == Records \cup Foreign

Jobs == {Idle} \cup PushJobs \cup PullJobs

\* Lemma: a job is what its op says.
LEMMA JobKinds ==
    ASSUME NEW j \in Jobs
    PROVE  /\ j.op = "push" => j \in PushJobs
           /\ j.op = "pull" => j \in PullJobs
           /\ j.op # "push" /\ j.op # "pull" => j = Idle
BY DEF Jobs, Idle, PushJobs, PullJobs

\* Lemma: a push that moves a step, or to its next record, is a push.
LEMMA PushMoves ==
    ASSUME NEW j \in PushJobs, NEW step \in {"next", "blob", "manifest", "read", "write"},
           NEW r \in Records, NEW todo \in SUBSET Records, NEW entries \in SUBSET Things,
           NEW others \in SUBSET (Machines \cup Things)
    PROVE  /\ [j EXCEPT !.step = step] \in PushJobs
           /\ [j EXCEPT !.step = step, !.record = r, !.todo = todo] \in PushJobs
           /\ [j EXCEPT !.entries = entries, !.step = step] \in PushJobs
           /\ [j EXCEPT !.others = others] \in PushJobs
<1>1. [j EXCEPT !.step = step] \in PushJobs
  BY DEF PushJobs
<1>2. [j EXCEPT !.step = step, !.record = r, !.todo = todo] \in PushJobs
  BY DEF PushJobs
<1>3. [j EXCEPT !.entries = entries, !.step = step] \in PushJobs
  BY DEF PushJobs, Things
<1>4. [j EXCEPT !.others = others] \in PushJobs
  BY DEF PushJobs, Things
<1> QED
  BY <1>1, <1>2, <1>3, <1>4

\* Lemma: a pull that is through with a record is a pull.
LEMMA PullMoves ==
    ASSUME NEW j \in PullJobs, NEW todo \in SUBSET Records, NEW some \in SUBSET Records
    PROVE  /\ [j EXCEPT !.todo = todo] \in PullJobs
           /\ [j EXCEPT !.todo = todo, !.refused = some] \in PullJobs
           /\ [j EXCEPT !.todo = todo, !.merged = j.merged + 1] \in PullJobs
           /\ [j EXCEPT !.todo = todo, !.missed = some] \in PullJobs
<1>1. [j EXCEPT !.todo = todo] \in PullJobs
  BY DEF PullJobs
<1>2. [j EXCEPT !.todo = todo, !.refused = some] \in PullJobs
  BY DEF PullJobs
<1>3. [j EXCEPT !.todo = todo, !.merged = j.merged + 1] \in PullJobs
  <2>1. j.merged + 1 \in Nat
    BY DEF PullJobs
  <2> QED
    BY <2>1 DEF PullJobs
<1>4. [j EXCEPT !.todo = todo, !.missed = some] \in PullJobs
  BY DEF PullJobs
<1> QED
  BY <1>1, <1>2, <1>3, <1>4

\* Lemma: the initial state has its types.
LEMMA TypeInit == Init => TypeOK
BY DEF Init, TypeOK

\* Lemma: replacing one machine's job by a job keeps the types of the jobs.
LEMMA OneJob ==
    ASSUME TypeOK, NEW m \in Machines, NEW j \in Jobs
    PROVE  [job EXCEPT ![m] = j] \in [Machines -> Jobs]
BY DEF TypeOK, Jobs

\* Lemma: the types of the jobs of a push, at the step it is at.
LEMMA AtPush ==
    ASSUME TypeOK, NEW m \in Machines, NEW step, At(m, step)
    PROVE  job[m] \in PushJobs /\ job[m].step = step
BY JobKinds DEF At, TypeOK, Jobs

\* Lemma: what a pull's machine has is a pull.
LEMMA AtPull ==
    ASSUME TypeOK, NEW m \in Machines, job[m].op = "pull"
    PROVE  job[m] \in PullJobs
BY JobKinds DEF TypeOK, Jobs

\* What the requests of a push have done by the step it is at.
StepOK(j) ==
    /\ j.step # "next" => j.record \in Records
    /\ j.step \in {"manifest", "read", "write"} => j.record \in blobs
    /\ j.step \in {"read", "write"} => j.record \in manifests
    /\ j.step = "write" => j.entries \subseteq manifests

StepsOK == \A m \in Machines : job[m].op = "push" => StepOK(job[m])

\* Lemma: every step keeps the types.
LEMMA TypeNext == TypeOK /\ StepsOK /\ [Next]_vars => TypeOK'
<1> SUFFICES ASSUME TypeOK, StepsOK, [Next]_vars PROVE TypeOK'
  OBVIOUS
<1>t. /\ local \in [Machines -> SUBSET Records] /\ job \in [Machines -> Jobs] /\ jobs \in Nat
      /\ blobs \subseteq Things /\ manifests \subseteq Things /\ listing \subseteq Things /\ api \in BOOLEAN
  BY DEF TypeOK, Jobs, Things
<1>q. ASSUME local' \in [Machines -> SUBSET Records], job' \in [Machines -> Jobs], jobs' \in Nat,
             blobs' \subseteq Things, manifests' \subseteq Things, listing' \subseteq Things, api' = api
      PROVE  TypeOK'
  BY <1>q, <1>t DEF TypeOK, Jobs, Things
<1>i. Idle \in Jobs
  BY DEF Jobs
<1>s. ASSUME NEW m \in Machines, NEW step \in {"next", "blob", "manifest", "read", "write"}, job[m] \in PushJobs,
             Step(m, step)
      PROVE  job' \in [Machines -> Jobs]
  <2>1. [job[m] EXCEPT !.step = step] \in Jobs
    BY <1>s DEF PushJobs, Jobs
  <2> QED
    BY <1>s, <1>t, <2>1, OneJob DEF Step
<1>1. ASSUME NEW e \in Foreign \cup Strays, Attach(e)
      PROVE  TypeOK'
  <2>1. e \in Things
    BY <1>1, RecordsAssumption DEF Things
  <2>2. ASSUME NEW m \in Machines
        PROVE  job'[m] \in Jobs
    <3>1. CASE job[m].op = "push"
      <4>1. job[m] \in PushJobs
        BY <1>t, <3>1, JobKinds
      <4>2. job[m].others \cup {e} \in SUBSET (Machines \cup Things)
        BY <4>1, <2>1 DEF PushJobs, Things
      <4>3. [job[m] EXCEPT !.others = job[m].others \cup {e}] \in PushJobs
        BY <4>1, <4>2 DEF PushJobs, Things
      <4> QED
        BY <1>1, <3>1, <4>3 DEF Attach, Jobs
    <3>2. CASE job[m].op # "push"
      BY <1>1, <1>t, <3>2 DEF Attach
    <3> QED
      BY <3>1, <3>2
  <2>3. job' = [m \in Machines |-> job'[m]]
    BY <1>1 DEF Attach
  <2>4. job' \in [Machines -> Jobs]
    BY <2>2, <2>3
  <2>5. listing' \subseteq Things /\ manifests' \subseteq Things /\ blobs' \subseteq Things
    BY <1>1, <1>t, <2>1 DEF Attach
  <2>6. local' = local /\ api' = api /\ jobs' = jobs
    BY <1>1 DEF Attach
  <2> QED
    BY <1>q, <1>t, <2>4, <2>5, <2>6
<1>2. ASSUME NEW m \in Machines, BeginPush(m)
      PROVE  TypeOK'
  <2>1. Pushing \in SUBSET (Machines \cup Things)
    BY DEF Pushing
  <2>2. [op |-> "push", step |-> "next", record |-> "none", todo |-> local[m], entries |-> {},
         others |-> Pushing, listed |-> listing, taken |-> local[m]] \in PushJobs
    BY <1>t, <2>1 DEF PushJobs, Things
  <2>3. ASSUME NEW n \in Machines
        PROVE  job'[n] \in Jobs
    <3>1. CASE n = m
      BY <1>2, <2>2, <3>1 DEF BeginPush, Jobs
    <3>2. CASE n # m /\ n \in Pushing
      <4>1. job[n] \in PushJobs
        BY <1>t, <3>2, JobKinds DEF Pushing
      <4>2. [job[n] EXCEPT !.others = job[n].others \cup {m}] \in PushJobs
        BY <4>1 DEF PushJobs
      <4> QED
        BY <1>2, <3>2, <4>2 DEF BeginPush, Jobs
    <3>3. CASE n # m /\ n \notin Pushing
      BY <1>2, <1>t, <3>3 DEF BeginPush
    <3> QED
      BY <3>1, <3>2, <3>3
  <2>4. job' \in [Machines -> Jobs]
    BY <1>2, <2>3 DEF BeginPush
  <2>5. jobs' \in Nat
    BY <1>2, <1>t DEF BeginPush
  <2> QED
    BY <1>2, <1>q, <1>t, <2>4, <2>5 DEF BeginPush
<1>3. ASSUME NEW m \in Machines, NEW r \in Records, NextRecord(m, r)
      PROVE  TypeOK'
  <2>1. job[m] \in PushJobs /\ job[m].todo \ {r} \in SUBSET Records
    BY <1>3, AtPush DEF NextRecord, PushJobs
  <2>2. [job[m] EXCEPT !.step = "blob", !.record = r, !.todo = job[m].todo \ {r}] \in Jobs
    BY <2>1 DEF PushJobs, Jobs
  <2>3. job' \in [Machines -> Jobs]
    BY <1>3, <1>t, <2>2, OneJob DEF NextRecord
  <2> QED
    BY <1>3, <1>q, <1>t, <2>3 DEF NextRecord
<1>4. ASSUME NEW m \in Machines, Upload(m)
      PROVE  TypeOK'
  <2>1. job[m] \in PushJobs /\ job[m].record \in Things
    BY <1>4, AtPush DEF Upload, At, StepsOK, StepOK, Things
  <2>2. job' \in [Machines -> Jobs]
    BY <1>4, <1>s, <2>1 DEF Upload
  <2> QED
    BY <1>4, <1>q, <1>t, <2>1, <2>2 DEF Upload
<1>5. ASSUME NEW m \in Machines, PutManifest(m)
      PROVE  TypeOK'
  <2>1. job[m] \in PushJobs /\ job[m].record \in Things
    BY <1>5, AtPush DEF PutManifest, At, StepsOK, StepOK, Things
  <2>2. job' \in [Machines -> Jobs]
    BY <1>5, <1>s, <2>1 DEF PutManifest
  <2>3. listing' \subseteq Things
    BY <1>5, <1>t, <2>1 DEF PutManifest
  <2> QED
    BY <1>5, <1>q, <1>t, <2>1, <2>2, <2>3 DEF PutManifest
<1>6. ASSUME NEW m \in Machines, ReadFallback(m)
      PROVE  TypeOK'
  <2> DEFINE to == IF job[m].record \in listing THEN "next" ELSE "write"
  <2>1. job[m] \in PushJobs
    BY <1>6, AtPush DEF ReadFallback
  <2>2. [job[m] EXCEPT !.entries = listing, !.step = to] \in Jobs
    BY <1>t, <2>1 DEF PushJobs, Jobs, Things
  <2>3. job' \in [Machines -> Jobs]
    BY <1>6, <1>t, <2>2, OneJob DEF ReadFallback
  <2> QED
    BY <1>6, <1>q, <1>t, <2>3 DEF ReadFallback
<1>7. ASSUME NEW m \in Machines, AppendToFallback(m)
      PROVE  TypeOK'
  <2>1. job[m] \in PushJobs /\ job[m].record \in Things
    BY <1>7, AtPush DEF AppendToFallback, At, StepsOK, StepOK, Things
  <2>2. job[m].entries \subseteq Things
    BY <2>1 DEF PushJobs, Things
  <2>3. job' \in [Machines -> Jobs]
    BY <1>7, <1>s, <2>1 DEF AppendToFallback
  <2> QED
    BY <1>7, <1>q, <1>t, <2>1, <2>2, <2>3 DEF AppendToFallback, Appended
<1>8. ASSUME NEW m \in Machines, EndPush(m) \/ EndMerge(m) \/ Fail(m)
      PROVE  TypeOK'
  <2>1. job' \in [Machines -> Jobs]
    BY <1>8, <1>i, <1>t DEF EndPush, EndMerge, Fail
  <2> QED
    BY <1>8, <1>q, <1>t, <2>1 DEF EndPush, EndMerge, Fail
<1>9. ASSUME NEW m \in Machines, ListReferrers(m)
      PROVE  TypeOK'
  <2>1. SignaturesListed \in SUBSET Records
    BY DEF SignaturesListed
  <2>2. [op |-> "pull", todo |-> SignaturesListed, seen |-> SignaturesListed,
         missed |-> {}, merged |-> 0, refused |-> {}] \in Jobs
    BY <2>1 DEF PullJobs, Jobs
  <2>3. job' \in [Machines -> Jobs]
    BY <1>9, <1>t, <2>2, OneJob DEF ListReferrers
  <2>4. jobs' \in Nat
    BY <1>9, <1>t DEF ListReferrers
  <2> QED
    BY <1>9, <1>q, <1>t, <2>3, <2>4 DEF ListReferrers
<1>10. ASSUME NEW m \in Machines, NEW r \in Records, MergeRecord(m, r)
      PROVE  TypeOK'
  <2>1. job[m] \in PullJobs
    BY <1>10, AtPull DEF MergeRecord
  <2>2. Done(m, r) \in SUBSET Records /\ job[m].refused \cup {r} \in SUBSET Records
    BY <2>1 DEF Done, PullJobs
  <2>3. /\ [job[m] EXCEPT !.todo = Done(m, r)] \in Jobs
        /\ [job[m] EXCEPT !.todo = Done(m, r), !.refused = job[m].refused \cup {r}] \in Jobs
        /\ [job[m] EXCEPT !.todo = Done(m, r), !.merged = job[m].merged + 1] \in Jobs
    BY <2>1, <2>2, PullMoves DEF Jobs
  <2>4. job' \in [Machines -> Jobs]
    BY <1>10, <1>t, <2>3, OneJob DEF MergeRecord
  <2>5. local' \in [Machines -> SUBSET Records]
    BY <1>10, <1>t DEF MergeRecord, StoreRecord
  <2> QED
    BY <1>10, <1>q, <1>t, <2>4, <2>5 DEF MergeRecord
<1>11. ASSUME NEW m \in Machines, NEW r \in Records, MissRecord(m, r)
      PROVE  TypeOK'
  <2>1. job[m] \in PullJobs
    BY <1>11, AtPull DEF MissRecord
  <2>2. Done(m, r) \in SUBSET Records /\ job[m].missed \cup {r} \in SUBSET Records
    BY <2>1 DEF Done, PullJobs
  <2>3. [job[m] EXCEPT !.todo = Done(m, r), !.missed = job[m].missed \cup {r}] \in Jobs
    BY <2>1, <2>2, PullMoves DEF Jobs
  <2>4. job' \in [Machines -> Jobs]
    BY <1>11, <1>t, <2>3, OneJob DEF MissRecord
  <2> QED
    BY <1>11, <1>q, <1>t, <2>4 DEF MissRecord
<1>12. ASSUME NEW m \in Machines, NEW r \in Records, Sign(m, r)
      PROVE  TypeOK'
  BY <1>12, <1>q, <1>t DEF Sign, StoreRecord
<1>13. CASE UNCHANGED vars
  BY <1>13, <1>q, <1>t DEF vars
<1> QED
  BY <1>1, <1>2, <1>3, <1>4, <1>5, <1>6, <1>7, <1>8, <1>9, <1>10, <1>11, <1>12, <1>13 DEF Next

-----------------------------------------------------------------------------
(* What is listed can be fetched.                                          *)

WholeInv == ListedWhole /\ StepsOK

\* Lemma: nothing is listed to begin with.
LEMMA WholeInit == Init => WholeInv
BY DEF Init, WholeInv, ListedWhole, StepsOK, Idle

\* Lemma: no blob and no manifest leaves the registry.
LEMMA RegistryGrows ==
    ASSUME [Next]_vars
    PROVE  blobs \subseteq blobs' /\ manifests \subseteq manifests'
<1> DEFINE Grows == blobs \subseteq blobs' /\ manifests \subseteq manifests'
<1> SUFFICES Grows
  OBVIOUS
<1>1. ASSUME NEW e \in Foreign \cup Strays, Attach(e) PROVE Grows
  BY <1>1 DEF Attach
<1>2. ASSUME NEW m \in Machines, Upload(m) PROVE Grows
  BY <1>2 DEF Upload
<1>3. ASSUME NEW m \in Machines, PutManifest(m) PROVE Grows
  BY <1>3 DEF PutManifest
<1>4. ASSUME NEW m \in Machines, BeginPush(m) \/ ReadFallback(m) \/ AppendToFallback(m) \/ EndPush(m)
      PROVE  Grows
  BY <1>4 DEF BeginPush, ReadFallback, AppendToFallback, EndPush
<1>5. ASSUME NEW m \in Machines, ListReferrers(m) \/ EndMerge(m) \/ Fail(m) PROVE Grows
  BY <1>5 DEF ListReferrers, EndMerge, Fail
<1>6. ASSUME NEW m \in Machines, NEW r \in Records, Sign(m, r) \/ NextRecord(m, r) PROVE Grows
  BY <1>6 DEF Sign, NextRecord
<1>7. ASSUME NEW m \in Machines, NEW r \in Records, MergeRecord(m, r) \/ MissRecord(m, r) PROVE Grows
  BY <1>7 DEF MergeRecord, MissRecord
<1>8. CASE UNCHANGED vars
  BY <1>8 DEF vars
<1> HIDE DEF Grows
<1>9. CASE Next
  <2>1. CASE \E e \in Foreign \cup Strays : Attach(e)
    BY <2>1, <1>1
  <2>2. ASSUME NEW m \in Machines,
               \/ BeginPush(m) \/ Upload(m) \/ PutManifest(m) \/ ReadFallback(m) \/ AppendToFallback(m)
               \/ EndPush(m) \/ ListReferrers(m) \/ EndMerge(m) \/ Fail(m)
        PROVE  Grows
    BY <2>2, <1>2, <1>3, <1>4, <1>5
  <2>3. ASSUME NEW m \in Machines, NEW r \in Records,
               Sign(m, r) \/ NextRecord(m, r) \/ MergeRecord(m, r) \/ MissRecord(m, r)
        PROVE  Grows
    BY <2>3, <1>6, <1>7
  <2> QED
    BY <1>9, <2>1, <2>2, <2>3, Zenon DEF Next
<1> QED
  BY <1>8, <1>9

\* Lemma: what a push has done stays done while others take steps.
LEMMA StepKept ==
    ASSUME [Next]_vars, StepsOK, NEW n \in Machines, job[n].op = "push",
           job'[n].step = job[n].step, job'[n].record = job[n].record, job'[n].entries = job[n].entries
    PROVE  StepOK(job[n])'
BY RegistryGrows DEF StepsOK, StepOK

\* Lemma: every step keeps what is listed whole.
LEMMA WholeNext == TypeOK /\ WholeInv /\ [Next]_vars => WholeInv'
<1> SUFFICES ASSUME TypeOK, WholeInv, [Next]_vars PROVE WholeInv'
  OBVIOUS
<1>t. job \in [Machines -> Jobs] /\ StepsOK /\ ListedWhole
  BY DEF TypeOK, Jobs, WholeInv
<1>p. ASSUME NEW m \in Machines, NEW step, At(m, step)
      PROVE  job[m] \in PushJobs /\ StepOK(job[m]) /\ job[m].step = step
  BY <1>p, <1>t, AtPush DEF At, StepsOK
<1>k. ASSUME NEW m \in Machines, \A n \in Machines \ {m} : job'[n] = job[n],
             job'[m].op = "push" => StepOK(job[m])'
      PROVE  StepsOK'
  BY <1>k, <1>t, StepKept DEF StepsOK
<1>1. ASSUME NEW e \in Foreign \cup Strays, Attach(e)
      PROVE  WholeInv'
  <2>1. ASSUME NEW n \in Machines, job'[n].op = "push"
        PROVE  StepOK(job[n])'
    <3>1. CASE job[n].op = "push"
      <4>1. job[n] \in PushJobs
        BY <1>t, <3>1, JobKinds
      <4>2. job'[n] = [job[n] EXCEPT !.others = @ \cup {e}]
        BY <1>1, <3>1 DEF Attach
      <4>3. job'[n].step = job[n].step /\ job'[n].record = job[n].record /\ job'[n].entries = job[n].entries
        BY <4>1, <4>2 DEF PushJobs
      <4> QED
        BY <1>t, <3>1, <4>3, StepKept
    <3>2. CASE job[n].op # "push"
      BY <1>1, <2>1, <3>2 DEF Attach
    <3> QED
      BY <3>1, <3>2
  <2> QED
    BY <1>1, <1>t, <2>1 DEF Attach, WholeInv, ListedWhole, StepsOK
<1>2. ASSUME NEW m \in Machines, BeginPush(m)
      PROVE  WholeInv'
  <2>1. ASSUME NEW n \in Machines, job'[n].op = "push"
        PROVE  StepOK(job[n])'
    <3>1. CASE n = m
      BY <1>2, <3>1 DEF BeginPush, StepOK
    <3>2. CASE n # m /\ n \in Pushing
      <4>1. job[n] \in PushJobs /\ job[n].op = "push"
        BY <1>t, <3>2, JobKinds DEF Pushing
      <4>2. job'[n] = [job[n] EXCEPT !.others = @ \cup {m}]
        BY <1>2, <3>2 DEF BeginPush
      <4>3. job'[n].step = job[n].step /\ job'[n].record = job[n].record /\ job'[n].entries = job[n].entries
        BY <4>1, <4>2 DEF PushJobs
      <4> QED
        BY <1>t, <4>1, <4>3, StepKept
    <3>3. CASE n # m /\ n \notin Pushing
      BY <1>2, <2>1, <3>3 DEF BeginPush, Pushing
    <3> QED
      BY <3>1, <3>2, <3>3
  <2> QED
    BY <1>2, <1>t, <2>1 DEF BeginPush, WholeInv, ListedWhole, StepsOK
<1>3. ASSUME NEW m \in Machines, NEW r \in Records, NextRecord(m, r)
      PROVE  WholeInv'
  <2>1. job[m] \in PushJobs
    BY <1>3, <1>p DEF NextRecord
  <2>2. job'[m].step = "blob" /\ job'[m].record = r
    BY <1>3, <1>t, <2>1 DEF NextRecord, PushJobs
  <2>3. StepsOK'
    BY <1>3, <1>k, <1>t, <2>2 DEF NextRecord, StepOK
  <2> QED
    BY <1>3, <1>t, <2>3 DEF NextRecord, WholeInv, ListedWhole
<1>s. ASSUME NEW m \in Machines, NEW step, job[m] \in PushJobs, Step(m, step)
      PROVE  /\ job'[m].step = step /\ job'[m].record = job[m].record /\ job'[m].entries = job[m].entries
             /\ \A n \in Machines \ {m} : job'[n] = job[n]
  BY <1>s, <1>t DEF Step, PushJobs
<1>4. ASSUME NEW m \in Machines, Upload(m)
      PROVE  WholeInv'
  <2>1. job[m] \in PushJobs /\ StepOK(job[m]) /\ job[m].step = "blob"
    BY <1>4, <1>p DEF Upload
  <2>2. StepOK(job[m])'
    BY <1>4, <1>s, <2>1 DEF Upload, StepOK
  <2>3. StepsOK'
    BY <1>4, <1>k, <1>s, <2>1, <2>2 DEF Upload
  <2> QED
    BY <1>4, <1>t, <2>3 DEF Upload, WholeInv, ListedWhole
<1>5. ASSUME NEW m \in Machines, PutManifest(m)
      PROVE  WholeInv'
  <2>1. job[m] \in PushJobs /\ StepOK(job[m]) /\ job[m].step = "manifest"
    BY <1>5, <1>p DEF PutManifest
  <2>2. StepOK(job[m])'
    BY <1>5, <1>s, <2>1 DEF PutManifest, StepOK
  <2>3. StepsOK'
    BY <1>5, <1>k, <1>s, <2>1, <2>2 DEF PutManifest
  <2>4. job[m].record \in blobs
    BY <2>1 DEF StepOK
  <2> QED
    BY <1>5, <1>t, <2>3, <2>4 DEF PutManifest, WholeInv, ListedWhole
<1>6. ASSUME NEW m \in Machines, ReadFallback(m)
      PROVE  WholeInv'
  <2>1. job[m] \in PushJobs /\ StepOK(job[m]) /\ job[m].step = "read"
    BY <1>6, <1>p DEF ReadFallback
  <2>2. /\ job'[m].entries = listing /\ job'[m].record = job[m].record
        /\ \A n \in Machines \ {m} : job'[n] = job[n]
    BY <1>6, <1>t, <2>1 DEF ReadFallback, PushJobs
  <2>3. StepOK(job[m])'
    BY <1>6, <1>t, <2>1, <2>2 DEF ReadFallback, StepOK, ListedWhole
  <2>4. StepsOK'
    BY <1>k, <2>2, <2>3
  <2> QED
    BY <1>6, <1>t, <2>4 DEF ReadFallback, WholeInv, ListedWhole
<1>7. ASSUME NEW m \in Machines, AppendToFallback(m)
      PROVE  WholeInv'
  <2>1. job[m] \in PushJobs /\ StepOK(job[m]) /\ job[m].step = "write"
    BY <1>7, <1>p DEF AppendToFallback
  <2>2. StepOK(job[m])'
    BY <1>7, <1>s, <2>1 DEF AppendToFallback, StepOK
  <2>3. StepsOK'
    BY <1>7, <1>k, <1>s, <2>1, <2>2 DEF AppendToFallback
  <2>4. job[m].record \in manifests /\ job[m].entries \subseteq manifests
    BY <2>1 DEF StepOK
  <2> QED
    BY <1>7, <1>t, <2>3, <2>4 DEF AppendToFallback, Appended, WholeInv, ListedWhole
<1>8. ASSUME NEW m \in Machines,
             EndPush(m) \/ EndMerge(m) \/ Fail(m) \/ ListReferrers(m)
                \/ \E r \in Records : MergeRecord(m, r) \/ MissRecord(m, r)
      PROVE  WholeInv'
  <2>1. job'[m].op # "push"
    <3>1. CASE EndPush(m) \/ EndMerge(m) \/ Fail(m) \/ ListReferrers(m)
      BY <3>1, <1>t DEF EndPush, EndMerge, Fail, ListReferrers, Idle
    <3>2. CASE \E r \in Records : MergeRecord(m, r) \/ MissRecord(m, r)
      <4>1. job[m] \in PullJobs
        BY <3>2, AtPull DEF MergeRecord, MissRecord
      <4> QED
        BY <3>2, <4>1, <1>t DEF MergeRecord, MissRecord, PullJobs
    <3> QED
      BY <1>8, <3>1, <3>2
  <2>2. \A n \in Machines \ {m} : job'[n] = job[n]
    BY <1>8, <1>t DEF EndPush, EndMerge, Fail, ListReferrers, MergeRecord, MissRecord
  <2>3. listing' = listing /\ blobs' = blobs /\ manifests' = manifests
    BY <1>8 DEF EndPush, EndMerge, Fail, ListReferrers, MergeRecord, MissRecord
  <2> QED
    BY <1>k, <1>t, <2>1, <2>2, <2>3 DEF WholeInv, ListedWhole
<1>9. CASE \/ UNCHANGED vars
           \/ \E m \in Machines, r \in Records : Sign(m, r)
  BY <1>9, <1>t DEF vars, Sign, WholeInv, ListedWhole, StepsOK, StepOK
<1> QED
  BY <1>1, <1>2, <1>3, <1>4, <1>5, <1>6, <1>7, <1>8, <1>9 DEF Next

\* Theorem: the types hold, for any machines, records and limits.
THEOREM TypeCorrect == Spec => []TypeOK
<1>1. WholeInv => StepsOK
  BY DEF WholeInv
<1> QED
  BY <1>1, TypeInit, WholeInit, TypeNext, WholeNext, PTL DEF Spec

\* Theorem: whatever push stops half way and whoever writes the index from what he read before, all
\* that the registry lists can be fetched: its manifest and its record are there.
THEOREM AlwaysListedWhole == Spec => []ListedWhole
<1>1. WholeInv => StepsOK /\ ListedWhole
  BY DEF WholeInv
<1> QED
  BY <1>1, TypeInit, WholeInit, TypeNext, WholeNext, PTL DEF Spec

-----------------------------------------------------------------------------
(* A push that is alone.                                                   *)

InHand(j) == IF j.step = "next" THEN {} ELSE {j.record}

\* Nobody else pushes, nothing has left the listing, what the push is through with is listed, and
\* what it read of the listing is the listing.
Alone(m) ==
    /\ \A n \in Machines : job[n].op = "push" => n = m
    /\ job[m].listed \subseteq listing
    /\ job[m].taken \ (job[m].todo \cup InHand(job[m])) \subseteq listing
    /\ job[m].step = "write" => job[m].entries = listing

AloneInv == \A m \in Machines : job[m].op = "push" /\ job[m].others = {} => Alone(m)

\* Lemma: nobody pushes to begin with.
LEMMA AloneInit == Init => AloneInv
BY DEF Init, AloneInv, Idle

\* Lemma: every step keeps a push that is alone so.
LEMMA AloneNext == TypeOK /\ AloneInv /\ [Next]_vars => AloneInv'
<1> SUFFICES ASSUME TypeOK, AloneInv, [Next]_vars PROVE AloneInv'
  OBVIOUS
<1>t. job \in [Machines -> Jobs]
  BY DEF TypeOK, Jobs
\* A step of a push: either it is alone, and so is nobody else, or there is nobody that is.
<1>k. ASSUME NEW m \in Machines, job[m].op = "push", \A n \in Machines \ {m} : job'[n] = job[n],
             job'[m].op = "push" /\ job'[m].others = job[m].others,
             job[m].others = {} => Alone(m)'
      PROVE  AloneInv'
  BY <1>k DEF AloneInv, Alone
\* A step that writes no listing and begins no push.
<1>u. ASSUME listing' = listing, \A n \in Machines : job'[n].op = "push" => job'[n] = job[n]
      PROVE  AloneInv'
  BY <1>u DEF AloneInv, Alone, InHand
<1>1. ASSUME NEW e \in Foreign \cup Strays, Attach(e)
      PROVE  AloneInv'
  <2>1. ASSUME NEW n \in Machines, job'[n].op = "push"
        PROVE  job'[n].others # {}
    <3>1. CASE job[n].op = "push"
      <4>1. job[n] \in PushJobs
        BY <1>t, <3>1, JobKinds
      <4>2. job'[n] = [job[n] EXCEPT !.others = @ \cup {e}]
        BY <1>1, <3>1 DEF Attach
      <4>3. job'[n].others = job[n].others \cup {e}
        BY <4>1, <4>2 DEF PushJobs
      <4> QED
        BY <4>3
    <3>2. CASE job[n].op # "push"
      BY <1>1, <2>1, <3>2 DEF Attach
    <3> QED
      BY <3>1, <3>2
  <2> QED
    BY <2>1 DEF AloneInv
<1>2. ASSUME NEW m \in Machines, BeginPush(m)
      PROVE  AloneInv'
  <2>1. /\ job'[m].op = "push" /\ job'[m].others = Pushing /\ job'[m].listed = listing
        /\ job'[m].taken = job'[m].todo /\ job'[m].step = "next" /\ listing' = listing
    BY <1>2 DEF BeginPush
  <2>2. ASSUME NEW n \in Machines \ {m}, job'[n].op = "push"
        PROVE  n \in Pushing /\ job'[n].others # {}
    <3>1. CASE n \in Pushing
      <4>1. job[n] \in PushJobs
        BY <1>t, <3>1, JobKinds DEF Pushing
      <4>2. job'[n] = [job[n] EXCEPT !.others = @ \cup {m}]
        BY <1>2, <3>1 DEF BeginPush
      <4>3. job'[n].others = job[n].others \cup {m}
        BY <4>1, <4>2 DEF PushJobs
      <4> QED
        BY <3>1, <4>3
    <3>2. CASE n \notin Pushing
      BY <1>2, <2>2, <3>2 DEF BeginPush, Pushing
    <3> QED
      BY <3>1, <3>2
  <2>3. job'[m].others = {} => Alone(m)'
    BY <2>1, <2>2 DEF Alone
  <2> QED
    BY <2>2, <2>3 DEF AloneInv
<1>3. ASSUME NEW m \in Machines, NEW r \in Records, NextRecord(m, r)
      PROVE  AloneInv'
  <2>1. job[m] \in PushJobs /\ job[m].step = "next" /\ job[m].op = "push"
    BY <1>3, AtPush DEF NextRecord, At
  <2>2. /\ job'[m].op = "push" /\ job'[m].others = job[m].others /\ job'[m].listed = job[m].listed
        /\ job'[m].taken = job[m].taken /\ job'[m].todo = job[m].todo \ {r}
        /\ job'[m].step = "blob" /\ job'[m].record = r
        /\ \A n \in Machines \ {m} : job'[n] = job[n]
    BY <1>3, <1>t, <2>1 DEF NextRecord, PushJobs
  <2>3. listing' = listing
    BY <1>3 DEF NextRecord
  <2>4. job[m].others = {} => Alone(m)'
    BY <2>1, <2>2, <2>3 DEF AloneInv, Alone, InHand
  <2> QED
    BY <1>k, <2>1, <2>2, <2>4
<1>s. ASSUME NEW m \in Machines, NEW step, job[m] \in PushJobs, Step(m, step)
      PROVE  /\ job'[m].op = "push" /\ job'[m].others = job[m].others /\ job'[m].listed = job[m].listed
             /\ job'[m].taken = job[m].taken /\ job'[m].todo = job[m].todo
             /\ job'[m].step = step /\ job'[m].record = job[m].record /\ job'[m].entries = job[m].entries
             /\ \A n \in Machines \ {m} : job'[n] = job[n]
  BY <1>s, <1>t DEF Step, PushJobs
<1>4. ASSUME NEW m \in Machines, Upload(m)
      PROVE  AloneInv'
  <2>1. job[m] \in PushJobs /\ job[m].step = "blob" /\ job[m].op = "push"
    BY <1>4, AtPush DEF Upload, At
  <2>2. job[m].others = {} => Alone(m)'
    BY <1>4, <1>s, <2>1 DEF Upload, AloneInv, Alone, InHand
  <2> QED
    BY <1>4, <1>k, <1>s, <2>1, <2>2 DEF Upload
<1>5. ASSUME NEW m \in Machines, PutManifest(m)
      PROVE  AloneInv'
  <2>1. job[m] \in PushJobs /\ job[m].step = "manifest" /\ job[m].op = "push"
    BY <1>5, AtPush DEF PutManifest, At
  <2>2. CASE api
    <3>1. listing' = listing \cup {job[m].record} /\ Step(m, "next")
      BY <1>5, <2>2 DEF PutManifest
    <3>2. job[m].others = {} => Alone(m)'
      BY <1>s, <2>1, <3>1 DEF AloneInv, Alone, InHand
    <3> QED
      BY <1>k, <1>s, <2>1, <3>1, <3>2
  <2>3. CASE ~ api
    <3>1. listing' = listing /\ Step(m, "read")
      BY <1>5, <2>3 DEF PutManifest
    <3>2. job[m].others = {} => Alone(m)'
      BY <1>s, <2>1, <3>1 DEF AloneInv, Alone, InHand
    <3> QED
      BY <1>k, <1>s, <2>1, <3>1, <3>2
  <2> QED
    BY <2>2, <2>3
<1>6. ASSUME NEW m \in Machines, ReadFallback(m)
      PROVE  AloneInv'
  <2>1. job[m] \in PushJobs /\ job[m].step = "read" /\ job[m].op = "push"
    BY <1>6, AtPush DEF ReadFallback, At
  <2>2. /\ job'[m].op = "push" /\ job'[m].others = job[m].others /\ job'[m].listed = job[m].listed
        /\ job'[m].taken = job[m].taken /\ job'[m].todo = job[m].todo
        /\ job'[m].record = job[m].record /\ job'[m].entries = listing
        /\ job'[m].step = IF job[m].record \in listing THEN "next" ELSE "write"
        /\ \A n \in Machines \ {m} : job'[n] = job[n]
    BY <1>6, <1>t, <2>1 DEF ReadFallback, PushJobs
  <2>3. listing' = listing
    BY <1>6 DEF ReadFallback
  <2>4. job[m].others = {} => Alone(m)'
    BY <2>1, <2>2, <2>3 DEF AloneInv, Alone, InHand
  <2> QED
    BY <1>k, <2>1, <2>2, <2>4
<1>7. ASSUME NEW m \in Machines, AppendToFallback(m)
      PROVE  AloneInv'
  <2>1. job[m] \in PushJobs /\ job[m].step = "write" /\ job[m].op = "push"
    BY <1>7, AtPush DEF AppendToFallback, At
  <2>2. listing' = job[m].entries \cup {job[m].record} /\ Step(m, "next")
    BY <1>7 DEF AppendToFallback, Appended
  <2>3. job[m].others = {} => Alone(m)'
    BY <1>s, <2>1, <2>2 DEF AloneInv, Alone, InHand
  <2> QED
    BY <1>k, <1>s, <2>1, <2>2, <2>3
<1>8. ASSUME NEW m \in Machines,
             EndPush(m) \/ EndMerge(m) \/ Fail(m) \/ ListReferrers(m)
                \/ \E r \in Records : MergeRecord(m, r) \/ MissRecord(m, r)
      PROVE  AloneInv'
  <2>1. job'[m].op # "push"
    <3>1. CASE EndPush(m) \/ EndMerge(m) \/ Fail(m) \/ ListReferrers(m)
      BY <3>1, <1>t DEF EndPush, EndMerge, Fail, ListReferrers, Idle
    <3>2. CASE \E r \in Records : MergeRecord(m, r) \/ MissRecord(m, r)
      <4>1. job[m] \in PullJobs
        BY <3>2, AtPull DEF MergeRecord, MissRecord
      <4> QED
        BY <3>2, <4>1, <1>t DEF MergeRecord, MissRecord, PullJobs
    <3> QED
      BY <1>8, <3>1, <3>2
  <2>2. listing' = listing /\ \A n \in Machines \ {m} : job'[n] = job[n]
    BY <1>8, <1>t DEF EndPush, EndMerge, Fail, ListReferrers, MergeRecord, MissRecord
  <2> QED
    BY <1>u, <2>1, <2>2
<1>9. CASE \/ UNCHANGED vars
           \/ \E m \in Machines, r \in Records : Sign(m, r)
  BY <1>9, <1>u DEF vars, Sign
<1> QED
  BY <1>1, <1>2, <1>3, <1>4, <1>5, <1>6, <1>7, <1>8, <1>9 DEF Next

\* Theorem: a push during which nobody else attached anything ends with every signature the brain
\* held listed, and with everything listed that was listed when it began, whatever earlier pushes
\* have lost and whether the registry or the clients keep the listing.
THEOREM PushAlwaysLists == Spec => PushLists
<1>1. TypeOK /\ AloneInv /\ [Next]_vars =>
        \A m \in Machines :
            EndPush(m) /\ job[m].others = {} => job[m].taken \cup job[m].listed \subseteq listing'
  <2> SUFFICES ASSUME TypeOK, AloneInv, NEW m \in Machines, EndPush(m), job[m].others = {}
               PROVE  job[m].taken \cup job[m].listed \subseteq listing'
    OBVIOUS
  <2>1. job[m].op = "push" /\ job[m].step = "next" /\ job[m].todo = {} /\ listing' = listing
    BY DEF EndPush, At
  <2> QED
    BY <2>1 DEF AloneInv, Alone, InHand
<1>2. WholeInv => StepsOK
  BY DEF WholeInv
<1> QED
  BY <1>1, <1>2, TypeInit, WholeInit, AloneInit, TypeNext, WholeNext, AloneNext, PTL DEF Spec, PushLists

-----------------------------------------------------------------------------
(* What a pull keeps.                                                      *)

\* What a pull has done with the records it saw listed, on a machine that holds what is held: each
\* one is to do, held, missed or no concern of the artifact, until the snapshot is found full.
PullOK(j, held) ==
    /\ j.seen \subseteq manifests \cap blobs
    /\ j.todo \subseteq j.seen
    /\ j.refused = {} => j.seen \subseteq j.todo \cup held \cup j.missed \cup Strays
    /\ j.refused # {} => Cardinality(held) >= MaxRecords

HeldFinite == \A m \in Machines : IsFiniteSet(local[m])

PullsOK == \A m \in Machines : job[m].op = "pull" => PullOK(job[m], local[m])

MergeInv == HeldFinite /\ PullsOK

\* Lemma: no pull is under way to begin with.
LEMMA MergeInit == Init => MergeInv
BY FS_EmptySet DEF Init, MergeInv, HeldFinite, PullsOK, Idle

\* Lemma: no step takes a record out of a brain's signature index.
LEMMA LocalGrows ==
    ASSUME TypeOK, HeldFinite, [Next]_vars, NEW n \in Machines
    PROVE  /\ local[n] \subseteq local'[n] /\ IsFiniteSet(local'[n])
           /\ Cardinality(local'[n]) >= Cardinality(local[n])
<1>1. local \in [Machines -> SUBSET Records] /\ IsFiniteSet(local[n]) /\ Cardinality(local[n]) \in Nat
  BY FS_CardinalityType DEF TypeOK, HeldFinite
<1>2. local' = local \/ \E m \in Machines, r \in Records : local' = [local EXCEPT ![m] = @ \cup {r}]
  <2>1. ASSUME NEW m \in Machines, NEW r \in Records, Sign(m, r) \/ MergeRecord(m, r)
        PROVE  local' = local \/ local' = [local EXCEPT ![m] = @ \cup {r}]
    BY <2>1 DEF Sign, MergeRecord, StoreRecord
  <2>2. CASE ~ \E m \in Machines, r \in Records : Sign(m, r) \/ MergeRecord(m, r)
    <3>1. ASSUME NEW e \in Foreign \cup Strays, Attach(e) PROVE local' = local
      BY <3>1 DEF Attach
    <3>2. ASSUME NEW m \in Machines, BeginPush(m) \/ Upload(m) \/ PutManifest(m) \/ ReadFallback(m)
          PROVE  local' = local
      BY <3>2 DEF BeginPush, Upload, PutManifest, ReadFallback
    <3>3. ASSUME NEW m \in Machines, AppendToFallback(m) \/ EndPush(m) \/ ListReferrers(m) \/ EndMerge(m) \/ Fail(m)
          PROVE  local' = local
      BY <3>3 DEF AppendToFallback, EndPush, ListReferrers, EndMerge, Fail
    <3>4. ASSUME NEW m \in Machines, NEW r \in Records, NextRecord(m, r) \/ MissRecord(m, r) PROVE local' = local
      BY <3>4 DEF NextRecord, MissRecord
    <3>5. CASE UNCHANGED vars
      BY <3>5 DEF vars
    <3> QED
      BY <2>2, <3>1, <3>2, <3>3, <3>4, <3>5 DEF Next
  <2> QED
    BY <2>1, <2>2
<1>3. CASE local'[n] = local[n]
  BY <1>1, <1>3
<1>4. ASSUME NEW r \in Records, local'[n] = local[n] \cup {r}
      PROVE  /\ local[n] \subseteq local'[n] /\ IsFiniteSet(local'[n])
             /\ Cardinality(local'[n]) >= Cardinality(local[n])
  <2>1. /\ IsFiniteSet(local[n] \cup {r})
        /\ Cardinality(local[n] \cup {r}) = IF r \in local[n] THEN Cardinality(local[n]) ELSE Cardinality(local[n]) + 1
    BY <1>1, FS_AddElement
  <2> QED
    BY <1>1, <1>4, <2>1
<1>5. local'[n] = local[n] \/ \E r \in Records : local'[n] = local[n] \cup {r}
  BY <1>1, <1>2
<1> QED
  BY <1>3, <1>4, <1>5

\* Lemma: what a pull has done stays done while the others take steps and the brain signs.
LEMMA PullKept ==
    ASSUME TypeOK, MergeInv, [Next]_vars, NEW n \in Machines, job[n].op = "pull", job'[n] = job[n]
    PROVE  PullOK(job[n], local[n])'
<1>1. PullOK(job[n], local[n]) /\ IsFiniteSet(local[n])
  BY DEF MergeInv, PullsOK, HeldFinite
<1>2. /\ local[n] \subseteq local'[n]
      /\ Cardinality(local'[n]) >= Cardinality(local[n]) /\ IsFiniteSet(local'[n])
  BY LocalGrows DEF MergeInv
<1>3. Cardinality(local[n]) \in Nat /\ Cardinality(local'[n]) \in Nat /\ MaxRecords \in Nat
  BY <1>1, <1>2, FS_CardinalityType, BoundAssumption
<1>4. blobs \subseteq blobs' /\ manifests \subseteq manifests'
  BY RegistryGrows
<1> QED
  BY <1>1, <1>2, <1>3, <1>4 DEF PullOK

\* Lemma: every step keeps what the pulls have done.
LEMMA MergeNext == TypeOK /\ WholeInv /\ MergeInv /\ [Next]_vars => MergeInv'
<1> SUFFICES ASSUME TypeOK, WholeInv, MergeInv, [Next]_vars PROVE MergeInv'
  OBVIOUS
<1>t. job \in [Machines -> Jobs] /\ local \in [Machines -> SUBSET Records] /\ HeldFinite /\ ListedWhole
  BY DEF TypeOK, Jobs, MergeInv, WholeInv
<1>f. HeldFinite'
  BY <1>t, LocalGrows DEF HeldFinite
<1>k. ASSUME \A n \in Machines : job'[n].op = "pull" => job'[n] = job[n]
      PROVE  MergeInv'
  BY <1>f, <1>k, PullKept DEF MergeInv, PullsOK
<1>m. ASSUME NEW m \in Machines, \A n \in Machines \ {m} : job'[n] = job[n], PullOK(job[m], local[m])'
      PROVE  MergeInv'
  BY <1>f, <1>m, PullKept DEF MergeInv, PullsOK
<1>1. ASSUME NEW e \in Foreign \cup Strays, Attach(e)
      PROVE  MergeInv'
  <2>1. ASSUME NEW n \in Machines, job'[n].op = "pull"
        PROVE  job'[n] = job[n]
    <3>1. CASE job[n].op = "push"
      <4>1. job[n] \in PushJobs /\ job'[n] = [job[n] EXCEPT !.others = @ \cup {e}]
        BY <1>1, <1>t, <3>1, JobKinds DEF Attach
      <4>2. job'[n].op = "push"
        BY <4>1 DEF PushJobs
      <4> QED
        BY <2>1, <4>2
    <3>2. CASE job[n].op # "push"
      BY <1>1, <3>2 DEF Attach
    <3> QED
      BY <3>1, <3>2
  <2> QED
    BY <1>k, <2>1
<1>2. ASSUME NEW m \in Machines, BeginPush(m)
      PROVE  MergeInv'
  <2>1. ASSUME NEW n \in Machines, job'[n].op = "pull"
        PROVE  job'[n] = job[n]
    <3>1. CASE n = m
      BY <1>2, <2>1, <3>1 DEF BeginPush
    <3>2. CASE n # m /\ n \in Pushing
      <4>1. job[n] \in PushJobs /\ job'[n] = [job[n] EXCEPT !.others = @ \cup {m}]
        BY <1>2, <1>t, <3>2, JobKinds DEF BeginPush, Pushing
      <4>2. job'[n].op = "push"
        BY <4>1 DEF PushJobs
      <4> QED
        BY <2>1, <4>2
    <3>3. CASE n # m /\ n \notin Pushing
      BY <1>2, <3>3 DEF BeginPush
    <3> QED
      BY <3>1, <3>2, <3>3
  <2> QED
    BY <1>k, <2>1
<1>w. ASSUME NEW m \in Machines, NEW j, job' = [job EXCEPT ![m] = j], j.op = "push"
      PROVE  MergeInv'
  BY <1>k, <1>t, <1>w
<1>3. ASSUME NEW m \in Machines, NEW r \in Records, NextRecord(m, r)
      PROVE  MergeInv'
  <2>1. job[m] \in PushJobs
    BY <1>3, AtPush DEF NextRecord
  <2>2. [job[m] EXCEPT !.step = "blob", !.record = r, !.todo = @ \ {r}].op = "push"
    BY <2>1 DEF PushJobs
  <2>3. job' = [job EXCEPT ![m] = [job[m] EXCEPT !.step = "blob", !.record = r, !.todo = @ \ {r}]]
    BY <1>3 DEF NextRecord
  <2> QED
    BY <1>w, <2>2, <2>3
<1>4. ASSUME NEW m \in Machines, EndPush(m) \/ EndMerge(m) \/ Fail(m)
      PROVE  MergeInv'
  BY <1>4, <1>k, <1>t DEF EndPush, EndMerge, Fail, Idle
<1>5. ASSUME NEW m \in Machines, NEW r \in Records, Sign(m, r)
      PROVE  MergeInv'
  BY <1>5, <1>k DEF Sign
<1>6. ASSUME NEW m \in Machines, ListReferrers(m)
      PROVE  MergeInv'
  <2>1. /\ job'[m] = [op |-> "pull", todo |-> SignaturesListed, seen |-> SignaturesListed,
                      missed |-> {}, merged |-> 0, refused |-> {}]
        /\ \A n \in Machines \ {m} : job'[n] = job[n]
        /\ manifests' = manifests /\ blobs' = blobs
    BY <1>6, <1>t DEF ListReferrers
  <2>2. SignaturesListed \subseteq manifests \cap blobs
    BY <1>t DEF SignaturesListed, ListedWhole
  <2>3. PullOK(job[m], local[m])'
    BY <2>1, <2>2 DEF PullOK
  <2> QED
    BY <1>m, <2>1, <2>3
<1>7. ASSUME NEW m \in Machines, NEW r \in Records, MergeRecord(m, r)
      PROVE  MergeInv'
  <2>1. job[m] \in PullJobs /\ r \in job[m].todo /\ PullOK(job[m], local[m])
    BY <1>7, AtPull DEF MergeRecord, MergeInv, PullsOK
  <2>2. /\ \A n \in Machines \ {m} : job'[n] = job[n]
        /\ manifests' = manifests /\ blobs' = blobs
    BY <1>7, <1>t DEF MergeRecord
  <2>3. Fetchable(m, r)
    BY <2>1 DEF PullOK, Fetchable
  <2>4. /\ IsFiniteSet(local'[m]) /\ Cardinality(local[m]) \in Nat /\ Cardinality(local'[m]) \in Nat
        /\ local[m] \subseteq local'[m] /\ Cardinality(local'[m]) >= Cardinality(local[m]) /\ MaxRecords \in Nat
    BY <1>t, LocalGrows, FS_CardinalityType, BoundAssumption DEF HeldFinite
  <2>5. CASE ~ Acceptable(m, r) /\ job' = [job EXCEPT ![m].todo = Done(m, r)] /\ local' = local
    <3>1. /\ job'[m].seen = job[m].seen /\ job'[m].todo = job[m].todo \ {r} /\ job'[m].missed = job[m].missed
          /\ job'[m].refused = job[m].refused
      BY <1>t, <2>1, <2>5 DEF Done, PullJobs
    <3>2. r \in Strays \/ job[m].refused # {}
      BY <2>3, <2>5 DEF Acceptable
    <3>3. PullOK(job[m], local[m])'
      BY <2>1, <2>2, <2>5, <3>1, <3>2 DEF PullOK
    <3> QED
      BY <1>m, <2>2, <3>3
  <2>6. CASE /\ Full(local[m], r) /\ local' = local
             /\ job' = [job EXCEPT ![m].todo = Done(m, r), ![m].refused = @ \cup {r}]
    <3>1. /\ job'[m].seen = job[m].seen /\ job'[m].todo = job[m].todo \ {r}
          /\ job'[m].refused = job[m].refused \cup {r}
      BY <1>t, <2>1, <2>6 DEF Done, PullJobs
    <3>2. PullOK(job[m], local[m])'
      BY <2>1, <2>2, <2>6, <3>1 DEF PullOK, Full
    <3> QED
      BY <1>m, <2>2, <3>2
  <2>7. CASE /\ job' = [job EXCEPT ![m].todo = Done(m, r), ![m].merged = @ + 1]
             /\ local' = [local EXCEPT ![m] = StoreRecord(@, r)]
    <3>1. /\ job'[m].seen = job[m].seen /\ job'[m].todo = job[m].todo \ {r} /\ job'[m].missed = job[m].missed
          /\ job'[m].refused = job[m].refused
      BY <1>t, <2>1, <2>7 DEF Done, PullJobs
    <3>2. local'[m] = local[m] \cup {r}
      BY <1>t, <2>7 DEF StoreRecord
    <3>3. PullOK(job[m], local[m])'
      BY <2>1, <2>2, <2>4, <3>1, <3>2 DEF PullOK
    <3> QED
      BY <1>m, <2>2, <3>3
  <2> QED
    BY <1>7, <2>5, <2>6, <2>7 DEF MergeRecord
<1>8. ASSUME NEW m \in Machines, NEW r \in Records, MissRecord(m, r)
      PROVE  MergeInv'
  <2>1. job[m] \in PullJobs /\ r \in job[m].todo /\ PullOK(job[m], local[m])
    BY <1>8, AtPull DEF MissRecord, MergeInv, PullsOK
  <2>2. /\ \A n \in Machines \ {m} : job'[n] = job[n]
        /\ manifests' = manifests /\ blobs' = blobs /\ local' = local
    BY <1>8, <1>t DEF MissRecord
  <2>3. /\ job'[m].seen = job[m].seen /\ job'[m].todo = job[m].todo \ {r}
        /\ job'[m].missed = job[m].missed \cup {r} /\ job'[m].refused = job[m].refused
    BY <1>8, <1>t, <2>1 DEF MissRecord, Done, PullJobs
  <2>4. PullOK(job[m], local[m])'
    BY <2>1, <2>2, <2>3 DEF PullOK
  <2> QED
    BY <1>m, <2>2, <2>4
<1>9. CASE UNCHANGED vars
  BY <1>9, <1>k DEF vars
<1>10. ASSUME NEW m \in Machines, Upload(m) \/ PutManifest(m) \/ AppendToFallback(m)
       PROVE  MergeInv'
  <2>1. job[m] \in PushJobs
    BY <1>10, AtPush DEF Upload, PutManifest, AppendToFallback
  <2>2. ASSUME NEW step, Step(m, step)
        PROVE  MergeInv'
    <3>1. [job[m] EXCEPT !.step = step].op = "push"
      BY <2>1 DEF PushJobs
    <3> QED
      BY <1>w, <2>2, <3>1 DEF Step
  <2> QED
    BY <1>10, <2>2 DEF Upload, PutManifest, AppendToFallback
<1>11. ASSUME NEW m \in Machines, ReadFallback(m)
       PROVE  MergeInv'
  <2> DEFINE to == IF job[m].record \in listing THEN "next" ELSE "write"
  <2>1. job[m] \in PushJobs
    BY <1>11, AtPush DEF ReadFallback
  <2>2. [job[m] EXCEPT !.entries = listing, !.step = to].op = "push"
    BY <2>1 DEF PushJobs
  <2>3. job' = [job EXCEPT ![m] = [job[m] EXCEPT !.entries = listing, !.step = to]]
    BY <1>11 DEF ReadFallback
  <2> QED
    BY <1>w, <2>2, <2>3
<1> QED
  BY <1>1, <1>2, <1>3, <1>4, <1>5, <1>6, <1>7, <1>8, <1>9, <1>10, <1>11 DEF Next

\* Theorem: a pull never takes a signature out of the brain, and one that is through the listing
\* leaves the brain with every signature of the artifact that was listed when it asked, except where
\* a fetch failed or a limit was met, for any records, machines, limits and interleaving of pushes.
THEOREM MergeAlwaysKeeps == Spec => MergeKeeps
<1>1. TypeOK /\ MergeInv /\ [Next]_vars =>
        \A m \in Machines :
            /\ local[m] \subseteq local'[m]
            /\ EndMerge(m) =>
                 \/ job[m].seen \subseteq local[m] \cup job[m].missed \cup Strays
                 \/ Cardinality(local[m]) >= MaxRecords
                 \/ job[m].merged >= MaxMerged
  <2> SUFFICES ASSUME TypeOK, MergeInv, [Next]_vars, NEW m \in Machines
               PROVE  /\ local[m] \subseteq local'[m]
                      /\ EndMerge(m) =>
                           \/ job[m].seen \subseteq local[m] \cup job[m].missed \cup Strays
                           \/ Cardinality(local[m]) >= MaxRecords
                           \/ job[m].merged >= MaxMerged
    OBVIOUS
  <2>1. local[m] \subseteq local'[m]
    BY LocalGrows DEF MergeInv
  <2>2. ASSUME EndMerge(m), job[m].todo = {}
        PROVE  \/ job[m].seen \subseteq local[m] \cup job[m].missed \cup Strays
               \/ Cardinality(local[m]) >= MaxRecords
    <3>1. PullOK(job[m], local[m])
      BY <2>2 DEF EndMerge, MergeInv, PullsOK
    <3> QED
      BY <2>2, <3>1 DEF PullOK
  <2> QED
    BY <2>1, <2>2 DEF EndMerge
<1>2. WholeInv => StepsOK
  BY DEF WholeInv
<1> QED
  BY <1>1, <1>2, TypeInit, WholeInit, MergeInit, TypeNext, WholeNext, MergeNext, PTL DEF Spec, MergeKeeps

=============================================================================
