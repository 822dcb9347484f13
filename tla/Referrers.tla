----------------------------- MODULE Referrers -----------------------------
(***************************************************************************)
(* Signatures around one published artifact.  A signature record is held   *)
(* in the signature index of a brain and travels as a manifest of its own  *)
(* that refers to the artifact: push uploads what the brain holds after    *)
(* the tag is confirmed, pull takes in what the registry lists.            *)
(*                                                                         *)
(* A registry with the Referrers API lists a manifest by itself.  For one  *)
(* without, the client keeps an index under a fallback tag, and a local    *)
(* layout keeps index.json: read, append, write back, with other machines  *)
(* free to do the same in between.                                         *)
(*                                                                         *)
(* A record is named by what it signs and who signs it; only the snapshot  *)
(* that the artifact carries is looked at, and a stray covers another one. *)
(***************************************************************************)
EXTENDS Naturals, FiniteSets

CONSTANTS
    Machines,       \* the brains that sign, push and pull
    Records,        \* the signature records there can be
    Signer,         \* record -> the machine with its key, or none
    Strays,         \* records over a snapshot outside the artifact's custody walk
    Foreign,        \* what other tools attach to the artifact
    MaxRecords,     \* MAX_RECORDS_PER_SNAPSHOT: what a brain keeps over a snapshot
    MaxMerged,      \* MAX_MERGED_PER_CALL: what one pull takes in
    MaxJobs         \* bound: pushes and pulls

ASSUME RecordsAssumption == Strays \subseteq Records /\ Records \cap Foreign = {}
ASSUME BoundAssumption == {MaxRecords, MaxMerged, MaxJobs} \subseteq Nat

VARIABLES
    local,          \* machine -> the records its signature index names
    api,            \* whether the registry has the Referrers API
    blobs,          \* the records whose blob the registry has
    manifests,      \* those whose signature manifest it has
    listing,        \* what it lists as referring to the artifact
    job,            \* machine -> the push or pull it is in
    jobs            \* pushes and pulls so far

vars == <<local, api, blobs, manifests, listing, job, jobs>>

Idle == [op |-> "idle"]

Init ==
    /\ local = [m \in Machines |-> {}]
    /\ api \in BOOLEAN
    /\ blobs = {}
    /\ manifests = {}
    /\ listing = {}
    /\ job = [m \in Machines |-> Idle]
    /\ jobs = 0

-----------------------------------------------------------------------------
(* The signature index of a brain.                                         *)

\* Mutant of StoreRecord: the entry of the snapshot is replaced.
StoreRecordMutant(held, r) == {r}

\* The index is read again for every record.
StoreRecord(held, r) == held \cup {r}

Full(held, r) == r \notin held /\ Cardinality(held) >= MaxRecords

Sign(m, r) ==
    /\ Signer[r] = m /\ r \notin local[m]
    /\ ~ Full(local[m], r)
    /\ local' = [local EXCEPT ![m] = StoreRecord(@, r)]
    /\ UNCHANGED <<api, blobs, manifests, listing, job, jobs>>

\* Another tool attaches something of its own, or a record of another snapshot.
Attach(e) ==
    /\ e \in (Foreign \cup Strays) \ listing
    /\ listing' = listing \cup {e}
    /\ manifests' = manifests \cup {e}
    /\ blobs' = blobs \cup {e}
    /\ job' = [m \in Machines |-> IF job[m].op = "push" THEN [job[m] EXCEPT !.others = @ \cup {e}] ELSE job[m]]
    /\ UNCHANGED <<local, api, jobs>>

-----------------------------------------------------------------------------
(* _push_signatures: what is held when it begins, record by record.        *)

Pushing == {m \in Machines : job[m].op = "push"}

\* others, listed and taken are for the properties only: who and what else is attached meanwhile, and
\* what was listed and held at the beginning.
BeginPush(m) ==
    /\ job[m] = Idle /\ local[m] # {}
    /\ jobs < MaxJobs /\ jobs' = jobs + 1
    /\ job' = [n \in Machines |->
                 IF n = m THEN [op |-> "push", step |-> "next", record |-> "none", todo |-> local[m], entries |-> {},
                                others |-> Pushing, listed |-> listing, taken |-> local[m]]
                 ELSE IF n \in Pushing THEN [job[n] EXCEPT !.others = @ \cup {m}]
                 ELSE job[n]]
    /\ UNCHANGED <<local, api, blobs, manifests, listing>>

At(m, step) == job[m].op = "push" /\ job[m].step = step

Step(m, step) == job' = [job EXCEPT ![m].step = step]

NextRecord(m, r) ==
    /\ At(m, "next") /\ r \in job[m].todo
    /\ job' = [job EXCEPT ![m].step = "blob", ![m].record = r, ![m].todo = @ \ {r}]
    /\ UNCHANGED <<local, api, blobs, manifests, listing, jobs>>

\* Mutant of Upload: the config is there, so the record is taken to be.
UploadMutant(m) ==
    /\ At(m, "blob")
    /\ blobs' = IF blobs = {} THEN {job[m].record} ELSE blobs
    /\ Step(m, "manifest")
    /\ UNCHANGED <<local, api, manifests, listing, jobs>>

Upload(m) ==
    /\ At(m, "blob")
    /\ blobs' = blobs \cup {job[m].record}
    /\ Step(m, "manifest")
    /\ UNCHANGED <<local, api, manifests, listing, jobs>>

\* The answer says whether the registry has indexed the subject.
PutManifest(m) ==
    /\ At(m, "manifest")
    /\ manifests' = manifests \cup {job[m].record}
    /\ listing' = IF api THEN listing \cup {job[m].record} ELSE listing
    /\ Step(m, IF api THEN "next" ELSE "read")
    /\ UNCHANGED <<local, api, blobs, jobs>>

\* An entry that is there already is not written again.
ReadFallback(m) ==
    /\ At(m, "read")
    /\ job' = [job EXCEPT ![m].entries = listing,
                          ![m].step = IF job[m].record \in listing THEN "next" ELSE "write"]
    /\ UNCHANGED <<local, api, blobs, manifests, listing, jobs>>

\* Mutant of Appended: the entries are parsed, and what this client cannot read is left out.
AppendedMutant(entries, r) == (entries \cap Records) \cup {r}

\* The entries are carried as they were read, the ones of other tools too.
Appended(entries, r) == entries \cup {r}

AppendToFallback(m) ==
    /\ At(m, "write")
    /\ listing' = Appended(job[m].entries, job[m].record)
    /\ Step(m, "next")
    /\ UNCHANGED <<local, api, blobs, manifests, jobs>>

EndPush(m) ==
    /\ At(m, "next") /\ job[m].todo = {}
    /\ job' = [job EXCEPT ![m] = Idle]
    /\ UNCHANGED <<local, api, blobs, manifests, listing, jobs>>

-----------------------------------------------------------------------------
(* _merge_signatures, from pull and fetch.                                 *)

\* The listing is asked for by artifact type.
SignaturesListed == listing \cap Records

ListReferrers(m) ==
    /\ job[m] = Idle
    /\ jobs < MaxJobs /\ jobs' = jobs + 1
    /\ job' = [job EXCEPT ![m] = [op |-> "pull", todo |-> SignaturesListed, seen |-> SignaturesListed,
                                  missed |-> {}, merged |-> 0, refused |-> {}]]
    /\ UNCHANGED <<local, api, blobs, manifests, listing>>

\* A record that the brain has already is not fetched again.
Fetchable(m, r) == r \in manifests /\ r \in blobs \cup local[m]

\* The checks of one record, in the order of the code: it arrives, it covers this artifact, and the
\* snapshot has not been found full.
Acceptable(m, r) == Fetchable(m, r) /\ r \notin Strays /\ job[m].refused = {}

Done(m, r) == job[m].todo \ {r}

\* store_record, or its refusal: "the excess is dropped, never the install".
MergeRecord(m, r) ==
    /\ job[m].op = "pull" /\ r \in job[m].todo /\ job[m].merged < MaxMerged
    /\ \/ /\ ~ Acceptable(m, r)
          /\ job' = [job EXCEPT ![m].todo = Done(m, r)]
          /\ UNCHANGED local
       \/ /\ Acceptable(m, r) /\ Full(local[m], r)
          /\ job' = [job EXCEPT ![m].todo = Done(m, r), ![m].refused = @ \cup {r}]
          /\ UNCHANGED local
       \/ /\ Acceptable(m, r) /\ ~ Full(local[m], r)
          /\ job' = [job EXCEPT ![m].todo = Done(m, r), ![m].merged = @ + 1]
          /\ local' = [local EXCEPT ![m] = StoreRecord(@, r)]
    /\ UNCHANGED <<api, blobs, manifests, listing, jobs>>

\* A fetch fails, and the record is skipped.
MissRecord(m, r) ==
    /\ job[m].op = "pull" /\ r \in job[m].todo /\ job[m].merged < MaxMerged
    /\ job' = [job EXCEPT ![m].todo = Done(m, r), ![m].missed = @ \cup {r}]
    /\ UNCHANGED <<local, api, blobs, manifests, listing, jobs>>

EndMerge(m) ==
    /\ job[m].op = "pull" /\ (job[m].todo = {} \/ job[m].merged >= MaxMerged)
    /\ job' = [job EXCEPT ![m] = Idle]
    /\ UNCHANGED <<local, api, blobs, manifests, listing, jobs>>

\* A request that fails ends a push with what it has done so far; a crash ends either.
Fail(m) ==
    /\ job[m] # Idle
    /\ job' = [job EXCEPT ![m] = Idle]
    /\ UNCHANGED <<local, api, blobs, manifests, listing, jobs>>

Next ==
    \/ \E e \in Foreign \cup Strays : Attach(e)
    \/ \E m \in Machines :
        \/ BeginPush(m) \/ Upload(m) \/ PutManifest(m) \/ ReadFallback(m) \/ AppendToFallback(m) \/ EndPush(m)
        \/ ListReferrers(m) \/ EndMerge(m) \/ Fail(m)
        \/ \E r \in Records : Sign(m, r) \/ NextRecord(m, r) \/ MergeRecord(m, r) \/ MissRecord(m, r)

Spec == Init /\ [][Next]_vars

-----------------------------------------------------------------------------
(* Properties.                                                             *)

PushJobs ==
    [op : {"push"}, step : {"next", "blob", "manifest", "read", "write"}, record : Records \cup {"none"},
     todo : SUBSET Records, entries : SUBSET (Records \cup Foreign),
     others : SUBSET (Machines \cup Records \cup Foreign), listed : SUBSET (Records \cup Foreign),
     taken : SUBSET Records]

PullJobs ==
    [op : {"pull"}, todo : SUBSET Records, seen : SUBSET Records, missed : SUBSET Records, merged : Nat,
     refused : SUBSET Records]

\* The state has its types: a push carries records only, whatever it reads from the index.
TypeOK ==
    /\ local \in [Machines -> SUBSET Records]
    /\ api \in BOOLEAN
    /\ blobs \subseteq Records \cup Foreign
    /\ manifests \subseteq Records \cup Foreign
    /\ listing \subseteq Records \cup Foreign
    /\ job \in [Machines -> {Idle} \cup PushJobs \cup PullJobs]
    /\ jobs \in Nat

\* push_referrer: blob, manifest, index.  Whatever stops half way and whoever writes the index from
\* what he read before, all that is listed can be fetched.
ListedWhole == listing \subseteq manifests /\ manifests \subseteq blobs

\* push_referrer, _append_to_fallback: at the end of a push during which nobody else attached
\* anything, every signature that the brain held is listed, and so is everything that was: the
\* entries of other tools, and those whose listing an earlier push had lost come back.
PushLists ==
    [][\A m \in Machines :
        EndPush(m) /\ job[m].others = {} => job[m].taken \cup job[m].listed \subseteq listing']_vars

\* _merge_signatures: when a pull is through the listing, the brain holds every signature of the
\* artifact that was listed when it asked, except what a fetch failed for and what is beyond the two
\* limits; whatever it signed or held meanwhile it still holds.
MergeKeeps ==
    [][\A m \in Machines :
        /\ local[m] \subseteq local'[m]
        /\ EndMerge(m) =>
             \/ job[m].seen \subseteq local[m] \cup job[m].missed \cup Strays
             \/ Cardinality(local[m]) >= MaxRecords
             \/ job[m].merged >= MaxMerged]_vars

\* The fallback index is written "so pre-Referrers registries still list signatures": what is listed
\* stays listed.
ListedStays == [][listing \subseteq listing']_vars

=============================================================================
