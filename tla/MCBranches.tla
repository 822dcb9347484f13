---------------------------- MODULE MCBranches ----------------------------
(***************************************************************************)
(* The instances of Branches that TLC checks.  Each cfg chooses the bound  *)
(* on snapshots and the part of the environment that is present; branch 1  *)
(* is main.                                                                *)
(***************************************************************************)
EXTENDS Branches

MCNames == {1, 2}

\* One handle alone with its store, dying between any two writes or in the middle of a sweep.
MCCrash == {"crash", "sweep"}

\* Branches started from a snapshot digest.
MCDigest == {"digest"}

\* A registry where other clients overwrite what a tag serves, between any two requests
\* of a push, and this one also pushes to another branch's tag; every call runs to its
\* end.  Branch 2's tag is the one that is shared.
MCShared == {"overwrite", "retag", "push", "pull"}
MCSharedTag == {2}

\* The same with pushes of this brain that are told to force.
MCForce == {"overwrite", "force", "retag", "push", "pull"}

\* Pulls that fail half way, a crash between any two writes or in the middle of a sweep,
\* while other clients put any version back behind the shared tag.
MCFaults == {"repush", "pull", "fail", "crash", "sweep"}
=============================================================================
