------------------------------- MODULE DatasetSync -------------------------------
(***************************************************************************)
(* apps/go-ingestor, dataset-sync: a process that brings the archive of    *)
(* the data set to the object store, extracts its CSV files there and      *)
(* writes the manifest that the replay starts from.  What is in the store  *)
(* already is used again unless FORCE_DOWNLOAD is set.  Several such       *)
(* processes may run at once (one per file in the Makefile), each may stop *)
(* anywhere, and the data set may change at its source.                    *)
(*                                                                         *)
(* The manifest names the archive's checksum, which is half of the key of  *)
(* the replay's checkpoint: checksum and files must be of one version.     *)
(***************************************************************************)
EXTENDS Integers

CONSTANTS
    Syncs,       \* processes
    Names,       \* names of CSV files
    CsvsOf,      \* version of the data set -> the CSV files in its archive
    None         \* an object that does not exist

Versions == DOMAIN CsvsOf

ASSUME SyncAssumption ==
    /\ Versions \subseteq Nat
    /\ 1 \in Versions
    /\ None \notin Nat
    /\ \A v \in Versions : CsvsOf[v] \subseteq Names

VARIABLES
    upstream,   \* the version that the source serves
    archive,    \* version of archives/<slug>/dataset.zip
    raw,        \* name -> version of raw-sources/<slug>/<name>
    manifest,   \* version whose checksum and files dataset-manifest.json names
    pc,         \* process -> where it is
    force,      \* process -> cfg.ForceDownload
    spool,      \* process -> version of the archive in its temporary file
    left,       \* process -> CSV files of the archive not yet looked at
    alone,      \* history: no other process has run since this one began
    agreed      \* history: the store agreed when it began, and no look failed

storeVars   == <<archive, raw, manifest>>
processVars == <<pc, force, spool, left, alone, agreed>>
vars == <<upstream, storeVars, processVars>>

\* The files of the stored archive that are extracted are from it.
StoreAgrees ==
    archive # None => \A n \in CsvsOf[archive] : raw[n] \in {archive, None}

Running(p) == pc[p] \in {"archive", "put", "extract"}

Init ==
    /\ upstream = 1
    /\ archive = None
    /\ raw = [n \in Names |-> None]
    /\ manifest = None
    /\ pc = [p \in Syncs |-> "failed"]
    /\ force = [p \in Syncs |-> FALSE]
    /\ spool = [p \in Syncs |-> None]
    /\ left = [p \in Syncs |-> {}]
    /\ alone = [p \in Syncs |-> FALSE]
    /\ agreed = [p \in Syncs |-> FALSE]

-------------------------------------------------------------------------------
(* DatasetSyncService.Run *)

Step(p, from, to) == pc[p] = from /\ pc' = [pc EXCEPT ![p] = to]

Start(p) ==
    /\ ~Running(p)
    /\ pc' = [pc EXCEPT ![p] = "archive"]
    /\ \E f \in BOOLEAN : force' = [force EXCEPT ![p] = f]
    /\ alone' = [q \in Syncs |-> q = p /\ \A r \in Syncs : ~Running(r)]
    /\ agreed' = [agreed EXCEPT ![p] = StoreAgrees]
    /\ UNCHANGED <<upstream, storeVars, spool, left>>

\* The archive exists and is used again.
ReuseArchive(p) ==
    /\ Step(p, "archive", "extract")
    /\ archive # None /\ ~force[p]
    /\ spool' = [spool EXCEPT ![p] = archive]
    /\ left' = [left EXCEPT ![p] = CsvsOf[archive]]
    /\ UNCHANGED <<upstream, storeVars, force, alone, agreed>>

\* The archive is downloaded from the source.  An error of ObjectExists counts as
\* an object that does not exist.
DownloadArchive(p) ==
    /\ Step(p, "archive", "put")
    /\ \E lookFails \in BOOLEAN :
          /\ lookFails \/ archive = None \/ force[p]
          /\ agreed' = [agreed EXCEPT ![p] = @ /\ ~lookFails]
    /\ spool' = [spool EXCEPT ![p] = upstream]
    /\ UNCHANGED <<upstream, storeVars, force, left, alone>>

PutArchive(p) ==
    /\ Step(p, "put", "extract")
    /\ archive' = spool[p]
    /\ left' = [left EXCEPT ![p] = CsvsOf[spool[p]]]
    /\ UNCHANGED <<upstream, raw, manifest, force, spool, alone, agreed>>

\* Mutation: what exists is skipped by a forced run as well.
SkipAnyCsv(p, n) ==
    /\ Step(p, "extract", "extract")
    /\ n \in left[p] /\ raw[n] # None
    /\ left' = [left EXCEPT ![p] = @ \ {n}]
    /\ UNCHANGED <<upstream, storeVars, force, spool, alone, agreed>>

\* A CSV file that exists is skipped.
SkipCsv(p, n) ==
    /\ Step(p, "extract", "extract")
    /\ n \in left[p] /\ raw[n] # None /\ ~force[p]
    /\ left' = [left EXCEPT ![p] = @ \ {n}]
    /\ UNCHANGED <<upstream, storeVars, force, spool, alone, agreed>>

\* A CSV file that does not exist, or is not found, is extracted.
PutCsv(p, n) ==
    /\ Step(p, "extract", "extract")
    /\ n \in left[p]
    /\ raw' = [raw EXCEPT ![n] = spool[p]]
    /\ left' = [left EXCEPT ![p] = @ \ {n}]
    /\ UNCHANGED <<upstream, archive, manifest, force, spool, alone, agreed>>

\* Mutation: the manifest does not wait for the files.
PutManifestEarly(p) ==
    /\ Step(p, "extract", "done")
    /\ CsvsOf[spool[p]] # {}
    /\ manifest' = spool[p]
    /\ UNCHANGED <<upstream, archive, raw, force, spool, left, alone, agreed>>

\* The manifest is written last, and not for an archive without CSV files.
PutManifest(p) ==
    /\ Step(p, "extract", "done")
    /\ left[p] = {} /\ CsvsOf[spool[p]] # {}
    /\ manifest' = spool[p]
    /\ UNCHANGED <<upstream, archive, raw, force, spool, left, alone, agreed>>

\* Run returns an error, or the process is stopped or dies.
Fail(p) ==
    /\ Running(p)
    /\ pc' = [pc EXCEPT ![p] = "failed"]
    /\ UNCHANGED <<upstream, storeVars, force, spool, left, alone, agreed>>

\* The data set is published anew.
UpstreamChanges ==
    /\ upstream + 1 \in Versions
    /\ upstream' = upstream + 1
    /\ UNCHANGED <<storeVars, processVars>>

Sync(p) ==
    \/ Start(p) \/ ReuseArchive(p) \/ DownloadArchive(p) \/ PutArchive(p)
    \/ \E n \in Names : SkipCsv(p, n) \/ PutCsv(p, n)
    \/ PutManifest(p) \/ Fail(p)

Next == UpstreamChanges \/ \E p \in Syncs : Sync(p)

Spec == Init /\ [][Next]_vars

-------------------------------------------------------------------------------
(* Properties *)

Objects == Versions \cup {None}

\* Every variable stays in its domain.
TypeOK ==
    /\ upstream \in Versions
    /\ archive \in Objects /\ manifest \in Objects
    /\ raw \in [Names -> Objects]
    /\ pc \in [Syncs -> {"archive", "put", "extract", "done", "failed"}]
    /\ force \in [Syncs -> BOOLEAN]
    /\ spool \in [Syncs -> Objects]
    /\ left \in [Syncs -> SUBSET Names]
    /\ alone \in [Syncs -> BOOLEAN]
    /\ agreed \in [Syncs -> BOOLEAN]

\* Whatever overlaps or stops anywhere, the files that the manifest names exist,
\* so that the replay finds the one it is asked for (dataset_sync.go:235,
\* replay.go:365), and so does the archive.
ManifestedFilesExist ==
    manifest # None =>
        /\ archive # None
        /\ \A n \in CsvsOf[manifest] : raw[n] # None

\* After a run to the end that no other run met, the manifest, the archive and
\* the files of the archive are of one version: of a forced run always, however
\* mixed the store was, and of another if the store agreed before it and the
\* archive was not overlooked (dataset_sync.go:88, 182).
LoneRunAgrees ==
    \A p \in Syncs :
        pc[p] = "done" /\ alone[p] /\ (force[p] \/ agreed[p]) =>
            /\ manifest = archive
            /\ \A n \in CsvsOf[manifest] : raw[n] = archive
================================================================================
