---------------------------- MODULE DatasetSyncProofs ----------------------------
(***************************************************************************)
(* The properties of DatasetSync for any number of processes, files and    *)
(* versions of the data set.  That the manifest names no missing file      *)
(* rests on nothing ever being removed from the store; that a lone run     *)
(* leaves the store in agreement, on what it has found or made so far.     *)
(***************************************************************************)
EXTENDS DatasetSync, TLAPS

\* A process holds a version of the archive once it has one, extracts only behind
\* a stored archive, and has passed over no file that is missing.
ProgressInv ==
    \A p \in Syncs :
        /\ pc[p] \in {"put", "extract"} => spool[p] \in Versions
        /\ pc[p] = "extract" =>
              /\ archive # None
              /\ \A n \in CsvsOf[spool[p]] \ left[p] : raw[n] # None

\* No CSV file is older than the archive object.
ArchiveFirst == archive = None => \A n \in Names : raw[n] = None

\* While a run counts as alone, no other one is under way.
AloneInv ==
    \A p, q \in Syncs : alone[p] /\ p # q => ~Running(q)

\* What a run that is alone can rely on at each of its steps.
LoneInv ==
    \A p \in Syncs : alone[p] =>
        /\ pc[p] = "archive" /\ agreed[p] => StoreAgrees
        /\ pc[p] = "put" /\ agreed[p] /\ ~force[p] => archive = None
        /\ pc[p] = "extract" /\ (force[p] \/ agreed[p]) =>
              /\ archive = spool[p]
              /\ \A n \in CsvsOf[spool[p]] \ left[p] : raw[n] = spool[p]
              /\ ~force[p] => \A n \in left[p] : raw[n] \in {spool[p], None}

IInv ==
    /\ TypeOK
    /\ ProgressInv
    /\ ArchiveFirst
    /\ AloneInv
    /\ LoneInv
    /\ ManifestedFilesExist
    /\ LoneRunAgrees

\* What the assumption on the constants says, for the provers.
LEMMA VersionFacts ==
    /\ None \notin Versions
    /\ 1 \in Versions
    /\ \A v \in Versions : CsvsOf[v] \subseteq Names
BY SyncAssumption

LEMMA InitIInv == Init => IInv
BY VersionFacts DEF Init, IInv, TypeOK, ProgressInv, ArchiveFirst, AloneInv, LoneInv,
   ManifestedFilesExist, LoneRunAgrees, Objects, Running

LEMMA StepIInv == IInv /\ [Next]_vars => IInv'
<1> SUFFICES ASSUME IInv, [Next]_vars PROVE IInv'
    OBVIOUS
<1> USE VersionFacts
<1> USE DEF IInv, Objects, Step
<1>1. ASSUME NEW p \in Syncs, Start(p) PROVE IInv'
    <2>1. TypeOK'
        <3>1. /\ upstream' \in Versions
              /\ archive' \in Objects /\ manifest' \in Objects
              /\ raw' \in [Names -> Objects]
              /\ pc' \in [Syncs -> {"archive", "put", "extract", "done", "failed"}]
              /\ spool' \in [Syncs -> Objects]
              /\ left' \in [Syncs -> SUBSET Names]
            BY <1>1 DEF TypeOK, Start, storeVars
        <3>2. force' \in [Syncs -> BOOLEAN]
            <4>1. PICK f \in BOOLEAN : force' = [force EXCEPT ![p] = f]
                BY <1>1 DEF Start
            <4> QED
                BY <4>1 DEF TypeOK
        <3>3. alone' \in [Syncs -> BOOLEAN]
            <4>1. alone' = [q \in Syncs |-> q = p /\ \A r \in Syncs : ~Running(r)]
                BY <1>1 DEF Start
            <4> QED
                BY <4>1, Zenon
        <3>4. agreed' \in [Syncs -> BOOLEAN]
            <4>1. StoreAgrees \in BOOLEAN
                BY DEF StoreAgrees
            <4>2. agreed' = [agreed EXCEPT ![p] = StoreAgrees]
                BY <1>1 DEF Start
            <4> QED
                BY <4>1, <4>2 DEF TypeOK
        <3> QED
            BY <3>1, <3>2, <3>3, <3>4 DEF TypeOK
    <2>2. ProgressInv' /\ ArchiveFirst'
        BY <1>1 DEF TypeOK, Start, storeVars, ProgressInv, ArchiveFirst
    <2>3. AloneInv'
        BY <1>1 DEF TypeOK, Start, storeVars, AloneInv, Running
    <2>4. LoneInv'
        BY <1>1 DEF TypeOK, Start, storeVars, LoneInv, StoreAgrees
    <2>5. ManifestedFilesExist' /\ LoneRunAgrees'
        BY <1>1 DEF TypeOK, Start, storeVars, ManifestedFilesExist, LoneRunAgrees
    <2> QED
        BY <2>1, <2>2, <2>3, <2>4, <2>5
<1>2. ASSUME NEW p \in Syncs, ReuseArchive(p) PROVE IInv'
    <2>1. TypeOK'
        BY <1>2 DEF TypeOK, ReuseArchive, storeVars
    <2>2. ProgressInv' /\ ArchiveFirst'
        BY <1>2 DEF TypeOK, ReuseArchive, storeVars, ProgressInv, ArchiveFirst
    <2>3. AloneInv'
        BY <1>2 DEF TypeOK, ReuseArchive, storeVars, AloneInv, Running
    <2>4. LoneInv'
        BY <1>2 DEF TypeOK, ReuseArchive, storeVars, LoneInv, StoreAgrees
    <2>5. ManifestedFilesExist' /\ LoneRunAgrees'
        BY <1>2 DEF TypeOK, ReuseArchive, storeVars, ManifestedFilesExist, LoneRunAgrees
    <2> QED
        BY <2>1, <2>2, <2>3, <2>4, <2>5
<1>3. ASSUME NEW p \in Syncs, DownloadArchive(p) PROVE IInv'
    <2>1. TypeOK'
        BY <1>3 DEF TypeOK, DownloadArchive, storeVars
    <2>2. ProgressInv' /\ ArchiveFirst'
        BY <1>3 DEF TypeOK, DownloadArchive, storeVars, ProgressInv, ArchiveFirst
    <2>3. AloneInv'
        BY <1>3 DEF TypeOK, DownloadArchive, storeVars, AloneInv, Running
    <2>4. LoneInv'
        BY <1>3 DEF TypeOK, DownloadArchive, storeVars, LoneInv, StoreAgrees
    <2>5. ManifestedFilesExist' /\ LoneRunAgrees'
        BY <1>3 DEF TypeOK, DownloadArchive, storeVars, ManifestedFilesExist,
                    LoneRunAgrees
    <2> QED
        BY <2>1, <2>2, <2>3, <2>4, <2>5
<1>4. ASSUME NEW p \in Syncs, PutArchive(p) PROVE IInv'
    <2>1. TypeOK'
        BY <1>4 DEF TypeOK, PutArchive, ProgressInv
    <2>2. ProgressInv' /\ ArchiveFirst'
        BY <1>4 DEF TypeOK, PutArchive, ProgressInv, ArchiveFirst
    <2>3. AloneInv'
        BY <1>4 DEF TypeOK, PutArchive, AloneInv, Running
    <2>4. LoneInv'
        BY <1>4 DEF TypeOK, PutArchive, LoneInv, AloneInv, Running, ArchiveFirst,
                    ProgressInv
    <2>5. ManifestedFilesExist' /\ LoneRunAgrees'
        BY <1>4 DEF TypeOK, PutArchive, ManifestedFilesExist, LoneRunAgrees, AloneInv,
                    Running, ProgressInv
    <2> QED
        BY <2>1, <2>2, <2>3, <2>4, <2>5
<1>5. ASSUME NEW p \in Syncs, NEW n \in Names, SkipCsv(p, n) PROVE IInv'
    <2>1. TypeOK'
        BY <1>5 DEF TypeOK, SkipCsv, storeVars
    <2>2. ProgressInv' /\ ArchiveFirst'
        BY <1>5 DEF TypeOK, SkipCsv, storeVars, ProgressInv, ArchiveFirst
    <2>3. AloneInv'
        BY <1>5 DEF TypeOK, SkipCsv, storeVars, AloneInv, Running
    <2>4. LoneInv'
        BY <1>5 DEF TypeOK, SkipCsv, storeVars, LoneInv, StoreAgrees
    <2>5. ManifestedFilesExist' /\ LoneRunAgrees'
        BY <1>5 DEF TypeOK, SkipCsv, storeVars, ManifestedFilesExist, LoneRunAgrees
    <2> QED
        BY <2>1, <2>2, <2>3, <2>4, <2>5
<1>6. ASSUME NEW p \in Syncs, NEW n \in Names, PutCsv(p, n) PROVE IInv'
    <2>1. TypeOK'
        BY <1>6 DEF TypeOK, PutCsv, ProgressInv
    <2>2. ProgressInv' /\ ArchiveFirst'
        BY <1>6 DEF TypeOK, PutCsv, ProgressInv, ArchiveFirst
    <2>3. AloneInv'
        BY <1>6 DEF TypeOK, PutCsv, AloneInv, Running
    <2>4. LoneInv'
        BY <1>6 DEF TypeOK, PutCsv, LoneInv, AloneInv, Running, ProgressInv
    <2>5. ManifestedFilesExist'
        BY <1>6 DEF TypeOK, PutCsv, ManifestedFilesExist, ProgressInv
    <2>6. LoneRunAgrees'
        BY <1>6 DEF TypeOK, PutCsv, LoneRunAgrees, AloneInv, Running
    <2> QED
        BY <2>1, <2>2, <2>3, <2>4, <2>5, <2>6
<1>7. ASSUME NEW p \in Syncs, PutManifest(p) PROVE IInv'
    <2>1. TypeOK'
        BY <1>7 DEF TypeOK, PutManifest, ProgressInv
    <2>2. ProgressInv' /\ ArchiveFirst'
        BY <1>7 DEF TypeOK, PutManifest, ProgressInv, ArchiveFirst
    <2>3. AloneInv'
        BY <1>7 DEF TypeOK, PutManifest, AloneInv, Running
    <2>4. LoneInv'
        BY <1>7 DEF TypeOK, PutManifest, LoneInv, StoreAgrees
    <2>5. ManifestedFilesExist'
        BY <1>7 DEF TypeOK, PutManifest, ManifestedFilesExist, ProgressInv
    <2>6. LoneRunAgrees'
        BY <1>7 DEF TypeOK, PutManifest, LoneRunAgrees, LoneInv, AloneInv, Running
    <2> QED
        BY <2>1, <2>2, <2>3, <2>4, <2>5, <2>6
<1>8. ASSUME NEW p \in Syncs, Fail(p) PROVE IInv'
    <2>1. TypeOK'
        BY <1>8 DEF TypeOK, Fail, storeVars
    <2>2. ProgressInv' /\ ArchiveFirst'
        BY <1>8 DEF TypeOK, Fail, storeVars, ProgressInv, ArchiveFirst
    <2>3. AloneInv'
        BY <1>8 DEF TypeOK, Fail, storeVars, AloneInv, Running
    <2>4. LoneInv'
        BY <1>8 DEF TypeOK, Fail, storeVars, LoneInv, StoreAgrees
    <2>5. ManifestedFilesExist' /\ LoneRunAgrees'
        BY <1>8 DEF TypeOK, Fail, storeVars, ManifestedFilesExist, LoneRunAgrees
    <2> QED
        BY <2>1, <2>2, <2>3, <2>4, <2>5
<1>9. CASE UpstreamChanges
    BY <1>9 DEF UpstreamChanges, storeVars, processVars, TypeOK, ProgressInv,
       ArchiveFirst, AloneInv, LoneInv, ManifestedFilesExist, LoneRunAgrees, StoreAgrees,
       Running
<1>10. CASE UNCHANGED vars
    BY <1>10 DEF vars, storeVars, processVars, TypeOK, ProgressInv, ArchiveFirst,
       AloneInv, LoneInv, ManifestedFilesExist, LoneRunAgrees, StoreAgrees, Running
<1> QED
    BY <1>1, <1>2, <1>3, <1>4, <1>5, <1>6, <1>7, <1>8, <1>9, <1>10 DEF Next, Sync

\* The invariant holds in every reachable state.
THEOREM SpecIInv == Spec => []IInv
BY InitIInv, StepIInv, PTL DEF Spec

\* Every variable keeps its type, for any processes, files and versions.
THEOREM SpecTypeOK == Spec => []TypeOK
BY SpecIInv, PTL DEF IInv

\* The manifest never names a file that is missing (dataset_sync.go:235),
\* whatever overlaps or stops.
THEOREM SpecManifestedFilesExist == Spec => []ManifestedFilesExist
BY SpecIInv, PTL DEF IInv

\* A run that is alone to its end leaves manifest, archive and files of one
\* version (dataset_sync.go:88, 182).
THEOREM SpecLoneRunAgrees == Spec => []LoneRunAgrees
BY SpecIInv, PTL DEF IInv
================================================================================
