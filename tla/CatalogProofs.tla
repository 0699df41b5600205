--------------------------- MODULE CatalogProofs ---------------------------
(***************************************************************************)
(* Proofs about Catalog: what the phone remembers of its table is true,    *)
(* and a young manifest is listed, for any tracks, coroutines and bounds.  *)
(***************************************************************************)
EXTENDS Catalog, TLAPS

Job == [mtime : Mtimes, tracks : Rows, ids : TrackSet]
File == [at : Mtimes, form : Forms, tracks : Rows]
Declared == [at : Mtimes, form : Forms, ids : TrackSet]

LEMMA NoJobType == NoJob \in Job
<1>1. {} \in TrackSet /\ [t \in {} |-> 0] \in [{} -> Sizes]
  BY DEF TrackSet
<1>2. [t \in {} |-> 0] \in Rows
  BY <1>1 DEF Rows
<1> QED  BY <1>1, <1>2, CatalogAssumption DEF NoJob, Job, Mtimes

LEMMA ZeroSize == 0 \in Sizes
BY CatalogAssumption DEF Sizes

\* The parts of TypeOK, by who writes them.
DesktopOK == /\ lib \in Rows /\ current \subseteq DOMAIN lib
             /\ pc \in {"idle", "catalog", "manifest"}
             /\ clock \in Mtimes /\ catalog \in File /\ manifest \in Declared
             /\ changes \in 0..MaxChanges
PhoneOK == /\ catP \in File /\ manP \in Declared /\ disk \in [Tracks -> Sizes]
           /\ rows \in Rows /\ resident \in TrackSet
           /\ declared \in TrackSet /\ applied \in SUBSET TrackSet
           /\ lastCat \in Mtimes /\ lastMan \in Mtimes /\ music \in BOOLEAN
           /\ at \in [Coroutines -> Places] /\ job \in [Coroutines -> Job]
           /\ blurred \subseteq Causes /\ stale \in BOOLEAN
FaultsOK == faults \in 0..MaxFaults

LEMMA TypeParts == TypeOK <=> DesktopOK /\ PhoneOK /\ FaultsOK
BY DEF TypeOK, DesktopOK, PhoneOK, FaultsOK, File, Declared, Job

LEMMA RowsDomain == \A f \in Rows : DOMAIN f \in TrackSet /\ f \in [DOMAIN f -> Sizes]
BY DEF Rows

LEMMA TypeInit == Init => TypeOK
<1> SUFFICES ASSUME Init PROVE TypeOK
  OBVIOUS
<1>1. lib \in Rows /\ First \in TrackSet
  BY CatalogAssumption, ZeroSize DEF Init, Rows, TrackSet
<1>2. 1 \in Mtimes /\ 0 \in Mtimes
  BY CatalogAssumption DEF Mtimes
<1>3. DesktopOK
  BY <1>1, <1>2, CatalogAssumption DEF Init, DesktopOK, File, Declared, Forms
<1>4. PhoneOK
  BY <1>1, <1>2, <1>3, NoJobType, ZeroSize DEF Init, PhoneOK, DesktopOK, Places, TrackSet
<1>5. FaultsOK
  BY CatalogAssumption DEF Init, FaultsOK
<1> QED  BY <1>3, <1>4, <1>5, TypeParts

\* Steps of the desktop keep its part.
LEMMA DesktopStep ==
  ASSUME DesktopOK, Cycle \/ PublishStart \/ CommitCatalog \/ CommitManifest \/ PublishCut
  PROVE  DesktopOK'
<1>1. CASE Cycle
  <2>1. PICK R \in TrackSet :
          /\ current' \in SUBSET R
          /\ lib' \in {f \in [R -> Sizes] : \A t \in R : f[t] > 0 => t \in current'}
    BY <1>1 DEF Cycle
  <2>2. lib' \in [R -> Sizes] /\ DOMAIN lib' = R
    BY <2>1
  <2>3. lib' \in Rows
    BY <2>2 DEF Rows
  <2>4. changes' \in 0..MaxChanges
    BY <1>1, CatalogAssumption DEF Cycle, DesktopOK
  <2> QED  BY <1>1, <2>1, <2>2, <2>3, <2>4 DEF Cycle, DesktopOK
<1>2. CASE PublishStart
  BY <1>2 DEF PublishStart, DesktopOK
<1>3. CASE CommitCatalog
  <2>1. clock' \in Mtimes /\ clock' = clock + 1
    BY <1>3, CatalogAssumption DEF CommitCatalog, DesktopOK, Mtimes
  <2>2. PICK form \in Forms, R \in SUBSET DOMAIN lib : catalog' = CatalogFile(form, R)
    BY <1>3 DEF CommitCatalog
  <2>3. [t \in R |-> lib[t]] \in Rows
    <3>1. R \in TrackSet /\ \A t \in R : lib[t] \in Sizes
      BY RowsDomain DEF DesktopOK, TrackSet
    <3>2. [t \in R |-> lib[t]] \in [R -> Sizes]
      BY <3>1
    <3> QED  BY <3>1, <3>2 DEF Rows
  <2>4. catalog' \in File
    BY <2>1, <2>2, <2>3, <1>3 DEF CommitCatalog, CatalogFile, File
  <2> QED  BY <1>3, <2>1, <2>4 DEF CommitCatalog, DesktopOK
<1>4. CASE CommitManifest
  <2>1. clock' \in Mtimes /\ clock' = clock + 1
    BY <1>4, CatalogAssumption DEF CommitManifest, DesktopOK, Mtimes
  <2>2. PICK form \in Forms, S \in SUBSET current : manifest' = ManifestFile(form, S)
    BY <1>4 DEF CommitManifest
  <2>3. S \in TrackSet
    BY RowsDomain DEF DesktopOK, TrackSet
  <2>4. manifest' \in Declared
    BY <1>4, <2>1, <2>2, <2>3 DEF CommitManifest, ManifestFile, Declared
  <2> QED  BY <1>4, <2>1, <2>4 DEF CommitManifest, DesktopOK
<1>5. CASE PublishCut
  BY <1>5 DEF PublishCut, DesktopOK
<1> QED  BY <1>1, <1>2, <1>3, <1>4, <1>5

LEMMA SyncStep ==
  ASSUME DesktopOK, PhoneOK,
         Deliver
  PROVE  PhoneOK'
<1>1. CASE DeliverCatalog
  BY <1>1 DEF DeliverCatalog, DesktopOK, PhoneOK, process, ghosts
<1>2. CASE DeliverManifest
  BY <1>2 DEF DeliverManifest, DesktopOK, PhoneOK, process, ghosts
<1>3. CASE \E t \in Tracks : DeliverAudio(t)
  <2>1. PICK t \in Tracks : DeliverAudio(t)
    BY <1>3
  <2>2. Served(t) \in Sizes
    BY RowsDomain, ZeroSize DEF Served, DesktopOK
  <2>3. 0..Served(t) \subseteq Sizes
    BY <2>2, CatalogAssumption DEF Sizes
  <2>4. disk' \in [Tracks -> Sizes]
    BY <2>1, <2>3 DEF DeliverAudio, PhoneOK
  <2> QED  BY <2>1, <2>4 DEF DeliverAudio, PhoneOK, process, ghosts
<1> QED  BY <1>1, <1>2, <1>3 DEF Deliver

LEMMA VerifiedType ==
  ASSUME PhoneOK, NEW c \in Coroutines PROVE Verified(c) \in TrackSet
<1>1. job[c].ids \in TrackSet
  BY DEF PhoneOK, Job
<1> QED  BY <1>1 DEF Verified, TrackSet

\* Steps of one coroutine.
LEMMA CoroutineStep ==
  ASSUME PhoneOK, NEW c \in Coroutines,
         Begin(c) \/ Reverify(c) \/ Resume(c) \/ Unmarked(c) \/ ScreenLeft(c)
                    \/ ImportFails(c) \/ WriteFails(c)
  PROVE  PhoneOK'
<1> USE DEF desktop, sync, process, ghosts, Goto, Places, Causes, Overlap, Because, CutAt
<1>0. /\ job[c] \in Job /\ lastMan \in Mtimes /\ manP \in Declared /\ catP \in File
      /\ job[c].mtime \in Mtimes /\ job[c].tracks \in Rows /\ job[c].ids \in TrackSet
      /\ NoJob \in Job
  BY NoJobType DEF PhoneOK, Job
<1>1. CASE Begin(c)
  <2>1. catP.at \in Mtimes
    BY <1>0 DEF File
  <2>2. job' \in [Coroutines -> Job]
    BY <1>0, <1>1, <2>1 DEF Begin, PhoneOK, Job
  <2>3. at' \in [Coroutines -> Places]
    BY <1>1 DEF Begin, PhoneOK
  <2> QED  BY <1>1, <2>2, <2>3 DEF Begin, PhoneOK
<1>2. CASE Reverify(c)
  <2>1. [NoJob EXCEPT !.mtime = lastMan, !.ids = declared] \in Job
    BY <1>0 DEF PhoneOK, Job
  <2> QED  BY <1>2, <2>1 DEF Reverify, PhoneOK
<1>3. CASE ReadFiles(c)
  <2>1. catP.tracks \in Rows /\ manP.ids \in TrackSet
    BY <1>0 DEF File, Declared
  <2>2. job' \in [Coroutines -> Job]
    BY <1>0, <1>3, <2>1 DEF ReadFiles, PhoneOK, Job
  <2>3. at' \in [Coroutines -> Places]
    BY <1>3 DEF ReadFiles, PhoneOK
  <2> QED  BY <1>3, <2>2, <2>3 DEF ReadFiles, PhoneOK
<1>4. CASE Import(c)
  <2>1. resident' \in TrackSet
    BY <1>0, <1>4 DEF Import, TrackSet
  <2>2. stale' \in BOOLEAN /\ blurred' \subseteq Causes
    BY <1>4 DEF Import, PhoneOK
  <2> QED  BY <1>0, <1>4, <2>1, <2>2 DEF Import, PhoneOK
<1>5. CASE Mark(c)
  <2>1. stale' \in BOOLEAN /\ blurred' \subseteq Causes
    BY <1>5 DEF Mark, PhoneOK
  <2>2. lastCat' \in Mtimes
    BY <1>0, <1>5 DEF Mark, PhoneOK
  <2>3. applied' \in SUBSET TrackSet
    BY <1>5 DEF Mark
  <2> QED  BY <1>0, <1>5, <2>1, <2>2, <2>3 DEF Mark, PhoneOK
<1>6. CASE Unmarked(c)
  <2>1. blurred' \subseteq Causes
    BY <1>6 DEF Unmarked, PhoneOK
  <2> QED  BY <1>0, <1>6, <2>1 DEF Unmarked, PhoneOK
<1>7. CASE ReadManifest(c)
  <2>1. manP.at \in Mtimes /\ manP.ids \in TrackSet
    BY <1>0 DEF Declared
  <2>2. [NoJob EXCEPT !.mtime = manP.at, !.ids = manP.ids] \in Job
    BY <1>0, <2>1 DEF Job
  <2> QED  BY <1>0, <1>7, <2>1, <2>2 DEF ReadManifest, PhoneOK
<1>8. CASE Verify(c)
  <2>1. Verified(c) \in TrackSet
    BY VerifiedType
  <2>2. job' \in [Coroutines -> Job]
    BY <1>0, <1>8, <2>1 DEF Verify, Return, PhoneOK, Job
  <2>3. lastMan' \in Mtimes
    BY <1>0, <1>8 DEF Verify, Return, PhoneOK
  <2>4. at' \in [Coroutines -> Places]
    BY <1>8 DEF Verify, Return, PhoneOK
  <2> QED  BY <1>8, <2>2, <2>3, <2>4 DEF Verify, PhoneOK
<1>9. CASE ClearAll(c)
  <2>1. blurred' \subseteq Causes
    BY <1>9 DEF ClearAll
  <2>2. resident' \in TrackSet
    BY <1>9 DEF ClearAll, TrackSet
  <2> QED  BY <1>9, <2>1, <2>2 DEF ClearAll, PhoneOK
<1>10. CASE SetResident(c)
  <2>1. resident' \in TrackSet
    BY <1>0, <1>10 DEF SetResident, PhoneOK, TrackSet
  <2> QED  BY <1>10, <2>1 DEF SetResident, PhoneOK
<1>11. CASE Apply(c)
  <2>1. lastMan' \in Mtimes /\ applied' \in SUBSET TrackSet
    BY <1>0, <1>11 DEF Apply, Return, PhoneOK
  <2> QED  BY <1>0, <1>11, <2>1 DEF Apply, Return, PhoneOK
<1>12. CASE ScreenLeft(c)
  <2>1. blurred' \subseteq Causes
    BY <1>12 DEF ScreenLeft, PhoneOK
  <2> QED  BY <1>0, <1>12, <2>1 DEF ScreenLeft, PhoneOK
<1>13. CASE ImportFails(c)
  BY <1>0, <1>13 DEF ImportFails, PhoneOK
<1>14. CASE WriteFails(c)
  <2>1. resident' \in TrackSet
    BY <1>0, <1>14 DEF WriteFails, PhoneOK, TrackSet
  <2>2. blurred' \subseteq Causes
    BY <1>14 DEF WriteFails, PhoneOK
  <2> QED  BY <1>0, <1>14, <2>1, <2>2 DEF WriteFails, PhoneOK
<1> QED  BY <1>1, <1>2, <1>3, <1>4, <1>5, <1>6, <1>7, <1>8, <1>9, <1>10, <1>11, <1>12,
            <1>13, <1>14 DEF Resume

\* Steps of the whole process.
LEMMA ProcessStep ==
  ASSUME PhoneOK, LoadMusic \/ Recreated \/ AppKilled
  PROVE  PhoneOK'
<1>0. 0 \in Mtimes /\ {} \in TrackSet
  BY CatalogAssumption DEF Mtimes, TrackSet
<1>1. CASE LoadMusic
  BY <1>1 DEF LoadMusic, PhoneOK, sync, ghosts
<1>2. CASE Recreated
  <2>1. blurred' \subseteq Causes
    BY <1>2 DEF Recreated, PhoneOK, CutAt, Because, Causes
  <2> QED  BY <1>0, <1>2, <2>1, NoJobType DEF Recreated, PhoneOK, sync, Places
<1>3. CASE AppKilled
  BY <1>0, <1>3, NoJobType DEF AppKilled, PhoneOK, sync, Places, Causes
<1> QED  BY <1>1, <1>2, <1>3

\* Every step is one of the desktop, of Syncthing, of a coroutine or of the process.
DesktopActs == Cycle \/ PublishStart \/ CommitCatalog \/ CommitManifest \/ PublishCut
SyncActs == Deliver
CoroutineActs(c) == Begin(c) \/ Reverify(c) \/ Resume(c) \/ Unmarked(c) \/ ScreenLeft(c)
                    \/ ImportFails(c) \/ WriteFails(c)
ProcessActs == LoadMusic \/ Recreated \/ AppKilled

LEMMA StepKinds ==
  Next => \/ DesktopActs /\ UNCHANGED <<sync, rows, resident, process, at, job, ghosts>>
          \/ SyncActs /\ UNCHANGED <<desktop, rows, resident, process, at, job, ghosts>>
          \/ \E c \in Coroutines : CoroutineActs(c) /\ UNCHANGED <<desktop, sync>>
          \/ ProcessActs /\ UNCHANGED <<desktop, sync, rows, resident>>
<1> SUFFICES ASSUME Next
             PROVE  \/ DesktopActs /\ UNCHANGED <<sync, rows, resident, process, at, job, ghosts>>
                    \/ SyncActs /\ UNCHANGED <<desktop, rows, resident, process, at, job, ghosts>>
                    \/ \E c \in Coroutines : CoroutineActs(c) /\ UNCHANGED <<desktop, sync>>
                    \/ ProcessActs /\ UNCHANGED <<desktop, sync, rows, resident>>
  OBVIOUS
<1>1. DesktopActs => UNCHANGED <<sync, rows, resident, process, at, job, ghosts>>
  BY DEF DesktopActs, Cycle, PublishStart, CommitCatalog, CommitManifest, PublishCut
<1>2. SyncActs => UNCHANGED <<desktop, rows, resident, process, at, job, ghosts>>
  BY DEF SyncActs, Deliver, DeliverCatalog, DeliverManifest, DeliverAudio
<1>3. \A c \in Coroutines : CoroutineActs(c) => UNCHANGED <<desktop, sync>>
  BY DEF CoroutineActs, Begin, Reverify, Resume, Unmarked, ScreenLeft, ImportFails,
         WriteFails, ReadFiles, Import, Mark,
         ReadManifest, Verify, ClearAll, SetResident, Apply
<1>4. ProcessActs => UNCHANGED <<desktop, sync, rows, resident>>
  BY DEF ProcessActs, LoadMusic, Recreated, AppKilled
<1>5. \/ DesktopActs \/ SyncActs \/ (\E c \in Coroutines : CoroutineActs(c)) \/ ProcessActs
  BY DEF Next, DesktopActs, SyncActs, CoroutineActs, ProcessActs, Coroutines
<1> QED  BY <1>1, <1>2, <1>3, <1>4, <1>5

LEMMA FaultsStep == ASSUME FaultsOK, Next PROVE FaultsOK'
<1>1. faults' = faults \/ Fault
  BY DEF Next, Cycle, PublishStart, CommitCatalog, CommitManifest, PublishCut, Emits,
         Deliver, DeliverCatalog, DeliverManifest, DeliverAudio, Begin, Reverify, Resume, Unmarked, ImportFails, WriteFails,
         ScreenLeft, ReadFiles, Import, Mark, ReadManifest, Verify, ClearAll, SetResident,
         Apply, LoadMusic, Recreated, AppKilled
<1> QED  BY <1>1, CatalogAssumption DEF FaultsOK, Fault

LEMMA TypeStep == ASSUME TypeOK, [Next]_vars PROVE TypeOK'
<1>0. DesktopOK /\ PhoneOK /\ FaultsOK
  BY TypeParts
<1>1. CASE UNCHANGED vars
  BY <1>1 DEF TypeOK, vars, desktop, sync, process, ghosts
<1>2. CASE Next
  <2>1. FaultsOK'
    BY <1>0, <1>2, FaultsStep
  <2>2. CASE DesktopActs /\ UNCHANGED <<sync, rows, resident, process, at, job, ghosts>>
    <3>1. DesktopOK'
      BY <1>0, <2>2, DesktopStep DEF DesktopActs
    <3>2. PhoneOK'
      BY <1>0, <2>2 DEF PhoneOK, sync, process, ghosts
    <3> QED  BY <2>1, <3>1, <3>2, TypeParts DEF TypeOK, DesktopOK, PhoneOK, FaultsOK, File,
                 Declared, Job
  <2>3. CASE SyncActs /\ UNCHANGED <<desktop, rows, resident, process, at, job, ghosts>>
    <3>1. DesktopOK'
      BY <1>0, <2>3 DEF DesktopOK, desktop
    <3>2. PhoneOK'
      BY <1>0, <2>3, SyncStep DEF SyncActs
    <3> QED  BY <2>1, <3>1, <3>2 DEF TypeOK, DesktopOK, PhoneOK, FaultsOK, File, Declared, Job
  <2>4. ASSUME NEW c \in Coroutines, CoroutineActs(c), UNCHANGED <<desktop, sync>>
        PROVE  TypeOK'
    <3>1. DesktopOK'
      BY <1>0, <2>4 DEF DesktopOK, desktop
    <3>2. PhoneOK'
      BY <1>0, <2>4, CoroutineStep DEF CoroutineActs
    <3> QED  BY <2>1, <3>1, <3>2 DEF TypeOK, DesktopOK, PhoneOK, FaultsOK, File, Declared, Job
  <2>5. CASE ProcessActs /\ UNCHANGED <<desktop, sync, rows, resident>>
    <3>1. DesktopOK'
      BY <1>0, <2>5 DEF DesktopOK, desktop
    <3>2. PhoneOK'
      BY <1>0, <2>5, ProcessStep DEF ProcessActs
    <3> QED  BY <2>1, <3>1, <3>2 DEF TypeOK, DesktopOK, PhoneOK, FaultsOK, File, Declared, Job
  <2> QED  BY <1>2, <2>2, <2>3, <2>4, <2>5, StepKinds
<1> QED  BY <1>1, <1>2

\* The desktop: only the three steps of a publish touch the files.
LEMMA PublishStep == ASSUME TypeOK, PublishInv, [Next]_vars PROVE PublishInv'
<1>0. DesktopOK /\ clock \in Nat /\ current \subseteq DOMAIN lib
  BY TypeParts DEF DesktopOK, Mtimes
<1>1. CASE CommitCatalog
  <2>1. /\ catalog'.at = clock + 1 /\ clock' = clock + 1
        /\ catalog'.form = "whole" => catalog'.tracks = lib
    <3>1. PICK form \in Forms, R \in SUBSET DOMAIN lib :
            Emits(form, R, DOMAIN lib) /\ catalog' = CatalogFile(form, R)
      BY <1>1 DEF CommitCatalog
    <3>2. catalog'.at = clock + 1 /\ catalog'.form = form
          /\ catalog'.tracks = [t \in R |-> lib[t]]
      BY <3>1 DEF CatalogFile
    <3>3. form = "whole" => R = DOMAIN lib
      BY <3>1 DEF Emits
    <3>4. lib = [t \in DOMAIN lib |-> lib[t]]
      BY <1>0, RowsDomain DEF DesktopOK
    <3>5. clock' = clock + 1
      BY <1>1 DEF CommitCatalog
    <3> QED  BY <3>2, <3>3, <3>4, <3>5
  <2>2. manifest' = manifest /\ manifest.at \in Nat /\ lib' = lib
    BY <1>0, <1>1 DEF CommitCatalog, DesktopOK, Declared, Mtimes
  <2> QED  BY <1>0, <2>1, <2>2 DEF PublishInv, YoungManifestIsListed
<1>2. CASE CommitManifest
  <2>1. manifest'.at = clock + 1 /\ manifest'.ids \subseteq current /\ clock' = clock + 1
    BY <1>2 DEF CommitManifest, ManifestFile
  <2>2. /\ catalog' = catalog /\ catalog.at = clock /\ pc' = "idle"
        /\ catalog.form = "whole" => catalog.tracks = lib
    BY <1>2 DEF CommitManifest, PublishInv
  <2> QED  BY <1>0, <2>1, <2>2 DEF PublishInv, YoungManifestIsListed
<1>3. CASE Cycle \/ PublishStart \/ PublishCut
  BY <1>3 DEF Cycle, PublishStart, PublishCut, PublishInv, YoungManifestIsListed
<1>4. CASE UNCHANGED desktop
  BY <1>4 DEF desktop, PublishInv, YoungManifestIsListed
<1> QED  BY <1>1, <1>2, <1>3, <1>4, StepKinds DEF DesktopActs, vars

\* Midway is a matter of the place only.
LEMMA MidwayElsewhere ==
  ASSUME PhoneOK, NEW c \in Coroutines, NEW p, at' = [at EXCEPT ![c] = p],
         NEW d \in Coroutines, d # c
  PROVE  at'[d] = at[d] /\ Midway(d)' = Midway(d)
BY DEF PhoneOK, Midway

\* A step of a coroutine keeps the cache true or says that it may not be.
LEMMA CacheCoroutineStep ==
  ASSUME PhoneOK, CacheInv, NEW c \in Coroutines, CoroutineActs(c)
  PROVE  CacheInv'
<1> USE DEF Goto
<1> SUFFICES ASSUME blurred' = {} PROVE CacheInv'
  BY DEF CacheInv
<1>0. at \in [Coroutines -> Places] /\ job \in [Coroutines -> Job] /\ blurred \subseteq Causes
  BY DEF PhoneOK
\* Steps outside the rewriting touch neither table nor cache.
<1>1. CASE /\ \E p \in {"idle", "read", "import", "manifest", "verify", "clear"} : Goto(c, p)
           /\ ~Midway(c)
           /\ UNCHANGED <<rows, resident, applied, blurred>>
           /\ \A d \in Coroutines \ {c} : job'[d] = job[d]
  <2>1. \A d \in Coroutines : Midway(d)' <=> Midway(d)
    BY <1>0, <1>1 DEF Midway
  <2>2. \A d \in Coroutines : Midway(d) => at'[d] = at[d] /\ job'[d] = job[d]
    BY <1>0, <1>1
  <2>3. \A d \in Coroutines : at'[d] = "set" \/ at'[d] = "applied" =>
                                 Midway(d) /\ at'[d] = at[d] /\ job'[d] = job[d]
    BY <2>1, <2>2 DEF Midway
  <2> QED  BY <1>1, <2>1, <2>2, <2>3 DEF CacheInv, CacheIsTrue
<1>2. CASE Begin(c)
  BY <1>0, <1>1, <1>2 DEF Begin, Midway, process, ghosts
<1>3. CASE Reverify(c)
  BY <1>0, <1>1, <1>3 DEF Reverify, Midway, process, ghosts
<1>4. CASE ReadFiles(c)
  BY <1>0, <1>1, <1>4 DEF ReadFiles, Midway, process, ghosts
<1>5. CASE Import(c)
  <2>1. blurred = {} /\ ~OthersMidway(c) /\ at' = [at EXCEPT ![c] = "mark"]
    BY <1>0, <1>5 DEF Import, Overlap
  <2>2. \A d \in Coroutines \ {c} : ~Midway(d) /\ at'[d] = at[d]
    BY <1>0, <2>1 DEF OthersMidway
  <2>3. Midway(c)' /\ at'[c] = "mark" /\ \A d \in Coroutines \ {c} : ~Midway(d)'
    BY <1>0, <2>1, <2>2 DEF Midway
  <2>4. \A d \in Coroutines : at'[d] # "set" /\ at'[d] # "applied"
    BY <2>3 DEF Midway
  <2> QED  BY <2>3, <2>4 DEF CacheInv, CacheIsTrue
<1>6. CASE Mark(c)
  <2>1. applied' = {} /\ at' = [at EXCEPT ![c] = "manifest"] /\ rows' = rows /\ resident' = resident
    BY <1>6 DEF Mark
  <2>2. ~Midway(c)' /\ Midway(c) /\ \A d \in Coroutines \ {c} : Midway(d)' <=> Midway(d)
    BY <1>0, <1>6, <2>1 DEF Midway, Mark
  <2>3. blurred = {} \/ ~OthersMidway(c)
    BY <1>0, <1>6 DEF Mark
  <2>4. \A d \in Coroutines : ~Midway(d)'
    BY <2>2, <2>3 DEF CacheInv, OthersMidway
  <2>5. \A d \in Coroutines : at'[d] # "set" /\ at'[d] # "applied"
    BY <2>4 DEF Midway
  <2> QED  BY <2>1, <2>4, <2>5 DEF CacheInv, CacheIsTrue
<1>7. CASE Unmarked(c) \/ (ScreenLeft(c) /\ Midway(c))
  <2>1. /\ blurred = {} /\ applied = {} /\ applied' = applied
        /\ Midway(c) /\ \E p \in {"manifest", "idle"} : at' = [at EXCEPT ![c] = p]
    BY <1>0, <1>7 DEF Unmarked, ScreenLeft, Midway, process, CutAt, Because
  <2>2. \A d \in Coroutines : ~Midway(d)'
    BY <1>0, <2>1 DEF CacheInv, Midway
  <2>3. \A d \in Coroutines : at'[d] # "set" /\ at'[d] # "applied"
    BY <2>2 DEF Midway
  <2> QED  BY <2>1, <2>2, <2>3 DEF CacheInv, CacheIsTrue
<1>8. CASE ScreenLeft(c) /\ ~Midway(c)
  <2>1. blurred' = blurred
    BY <1>0, <1>8 DEF ScreenLeft, Midway, CutAt
  <2> QED  BY <1>0, <1>1, <1>8, <2>1 DEF ScreenLeft, process
<1>9. CASE ReadManifest(c)
  BY <1>0, <1>1, <1>9 DEF ReadManifest, Midway, ghosts
<1>10. CASE Verify(c)
  BY <1>0, <1>1, <1>10 DEF Verify, Return, Midway, ghosts
<1>11. CASE ClearAll(c)
  <2>1. ~OthersMidway(c) /\ at' = [at EXCEPT ![c] = "set"] /\ resident' = {}
    BY <1>11 DEF ClearAll, Overlap
  <2>2. \A d \in Coroutines \ {c} : ~Midway(d)'
    BY <1>0, <2>1 DEF OthersMidway, Midway
  <2>3. Midway(c)' /\ \A d \in Coroutines : at'[d] # "applied"
    BY <1>0, <2>1, <2>2 DEF Midway
  <2> QED  BY <2>1, <2>2, <2>3 DEF CacheInv, CacheIsTrue
<1>12. CASE SetResident(c)
  <2>1. /\ blurred = {} /\ resident = {} /\ Midway(c) /\ at' = [at EXCEPT ![c] = "applied"]
        /\ resident' = job[c].ids \cap DOMAIN rows /\ rows' = rows /\ job' = job
    BY <1>12 DEF SetResident, CacheInv, Midway, ghosts
  <2>2. \A d \in Coroutines \ {c} : ~Midway(d) /\ at'[d] = at[d]
    BY <1>0, <2>1 DEF CacheInv
  <2>3. Midway(c)' /\ \A d \in Coroutines \ {c} : ~Midway(d)'
    BY <1>0, <2>1, <2>2 DEF Midway
  <2>4. at'[c] = "applied" /\ \A d \in Coroutines \ {c} : at'[d] # "set" /\ at'[d] # "applied"
    BY <1>0, <2>1, <2>3 DEF Midway
  <2> QED  BY <2>1, <2>3, <2>4 DEF CacheInv, CacheIsTrue
<1>13. CASE Apply(c)
  <2>1. /\ blurred = {} /\ Midway(c) /\ at' = [at EXCEPT ![c] = "idle"] /\ applied' = {job[c].ids}
        /\ resident = job[c].ids \cap DOMAIN rows /\ resident' = resident /\ rows' = rows
    BY <1>13 DEF Apply, Return, CacheInv, Midway, ghosts
  <2>2. \A d \in Coroutines : ~Midway(d)'
    BY <1>0, <2>1 DEF CacheInv, Midway
  <2>3. \A d \in Coroutines : at'[d] # "set" /\ at'[d] # "applied"
    BY <2>2 DEF Midway
  <2> QED  BY <2>1, <2>2, <2>3 DEF CacheInv, CacheIsTrue
<1>14. CASE ImportFails(c)
  BY <1>0, <1>1, <1>14 DEF ImportFails, Midway, process, ghosts
<1>15. CASE WriteFails(c) /\ at[c] # "set"
  BY <1>0, <1>1, <1>15 DEF WriteFails, Midway, process
<1>16. CASE WriteFails(c) /\ at[c] = "set"
  <2>1. /\ blurred = {} /\ applied = {} /\ applied' = applied
        /\ Midway(c) /\ at' = [at EXCEPT ![c] = "idle"]
    BY <1>0, <1>16 DEF WriteFails, Midway, process, Because
  <2>2. \A d \in Coroutines : ~Midway(d)'
    BY <1>0, <2>1 DEF CacheInv, Midway
  <2>3. \A d \in Coroutines : at'[d] # "set" /\ at'[d] # "applied"
    BY <2>2 DEF Midway
  <2> QED  BY <2>1, <2>2, <2>3 DEF CacheInv, CacheIsTrue
<1> QED  BY <1>2, <1>3, <1>4, <1>5, <1>6, <1>7, <1>8, <1>9, <1>10, <1>11, <1>12, <1>13,
            <1>14, <1>15, <1>16 DEF CoroutineActs, Resume

LEMMA CacheStep == ASSUME TypeOK, CacheInv, [Next]_vars PROVE CacheInv'
<1>0. PhoneOK
  BY TypeParts
<1>1. CASE UNCHANGED <<rows, resident, applied, at, job, blurred>>
  BY <1>1 DEF CacheInv, CacheIsTrue, Midway
<1>2. ASSUME NEW c \in Coroutines, CoroutineActs(c) PROVE CacheInv'
  BY <1>0, <1>2, CacheCoroutineStep
<1>3. CASE LoadMusic
  BY <1>1, <1>3 DEF LoadMusic, ghosts
<1>4. CASE Recreated
  <2>1. /\ \A d \in Coroutines : at'[d] = "idle"
        /\ rows' = rows /\ resident' = resident /\ applied' = applied
    BY <1>4 DEF Recreated
  <2>2. \A d \in Coroutines : ~Midway(d)'
    BY <2>1 DEF Midway
  <2>3. blurred' = {} => blurred = {} /\ (applied = {} \/ \A d \in Coroutines : ~Midway(d))
    BY <1>0, <1>4 DEF Recreated, PhoneOK, CutAt, Because, Midway
  <2> QED  BY <2>1, <2>2, <2>3 DEF CacheInv, CacheIsTrue
<1>5. CASE AppKilled
  <2>1. (\A d \in Coroutines : at'[d] = "idle") /\ applied' = {}
    BY <1>5 DEF AppKilled
  <2> QED  BY <2>1 DEF CacheInv, CacheIsTrue, Midway
<1> QED  BY <1>1, <1>2, <1>3, <1>4, <1>5, StepKinds DEF vars, process, ghosts, ProcessActs

\* The inductive invariant of publication and reconciliation.
THEOREM CatalogInvariant == Spec => []IInv
<1>1. Init => IInv
  <2> SUFFICES ASSUME Init PROVE IInv
    OBVIOUS
  <2>1. PublishInv
    BY DEF Init, PublishInv, YoungManifestIsListed
  <2>2. CacheInv
    BY DEF Init, CacheInv, CacheIsTrue, Midway
  <2> QED  BY <2>1, <2>2, TypeInit DEF IInv
<1>2. IInv /\ [Next]_vars => IInv'
  BY TypeStep, PublishStep, CacheStep DEF IInv
<1> QED  BY <1>1, <1>2, PTL DEF Spec

\* appliedIds describes the table whenever no write is under way (applyResidency,
\* invalidateResidencyCache), unless the ghost names an overlap, an import whose cache
\* was kept, or a write that was cut or threw.
THEOREM CacheIsTrueHolds == Spec => []CacheIsTrue
<1>1. IInv => CacheIsTrue
  BY DEF IInv, CacheInv, CacheIsTrue
<1> QED  BY <1>1, CatalogInvariant, PTL

\* A manifest younger than a whole catalog declares only tracks the catalog lists
\* (publish_run's order, under the writer lock).
THEOREM YoungManifestIsListedHolds == Spec => []YoungManifestIsListed
<1>1. IInv => YoungManifestIsListed
  BY DEF IInv, PublishInv
<1> QED  BY <1>1, CatalogInvariant, PTL
=============================================================================
