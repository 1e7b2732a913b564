----------------------- MODULE CatalogueLoader_proofs -----------------------
(***************************************************************************)
(* Theorems about CatalogueLoader for any projects, any number of loader   *)
(* threads and any number of faults.                                       *)
(***************************************************************************)
EXTENDS CatalogueLoader, TLAPS

(* Until a reclaim takes the lock of a running load, the lock at the path  *)
(* is the one of the load that runs.                                       *)
OwnInv == ~robbed => \A l \in Loaders : pc[l] \in Holding => lock.owner = l

LockType == [owner : Loaders \cup {NoLoader}, written : BOOLEAN, stale : BOOLEAN]

(* What the steps of the loads do to the lock, apart from what they do to  *)
(* the tables.                                                             *)
LockInv ==
  /\ lock \in LockType
  /\ pc \in [Loaders -> Stages]
  /\ robbed \in BOOLEAN
  /\ OwnInv

-----------------------------------------------------------------------------
(* Only the thread that steps changes its stage: each lemma says what a    *)
(* step does to the lock and to that stage.                                *)

(* A step that leaves the lock alone and does not begin to hold it.        *)
LEMMA LockUntouched ==
  ASSUME LockInv, NEW l \in Loaders, NEW stage \in Stages, Goto(l, stage),
         UNCHANGED <<lock, robbed>>,
         stage \in Holding => pc[l] \in Holding
  PROVE  LockInv'
<1>1. pc' \in [Loaders -> Stages] /\ \A m \in Loaders : pc'[m] \in Holding => pc[m] \in Holding
  BY DEF LockInv, Goto
<1>. QED
  BY <1>1 DEF LockInv, OwnInv

(* A step by which a holder removes the lock and holds it no longer.       *)
LEMMA LockReleased ==
  ASSUME LockInv, NEW l \in Loaders, NEW stage \in Stages \ Holding, Goto(l, stage),
         Unlink, UNCHANGED robbed, pc[l] \in Holding
  PROVE  LockInv'
<1>1. lock' \in LockType
  BY DEF Unlink, NoLock, LockType
<1>2. pc' \in [Loaders -> Stages] /\ pc'[l] = stage
      /\ \A m \in Loaders \ {l} : pc'[m] = pc[m]
  BY DEF LockInv, Goto
<1>3. ~robbed => \A m \in Loaders : pc'[m] \notin Holding
  BY <1>2 DEF LockInv, OwnInv
<1>. QED
  BY <1>1, <1>2, <1>3 DEF LockInv, OwnInv

LEMMA InitLockInv == Init => LockInv
<1>. SUFFICES ASSUME Init
              PROVE  LockInv
  OBVIOUS
<1>1. lock \in LockType
  BY DEF Init, NoLock, LockType
<1>2. pc \in [Loaders -> Stages] /\ \A l \in Loaders : pc[l] = "idle"
  BY DEF Init, Stages
<1>3. robbed \in BOOLEAN
  BY DEF Init
<1>. QED
  BY <1>1, <1>2, <1>3 DEF LockInv, OwnInv, Holding

(* A reclaim from nobody finds no load running; any other one robs a load. *)
LEMMA ReclaimStep ==
  ASSUME LockInv, NEW l \in Loaders, Reclaim(l)
  PROVE  LockInv'
<1>1. lock' \in LockType
  BY DEF Reclaim, Unlink, NoLock, LockType
<1>2. pc' \in [Loaders -> Stages] /\ pc'[l] = "create"
      /\ \A m \in Loaders \ {l} : pc'[m] = pc[m]
  BY DEF LockInv, Reclaim, Goto, Stages
<1>3. robbed' \in BOOLEAN
  BY DEF Reclaim, LockInv
<1>4. ~robbed' => \A m \in Loaders : pc[m] \notin Holding
  BY DEF LockInv, OwnInv, Reclaim
<1>5. ~robbed' => \A m \in Loaders : pc'[m] \notin Holding
  BY <1>2, <1>4 DEF Holding
<1>. QED
  BY <1>1, <1>2, <1>3, <1>5 DEF LockInv, OwnInv

LEMMA CreateLockStep ==
  ASSUME LockInv, NEW l \in Loaders, CreateLock(l)
  PROVE  LockInv'
<1>1. CASE CanCreate
  <2>1. lock.owner = NoLoader /\ lock' = [NoLock EXCEPT !.owner = l] /\ Goto(l, "write")
        /\ UNCHANGED robbed
    BY <1>1 DEF CreateLock, CanCreate, NoLock
  <2>2. lock' \in LockType /\ lock'.owner = l
    BY <2>1 DEF NoLock, LockType
  <2>3. pc' \in [Loaders -> Stages] /\ \A m \in Loaders \ {l} : pc'[m] = pc[m]
    BY <2>1 DEF LockInv, Goto, Stages
  <2>4. ~robbed => \A m \in Loaders : pc[m] \notin Holding
    BY <2>1, LoaderAssumption DEF LockInv, OwnInv
  <2>. QED
    BY <2>1, <2>2, <2>3, <2>4 DEF LockInv, OwnInv
<1>2. CASE ~CanCreate
  BY <1>2, LockUntouched DEF CreateLock, Stages, Holding
<1>. QED
  BY <1>1, <1>2

LEMMA WriteLockStep ==
  ASSUME LockInv, NEW l \in Loaders, WriteLock(l)
  PROVE  LockInv'
<1>1. lock' \in LockType /\ lock'.owner = lock.owner
  BY DEF LockInv, WriteLock, LockType
<1>2. pc' \in [Loaders -> Stages] /\ pc[l] \in Holding
      /\ \A m \in Loaders \ {l} : pc'[m] = pc[m]
  BY DEF LockInv, WriteLock, At, Goto, Stages, Holding
<1>3. UNCHANGED robbed
  BY DEF WriteLock
<1>. QED
  BY <1>1, <1>2, <1>3 DEF LockInv, OwnInv

LEMMA LockAgesStep ==
  ASSUME LockInv, LockAges
  PROVE  LockInv'
<1>1. lock' \in LockType /\ lock'.owner = lock.owner /\ UNCHANGED <<pc, robbed>>
  BY DEF LockInv, LockAges, LockType
<1>. QED
  BY <1>1 DEF LockInv, OwnInv

(* Every other step of a load releases the lock or leaves it alone.        *)
LEMMA RunStep ==
  ASSUME LockInv, NEW l \in Loaders, Run(l) \/ Start(l) \/ AdminRefresh(l)
  PROVE  LockInv'
<1>1. CASE Reclaim(l) \/ CreateLock(l) \/ WriteLock(l)
  BY <1>1, ReclaimStep, CreateLockStep, WriteLockStep
<1>2. CASE Start(l) \/ AdminRefresh(l) \/ LookAtLock(l) \/ SetLoading(l) \/ Abandon(l)
  BY <1>2, LockUntouched
     DEF Start, AdminRefresh, LookAtLock, SetLoading, Abandon, At, Stages, Holding
<1>3. CASE Connect(l)
  BY <1>3, LockUntouched, LockReleased DEF Connect, At, Stages, Holding
<1>4. CASE \/ FetchProjects(l) \/ FetchDetails(l) \/ FetchAssignments(l)
           \/ Save(l) \/ SaveFails(l) \/ ClearLoading(l)
  <2>1. pc[l] \in Holding /\ UNCHANGED <<lock, robbed>>
    BY <1>4 DEF FetchProjects, FetchDetails, FetchAssignments, Save, SaveFails,
                ClearLoading, At, Stages, Holding
  <2>2. \E stage \in Stages : Goto(l, stage)
    BY <1>4 DEF FetchProjects, FetchDetails, FetchAssignments, Save, SaveFails,
                ClearLoading, GiveUp, Stages
  <2>. QED
    BY <2>1, <2>2, LockUntouched
<1>5. CASE Unlock(l)
  BY <1>5, LockReleased DEF Unlock, At, Stages, Holding
<1>. QED
  BY <1>1, <1>2, <1>3, <1>4, <1>5 DEF Run

LEMMA FailStep ==
  ASSUME LockInv, NEW l \in Loaders, Fail(l)
  PROVE  LockInv'
<1>1. CASE LockFails(l) \/ Crash(l)
  BY <1>1, LockUntouched DEF LockFails, Crash, Stages, Holding
<1>2. CASE BeginFails(l)
  BY <1>2, LockUntouched, LockReleased DEF BeginFails, At, Stages, Holding
<1>3. CASE FinishFails(l)
  BY <1>3, LockUntouched DEF FinishFails, At, Stages, Holding
<1>. QED
  BY <1>1, <1>2, <1>3 DEF Fail

LEMMA NextLockInv ==
  ASSUME LockInv, [Next]_vars
  PROVE  LockInv'
<1>1. ASSUME Ask \/ UNCHANGED vars
      PROVE  LockInv'
  BY <1>1 DEF Ask, vars, LockInv, OwnInv
<1>. QED
  BY <1>1, RunStep, FailStep, LockAgesStep DEF Next

-----------------------------------------------------------------------------
(* Two loads run at once only after a reclaim took the lock of a load that *)
(* was still running.                                                      *)
THEOREM LoadsAreExclusive == Spec => []OneLoadAtATime
<1>1. LockInv => OneLoadAtATime
  BY DEF LockInv, OwnInv, OneLoadAtATime
<1>. QED
  BY <1>1, InitLockInv, NextLockInv, PTL DEF Spec

-----------------------------------------------------------------------------
(* The tables, and what a load has fetched to replace them.                *)
TablesType ==
  /\ isLoading \in BOOLEAN /\ isLoaded \in BOOLEAN
  /\ catalogue \in Catalogues
  /\ raw \in [Loaders -> SUBSET Projects]
  /\ old \in [Loaders -> Catalogues] /\ enriched \in [Loaders -> Catalogues]
  /\ served \in {"nothing", "none", "projects", "unavailable"}
  /\ faults \in 0..MaxFaults

(* What a load has fetched is no less than a catalogue c has.              *)
Keeps(c, d) ==
  /\ IsEmpty(d) => IsEmpty(c)
  /\ \A p \in DOMAIN c \cap DOMAIN d : c[p] \subseteq d[p]

(* As long as no load was robbed, the tables are what the running load     *)
(* found in them.                                                          *)
LoadInv ==
  ~robbed => \A l \in Loaders :
    /\ pc[l] = "details" => old[l] = catalogue /\ (raw[l] = {} => IsEmpty(catalogue))
    /\ pc[l] \in {"assignments", "save"} => Keeps(catalogue, enriched[l])

LEMMA CatalogueFacts ==
  /\ Empty \in Catalogues
  /\ \A S \in SUBSET Projects : [S -> SUBSET Details] \subseteq Catalogues
  /\ \A c \in Catalogues : DOMAIN c \subseteq Projects /\ Keeps(c, c)
<1>1. ASSUME NEW S \in SUBSET Projects
      PROVE  [S -> SUBSET Details] \subseteq Catalogues
  BY DEF Catalogues, CataloguesOver
<1>2. Empty \in Catalogues
  <2>1. Empty \in [{} -> SUBSET Details]
    BY DEF Empty
  <2>. QED
    BY <1>1, <2>1
<1>3. ASSUME NEW c \in Catalogues
      PROVE  DOMAIN c \subseteq Projects /\ Keeps(c, c)
  <2>1. PICK S \in SUBSET Projects : c \in [S -> SUBSET Details]
    BY DEF Catalogues, CataloguesOver
  <2>. QED
    BY <2>1 DEF Keeps
<1>. QED
  BY <1>1, <1>2, <1>3

(* A step that neither saves nor fetches keeps the tables' types, and does *)
(* not bring a load to a stage where it has something to save.             *)
LEMMA TablesUntouched ==
  ASSUME LockInv, TablesType, LoadInv, NEW l \in Loaders,
         NEW stage \in Stages \ {"details", "assignments", "save"}, Goto(l, stage),
         isLoading' \in BOOLEAN, UNCHANGED <<isLoaded, catalogue, served>>,
         faults' = faults \/ Fault, robbed => robbed',
         UNCHANGED localVars \/ ForgetLocals(l)
  PROVE  TablesType' /\ LoadInv'
<1>1. pc' \in [Loaders -> Stages] /\ pc'[l] = stage
      /\ \A m \in Loaders \ {l} : pc'[m] = pc[m]
  BY DEF LockInv, Goto
<1>2. faults' \in 0..MaxFaults
  BY LoaderAssumption DEF TablesType, Fault
<1>3. /\ raw' \in [Loaders -> SUBSET Projects]
      /\ old' \in [Loaders -> Catalogues] /\ enriched' \in [Loaders -> Catalogues]
      /\ \A m \in Loaders \ {l} : raw'[m] = raw[m] /\ old'[m] = old[m] /\ enriched'[m] = enriched[m]
  <2>1. CASE UNCHANGED localVars
    BY <2>1 DEF localVars, TablesType
  <2>2. CASE ForgetLocals(l)
    BY <2>2, CatalogueFacts DEF ForgetLocals, TablesType
  <2>. QED
    BY <2>1, <2>2
<1>. QED
  BY <1>1, <1>2, <1>3 DEF TablesType, LoadInv, LockInv

LEMMA InitTables ==
  ASSUME Init
  PROVE  TablesType /\ LoadInv
<1>1. TablesType
  <2>1. catalogue = Empty /\ old = [l \in Loaders |-> Empty] /\ enriched = [l \in Loaders |-> Empty]
    BY DEF Init
  <2>2. catalogue \in Catalogues /\ old \in [Loaders -> Catalogues]
        /\ enriched \in [Loaders -> Catalogues]
    BY <2>1, CatalogueFacts
  <2>3. raw \in [Loaders -> SUBSET Projects] /\ faults \in 0..MaxFaults
    BY LoaderAssumption DEF Init
  <2>. QED
    BY <2>2, <2>3 DEF Init, TablesType
<1>2. LoadInv
  BY DEF Init, LoadInv
<1>. QED
  BY <1>1, <1>2

LEMMA FetchProjectsTables ==
  ASSUME LockInv, TablesType, LoadInv, NEW l \in Loaders, FetchProjects(l)
  PROVE  TablesType' /\ LoadInv'
<1>1. CASE GiveUp(l)
  BY <1>1, TablesUntouched DEF FetchProjects, GiveUp, dbVars, TablesType, Stages
<1>2. ASSUME NEW S \in SUBSET Projects, IsPlausible(S), Goto(l, "details"),
             raw' = [raw EXCEPT ![l] = S], old' = [old EXCEPT ![l] = catalogue],
             UNCHANGED enriched
      PROVE  TablesType' /\ LoadInv'
  <2>1. UNCHANGED <<dbVars, served, robbed, faults>>
    BY DEF FetchProjects
  <2>2. /\ pc'[l] = "details" /\ \A m \in Loaders \ {l} : pc'[m] = pc[m]
        /\ raw'[l] = S /\ old'[l] = catalogue /\ (S = {} => IsEmpty(catalogue))
        /\ \A m \in Loaders \ {l} : raw'[m] = raw[m] /\ old'[m] = old[m]
    BY <1>2 DEF LockInv, Goto, TablesType, IsPlausible
  <2>3. TablesType'
    BY <1>2, <2>1 DEF TablesType, dbVars
  <2>. QED
    BY <1>2, <2>1, <2>2, <2>3 DEF LoadInv, dbVars
<1>. QED
  BY <1>1, <1>2 DEF FetchProjects

LEMMA FetchDetailsTables ==
  ASSUME LockInv, TablesType, LoadInv, NEW l \in Loaders, FetchDetails(l)
  PROVE  TablesType' /\ LoadInv'
<1>1. CASE GiveUp(l)
  BY <1>1, TablesUntouched DEF FetchDetails, GiveUp, dbVars, TablesType, Stages
<1>2. ASSUME NEW d \in [raw[l] -> (SUBSET Details) \cup {Failed}], AreComplete(l, d),
             enriched' = [enriched EXCEPT ![l] = d], Goto(l, "assignments"),
             UNCHANGED <<raw, old>>
      PROVE  TablesType' /\ LoadInv'
  <2>1. UNCHANGED <<dbVars, served, robbed, faults>> /\ pc[l] = "details"
    BY DEF FetchDetails, At
  <2>2. d \in Catalogues
    <3>1. raw[l] \in SUBSET Projects
      BY DEF TablesType
    <3>2. d \in [raw[l] -> SUBSET Details]
      BY <1>2 DEF AreComplete
    <3>. QED
      BY <3>1, <3>2, CatalogueFacts
  <2>3. /\ pc'[l] = "assignments" /\ \A m \in Loaders \ {l} : pc'[m] = pc[m]
        /\ enriched'[l] = d /\ \A m \in Loaders \ {l} : enriched'[m] = enriched[m]
    BY <1>2 DEF LockInv, Goto, TablesType
  <2>4. ~robbed => Keeps(catalogue, d)
    BY <1>2, <2>1 DEF LoadInv, AreComplete, Keeps, IsEmpty
  <2>5. TablesType'
    BY <1>2, <2>1, <2>2 DEF TablesType, dbVars
  <2>. QED
    BY <1>2, <2>1, <2>3, <2>4, <2>5 DEF LoadInv, dbVars
<1>. QED
  BY <1>1, <1>2 DEF FetchDetails

LEMMA FetchAssignmentsTables ==
  ASSUME LockInv, TablesType, LoadInv, NEW l \in Loaders, FetchAssignments(l)
  PROVE  TablesType' /\ LoadInv'
<1>1. CASE GiveUp(l)
  BY <1>1, TablesUntouched DEF FetchAssignments, GiveUp, dbVars, TablesType, Stages
<1>2. CASE Goto(l, "save") /\ UNCHANGED localVars
  <2>1. UNCHANGED <<dbVars, localVars, served, robbed, faults>> /\ pc[l] = "assignments"
    BY <1>2 DEF FetchAssignments, At
  <2>2. pc'[l] = "save" /\ \A m \in Loaders \ {l} : pc'[m] = pc[m]
    BY <1>2 DEF LockInv, Goto
  <2>. QED
    BY <2>1, <2>2 DEF TablesType, LoadInv, dbVars, localVars
<1>. QED
  BY <1>1, <1>2 DEF FetchAssignments

(* The load that saves is, unless one was robbed, the only one that runs.  *)
LEMMA SaveTables ==
  ASSUME LockInv, TablesType, LoadInv, NEW l \in Loaders, Save(l)
  PROVE  TablesType' /\ LoadInv'
<1>1. /\ pc[l] = "save" /\ catalogue' = enriched[l] /\ isLoaded' = TRUE
      /\ ForgetLocals(l) /\ UNCHANGED <<isLoading, served, robbed, faults>>
  BY DEF Save, At
<1>2. pc'[l] = "clear" /\ \A m \in Loaders \ {l} : pc'[m] = pc[m]
  BY DEF Save, LockInv, Goto
<1>3. TablesType'
  BY <1>1, CatalogueFacts DEF TablesType, ForgetLocals
<1>4. ~robbed => \A m \in Loaders \ {l} : pc[m] \notin Holding
  BY <1>1, LoaderAssumption DEF LockInv, OwnInv, Holding, Stages
<1>. QED
  BY <1>1, <1>2, <1>3, <1>4 DEF LoadInv, Holding, Stages

LEMMA RunTables ==
  ASSUME LockInv, TablesType, LoadInv, NEW l \in Loaders,
         Run(l) \/ Start(l) \/ AdminRefresh(l) \/ Fail(l)
  PROVE  TablesType' /\ LoadInv'
<1>1. CASE FetchProjects(l) \/ FetchDetails(l) \/ FetchAssignments(l) \/ Save(l)
  BY <1>1, FetchProjectsTables, FetchDetailsTables, FetchAssignmentsTables, SaveTables
<1>2. CASE SaveFails(l)
  BY <1>2, TablesUntouched DEF SaveFails, GiveUp, dbVars, TablesType, Stages
<1>3. CASE Start(l) \/ AdminRefresh(l) \/ LookAtLock(l) \/ Reclaim(l) \/ CreateLock(l)
           \/ WriteLock(l) \/ Connect(l) \/ Unlock(l)
  <2>1. UNCHANGED <<dbVars, localVars, served, faults>> /\ (robbed => robbed')
    <3>1. CASE Reclaim(l)
      <4>1. UNCHANGED <<dbVars, localVars, served, faults>>
        BY <3>1 DEF Reclaim
      <4>2. robbed' = (robbed \/ \E m \in Loaders : lock.owner = m /\ pc[m] \in Holding)
        BY <3>1 DEF Reclaim
      <4>3. robbed => robbed'
        BY <4>2
      <4>. QED
        BY <4>1, <4>3
    <3>2. CASE Start(l) \/ AdminRefresh(l) \/ LookAtLock(l) \/ CreateLock(l)
               \/ WriteLock(l) \/ Connect(l) \/ Unlock(l)
      <4>1. UNCHANGED <<dbVars, localVars, served, robbed, faults>>
        BY <3>2 DEF Start, AdminRefresh, LookAtLock, CreateLock, WriteLock, Connect, Unlock
      <4>. QED
        BY <4>1
    <3>. QED
      BY <1>3, <3>1, <3>2
  <2>2. \E stage \in Stages \ {"details", "assignments", "save"} : Goto(l, stage)
    <3>1. Goto(l, "look") \/ Goto(l, "reclaim") \/ Goto(l, "create") \/ Goto(l, "write")
          \/ Goto(l, "idle") \/ Goto(l, "begin") \/ Goto(l, "projects") \/ Goto(l, "abandon")
      BY <1>3, Zenon DEF Start, AdminRefresh, LookAtLock, Reclaim, CreateLock, WriteLock, Connect, Unlock
    <3>. QED
      BY <3>1 DEF Stages
  <2>. QED
    BY <2>1, <2>2, TablesUntouched DEF dbVars, TablesType
<1>4. CASE SetLoading(l) \/ Abandon(l) \/ ClearLoading(l)
  <2>1. /\ isLoading' \in BOOLEAN
        /\ UNCHANGED <<isLoaded, catalogue, localVars, served, robbed, faults>>
    BY <1>4 DEF SetLoading, Abandon, ClearLoading
  <2>2. \E stage \in Stages \ {"details", "assignments", "save"} : Goto(l, stage)
    BY <1>4 DEF SetLoading, Abandon, ClearLoading, Stages
  <2>. QED
    BY <2>1, <2>2, TablesUntouched
<1>5. CASE Fail(l)
  <2>1. UNCHANGED <<dbVars, served, robbed>> /\ Fault
        /\ (UNCHANGED localVars \/ ForgetLocals(l))
    BY <1>5 DEF Fail, LockFails, BeginFails, FinishFails, Crash
  <2>2. \E stage \in Stages \ {"details", "assignments", "save"} : Goto(l, stage)
    BY <1>5 DEF Fail, LockFails, BeginFails, FinishFails, Crash, Stages
  <2>. QED
    BY <2>1, <2>2, TablesUntouched DEF dbVars, TablesType
<1>. QED
  BY <1>1, <1>2, <1>3, <1>4, <1>5 DEF Run

LEMMA NextTables ==
  ASSUME LockInv, TablesType, LoadInv, [Next]_vars
  PROVE  TablesType' /\ LoadInv'
<1>1. CASE UNCHANGED <<dbVars, localVars, pc, robbed, faults>>
  <2>1. CASE UNCHANGED served \/ served' \in {Assignments, "unavailable"}
    BY <1>1, <2>1 DEF dbVars, localVars, TablesType, LoadInv, Assignments
  <2>2. Ask \/ LockAges \/ UNCHANGED vars => UNCHANGED served \/ served' \in {Assignments, "unavailable"}
    BY DEF Ask, LockAges, vars
  <2>3. CASE ~ (Ask \/ LockAges \/ UNCHANGED vars)
    BY <2>3, RunTables DEF Next
  <2>. QED
    BY <2>1, <2>2, <2>3
<1>2. CASE ~UNCHANGED <<dbVars, localVars, pc, robbed, faults>>
  BY <1>2, RunTables DEF Next, Ask, LockAges, vars
<1>. QED
  BY <1>1, <1>2

LEMMA TablesInvariant == Spec => [](LockInv /\ TablesType /\ LoadInv)
<1>1. Init => TablesType /\ LoadInv
  BY InitTables
<1>2. LockInv /\ TablesType /\ LoadInv /\ [Next]_vars => LockInv' /\ TablesType' /\ LoadInv'
  BY NextLockInv, NextTables
<1>. QED
  BY <1>1, <1>2, InitLockInv, PTL DEF Spec

(* Every variable keeps its type, the tables that of a catalogue.          *)
THEOREM TypeCorrect == Spec => []TypeOK
<1>1. LockInv /\ TablesType => TypeOK
  BY DEF LockInv, LockType, TablesType, TypeOK
<1>. QED
  BY <1>1, TablesInvariant, PTL

(* fusion_catalogue.py: a refresh never empties the catalogue, and never   *)
(* takes all the tasks or all the members from a project it keeps, however *)
(* Fusion fails, as long as no running load was robbed of its lock.        *)
THEOREM RefreshesKeep == Spec => RefreshKeepsWhatItHas
<1>1. LockInv /\ TablesType /\ LoadInv /\ [Next]_vars =>
        [~robbed' => Keeps(catalogue, catalogue')]_vars
  <2> SUFFICES ASSUME LockInv, TablesType, LoadInv, Next, ~robbed'
               PROVE  Keeps(catalogue, catalogue')
    OBVIOUS
  <2>1. CASE catalogue' = catalogue
    BY <2>1, CatalogueFacts DEF TablesType
  <2>2. ASSUME NEW l \in Loaders, Save(l)
        PROVE  Keeps(catalogue, catalogue')
    BY <2>2 DEF Save, At, LoadInv
  <2>3. catalogue' = catalogue \/ \E l \in Loaders : Save(l)
    BY DEF Next, Start, AdminRefresh, Run, Fail, LookAtLock, Reclaim, CreateLock, WriteLock,
           SetLoading, Connect, Abandon, FetchProjects, FetchDetails, FetchAssignments,
           SaveFails, ClearLoading, Unlock, LockFails, BeginFails, FinishFails, Crash,
           LockAges, Ask, dbVars
  <2>. QED
    BY <2>1, <2>2, <2>3
<1>. QED
  BY <1>1, TablesInvariant, PTL DEF Spec, RefreshKeepsWhatItHas, Keeps
=============================================================================
