-------------------------- MODULE CatalogueLoader --------------------------
(***************************************************************************)
(* Loading the project catalogue (backend/services/fusion_catalogue.py):   *)
(* threads, in one or several processes, that fetch the projects of Fusion *)
(* and replace the catalogue in SQLite, under a lock file.                 *)
(*                                                                         *)
(* Each system call on the lock file, each transaction and each fetch is a *)
(* step. Time only matters where a lock is judged to be older than an      *)
(* hour, so it is an action that makes a lock stale. A catalogue maps each *)
(* project to the details it has, and only whether they are empty matters. *)
(***************************************************************************)
EXTENDS Naturals

CONSTANTS
  Projects,    \* projects of Fusion
  Loaders,     \* threads that run _do_load_catalogue, one load after another
  NoLoader,    \* no thread
  MaxFaults    \* bound: crashes and failures of the file system or of SQLite

ASSUME LoaderAssumption == NoLoader \notin Loaders /\ MaxFaults \in Nat

VARIABLES
  lock,        \* catalogue.lock: who created it, and whether it has its pid:time
  isLoading,   \* meta.is_loading
  isLoaded,    \* meta.is_loaded
  catalogue,   \* the tables projects and person_index
  pc,          \* where each thread stands
  raw,         \* raw_projects of each thread
  old,         \* existing_projects of each thread
  enriched,    \* enriched, of each thread
  served,      \* the last answer about an employee who is on every project
  robbed,      \* history: a load has lost its lock to a reclaim while it ran
  faults       \* faults so far

localVars == <<raw, old, enriched>>
dbVars    == <<isLoading, isLoaded, catalogue>>
vars      == <<lock, dbVars, pc, localVars, served, robbed, faults>>

Details == {"tasks", "team_members"}    \* the lists that are not empty
Failed  == {"failed"}                   \* a fetch of details that raised

CataloguesOver(details) == UNION {[S -> details] : S \in SUBSET Projects}
Catalogues == CataloguesOver(SUBSET Details)
Empty == [p \in {} |-> {}]
IsEmpty(c) == DOMAIN c = {}

NoLock == [owner |-> NoLoader, written |-> FALSE, stale |-> FALSE]

Stages == {"idle", "look", "reclaim", "create", "write", "begin", "connect",
           "projects", "details", "assignments", "save", "clear", "unlock",
           "abandon"}

(* The stages at which a thread has created the lock and not let it go.    *)
Holding == Stages \ {"idle", "look", "reclaim", "create", "abandon"}

TypeOK ==
  /\ lock \in [owner : Loaders \cup {NoLoader}, written : BOOLEAN, stale : BOOLEAN]
  /\ isLoading \in BOOLEAN
  /\ isLoaded  \in BOOLEAN
  /\ catalogue \in Catalogues
  /\ pc        \in [Loaders -> Stages]
  /\ raw       \in [Loaders -> SUBSET Projects]
  /\ old       \in [Loaders -> Catalogues]
  /\ enriched  \in [Loaders -> Catalogues]
  /\ served    \in {"nothing", "none", "projects", "unavailable"}
  /\ robbed    \in BOOLEAN
  /\ faults    \in 0..MaxFaults

Init ==
  /\ lock = NoLock
  /\ isLoading = FALSE
  /\ isLoaded  = FALSE
  /\ catalogue = Empty
  /\ pc        = [l \in Loaders |-> "idle"]
  /\ raw       = [l \in Loaders |-> {}]
  /\ old       = [l \in Loaders |-> Empty]
  /\ enriched  = [l \in Loaders |-> Empty]
  /\ served    = "nothing"
  /\ robbed    = FALSE
  /\ faults    = 0

-----------------------------------------------------------------------------
At(l, stage)   == pc[l] = stage
Goto(l, stage) == pc' = [pc EXCEPT ![l] = stage]

ForgetLocals(l) ==
  /\ raw'      = [raw EXCEPT ![l] = {}]
  /\ old'      = [old EXCEPT ![l] = Empty]
  /\ enriched' = [enriched EXCEPT ![l] = Empty]

Fault == faults < MaxFaults /\ faults' = faults + 1

(* os.unlink removes the lock that is at the path, whoever created it.     *)
Unlink == lock' = NoLock

-----------------------------------------------------------------------------
(* load_catalogue, at startup and every refresh interval.                  *)
Start(l) ==
  /\ At(l, "idle")
  /\ Goto(l, "look")
  /\ UNCHANGED <<lock, dbVars, localVars, served, robbed, faults>>

(* refresh_catalogue, for an administrator.                                *)
AdminRefresh(l) == ~isLoading /\ Start(l)

(* Mutation: no lock is ever too old.                                      *)
BugNeverStale == FALSE

(* The file must be readable as pid:time and an hour old; an empty one     *)
(* never is.                                                               *)
LooksStale == lock.written /\ lock.stale

LookAtLock(l) ==
  /\ At(l, "look")
  /\ Goto(l, IF LooksStale THEN "reclaim" ELSE "create")
  /\ UNCHANGED <<lock, dbVars, localVars, served, robbed, faults>>

(* The file that is removed need not be the one that was read.             *)
Reclaim(l) ==
  /\ At(l, "reclaim")
  /\ Unlink
  /\ Goto(l, "create")
  /\ robbed' = (robbed \/ \E m \in Loaders : lock.owner = m /\ pc[m] \in Holding)
  /\ UNCHANGED <<dbVars, localVars, served, faults>>

(* Mutation: the file is opened without O_EXCL.                            *)
BugCreateAnyway == TRUE
CanCreate == lock = NoLock

CreateLock(l) ==
  /\ At(l, "create")
  /\ IF CanCreate
     THEN lock' = [NoLock EXCEPT !.owner = l] /\ Goto(l, "write")
     ELSE Goto(l, "idle") /\ UNCHANGED lock
  /\ UNCHANGED <<dbVars, localVars, served, robbed, faults>>

(* A lock that was removed meanwhile is written all the same, unseen.      *)
WriteLock(l) ==
  /\ At(l, "write")
  /\ lock' = IF lock.owner = l THEN [lock EXCEPT !.written = TRUE] ELSE lock
  /\ Goto(l, "begin")
  /\ UNCHANGED <<dbVars, localVars, served, robbed, faults>>

(* os.open or os.write raised: the thread returns and leaves what is there. *)
LockFails(l) ==
  /\ pc[l] \in {"create", "write"}
  /\ Goto(l, "idle")
  /\ Fault
  /\ UNCHANGED <<lock, dbVars, localVars, served, robbed>>

-----------------------------------------------------------------------------
SetLoading(l) ==
  /\ At(l, "begin")
  /\ isLoading' = TRUE
  /\ Goto(l, "connect")
  /\ UNCHANGED <<lock, isLoaded, catalogue, localVars, served, robbed, faults>>

(* _get_db raised, outside every try, or the flag could not be written.    *)
BeginFails(l) ==
  /\ At(l, "begin")
  /\ Goto(l, "idle")
  /\ Unlink \/ UNCHANGED lock
  /\ Fault
  /\ UNCHANGED <<dbVars, localVars, served, robbed>>

(* The credential is there, or the load is given up: the lock goes first,  *)
(* then the flag.                                                          *)
Connect(l) ==
  /\ At(l, "connect")
  /\ \/ Goto(l, "projects") /\ UNCHANGED lock
     \/ Goto(l, "abandon") /\ Unlink
  /\ UNCHANGED <<dbVars, localVars, served, robbed, faults>>

Abandon(l) ==
  /\ At(l, "abandon")
  /\ Goto(l, "idle")
  /\ isLoading' = FALSE
  /\ UNCHANGED <<lock, isLoaded, catalogue, localVars, served, robbed, faults>>

-----------------------------------------------------------------------------
(* Any failure of a fetch goes on to the finally clause.                   *)
GiveUp(l) ==
  /\ Goto(l, "clear")
  /\ ForgetLocals(l)

(* Mutation: no projects are taken for an answer.                          *)
BugTrustEmpty(S) == TRUE

(* No projects are only believed while the catalogue is empty.             *)
IsPlausible(S) == S # {} \/ IsEmpty(catalogue)

FetchProjects(l) ==
  /\ At(l, "projects")
  /\ \/ GiveUp(l)    \* the fetch was incomplete
     \/ \E S \in SUBSET Projects :
          IF IsPlausible(S)
          THEN /\ raw' = [raw EXCEPT ![l] = S]
               /\ old' = [old EXCEPT ![l] = catalogue]
               /\ Goto(l, "details")
               /\ UNCHANGED enriched
          ELSE GiveUp(l)
  /\ UNCHANGED <<lock, dbVars, served, robbed, faults>>

(* Mutation: the details that could be fetched are enough.                 *)
BugAnyDetails(l, d) ==
  \A p \in DOMAIN d \cap DOMAIN old[l] : old[l][p] \subseteq d[p] \/ d[p] = Failed

(* The details of every project arrived, and none lost all its tasks or    *)
(* all its members.                                                        *)
AreComplete(l, d) ==
  \A p \in DOMAIN d :
    d[p] # Failed /\ (p \in DOMAIN old[l] => old[l][p] \subseteq d[p])

FetchDetails(l) ==
  /\ At(l, "details")
  /\ \E d \in [raw[l] -> (SUBSET Details) \cup {Failed}] :
       IF AreComplete(l, d)
       THEN /\ enriched' = [enriched EXCEPT ![l] = d]
            /\ Goto(l, "assignments")
            /\ UNCHANGED <<raw, old>>
       ELSE GiveUp(l)
  /\ UNCHANGED <<lock, dbVars, served, robbed, faults>>

(* Assignments arrive, or none do and that is believed, because the        *)
(* catalogue is empty; else the load is given up.                          *)
FetchAssignments(l) ==
  /\ At(l, "assignments")
  /\ \/ GiveUp(l)
     \/ Goto(l, "save") /\ UNCHANGED localVars
  /\ UNCHANGED <<lock, dbVars, served, robbed, faults>>

(* One transaction replaces both tables and sets is_loaded.                *)
Save(l) ==
  /\ At(l, "save")
  /\ catalogue' = enriched[l]
  /\ isLoaded' = TRUE
  /\ Goto(l, "clear")
  /\ ForgetLocals(l)
  /\ UNCHANGED <<lock, isLoading, served, robbed, faults>>

(* The transaction is rolled back.                                         *)
SaveFails(l) ==
  /\ At(l, "save")
  /\ GiveUp(l)
  /\ UNCHANGED <<lock, dbVars, served, robbed, faults>>

(* _set_loading_false: the flag, then the lock.                            *)
ClearLoading(l) ==
  /\ At(l, "clear")
  /\ isLoading' = FALSE
  /\ Goto(l, "unlock")
  /\ UNCHANGED <<lock, isLoaded, catalogue, localVars, served, robbed, faults>>

Unlock(l) ==
  /\ At(l, "unlock")
  /\ Unlink
  /\ Goto(l, "idle")
  /\ UNCHANGED <<dbVars, localVars, served, robbed, faults>>

(* Either of them raised, and the exception is swallowed.                  *)
FinishFails(l) ==
  /\ \/ At(l, "clear")   /\ Goto(l, "unlock")
     \/ At(l, "unlock")  /\ Goto(l, "idle")
     \/ At(l, "abandon") /\ Goto(l, "idle")
  /\ Fault
  /\ UNCHANGED <<lock, dbVars, localVars, served, robbed>>

(* The process is killed.                                                  *)
Crash(l) ==
  /\ pc[l] # "idle"
  /\ Goto(l, "idle")
  /\ ForgetLocals(l)
  /\ Fault
  /\ UNCHANGED <<lock, dbVars, served, robbed>>

(* An hour passes over a lock.                                             *)
LockAges ==
  /\ lock.written /\ ~lock.stale
  /\ lock' = [lock EXCEPT !.stale = TRUE]
  /\ UNCHANGED <<dbVars, pc, localVars, served, robbed, faults>>

-----------------------------------------------------------------------------
(* list_assignments_for_worker answers [] while nothing is loaded; its     *)
(* callers answer 503 if it raises, or if it returns None.                 *)
Assignments == IF ~isLoaded \/ IsEmpty(catalogue) THEN "none" ELSE "projects"

Ask ==
  /\ served' \in {Assignments, "unavailable"}
  /\ UNCHANGED <<lock, dbVars, pc, localVars, robbed, faults>>

Run(l) ==
  \/ LookAtLock(l) \/ Reclaim(l) \/ CreateLock(l) \/ WriteLock(l)
  \/ SetLoading(l) \/ Connect(l) \/ Abandon(l)
  \/ FetchProjects(l) \/ FetchDetails(l) \/ FetchAssignments(l)
  \/ Save(l) \/ SaveFails(l) \/ ClearLoading(l) \/ Unlock(l)

Fail(l) == LockFails(l) \/ BeginFails(l) \/ FinishFails(l) \/ Crash(l)

Next ==
  \/ \E l \in Loaders : Start(l) \/ AdminRefresh(l) \/ Run(l) \/ Fail(l)
  \/ LockAges
  \/ Ask

Spec == Init /\ [][Next]_vars

(* The operating system runs every thread, the refresh task starts a load  *)
(* after every interval, and hours pass.                                   *)
Fairness ==
  /\ \A l \in Loaders : WF_vars(Run(l))
  /\ WF_vars(\E l \in Loaders : Start(l))
  /\ WF_vars(LockAges)

FairSpec == Spec /\ Fairness

-----------------------------------------------------------------------------
(* Properties.                                                             *)

(* Two loads only run at once after a reclaim took the lock of a load that *)
(* was still running: one that took over an hour, or one that had just     *)
(* begun when a second thread acted on the stale lock it had read.         *)
OneLoadAtATime ==
  ~robbed => \A l, m \in Loaders : pc[l] \in Holding /\ pc[m] \in Holding => l = m

(* A refresh never empties the catalogue, and never takes all the tasks or *)
(* all the members from a project it keeps, however Fusion fails, as long  *)
(* as no running load was robbed of its lock.                              *)
RefreshKeepsWhatItHas ==
  [][~robbed' =>
       /\ IsEmpty(catalogue') => IsEmpty(catalogue)
       /\ \A p \in DOMAIN catalogue \cap DOMAIN catalogue' :
            catalogue[p] \subseteq catalogue'[p]]_vars

(* The loading flag, which blocks the administrator's refresh, is cleared  *)
(* again after any crash or failure, unless the lock of a load that died   *)
(* between the creation of the file and the write of its time stays there. *)
Orphaned ==
  lock.owner # NoLoader /\ ~lock.written /\ pc[lock.owner] # "write"

LoadingFlagIsCleared == <>[]~Orphaned => (isLoading ~> ~isLoading)

(* While the catalogue is not loaded, a question about assignments is      *)
(* answered with 503, not with an empty list.                              *)
NotLoadedIsReported ==
  [][~isLoaded /\ served' # served => served' = "unavailable"]_vars
=============================================================================
