--------------------- MODULE PointCloudProcessing_proofs ---------------------
(***************************************************************************)
(* Theorems about PointCloudProcessing, for any requests, files, names and *)
(* parameters and any number of crashes, with their proofs.                *)
(***************************************************************************)
EXTENDS PointCloudProcessing, TLAPS

-----------------------------------------------------------------------------
(***************************************************************************)
(* The invariant.                                                          *)
(***************************************************************************)
(* The Task of the row says RUNNING only while the request that made it is *)
(* before its result, or an import is, which reports on the row's Task     *)
(* whoever made it.                                                        *)
Unfinished(r) == Behind(r) /\ run[r].stage # "move"

BlockedInv ==
    Processing => \/ AnyLost
                  \/ Unfinished(cloud.task)
                  \/ \E r \in Requests : run[r].kind = "import" /\ Unfinished(r)

(* Requests that never overlapped are alone, and what an import has read   *)
(* of the list is still true.                                              *)
AloneInv ==
    ~overlapped =>
        /\ \A r, s \in Requests : InFlight(r) /\ InFlight(s) => r = s
        /\ \A r \in Requests : run[r].stage \in {"file", "listed"} => run[r].info = cloud.info

(* The tree that belongs to the point cloud as it is now.                  *)
RightTree == [state |-> "whole", of |-> Contents, params |-> cloud.params]

(* A request that is alone has the Task, and works from what is there.     *)
Sound(r) ==
    /\ Behind(r) => cloud.task = r /\ (run[r].stage # "move" => tasks[r] = "RUNNING")
    /\ run[r].stage \in {"loaded", "converter", "result"} => run[r].params = cloud.params
    /\ run[r].stage = "converter" => run[r].of = Contents
    /\ run[r].stage \in {"result", "move"} => processed = RightTree
    /\ run[r].stage = "move" => cloud.feature \in {run[r].feature, None}

(* Stages at which the tree may be wrong though the Task is COMPLETED.     *)
Between == {"saved", "wiped", "move"}

Shown ==
    /\ cloud.feature # None => cloud.task # None
    /\ /\ \A r \in Requests : run[r].stage \notin Between
       /\ cloud.feature # None /\ tasks[cloud.task] = "COMPLETED"
       => published[cloud.feature] = RightTree

TreeInv ==
    ~overlapped /\ ~AnyLost /\ cloud.exists => Shown /\ \A r \in Requests : Sound(r)

(* Files are fetched by imports only, one at a time.                       *)
Fetching == {"fetch", "file", "listed"}

Fetches(state) == /\ state.stage \in Fetching => state.kind = "import"
                  /\ state.stage = "file" => state.file \in Files

FetchInv == \A r \in Requests : Fetches(run[r])

IInv == TypeOK /\ FetchInv /\ BlockedInv /\ AloneInv /\ TreeInv

-----------------------------------------------------------------------------
(***************************************************************************)
(* One request goes on.                                                    *)
(***************************************************************************)
Moves(r, state) ==
    /\ state \in RunState
    /\ run' = [run EXCEPT ![r] = state]
    /\ InFlight(r)
    /\ Fetches(state)
    /\ overlapped' = overlapped

(* What it must not do to the others.                                      *)
LeavesTask(r, state) ==
    \/ state.stage = "lost"
    \/ ~Processing'
    \/ Unfinished(r)' /\ (state.kind = "import" \/ cloud'.task = r)
    \/ /\ Processing /\ cloud'.task = cloud.task
       /\ Unfinished(r) /\ (r = cloud.task \/ run[r].kind = "import") =>
             state.kind = run[r].kind /\ Unfinished(r)'

LEMMA RunChanges ==
    ASSUME TypeOK, NEW r \in Requests, NEW state, Moves(r, state)
    PROVE  /\ run' \in [Requests -> RunState]
           /\ run[r].stage \notin {"new", "done", "lost"}
           /\ \A s \in Requests : run'[s] = IF s = r THEN state ELSE run[s]
           /\ AnyLost => AnyLost'
           /\ state.stage = "lost" => AnyLost'
BY DEF TypeOK, Moves, InFlight, HandlerStages, WorkerStages, AnyLost

LEMMA Blocking ==
    ASSUME TypeOK, BlockedInv, NEW r \in Requests, NEW state, Moves(r, state),
           LeavesTask(r, state)
    PROVE  BlockedInv'
<1>1. /\ \A s \in Requests : run'[s] = IF s = r THEN state ELSE run[s]
      /\ AnyLost \/ state.stage = "lost" => AnyLost'
  BY RunChanges
<1>2. \A s \in Requests : s # r => (Unfinished(s)' <=> Unfinished(s))
  BY <1>1 DEF Unfinished, Behind
<1>3. CASE Unfinished(r)' /\ (state.kind = "import" \/ cloud'.task = r)
  BY <1>1, <1>3 DEF BlockedInv
<1>4. CASE /\ Processing /\ cloud'.task = cloud.task
           /\ Unfinished(r) /\ (r = cloud.task \/ run[r].kind = "import") =>
                 state.kind = run[r].kind /\ Unfinished(r)'
  <2>1. cloud.task \in Requests
    BY <1>4 DEF Processing, TypeOK
  <2>. QED  BY <1>1, <1>2, <1>4, <2>1 DEF BlockedInv
<1>. QED  BY <1>1, <1>3, <1>4 DEF BlockedInv, LeavesTask

LEMMA Alone ==
    ASSUME TypeOK, AloneInv, NEW r \in Requests, NEW state, Moves(r, state),
           state.stage \in {"file", "listed"} => (~overlapped => state.info = cloud'.info)
    PROVE  /\ AloneInv'
           /\ ~overlapped => \A s \in Requests : s # r => ~InFlight(s) /\ ~InFlight(s)'
<1>1. \A s \in Requests : run'[s] = IF s = r THEN state ELSE run[s]
  BY RunChanges
<1>2. \A s \in Requests : s # r => (InFlight(s)' <=> InFlight(s))
  BY <1>1 DEF InFlight
<1>3. ~overlapped => \A s \in Requests : s # r => ~InFlight(s) /\ ~InFlight(s)'
  BY <1>2 DEF AloneInv, Moves
<1>4. \A s \in Requests : ~InFlight(s)' => run'[s].stage \notin {"file", "listed"}
  BY DEF InFlight, WorkerStages
<1>. QED
  BY <1>1, <1>3, <1>4 DEF AloneInv, Moves

LEMMA IdleIsSound ==
    ASSUME NEW r \in Requests, ~InFlight(r)
    PROVE  Sound(r) /\ run[r].stage \notin Between
BY DEF InFlight, Sound, Behind, HandlerStages, WorkerStages, Between

LEMMA Showing ==
    ASSUME IInv, NEW r \in Requests, NEW state, Moves(r, state), AloneInv',
           \A s \in Requests : s # r => (~overlapped => ~InFlight(s)'),
           cloud'.exists => cloud.exists,
           /\ ~overlapped /\ ~AnyLost /\ cloud.exists /\ cloud'.exists
           /\ Shown /\ Sound(r) /\ state.stage # "lost"
           => Shown' /\ Sound(r)'
    PROVE  TreeInv'
<1>1. /\ \A s \in Requests : run'[s] = IF s = r THEN state ELSE run[s]
      /\ AnyLost \/ state.stage = "lost" => AnyLost'
  BY RunChanges DEF IInv
<1>2. ASSUME NEW s \in Requests, ~InFlight(s)'
      PROVE  Sound(s)'
  BY <1>2 DEF InFlight, Sound, Behind, HandlerStages, WorkerStages
<1>. QED
  BY <1>1, <1>2 DEF IInv, TreeInv, Moves

LEMMA Moving ==
    ASSUME IInv, NEW r \in Requests, NEW state, Moves(r, state), TypeOK',
           LeavesTask(r, state),
           state.stage \in {"file", "listed"} => (~overlapped => state.info = cloud'.info),
           cloud'.exists => cloud.exists,
           /\ ~overlapped /\ ~AnyLost /\ cloud.exists /\ cloud'.exists
           /\ Shown /\ Sound(r) /\ state.stage # "lost"
           /\ \A s \in Requests : s # r => ~InFlight(s)'
           => Shown' /\ Sound(r)'
    PROVE  IInv'
<1>1. FetchInv'
  BY RunChanges DEF IInv, FetchInv, Moves
<1>. QED  BY <1>1, Blocking, Alone, Showing DEF IInv

(* Only the request itself moves.                                          *)
LEMMA MovingOnly ==
    ASSUME IInv, NEW r \in Requests, NEW state, Moves(r, state),
           UNCHANGED <<cloud, tasks, features, disk>>, crashes' \in Nat,
           \/ state.stage = "lost" \/ ~cloud.exists
           \/ /\ run[r].stage \notin Between
              /\ Unfinished(r) => state.kind = run[r].kind /\ Unfinished(r)'
              /\ Sound(r) => Sound(r)',
           state.stage \in {"file", "listed"} => (~overlapped => state.info = cloud.info)
    PROVE  IInv'
<1>1. TypeOK'
  BY RunChanges DEF IInv, TypeOK, disk, Moves
<1>2. /\ Processing' = Processing /\ RightTree' = RightTree
      /\ cloud' = cloud /\ tasks' = tasks /\ published' = published
  BY DEF Processing, RightTree, Contents, disk
<1>3. LeavesTask(r, state)
  BY <1>2 DEF LeavesTask, Processing
<1>4. \A s \in Requests : ~InFlight(s)' => run'[s].stage \notin Between
  BY DEF InFlight, HandlerStages, WorkerStages, Between
<1>5. ASSUME ~overlapped, cloud.exists, Shown, state.stage # "lost", Sound(r),
             \A s \in Requests : s # r => ~InFlight(s)'
      PROVE  Shown' /\ Sound(r)'
  <2>1. \A s \in Requests : s # r => run'[s].stage = run[s].stage
    BY RunChanges DEF IInv
  <2>2. Shown'
    BY <1>2, <1>4, <1>5, <2>1 DEF Shown
  <2>. QED  BY <1>5, <2>2
<1>. QED
  BY <1>1, <1>2, <1>3, <1>5, Moving

-----------------------------------------------------------------------------
(* A request at another stage, and nothing else changed in it.             *)
To(r, stage) == [run[r] EXCEPT !.stage = stage]

AllStages == {"new", "done", "lost"} \cup HandlerStages \cup WorkerStages

LEMMA GoesMoves ==
    ASSUME TypeOK, NEW r \in Requests, NEW stage \in AllStages, Goes(r, stage), InFlight(r),
           stage # "file", stage \in Fetching => run[r].kind = "import",
           overlapped' = overlapped
    PROVE  /\ Moves(r, To(r, stage))
           /\ To(r, stage).stage = stage
           /\ To(r, stage).kind = run[r].kind /\ To(r, stage).info = run[r].info
           /\ run'[r] = To(r, stage)
           /\ \A s \in Requests : s # r => run'[s] = run[s]
<1>1. /\ run[r] \in RunState
      /\ To(r, stage) \in RunState /\ Fetches(To(r, stage))
  BY DEF TypeOK, RunState, To, AllStages, Fetches
<1>. QED
  BY <1>1 DEF Moves, Goes, To, TypeOK, RunState

LEMMA HandlerStep ==
    ASSUME IInv, NEW r \in Requests, Handler(r)
    PROVE  IInv'
<1>t. /\ TypeOK /\ run[r] \in RunState /\ crashes \in Nat
      /\ cloud \in [exists : BOOLEAN, task : Requests \cup {None}, info : SUBSET Files,
                    params : Params, feature : Requests \cup {None}]
      /\ tasks \in [Requests -> {"none", "RUNNING", "COMPLETED", "FAILED"}]
  BY DEF IInv, TypeOK
<1>1. CASE SendImport(r)
  <2>1. PICK stage \in {"queued", "done"} : Goes(r, stage)
    BY <1>1 DEF SendImport
  <2>2. /\ run[r].kind = "import" /\ run[r].stage = "guarded" /\ InFlight(r)
        /\ UNCHANGED <<cloud, tasks, features, disk, overlapped, crashes>>
    BY <1>1 DEF SendImport, At, InFlight, HandlerStages
  <2>3. Moves(r, To(r, stage)) /\ To(r, stage).stage = stage /\ run'[r] = To(r, stage)
        /\ To(r, stage).kind = "import"
    BY <1>t, <2>1, <2>2, GoesMoves DEF AllStages, Fetching, WorkerStages
  <2>4. ~Unfinished(r) /\ Sound(r)'
    BY <2>1, <2>2, <2>3 DEF Unfinished, Behind, Sound, WorkerStages
  <2>. QED
    BY <1>t, <2>1, <2>2, <2>3, <2>4, MovingOnly DEF Between
<1>2. CASE SaveUpdate(r)
  <2>1. PICK stage \in {"saved", "done"} :
           Goes(r, stage) /\ (stage = "done" => run[r].params = cloud.params)
    BY <1>2 DEF SaveUpdate
  <2>2. /\ run[r].kind = "update" /\ run[r].stage = "guarded" /\ InFlight(r) /\ cloud.exists
        /\ cloud' = [cloud EXCEPT !.params = run[r].params]
        /\ UNCHANGED <<tasks, features, directory, originals, processed, published, overlapped, crashes>>
    BY <1>2 DEF SaveUpdate, At, InFlight, HandlerStages, disk
  <2>3. Moves(r, To(r, stage)) /\ To(r, stage).stage = stage /\ run'[r] = To(r, stage)
        /\ To(r, stage).kind = "update" /\ \A s \in Requests : s # r => run'[s] = run[s]
    BY <1>t, <2>1, <2>2, GoesMoves DEF AllStages, Fetching, HandlerStages
  <2>4. ~Unfinished(r) /\ Sound(r)'
    BY <2>1, <2>2, <2>3 DEF Unfinished, Behind, Sound, WorkerStages
  <2>5. /\ cloud'.exists /\ cloud'.task = cloud.task /\ cloud'.feature = cloud.feature
        /\ cloud'.info = cloud.info /\ cloud'.params \in Params
        /\ cloud' \in [exists : BOOLEAN, task : Requests \cup {None}, info : SUBSET Files,
                       params : Params, feature : Requests \cup {None}]
        /\ stage = "done" => cloud'.params = cloud.params
    BY <1>t, <2>1, <2>2 DEF RunState
  <2>6. TypeOK'
    BY <1>t, <2>2, <2>3, <2>5, RunChanges DEF TypeOK
  <2>7. LeavesTask(r, To(r, stage))
    BY <2>2, <2>4, <2>5 DEF LeavesTask, Processing
  <2>8. Shown => Shown'
    <3>1. CASE stage = "saved"
      BY <2>3, <2>5, <3>1 DEF Shown, Between
    <3>2. CASE stage = "done"
      <4>1. RightTree' = RightTree
        BY <2>2, <2>5, <3>2 DEF RightTree, Contents
      <4>2. \A s \in Requests : run[s].stage \in Between => run'[s].stage \in Between
        BY <2>2, <2>3 DEF Between
      <4>. QED  BY <2>2, <2>5, <4>1, <4>2 DEF Shown
    <3>. QED  BY <2>1, <3>1, <3>2
  <2>. QED
    BY <2>1, <2>2, <2>3, <2>4, <2>5, <2>6, <2>7, <2>8, Moving
<1>3. CASE StartProcessing(r)
  <2>1. /\ run[r].kind = "update" /\ run[r].stage = "saved" /\ InFlight(r) /\ Goes(r, "tasked")
        /\ cloud.exists /\ cloud' = [cloud EXCEPT !.task = r]
        /\ tasks' = [tasks EXCEPT ![r] = "RUNNING"]
        /\ UNCHANGED <<features, directory, originals, processed, published, overlapped, crashes>>
    BY <1>3 DEF StartProcessing, NewTask, At, InFlight, HandlerStages, disk
  <2>2. Moves(r, To(r, "tasked")) /\ To(r, "tasked").stage = "tasked" /\ run'[r] = To(r, "tasked")
        /\ To(r, "tasked").kind = "update"
    BY <1>t, <2>1, GoesMoves DEF AllStages, Fetching, HandlerStages
  <2>3. /\ cloud'.exists /\ cloud'.task = r /\ tasks'[r] = "RUNNING"
        /\ cloud' \in [exists : BOOLEAN, task : Requests \cup {None}, info : SUBSET Files,
                       params : Params, feature : Requests \cup {None}]
        /\ tasks' \in [Requests -> {"none", "RUNNING", "COMPLETED", "FAILED"}]
    BY <1>t, <2>1
  <2>4. TypeOK'
    BY <1>t, <2>1, <2>2, <2>3, RunChanges DEF TypeOK
  <2>5. LeavesTask(r, To(r, "tasked"))
    BY <2>2, <2>3 DEF LeavesTask, Unfinished, Behind
  <2>6. Shown' /\ Sound(r)'
    BY <2>2, <2>3, ConstantsAssumption DEF Shown, Sound, WorkerStages
  <2>. QED
    BY <2>1, <2>2, <2>3, <2>4, <2>5, <2>6, Moving
<1>4. CASE SendConversion(r)
  <2>1. PICK stage \in {"queued", "lost"} : Goes(r, stage)
    BY <1>4 DEF SendConversion
  <2>2. /\ run[r].kind = "update" /\ run[r].stage = "tasked" /\ InFlight(r)
        /\ UNCHANGED <<cloud, tasks, features, disk, overlapped, crashes>>
    BY <1>4 DEF SendConversion, At, InFlight, HandlerStages
  <2>3. Moves(r, To(r, stage)) /\ To(r, stage).stage = stage /\ run'[r] = To(r, stage)
        /\ To(r, stage).kind = "update"
    BY <1>t, <2>1, <2>2, GoesMoves DEF AllStages, Fetching, WorkerStages
  <2>4. stage = "queued" => Unfinished(r)' /\ (Sound(r) => Sound(r)')
    BY <2>2, <2>3 DEF Unfinished, Behind, Sound, disk, RightTree, Contents
  <2>. QED
    BY <1>t, <2>1, <2>2, <2>3, <2>4, MovingOnly DEF Between
<1>5. CASE WipeFiles(r)
  <2>1. /\ run[r].kind = "delete" /\ run[r].stage = "guarded" /\ InFlight(r) /\ Goes(r, "wiped")
        /\ directory' = FALSE /\ originals' = [n \in Names |-> None] /\ processed' = NoTree
        /\ UNCHANGED <<cloud, tasks, features, published, overlapped, crashes>>
    BY <1>5 DEF WipeFiles, At, InFlight, HandlerStages
  <2>2. Moves(r, To(r, "wiped")) /\ To(r, "wiped").stage = "wiped" /\ run'[r] = To(r, "wiped")
        /\ To(r, "wiped").kind = "delete"
    BY <1>t, <2>1, GoesMoves DEF AllStages, Fetching, HandlerStages
  <2>3. TypeOK'
    BY <1>t, <2>1, <2>2, RunChanges, ConstantsAssumption DEF TypeOK, NoTree, Tree
  <2>4. ~Unfinished(r) /\ Sound(r)'
    BY <2>1, <2>2 DEF Unfinished, Behind, Sound, WorkerStages
  <2>5. LeavesTask(r, To(r, "wiped"))
    BY <2>1, <2>4 DEF LeavesTask, Processing
  <2>6. Shown => Shown'
    BY <2>1, <2>2 DEF Shown, Between
  <2>. QED
    BY <2>1, <2>2, <2>3, <2>4, <2>5, <2>6, Moving
<1>6. CASE DeleteRow(r)
  <2>1. /\ run[r].kind = "delete" /\ run[r].stage = "wiped" /\ InFlight(r) /\ Goes(r, "done")
        /\ cloud' = [cloud EXCEPT !.exists = FALSE, !.task = None, !.feature = None]
        /\ UNCHANGED <<tasks, features, directory, originals, processed, published, overlapped, crashes>>
    BY <1>6 DEF DeleteRow, RowGone, At, InFlight, HandlerStages, disk
  <2>2. Moves(r, To(r, "done")) /\ To(r, "done").stage = "done"
    BY <1>t, <2>1, GoesMoves DEF AllStages, Fetching
  <2>3. /\ ~cloud'.exists
        /\ cloud' \in [exists : BOOLEAN, task : Requests \cup {None}, info : SUBSET Files,
                       params : Params, feature : Requests \cup {None}]
    BY <1>t, <2>1
  <2>4. TypeOK'
    BY <1>t, <2>1, <2>2, <2>3, RunChanges DEF TypeOK
  <2>5. LeavesTask(r, To(r, "done"))
    BY <2>3 DEF LeavesTask, Processing
  <2>. QED
    BY <2>2, <2>3, <2>4, <2>5, Moving
<1>7. CASE HandlerFindsNothing(r)
  <2>1. /\ ~cloud.exists /\ InFlight(r) /\ Goes(r, "done")
        /\ UNCHANGED <<cloud, tasks, features, disk, overlapped, crashes>>
    BY <1>7 DEF HandlerFindsNothing, InFlight, HandlerStages
  <2>2. Moves(r, To(r, "done")) /\ To(r, "done").stage = "done"
    BY <1>t, <2>1, GoesMoves DEF AllStages, Fetching
  <2>. QED
    BY <1>t, <2>1, <2>2, MovingOnly
<1>. QED
  BY <1>1, <1>2, <1>3, <1>4, <1>5, <1>6, <1>7 DEF Handler

LEMMA FailureLeaves ==
    ASSUME TypeOK, NEW r \in Requests, run[r].file \in Files, NEW s \in AtFailure(r), NEW names
    PROVE  Without(s.there, names) \in [Names -> Files \cup {None, Torn}]
<1>1. s.there \in [Names -> Files \cup {None, Torn}]
  BY DEF AtFailure, TypeOK
<1>. QED  BY <1>1 DEF Without

LEMMA ImportStep ==
    ASSUME IInv, NEW r \in Requests, Import(r)
    PROVE  IInv'
<1>t. /\ TypeOK /\ run[r] \in RunState /\ crashes \in Nat
      /\ cloud \in [exists : BOOLEAN, task : Requests \cup {None}, info : SUBSET Files,
                    params : Params, feature : Requests \cup {None}]
      /\ tasks \in [Requests -> {"none", "RUNNING", "COMPLETED", "FAILED"}]
      /\ run[r].stage \in Fetching => run[r].kind = "import"
      /\ run[r].stage = "file" => run[r].file \in Files
      /\ run[r].stage \in WorkerStages => InFlight(r)
  BY DEF IInv, TypeOK, FetchInv, Fetches, InFlight
<1>1. CASE BeginImport(r)
  <2>1. /\ run[r].kind = "import" /\ run[r].stage = "queued" /\ InFlight(r) /\ Goes(r, "fetch")
        /\ cloud.exists /\ cloud' = [cloud EXCEPT !.task = r]
        /\ tasks' = [tasks EXCEPT ![r] = "RUNNING"]
        /\ UNCHANGED <<features, directory, originals, processed, published, overlapped, crashes>>
    BY <1>1 DEF BeginImport, NewTask, At, InFlight, WorkerStages, disk
  <2>2. Moves(r, To(r, "fetch")) /\ To(r, "fetch").stage = "fetch" /\ run'[r] = To(r, "fetch")
        /\ To(r, "fetch").kind = "import"
    BY <1>t, <2>1, GoesMoves DEF AllStages, WorkerStages
  <2>3. /\ cloud'.exists /\ cloud'.task = r /\ tasks'[r] = "RUNNING"
        /\ cloud' \in [exists : BOOLEAN, task : Requests \cup {None}, info : SUBSET Files,
                       params : Params, feature : Requests \cup {None}]
        /\ tasks' \in [Requests -> {"none", "RUNNING", "COMPLETED", "FAILED"}]
    BY <1>t, <2>1
  <2>4. TypeOK'
    BY <1>t, <2>1, <2>2, <2>3, RunChanges DEF TypeOK
  <2>5. LeavesTask(r, To(r, "fetch"))
    BY <2>2, <2>3 DEF LeavesTask, Unfinished, Behind, WorkerStages
  <2>6. Shown' /\ Sound(r)'
    BY <2>2, <2>3, ConstantsAssumption DEF Shown, Sound, WorkerStages
  <2>. QED
    BY <2>1, <2>2, <2>3, <2>4, <2>5, <2>6, Moving
<1>2. ASSUME NEW f \in Files, FetchFile(r, f)
      PROVE  IInv'
  <2> DEFINE state == [run[r] EXCEPT !.stage = "file", !.file = f, !.info = cloud.info]
  <2>1. /\ run[r].stage = "fetch" /\ run' = [run EXCEPT ![r] = state]
        /\ UNCHANGED <<cloud, tasks, features, disk, overlapped, crashes>>
    BY <1>2 DEF FetchFile
  <2>2. /\ state \in RunState /\ state.stage = "file" /\ state.info = cloud.info
        /\ state.kind = run[r].kind /\ state.file = f /\ run'[r] = state
    BY <1>t, <2>1 DEF RunState, WorkerStages, TypeOK
  <2> HIDE DEF state
  <2>3. Moves(r, state)
    BY <1>t, <2>1, <2>2 DEF Moves, Fetches, Fetching, WorkerStages
  <2>4. Unfinished(r)' /\ (Sound(r) => Sound(r)')
    BY <2>1, <2>2 DEF Unfinished, Behind, Sound, WorkerStages
  <2>. QED
    BY <1>t, <2>1, <2>2, <2>3, <2>4, MovingOnly DEF Between
<1>3. CASE KeepFile(r)
  <2> DEFINE f == run[r].file
             fetched == run[r].fetched \cup {f}
             stage == IF fetched = run[r].files THEN "listed" ELSE "fetch"
             state == [run[r] EXCEPT !.fetched = fetched, !.stage = stage]
  <2>1. /\ run[r].stage = "file" /\ run' = [run EXCEPT ![r] = state]
        /\ originals' = [originals EXCEPT ![Name[f]] = f]
        /\ UNCHANGED <<cloud, tasks, features, directory, processed, published, overlapped, crashes>>
    BY <1>3 DEF KeepFile
  <2>2. f \in Files
    BY <1>t, <2>1
  <2>3. /\ state \in RunState /\ state.stage \in {"listed", "fetch"} /\ state.info = run[r].info
        /\ state.kind = run[r].kind /\ run'[r] = state
    BY <1>t, <2>1, <2>2 DEF RunState, WorkerStages, TypeOK
  <2>4. originals' \in [Names -> Files \cup {None, Torn}]
    BY <1>t, <2>1, <2>2 DEF TypeOK
  <2> HIDE DEF state, stage, fetched, f
  <2>5. Moves(r, state)
    BY <1>t, <2>1, <2>3 DEF Moves, Fetches, Fetching, WorkerStages
  <2>6. TypeOK'
    BY <1>t, <2>1, <2>4, <2>5, RunChanges DEF TypeOK
  <2>7. LeavesTask(r, state)
    BY <1>t, <2>1, <2>3 DEF LeavesTask, Unfinished, Behind, WorkerStages, Fetching
  <2>8. Sound(r) /\ Shown => Sound(r)' /\ Shown'
    BY <2>1, <2>3 DEF Sound, Behind, WorkerStages, Shown
  <2>9. ~overlapped => state.info = cloud.info
    BY <2>1, <2>3 DEF IInv, AloneInv
  <2>. QED
    BY <2>1, <2>3, <2>5, <2>6, <2>7, <2>8, <2>9, Moving
<1>4. CASE GiveUp(r)
  <2>1. /\ run[r].stage = "file" /\ cloud.exists /\ Goes(r, "done")
        /\ tasks' = [tasks EXCEPT ![cloud.task] = "FAILED"]
        /\ UNCHANGED <<cloud, features, directory, processed, published, overlapped, crashes>>
    BY <1>4 DEF GiveUp, Fail
  <2>2. originals' \in [Names -> Files \cup {None, Torn}]
    <3>1. PICK s \in AtFailure(r) : \E names : originals' = Without(s.there, names)
      BY <1>4 DEF GiveUp
    <3>2. PICK names : originals' = Without(s.there, names)
      BY <3>1
    <3>. QED  BY <1>t, <2>1, <3>2, FailureLeaves
  <2>3. Moves(r, To(r, "done")) /\ To(r, "done").stage = "done" /\ run'[r] = To(r, "done")
    BY <1>t, <2>1, GoesMoves DEF AllStages, Fetching, WorkerStages
  <2>4. /\ tasks' \in [Requests -> {"none", "RUNNING", "COMPLETED", "FAILED"}]
        /\ cloud.task \in Requests => tasks'[cloud.task] = "FAILED"
    BY <1>t, <2>1
  <2>5. TypeOK'
    BY <1>t, <2>1, <2>2, <2>3, <2>4, RunChanges DEF TypeOK
  <2>6. LeavesTask(r, To(r, "done"))
    BY <1>t, <2>1, <2>4 DEF LeavesTask, Processing
  <2>7. Sound(r)' /\ (Shown => Shown')
    BY <1>t, <2>1, <2>3, <2>4 DEF Sound, Behind, WorkerStages, Shown
  <2>. QED
    BY <2>1, <2>3, <2>5, <2>6, <2>7, Moving
<1>5. CASE CleanupRaises(r)
  <2>1. /\ run[r].stage = "file" /\ Goes(r, "lost")
        /\ UNCHANGED <<cloud, tasks, features, directory, processed, published, overlapped, crashes>>
    BY <1>5 DEF CleanupRaises
  <2>2. originals' \in [Names -> Files \cup {None, Torn}]
    <3>1. PICK s \in AtFailure(r) : \E names : originals' = Without(s.there, names)
      BY <1>5 DEF CleanupRaises
    <3>2. PICK names : originals' = Without(s.there, names)
      BY <3>1
    <3>. QED  BY <1>t, <2>1, <3>2, FailureLeaves
  <2>3. Moves(r, To(r, "lost")) /\ To(r, "lost").stage = "lost"
    BY <1>t, <2>1, GoesMoves DEF AllStages, Fetching, WorkerStages
  <2>4. TypeOK'
    BY <1>t, <2>1, <2>2, <2>3, RunChanges DEF TypeOK
  <2>. QED
    BY <2>1, <2>3, <2>4, Moving DEF LeavesTask
<1>6. CASE ListFiles(r)
  <2>1. /\ run[r].stage = "listed" /\ cloud.exists /\ Goes(r, "convert")
        /\ cloud' = [cloud EXCEPT !.info = run[r].info \cup run[r].files]
        /\ tasks' = [tasks EXCEPT ![cloud.task] = "RUNNING"]
        /\ UNCHANGED <<features, directory, originals, processed, published, overlapped, crashes>>
    BY <1>6 DEF ListFiles, Listed, disk
  <2>2. Moves(r, To(r, "convert")) /\ To(r, "convert").stage = "convert"
        /\ run'[r] = To(r, "convert") /\ To(r, "convert").kind = "import"
    BY <1>t, <2>1, GoesMoves DEF AllStages, Fetching, WorkerStages
  <2>3. /\ cloud'.exists /\ cloud'.task = cloud.task /\ cloud'.params = cloud.params
        /\ cloud'.feature = cloud.feature
        /\ cloud' \in [exists : BOOLEAN, task : Requests \cup {None}, info : SUBSET Files,
                       params : Params, feature : Requests \cup {None}]
        /\ tasks' \in [Requests -> {"none", "RUNNING", "COMPLETED", "FAILED"}]
        /\ cloud.task \in Requests => tasks'[cloud.task] = "RUNNING"
    BY <1>t, <2>1 DEF RunState
  <2>4. TypeOK'
    BY <1>t, <2>1, <2>2, <2>3, RunChanges DEF TypeOK
  <2>5. LeavesTask(r, To(r, "convert"))
    BY <2>2 DEF LeavesTask, Unfinished, Behind, WorkerStages
  <2>6. Sound(r) /\ Shown => Sound(r)' /\ Shown'
    BY <1>t, <2>1, <2>2, <2>3 DEF Sound, Behind, WorkerStages, Shown
  <2>. QED
    BY <2>1, <2>2, <2>3, <2>4, <2>5, <2>6, Moving
<1>7. CASE ImportFindsNothing(r)
  <2>1. /\ run[r].stage \in WorkerStages /\ Goes(r, "lost")
        /\ UNCHANGED <<cloud, tasks, features, disk, overlapped, crashes>>
    BY <1>7 DEF ImportFindsNothing, WorkerStages
  <2>2. Moves(r, To(r, "lost")) /\ To(r, "lost").stage = "lost"
    BY <1>t, <2>1, GoesMoves DEF AllStages, Fetching
  <2>. QED  BY <1>t, <2>1, <2>2, MovingOnly
<1>. QED
  BY <1>1, <1>2, <1>3, <1>4, <1>5, <1>6, <1>7 DEF Import

LEMMA ConvertStep ==
    ASSUME IInv, NEW r \in Requests, Convert(r)
    PROVE  IInv'
<1>t. /\ TypeOK /\ run[r] \in RunState /\ crashes \in Nat
      /\ cloud \in [exists : BOOLEAN, task : Requests \cup {None}, info : SUBSET Files,
                    params : Params, feature : Requests \cup {None}]
      /\ tasks \in [Requests -> {"none", "RUNNING", "COMPLETED", "FAILED"}]
      /\ Contents \subseteq Files \cup {Torn}
      /\ run[r].stage \in WorkerStages => InFlight(r)
  BY DEF IInv, TypeOK, InFlight, Contents
<1>1. CASE LoadParameters(r)
  <2> DEFINE state == [run[r] EXCEPT !.stage = "loaded", !.params = cloud.params]
  <2>1. /\ (run[r].kind = "update" /\ run[r].stage = "queued") \/ run[r].stage = "convert"
        /\ run' = [run EXCEPT ![r] = state]
        /\ UNCHANGED <<cloud, tasks, features, disk, overlapped, crashes>>
    BY <1>1 DEF LoadParameters, At
  <2>2. /\ state \in RunState /\ state.stage = "loaded" /\ state.params = cloud.params
        /\ state.kind = run[r].kind /\ run'[r] = state
    BY <1>t, <2>1 DEF RunState, WorkerStages, TypeOK
  <2> HIDE DEF state
  <2>3. Moves(r, state)
    BY <1>t, <2>1, <2>2 DEF Moves, Fetches, Fetching, WorkerStages
  <2>4. Unfinished(r)' /\ (Sound(r) => Sound(r)')
    BY <2>1, <2>2 DEF Unfinished, Behind, Sound, WorkerStages
  <2>. QED
    BY <1>t, <2>1, <2>2, <2>3, <2>4, MovingOnly DEF Between
<1>2. CASE StartConverter(r)
  <2> DEFINE state == [run[r] EXCEPT !.stage = "converter", !.of = Contents]
  <2>1. /\ run[r].stage = "loaded" /\ run' = [run EXCEPT ![r] = state]
        /\ processed' = [state |-> "partial", of |-> Contents, params |-> run[r].params]
        /\ UNCHANGED <<cloud, tasks, features, directory, originals, published, overlapped, crashes>>
    BY <1>2 DEF StartConverter
  <2>2. /\ state \in RunState /\ state.stage = "converter" /\ state.of = Contents
        /\ state.kind = run[r].kind /\ state.params = run[r].params /\ run'[r] = state
    BY <1>t, <2>1 DEF RunState, WorkerStages, TypeOK
  <2> HIDE DEF state
  <2>3. Moves(r, state)
    BY <1>t, <2>1, <2>2 DEF Moves, Fetches, Fetching, WorkerStages
  <2>4. processed' \in Tree
    BY <1>t, <2>1 DEF Tree, RunState
  <2>5. TypeOK'
    BY <1>t, <2>1, <2>3, <2>4, RunChanges DEF TypeOK
  <2>6. LeavesTask(r, state)
    BY <2>1, <2>2 DEF LeavesTask, Processing, Unfinished, Behind, WorkerStages
  <2>7. Sound(r) /\ Shown => Sound(r)' /\ Shown'
    BY <1>t, <2>1, <2>2 DEF Sound, Behind, WorkerStages, Shown, Contents
  <2>. QED
    BY <2>1, <2>2, <2>3, <2>5, <2>6, <2>7, Moving
<1>3. CASE FinishConverter(r)
  <2>1. /\ run[r].stage = "converter" /\ Goes(r, "result")
        /\ processed' = [state |-> "whole", of |-> run[r].of, params |-> run[r].params]
        /\ UNCHANGED <<cloud, tasks, features, directory, originals, published, overlapped, crashes>>
    BY <1>3 DEF FinishConverter
  <2>2. /\ Moves(r, To(r, "result")) /\ To(r, "result").stage = "result"
        /\ run'[r] = To(r, "result") /\ To(r, "result").kind = run[r].kind
        /\ To(r, "result").params = run[r].params
    BY <1>t, <2>1, GoesMoves DEF AllStages, Fetching, WorkerStages, To, RunState
  <2>3. processed' \in Tree
    BY <1>t, <2>1 DEF Tree, RunState
  <2>4. TypeOK'
    BY <1>t, <2>1, <2>2, <2>3, RunChanges DEF TypeOK
  <2>5. LeavesTask(r, To(r, "result"))
    BY <2>1, <2>2 DEF LeavesTask, Processing, Unfinished, Behind, WorkerStages
  <2>6. RightTree' = RightTree
    BY <2>1 DEF RightTree, Contents
  <2>7. Sound(r) => processed' = RightTree
    BY <2>1 DEF Sound, RightTree
  <2>8. Sound(r) /\ Shown => Sound(r)' /\ Shown'
    <3>1. Sound(r) => cloud.task = r /\ tasks[r] = "RUNNING"
      BY <2>1 DEF Sound, Behind, WorkerStages
    <3>2. Sound(r) => Sound(r)'
      BY <2>1, <2>2, <2>6, <2>7, <3>1 DEF Sound
    <3>3. Sound(r) /\ Shown => Shown'
      BY <2>1, <3>1 DEF Shown
    <3>. QED  BY <3>2, <3>3
  <2>. QED
    BY <2>1, <2>2, <2>4, <2>5, <2>8, Moving
<1>4. CASE CommitResult(r)
  <2> DEFINE feature == IF cloud.feature = None THEN r ELSE cloud.feature
             state == [run[r] EXCEPT !.stage = "move", !.feature = feature]
  <2>1. /\ run[r].stage = "result" /\ run' = [run EXCEPT ![r] = state] /\ cloud.exists
        /\ cloud' = [cloud EXCEPT !.feature = feature] /\ features' = features \cup {feature}
        /\ tasks' = [tasks EXCEPT ![cloud.task] = "COMPLETED"]
        /\ UNCHANGED <<directory, originals, processed, published, overlapped, crashes>>
    BY <1>4 DEF CommitResult, disk
  <2>2. feature \in Requests
    BY <1>t
  <2> HIDE DEF feature
  <2>3. /\ state \in RunState /\ state.stage = "move" /\ state.feature = feature
        /\ state.kind = run[r].kind /\ run'[r] = state
    BY <1>t, <2>1, <2>2 DEF RunState, WorkerStages, TypeOK
  <2> HIDE DEF state
  <2>4. Moves(r, state)
    BY <1>t, <2>1, <2>3 DEF Moves, Fetches, Fetching, WorkerStages
  <2>5. /\ cloud'.exists /\ cloud'.task = cloud.task /\ cloud'.params = cloud.params
        /\ cloud'.feature = feature /\ cloud'.info = cloud.info
        /\ cloud' \in [exists : BOOLEAN, task : Requests \cup {None}, info : SUBSET Files,
                       params : Params, feature : Requests \cup {None}]
        /\ tasks' \in [Requests -> {"none", "RUNNING", "COMPLETED", "FAILED"}]
        /\ cloud.task \in Requests => tasks'[cloud.task] = "COMPLETED"
    BY <1>t, <2>1, <2>2
  <2>6. TypeOK'
    BY <1>t, <2>1, <2>2, <2>4, <2>5, RunChanges DEF TypeOK
  <2>7. LeavesTask(r, state)
    BY <2>5 DEF LeavesTask, Processing
  <2>8. Sound(r) /\ Shown => Sound(r)' /\ Shown'
    BY <1>t, <2>1, <2>3, <2>5, ConstantsAssumption
    DEF Sound, Behind, WorkerStages, Shown, Contents, RightTree, Between
  <2>. QED
    BY <2>1, <2>3, <2>4, <2>5, <2>6, <2>7, <2>8, Moving
<1>5. CASE MoveTree(r)
  <2>1. /\ run[r].stage = "move" /\ Goes(r, "done")
        /\ published' = [published EXCEPT ![run[r].feature] = processed]
        /\ processed' = NoTree
        /\ UNCHANGED <<cloud, tasks, features, directory, originals, overlapped, crashes>>
    BY <1>5 DEF MoveTree
  <2>2. /\ Moves(r, To(r, "done")) /\ To(r, "done").stage = "done" /\ run'[r] = To(r, "done")
    BY <1>t, <2>1, GoesMoves DEF AllStages, Fetching, WorkerStages
  <2>3. TypeOK'
    BY <1>t, <2>1, <2>2, RunChanges, ConstantsAssumption DEF TypeOK, NoTree, Tree
  <2>4. LeavesTask(r, To(r, "done"))
    BY <2>1 DEF LeavesTask, Processing, Unfinished
  <2>5. Sound(r)'
    BY <2>2 DEF Sound, Behind, WorkerStages
  <2>6. RightTree' = RightTree
    BY <2>1 DEF RightTree, Contents
  <2>7. Sound(r) /\ Shown => Shown'
    <3>1. Sound(r) /\ cloud.feature # None => published'[cloud.feature] = RightTree
      BY <1>t, <2>1 DEF Sound, TypeOK
    <3>. QED  BY <2>1, <2>6, <3>1 DEF Shown
  <2>. QED
    BY <2>1, <2>2, <2>3, <2>4, <2>5, <2>7, Moving
<1>6. ASSUME ReportFailure(r), run[r].stage \in WorkerStages,
             run[r].stage = "queued" => run[r].kind = "update",
             published' \in [Requests -> Tree],
             UNCHANGED <<cloud, features, directory, originals, processed, overlapped, crashes>>
      PROVE  IInv'
  <2>1. PICK stage \in {"done", "lost"} :
           /\ Goes(r, stage) 
           /\ tasks' = tasks \/ \E task : tasks' = [tasks EXCEPT ![task] = "FAILED"]
           /\ stage = "done" =>
                 \/ run[r].kind = "update" /\ tasks' = [tasks EXCEPT ![r] = "FAILED"]
                 \/ /\ run[r].kind # "update" /\ cloud.exists
                    /\ tasks' = [tasks EXCEPT ![cloud.task] = "FAILED"]
    BY <1>6 DEF ReportFailure, Fail
  <2>2. /\ Moves(r, To(r, stage)) /\ To(r, stage).stage = stage /\ run'[r] = To(r, stage)
    BY <1>t, <1>6, <2>1, GoesMoves DEF AllStages, Fetching, WorkerStages
  <2>3. tasks' \in [Requests -> {"none", "RUNNING", "COMPLETED", "FAILED"}]
    BY <1>t, <2>1
  <2>4. TypeOK'
    BY <1>t, <1>6, <2>2, <2>3, RunChanges DEF TypeOK
  <2>5. LeavesTask(r, To(r, stage))
    BY <1>t, <1>6, <2>1, <2>2 DEF LeavesTask, Processing
  <2>6. Sound(r)'
    BY <2>2 DEF Sound, Behind, WorkerStages
  <2>7. stage = "done" /\ Sound(r) /\ Shown => Shown'
    BY <1>t, <1>6, <2>1 DEF Sound, Behind, WorkerStages, Shown
  <2>. QED
    BY <1>6, <2>2, <2>4, <2>5, <2>6, <2>7, Moving DEF WorkerStages
<1>7. CASE ConversionFails(r)
  <2>1. /\ run[r].stage \in WorkerStages
        /\ run[r].stage = "queued" => run[r].kind = "update"
    BY <1>7 DEF ConversionFails, Converting, At, WorkerStages
  <2>2. published' = published
    BY <1>7 DEF ConversionFails, disk
  <2>. QED  BY <1>6, <1>7, <1>t, <2>1, <2>2 DEF ConversionFails, disk, TypeOK
<1>8. CASE MoveFails(r)
  <2>1. NoTree \in Tree
    BY ConstantsAssumption DEF NoTree, Tree
  <2>2. published' \in [Requests -> Tree] /\ run[r].stage = "move"
    BY <1>8, <1>t, <2>1 DEF MoveFails, TypeOK
  <2>. QED  BY <1>6, <1>8, <2>2 DEF MoveFails, WorkerStages
<1>. QED
  BY <1>1, <1>2, <1>3, <1>4, <1>5, <1>7, <1>8 DEF Convert

-----------------------------------------------------------------------------
(* A request that is let in: nothing is being processed, and if it does    *)
(* not overlap then it is the only one.                                    *)
LEMMA AskStep ==
    ASSUME IInv, NEW r \in Requests, Ask(r)
    PROVE  IInv'
<1>1. PICK request : /\ Admit(r, request)
                     /\ request \in RunState /\ request.stage = "guarded"
  <2>1. NoRun \in RunState
    BY ConstantsAssumption DEF NoRun, RunState
  <2>2. CASE AskImport(r)
    <3>1. PICK files \in SUBSET Files :
             Admit(r, [NoRun EXCEPT !.kind = "import", !.stage = "guarded", !.files = files])
      BY <2>2 DEF AskImport
    <3> DEFINE request == [NoRun EXCEPT !.kind = "import", !.stage = "guarded", !.files = files]
    <3>2. request \in RunState /\ request.stage = "guarded"
      BY <2>1 DEF RunState, HandlerStages
    <3>. QED  BY <3>1, <3>2
  <2>3. CASE AskUpdate(r)
    <3>1. PICK params \in Params :
             Admit(r, [NoRun EXCEPT !.kind = "update", !.stage = "guarded", !.params = params])
      BY <2>3 DEF AskUpdate
    <3> DEFINE request == [NoRun EXCEPT !.kind = "update", !.stage = "guarded", !.params = params]
    <3>2. request \in RunState /\ request.stage = "guarded"
      BY <2>1 DEF RunState, HandlerStages
    <3>. QED  BY <3>1, <3>2
  <2>4. CASE AskDelete(r)
    <3> DEFINE request == [NoRun EXCEPT !.kind = "delete", !.stage = "guarded"]
    <3>1. request \in RunState /\ request.stage = "guarded"
      BY <2>1 DEF RunState, HandlerStages
    <3>. QED  BY <2>4, <3>1 DEF AskDelete
  <2>. QED  BY <2>2, <2>3, <2>4 DEF Ask
<1>2. /\ run[r].stage = "new" /\ ~Processing
      /\ run' = [run EXCEPT ![r] = request]
      /\ overlapped' = (overlapped \/ \E s \in Requests : InFlight(s))
      /\ UNCHANGED <<cloud, tasks, features, directory, originals, processed, published, crashes>>
  BY <1>1 DEF Admit, disk
<1>3. /\ run' \in [Requests -> RunState]
      /\ \A s \in Requests : run'[s] = IF s = r THEN request ELSE run[s]
  BY <1>1, <1>2 DEF IInv, TypeOK
<1>4. TypeOK'
  BY <1>2, <1>3 DEF IInv, TypeOK
<1>5. FetchInv'
  BY <1>1, <1>3 DEF IInv, FetchInv, Fetches, Fetching
<1>6. BlockedInv'
  BY <1>2 DEF BlockedInv, Processing
<1>7. ~overlapped' => ~overlapped /\ \A s \in Requests : ~InFlight(s)
  BY <1>2
<1>8. \A s \in Requests : s # r => (InFlight(s)' <=> InFlight(s))
  BY <1>3 DEF InFlight
<1>9. AloneInv'
  <2>1. \A s \in Requests : run'[s].stage \in {"file", "listed"} => InFlight(s)' /\ s # r
    BY <1>1, <1>3 DEF InFlight, WorkerStages
  <2>. QED  BY <1>7, <1>8, <2>1 DEF AloneInv
<1>10. TreeInv'
  <2>1. Sound(r)'
    BY <1>1, <1>3 DEF Sound, Behind, WorkerStages
  <2>2. \A s \in Requests : s # r /\ ~InFlight(s)' => Sound(s)'
    BY DEF InFlight, Sound, Behind, HandlerStages, WorkerStages
  <2>3. AnyLost => AnyLost'
    BY <1>2, <1>3 DEF AnyLost
  <2>4. ~overlapped' /\ Shown => Shown'
    <3>1. \A s \in Requests : ~InFlight(s) => run[s].stage \notin Between
      BY IdleIsSound
    <3>2. RightTree' = RightTree
      BY <1>2 DEF RightTree, Contents
    <3>. QED  BY <1>2, <1>7, <3>1, <3>2 DEF Shown
  <2>. QED  BY <1>2, <1>7, <1>8, <2>1, <2>2, <2>3, <2>4 DEF IInv, TreeInv
<1>. QED  BY <1>4, <1>5, <1>6, <1>9, <1>10 DEF IInv

(* The feature goes, and what it showed.                                   *)
LEMMA DeleteFeatureStep ==
    ASSUME IInv, NEW f \in Requests, DeleteFeature(f)
    PROVE  IInv'
<1>1. /\ cloud' = [cloud EXCEPT !.feature = IF @ = f THEN None ELSE @]
      /\ features' = features \ {f} /\ published' = [published EXCEPT ![f] = NoTree]
      /\ UNCHANGED <<tasks, directory, originals, processed, run, overlapped, crashes>>
  BY DEF DeleteFeature
<1>2. /\ cloud'.exists = cloud.exists /\ cloud'.task = cloud.task
      /\ cloud'.info = cloud.info /\ cloud'.params = cloud.params
      /\ cloud'.feature = IF cloud.feature = f THEN None ELSE cloud.feature
      /\ cloud' \in [exists : BOOLEAN, task : Requests \cup {None}, info : SUBSET Files,
                     params : Params, feature : Requests \cup {None}]
  BY <1>1 DEF IInv, TypeOK
<1>3. TypeOK'
  <2>1. NoTree \in Tree
    BY ConstantsAssumption DEF NoTree, Tree
  <2>. QED  BY <1>1, <1>2, <2>1 DEF IInv, TypeOK
<1>4. FetchInv'
  BY <1>1 DEF IInv, FetchInv
<1>5. BlockedInv'
  BY <1>1, <1>2 DEF IInv, BlockedInv, Processing, AnyLost, Unfinished, Behind
<1>6. AloneInv'
  BY <1>1, <1>2 DEF IInv, AloneInv, InFlight
<1>7. TreeInv'
  <2>1. RightTree' = RightTree
    BY <1>1, <1>2 DEF RightTree, Contents
  <2>2. \A r \in Requests : Sound(r) => Sound(r)'
    BY <1>1, <1>2, <2>1 DEF Sound, Behind, Contents
  <2>3. Shown => Shown'
    <3>1. cloud'.feature # None =>
            /\ cloud'.feature = cloud.feature /\ cloud.feature # f
            /\ published'[cloud.feature] = published[cloud.feature]
      BY <1>1, <1>2 DEF IInv, TypeOK
    <3>. QED  BY <1>1, <1>2, <2>1, <3>1 DEF Shown
  <2>. QED  BY <1>1, <1>2, <2>2, <2>3 DEF IInv, TreeInv, AnyLost
<1>. QED  BY <1>3, <1>4, <1>5, <1>6, <1>7 DEF IInv

LEMMA DiesStep ==
    ASSUME IInv, NEW r \in Requests, Dies(r)
    PROVE  IInv'
<1>1. /\ InFlight(r) /\ Goes(r, "lost") /\ crashes' = crashes + 1
      /\ UNCHANGED <<cloud, tasks, features, disk, overlapped>>
  BY DEF Dies
<1>2. Moves(r, To(r, "lost")) /\ To(r, "lost").stage = "lost"
  BY <1>1, GoesMoves DEF IInv, AllStages, Fetching
<1>3. crashes' \in Nat
  BY <1>1 DEF IInv, TypeOK
<1>. QED  BY <1>1, <1>2, <1>3, MovingOnly

LEMMA NextStep == IInv /\ [Next]_vars => IInv'
<1> SUFFICES ASSUME IInv, [Next]_vars PROVE IInv'
  OBVIOUS
<1>1. CASE UNCHANGED vars
  BY <1>1 DEF vars, IInv, TypeOK, FetchInv, BlockedInv, AloneInv, TreeInv, Processing, AnyLost,
              Unfinished, Behind, InFlight, Shown, Sound, RightTree, Contents
<1>2. ASSUME NEW r \in Requests, Ask(r) \/ Step(r) \/ DeleteFeature(r) \/ Dies(r)
      PROVE  IInv'
  BY <1>2, AskStep, HandlerStep, ImportStep, ConvertStep, DeleteFeatureStep, DiesStep DEF Step
<1>. QED  BY <1>1, <1>2 DEF Next

LEMMA Start == Init => IInv
<1> SUFFICES ASSUME Init PROVE IInv
  OBVIOUS
<1>1. NoRun \in RunState /\ NoRun.stage = "new" /\ NoTree \in Tree
  BY ConstantsAssumption DEF NoRun, RunState, NoTree, Tree
<1>2. /\ TypeOK
      /\ cloud.task = None /\ cloud.feature = None
      /\ \A r \in Requests : run[r].stage = "new"
  BY <1>1, ConstantsAssumption DEF Init, TypeOK
<1>3. FetchInv /\ BlockedInv /\ AloneInv
  BY <1>2 DEF FetchInv, Fetches, Fetching, BlockedInv, Processing, AloneInv, InFlight,
              HandlerStages, WorkerStages
<1>4. \A r \in Requests : Sound(r)
  BY <1>2, IdleIsSound DEF InFlight, HandlerStages, WorkerStages
<1>. QED  BY <1>2, <1>3, <1>4 DEF IInv, TreeInv, Shown

LEMMA Invariance == Spec => []IInv
BY Start, NextStep, PTL DEF Spec

-----------------------------------------------------------------------------
(* The variables keep their types: a row, a Task and a feature name the    *)
(* request that made them, an original is a whole file of Tapis or a torn  *)
(* one, for any files and any requests (services/point_cloud.py,           *)
(* tasks/point_cloud.py).                                                  *)
THEOREM TypeCorrect == Spec => []TypeOK
<1>1. IInv => TypeOK
  BY DEF IInv
<1>. QED  BY <1>1, Invariance, PTL

(* A point cloud whose Task is RUNNING, so that routes/projects.py and the *)
(* imports refuse to touch it, has a conversion or an import at work on    *)
(* it, or one of its processes was lost: the update, the import and the    *)
(* deletion that pass the guard together may set the row's Task for one    *)
(* another, but never leave it RUNNING behind them (services/              *)
(* point_cloud.py, tasks/point_cloud.py).                                  *)
THEOREM BlockedAlwaysExplained == Spec => []BlockedIsExplained
<1>1. IInv => BlockedIsExplained
  <2> SUFFICES ASSUME IInv, Processing, ~AnyLost PROVE \E r \in Requests : Behind(r)
    BY DEF BlockedIsExplained
  <2>1. cloud.task \in Requests
    BY DEF Processing, IInv, TypeOK
  <2>. QED  BY <2>1 DEF IInv, BlockedInv, Unfinished
<1>. QED  BY <1>1, Invariance, PTL

(* A point cloud that says COMPLETED shows what it holds: when its         *)
(* requests did not overlap and nobody was lost, the tree at its feature's *)
(* asset path was made from exactly the original files on disk, with the   *)
(* parameters of the row, however many imports, updates, failures and      *)
(* deletions of the feature came before (convert_to_potree).               *)
THEOREM CompletedAlwaysPublished == Spec => []CompletedIsPublished
<1>1. IInv => CompletedIsPublished
  BY IdleIsSound DEF IInv, TreeInv, Shown, CompletedIsPublished, RightTree
<1>. QED  BY <1>1, Invariance, PTL

(* Each import adds to files_info what it read of it before its last file, *)
(* and writes the sum: without overlap nobody's file is dropped from it    *)
(* (import_point_clouds_from_tapis).                                       *)
THEOREM FilesInfoOnlyGrows == Spec => ListGrows
<1>1. IInv /\ [Next]_vars => (cloud'.exists /\ ~overlapped' => cloud.info \subseteq cloud'.info)
  <2> SUFFICES ASSUME IInv, [Next]_vars, ~overlapped' PROVE cloud.info \subseteq cloud'.info
    OBVIOUS
  <2>t. /\ cloud \in [exists : BOOLEAN, task : Requests \cup {None}, info : SUBSET Files,
                      params : Params, feature : Requests \cup {None}]
        /\ run \in [Requests -> RunState]
    BY DEF IInv, TypeOK
  <2>1. CASE UNCHANGED vars
    BY <2>1 DEF vars
  <2>2. ASSUME NEW r \in Requests, Ask(r) \/ DeleteFeature(r) \/ Dies(r)
        PROVE  cloud'.info = cloud.info
    BY <2>t, <2>2 DEF Ask, AskImport, AskUpdate, AskDelete, Admit, DeleteFeature, Dies
  <2>3. ASSUME NEW r \in Requests, Handler(r) \/ Convert(r)
        PROVE  cloud'.info = cloud.info
    BY <2>t, <2>3 DEF Handler, SendImport, SaveUpdate, StartProcessing, NewTask, SendConversion,
                      WipeFiles, DeleteRow, RowGone, HandlerFindsNothing, Convert,
                      LoadParameters, StartConverter, FinishConverter, CommitResult, MoveTree,
                      ConversionFails, MoveFails
  <2>4. ASSUME NEW r \in Requests, Import(r)
        PROVE  cloud.info \subseteq cloud'.info
    <3>1. CASE ListFiles(r)
      <4>1. ~overlapped /\ run[r].stage = "listed" /\ cloud'.info = run[r].info \cup run[r].files
        BY <2>t, <3>1 DEF ListFiles, Listed
      <4>. QED  BY <4>1 DEF IInv, AloneInv
    <3>2. CASE ~ListFiles(r)
      BY <2>t, <2>4, <3>2 DEF Import, BeginImport, NewTask, FetchFile, KeepFile, GiveUp,
                              CleanupRaises, ImportFindsNothing
    <3>. QED  BY <3>1, <3>2
  <2>. QED  BY <2>1, <2>2, <2>3, <2>4 DEF Next, Step
<1>. QED  BY <1>1, Invariance, PTL DEF Spec, ListGrows
=============================================================================
