-------------------------- MODULE ImportWatch_proofs --------------------------
(***************************************************************************)
(* Theorems about ImportWatch, for every number of workers, projects and   *)
(* files, with their proofs.                                               *)
(***************************************************************************)
EXTENDS ImportWatch, FiniteSetTheorems, TLAPS

-----------------------------------------------------------------------------
(***************************************************************************)
(* The invariant.  A placeholder is taken away by the pass that made it,   *)
(* so even "the counts are natural numbers" needs the accounting, and the  *)
(* accounting needs to know whose file a worker has in hand.               *)
(***************************************************************************)
InProject == {"listing", "files", "file", "asset", "mark"}

(* What a worker's local state says about itself.                          *)
Sound(state) ==
    /\ state.queue \subseteq created
    /\ state.stage = "projects" => state.todo = {}
    /\ state.stage \in InProject =>
          state.project \in created /\ state.todo \subseteq FilesOf(state.project)
    /\ state.stage \in InFile =>
          state.file \in Files /\ Owner[state.file] = state.project
    /\ state.stage = "asset" => state.file \in Rapp
    /\ state.unsaved => state.stage = "mark" /\ state.outcome = "bad"

LocalInv ==
    /\ projects \subseteq created
    /\ enqueued \subseteq created
    /\ \A w \in Workers : Sound(pass[w])

(* The features of a project are gone with it; while it exists, those of   *)
(* each of its files are accounted for, and none is missing.               *)
Balanced(f) ==
    /\ Owner[f] \notin projects => copies[f] = 0 /\ placeholders[f] = 0
    /\ Owner[f] \in projects =>
          /\ Cardinality(Placing(f)) <= placeholders[f]
          /\ placeholders[f] <= Cardinality(Placing(f)) + Excused(f)
          /\ copies[f] + placeholders[f] <=
               marks[f]["ok"] + marks[f]["bad"] + Cardinality(Owed(f)) + Excused(f)

IInv == TypeOK /\ LocalInv /\ \A f \in Files : Balanced(f)

LEMMA ExcusedCount ==
    ASSUME TypeOK, NEW f \in Files
    PROVE  Excused(f) \in Nat
<1>1. crashes \in Nat /\ stranded[f] \in Nat
  BY DEF TypeOK
<1>. QED  BY <1>1 DEF Excused

LEMMA ExcusedNext ==
    ASSUME NEW f \in Files, crashes' \in Nat, stranded' \in [Files -> Nat]
    PROVE  Excused(f)' \in Nat
<1>1. stranded'[f] \in Nat
  OBVIOUS
<1>2. Excused(f)' = crashes' + IF f \in Rapp \cap Poison THEN stranded'[f] ELSE 0
  BY DEF Excused
<1>3. (IF f \in Rapp \cap Poison THEN stranded'[f] ELSE 0) \in Nat
  BY <1>1
<1>4. \A m, n \in Nat : m + n \in Nat
  OBVIOUS
<1>. QED  BY <1>2, <1>3, <1>4

-----------------------------------------------------------------------------
(* Counting the workers of a kind when one of them changes state.          *)

LEMMA WorkersCount ==
    ASSUME NEW S \in SUBSET Workers
    PROVE  IsFiniteSet(S) /\ Cardinality(S) \in Nat
BY ConstantsAssumption, FS_Subset, FS_CardinalityType

LEMMA OneMoves ==
    ASSUME NEW S \in SUBSET Workers, NEW T \in SUBSET Workers, NEW w \in Workers,
           S \ {w} = T \ {w}
    PROVE  /\ (w \in S <=> w \in T) => Cardinality(T) = Cardinality(S)
           /\ w \in S /\ w \notin T => Cardinality(T) = Cardinality(S) - 1
           /\ w \notin S /\ w \in T => Cardinality(T) = Cardinality(S) + 1
<1>1. CASE w \in S <=> w \in T
  <2>1. S = T
    BY <1>1
  <2>. QED  BY <1>1, <2>1
<1>2. CASE w \in S /\ w \notin T
  <2>1. T = S \ {w}
    BY <1>2
  <2>. QED  BY <1>2, <2>1, WorkersCount, FS_RemoveElement
<1>3. CASE w \notin S /\ w \in T
  <2>1. T = S \cup {w}
    BY <1>3
  <2>. QED  BY <1>3, <2>1, WorkersCount, FS_AddElement
<1>. QED  BY <1>1, <1>2, <1>3

D(b) == IF b THEN 1 ELSE 0

LEMMA Counted ==
    ASSUME TypeOK, NEW w \in Workers, NEW state, NEW f \in Files,
           pass' = [pass EXCEPT ![w] = state]
    PROVE  /\ Cardinality(Placing(f)) \in Nat /\ Cardinality(Owed(f)) \in Nat
           /\ Cardinality(Placing(f))' =
                Cardinality(Placing(f)) + D(IsPlacing(state, f)) - D(IsPlacing(pass[w], f))
           /\ Cardinality(Owed(f))' =
                Cardinality(Owed(f)) + D(IsOwed(state, f)) - D(IsOwed(pass[w], f))
<1>1. \A v \in Workers : pass'[v] = IF v = w THEN state ELSE pass[v]
  BY DEF TypeOK
<1>2. Placing(f) \in SUBSET Workers /\ Owed(f) \in SUBSET Workers
  BY DEF Placing, Owed
<1>3. Placing(f)' \in SUBSET Workers /\ Owed(f)' \in SUBSET Workers
  BY DEF Placing, Owed
<1>4. /\ w \in Placing(f) <=> IsPlacing(pass[w], f)
      /\ w \in Owed(f) <=> IsOwed(pass[w], f)
      /\ w \in Placing(f)' <=> IsPlacing(state, f)
      /\ w \in Owed(f)' <=> IsOwed(state, f)
  BY <1>1 DEF Placing, Owed
<1>5. Placing(f) \ {w} = Placing(f)' \ {w} /\ Owed(f) \ {w} = Owed(f)' \ {w}
  BY <1>1 DEF Placing, Owed
<1>6. Cardinality(Placing(f)') =
        Cardinality(Placing(f)) + D(IsPlacing(state, f)) - D(IsPlacing(pass[w], f))
  BY <1>2, <1>3, <1>4, <1>5, OneMoves, WorkersCount DEF D
<1>7. Cardinality(Owed(f)') =
        Cardinality(Owed(f)) + D(IsOwed(state, f)) - D(IsOwed(pass[w], f))
  BY <1>2, <1>3, <1>4, <1>5, OneMoves, WorkersCount DEF D
<1>. QED
  BY <1>2, <1>6, <1>7, WorkersCount

-----------------------------------------------------------------------------
(***************************************************************************)
(* A step of one worker.  What it adds to the map must be covered by what  *)
(* it marks and by what it now owes.                                       *)
(***************************************************************************)
LEMMA WorkerMoves ==
    ASSUME IInv, NEW w \in Workers, NEW state \in PassState, Sound(state),
           pass' = [pass EXCEPT ![w] = state],
           UNCHANGED <<projects, created>>, enqueued' \subseteq enqueued,
           copies' \in [Files -> Int], placeholders' \in [Files -> Int],
           marks' \in [Files -> [Outcome -> Nat]], crashes' \in Nat,
           stranded' \in [Files -> Nat],
           \A f \in Files :
              /\ copies'[f] >= copies[f]
              /\ Owner[f] \notin projects =>
                    copies'[f] = copies[f] /\ placeholders'[f] = placeholders[f]
              /\ Owner[f] \in projects =>
                    /\ D(IsPlacing(state, f)) - D(IsPlacing(pass[w], f))
                         <= placeholders'[f] - placeholders[f]
                    /\ placeholders'[f] - placeholders[f]
                         <= D(IsPlacing(state, f)) - D(IsPlacing(pass[w], f))
                            + Excused(f)' - Excused(f)
                    /\ (copies'[f] + placeholders'[f]) - (copies[f] + placeholders[f])
                         <= (marks'[f]["ok"] + marks'[f]["bad"])
                            - (marks[f]["ok"] + marks[f]["bad"])
                            + D(IsOwed(state, f)) - D(IsOwed(pass[w], f)) + Excused(f)' - Excused(f)
    PROVE  IInv'
<1>. USE DEF IInv
<1>1. LocalInv'
  <2>1. \A v \in Workers : pass'[v] = IF v = w THEN state ELSE pass[v]
    BY DEF TypeOK
  <2>. QED
    BY <2>1 DEF LocalInv, Sound
<1>2. ASSUME NEW f \in Files
      PROVE  Balanced(f)' /\ copies'[f] \in Nat /\ placeholders'[f] \in Nat
  <2>1. /\ Cardinality(Placing(f)) \in Nat /\ Cardinality(Owed(f)) \in Nat
        /\ Cardinality(Placing(f))' =
             Cardinality(Placing(f)) + D(IsPlacing(state, f)) - D(IsPlacing(pass[w], f))
        /\ Cardinality(Owed(f))' =
             Cardinality(Owed(f)) + D(IsOwed(state, f)) - D(IsOwed(pass[w], f))
    BY Counted
  <2>2. Cardinality(Placing(f))' \in Nat
    <3>1. Placing(f)' \in SUBSET Workers
      BY DEF Placing
    <3>. QED  BY <3>1, WorkersCount
  <2>3. /\ copies[f] \in Nat /\ placeholders[f] \in Nat
        /\ copies'[f] \in Int /\ placeholders'[f] \in Int
        /\ Excused(f) \in Nat
        /\ \A o \in Outcome : marks[f][o] \in Nat /\ marks'[f][o] \in Nat
    BY ExcusedCount DEF TypeOK
  <2>e. Excused(f)' \in Nat
    BY ExcusedNext
  <2>4. "ok" \in Outcome /\ "bad" \in Outcome
    BY DEF Outcome
  <2>5. /\ D(IsPlacing(state, f)) \in Int /\ D(IsPlacing(pass[w], f)) \in Int
        /\ D(IsOwed(state, f)) \in Int /\ D(IsOwed(pass[w], f)) \in Int
    BY DEF D
  <2>6. Balanced(f)
    OBVIOUS
  <2>7. CASE Owner[f] \in projects
    <3>1. /\ Cardinality(Placing(f))' <= placeholders'[f]
          /\ placeholders'[f] <= Cardinality(Placing(f))' + Excused(f)'
          /\ copies'[f] + placeholders'[f] <=
               marks'[f]["ok"] + marks'[f]["bad"] + Cardinality(Owed(f))' + Excused(f)'
      BY <2>1, <2>3, <2>4, <2>5, <2>6, <2>7, <2>e DEF Balanced
    <3>2. Balanced(f)'
      BY <2>7, <3>1 DEF Balanced
    <3>. QED  BY <2>2, <2>3, <2>7, <3>1, <3>2
  <2>8. CASE Owner[f] \notin projects
    BY <2>3, <2>6, <2>8 DEF Balanced
  <2>. QED  BY <2>7, <2>8
<1>3. TypeOK'
  <2>1. copies' \in [Files -> Nat] /\ placeholders' \in [Files -> Nat]
    BY <1>2
  <2>2. pass' \in [Workers -> PassState]
    BY DEF TypeOK
  <2>. QED
    BY <2>1, <2>2 DEF TypeOK
<1>. QED
  BY <1>1, <1>2, <1>3

(* A local step that owes the same as before.                              *)
LEMMA LocalMoves ==
    ASSUME IInv, NEW w \in Workers, NEW state \in PassState, Sound(state),
           pass' = [pass EXCEPT ![w] = state],
           UNCHANGED <<projects, created, map, crashes>>, enqueued' \subseteq enqueued,
           \A f \in Files : Owner[f] \in projects =>
              /\ IsPlacing(state, f) <=> IsPlacing(pass[w], f)
              /\ IsOwed(pass[w], f) => IsOwed(state, f)
    PROVE  IInv'
<1>1. ASSUME NEW f \in Files
      PROVE  /\ copies[f] \in Nat /\ placeholders[f] \in Nat
             /\ marks[f]["ok"] \in Nat /\ marks[f]["bad"] \in Nat
             /\ Excused(f) \in Nat /\ Excused(f)' = Excused(f)
  BY ExcusedCount DEF IInv, TypeOK, Outcome, Excused, map
<1>2. ASSUME NEW f \in Files, Owner[f] \in projects
      PROVE  /\ D(IsPlacing(state, f)) = D(IsPlacing(pass[w], f))
             /\ D(IsOwed(state, f)) >= D(IsOwed(pass[w], f))
             /\ D(IsPlacing(state, f)) \in Int /\ D(IsOwed(state, f)) \in Int
             /\ D(IsOwed(pass[w], f)) \in Int
  BY <1>2 DEF D
<1>3. /\ copies' \in [Files -> Int] /\ placeholders' \in [Files -> Int]
      /\ marks' \in [Files -> [Outcome -> Nat]] /\ crashes' \in Nat
      /\ stranded' \in [Files -> Nat]
  BY DEF IInv, TypeOK, map
<1>4. \A f \in Files :
              /\ copies'[f] >= copies[f]
              /\ Owner[f] \notin projects =>
                    copies'[f] = copies[f] /\ placeholders'[f] = placeholders[f]
              /\ Owner[f] \in projects =>
                    /\ D(IsPlacing(state, f)) - D(IsPlacing(pass[w], f))
                         <= placeholders'[f] - placeholders[f]
                    /\ placeholders'[f] - placeholders[f]
                         <= D(IsPlacing(state, f)) - D(IsPlacing(pass[w], f))
                            + Excused(f)' - Excused(f)
                    /\ (copies'[f] + placeholders'[f]) - (copies[f] + placeholders[f])
                         <= (marks'[f]["ok"] + marks'[f]["bad"])
                            - (marks[f]["ok"] + marks[f]["bad"])
                            + D(IsOwed(state, f)) - D(IsOwed(pass[w], f)) + Excused(f)' - Excused(f)
  BY <1>1, <1>2 DEF map
<1>. QED
  BY <1>3, <1>4, WorkerMoves DEF map

(* A commit for the file in hand leaves all others as they were.           *)
LEMMA CommitMoves ==
    ASSUME IInv, NEW w \in Workers, NEW state \in PassState, Sound(state),
           pass' = [pass EXCEPT ![w] = state],
           UNCHANGED <<projects, enqueued, created, stranded, crashes>>,
           NEW i \in Files, Owner[i] \in projects,
           pass[w].file = i, state.file \in {i, NoFile},
           copies' \in [Files -> Int], placeholders' \in [Files -> Int],
           marks' \in [Files -> [Outcome -> Nat]],
           \A f \in Files \ {i} : /\ copies'[f] = copies[f]
                                  /\ placeholders'[f] = placeholders[f]
                                  /\ marks'[f] = marks[f],
           copies'[i] >= copies[i],
           placeholders'[i] - placeholders[i] = D(IsPlacing(state, i)) - D(IsPlacing(pass[w], i)),
           (copies'[i] + placeholders'[i]) - (copies[i] + placeholders[i])
             <= (marks'[i]["ok"] + marks'[i]["bad"]) - (marks[i]["ok"] + marks[i]["bad"])
                + D(IsOwed(state, i)) - D(IsOwed(pass[w], i))
    PROVE  IInv'
<1>1. /\ crashes' \in Nat /\ stranded' \in [Files -> Nat]
      /\ UNCHANGED <<projects, created>> /\ enqueued' \subseteq enqueued
  BY DEF IInv, TypeOK
<1>2. ASSUME NEW f \in Files
      PROVE  /\ copies[f] \in Nat /\ placeholders[f] \in Nat
             /\ copies'[f] \in Int /\ placeholders'[f] \in Int
             /\ marks[f]["ok"] \in Nat /\ marks[f]["bad"] \in Nat
             /\ marks'[f]["ok"] \in Nat /\ marks'[f]["bad"] \in Nat
  BY DEF IInv, TypeOK, Outcome
<1>3. ASSUME NEW f \in Files \ {i}
      PROVE  /\ D(IsPlacing(state, f)) = 0 /\ D(IsPlacing(pass[w], f)) = 0
             /\ D(IsOwed(state, f)) = 0 /\ D(IsOwed(pass[w], f)) = 0
  BY ConstantsAssumption DEF D, IsPlacing, IsOwed
<1>4. ASSUME NEW f \in Files
      PROVE   /\ copies'[f] >= copies[f]
              /\ Owner[f] \notin projects =>
                    copies'[f] = copies[f] /\ placeholders'[f] = placeholders[f]
              /\ Owner[f] \in projects =>
                    /\ D(IsPlacing(state, f)) - D(IsPlacing(pass[w], f))
                         <= placeholders'[f] - placeholders[f]
                    /\ placeholders'[f] - placeholders[f]
                         <= D(IsPlacing(state, f)) - D(IsPlacing(pass[w], f))
                            + Excused(f)' - Excused(f)
                    /\ (copies'[f] + placeholders'[f]) - (copies[f] + placeholders[f])
                         <= (marks'[f]["ok"] + marks'[f]["bad"])
                            - (marks[f]["ok"] + marks[f]["bad"])
                            + D(IsOwed(state, f)) - D(IsOwed(pass[w], f)) + Excused(f)' - Excused(f)
  <2>1. Excused(f) \in Int /\ Excused(f)' = Excused(f)
    BY ExcusedCount DEF IInv, Excused
  <2>2. CASE f = i
    <3>1. /\ D(IsPlacing(state, i)) \in Int /\ D(IsPlacing(pass[w], i)) \in Int
          /\ D(IsOwed(state, i)) \in Int /\ D(IsOwed(pass[w], i)) \in Int
      BY DEF D
    <3>. QED  BY <1>1, <1>2, <2>1, <2>2, <3>1
  <2>3. CASE f # i
    BY <1>1, <1>2, <1>3, <2>1, <2>3
  <2>. QED  BY <2>2, <2>3
<1>. QED
  BY <1>1, <1>4, WorkerMoves

LEMMA IdleFits ==
    /\ Idle \in PassState
    /\ Sound(Idle)
    /\ \A f \in Files : ~IsPlacing(Idle, f) /\ ~IsOwed(Idle, f)
BY DEF Idle, PassState, Stages, Outcome, Sound, InProject, InFile, IsPlacing, IsOwed

(* An ended task owes nothing: if it stood between a commit and a mark,    *)
(* that was for a project that is gone.                                    *)
LEMMA EndMoves ==
    ASSUME IInv, NEW w \in Workers, Ends(w),
           pass[w].stage \in {"asset", "mark"} =>
              \/ pass[w].project \notin projects
              \/ pass[w].stage = "mark" /\ pass[w].unsaved
    PROVE  IInv'
<1>1. Sound(pass[w])
  BY DEF IInv, LocalInv
<1>2. ASSUME NEW f \in Files, Owner[f] \in projects
      PROVE  ~IsPlacing(pass[w], f) /\ ~IsOwed(pass[w], f)
  BY <1>1, <1>2 DEF Sound, InFile, IsPlacing, IsOwed
<1>3. /\ pass' = [pass EXCEPT ![w] = Idle] /\ enqueued' \subseteq enqueued
      /\ UNCHANGED <<projects, created, map, crashes>>
  BY DEF Ends, Local
<1>. QED
  BY <1>2, <1>3, IdleFits, LocalMoves

(* Between projects, and within one until a file is in hand.               *)
LEMMA ProjectsStep ==
    ASSUME IInv, NEW w \in Workers,
           \/ Starts(w) \/ List(w) \/ ProjectFails(w) \/ ProjectDone(w) \/ EndPass(w)
           \/ \E p \in Projects : Visit(w, p) \/ PassOver(w, p) \/ ProjectVanished(w, p)
    PROVE  IInv'
<1>. DEFINE now == pass[w]
<1>0. now \in PassState /\ Sound(now) /\ projects \subseteq created /\ enqueued \subseteq created
      /\ created \subseteq Projects
  BY DEF IInv, TypeOK, LocalInv
<1>. DEFINE Quiet(state) ==
       /\ state \in PassState /\ Sound(state)
       /\ state.stage \notin {"asset", "mark"} /\ now.stage \notin {"asset", "mark"}
       /\ pass' = [pass EXCEPT ![w] = state]
       /\ UNCHANGED <<projects, created, map, crashes>>
       /\ enqueued' \subseteq enqueued
<1>1. ASSUME NEW state, Quiet(state)
      PROVE  IInv'
  <2>1. \A f \in Files : /\ ~IsPlacing(state, f) /\ ~IsPlacing(now, f)
                         /\ ~IsOwed(state, f) /\ ~IsOwed(now, f)
    BY <1>1 DEF IsPlacing, IsOwed
  <2>. QED
    BY <1>1, <2>1, LocalMoves
<1>. USE DEF Local, Sound, InProject, InFile
<1>2. CASE StartHourly(w)
  <2>. DEFINE state == [Idle EXCEPT !.stage = "projects", !.hourly = TRUE, !.queue = projects]
  <2>1. state \in PassState /\ state.stage = "projects" /\ state.queue = projects
        /\ ~state.unsaved /\ state.todo = {}
    BY <1>0, IdleFits DEF PassState, Stages, Idle
  <2>. QED
    BY <1>0, <1>1, <1>2, <2>1 DEF StartHourly
<1>3. ASSUME NEW p \in Projects, StartSingle(w, p) PROVE IInv'
  <2>. DEFINE state == [Idle EXCEPT !.stage = "listing", !.project = p]
  <2>1. state \in PassState /\ state.stage = "listing" /\ state.queue = {}
        /\ ~state.unsaved /\ state.project = p /\ state.todo = {}
    BY IdleFits DEF PassState, Stages, Idle
  <2>. QED
    BY <1>0, <1>1, <1>3, <2>1 DEF StartSingle
<1>4. ASSUME NEW p \in Projects, Visit(w, p) PROVE IInv'
  <2>. DEFINE state == [now EXCEPT !.stage = "listing", !.project = p, !.queue = @ \ {p}]
  <2>1. state \in PassState
    BY <1>0 DEF PassState, Stages
  <2>2. /\ state.stage = "listing" /\ state.project = p /\ state.queue = now.queue \ {p}
        /\ state.todo = now.todo /\ state.unsaved = now.unsaved
    BY <1>0 DEF PassState
  <2>3. now.stage = "projects" /\ p \in created /\ pass' = [pass EXCEPT ![w] = state]
    BY <1>0, <1>4 DEF Visit
  <2>. QED
    BY <1>0, <1>1, <1>4, <2>1, <2>2, <2>3 DEF Visit
<1>5. ASSUME NEW p \in Projects, PassOver(w, p) PROVE IInv'
  <2>. DEFINE state == [now EXCEPT !.queue = @ \ {p}]
  <2>1. state \in PassState
    BY <1>0 DEF PassState
  <2>. QED
    BY <1>0, <1>1, <1>5, <2>1 DEF PassOver, PassState
<1>6. ASSUME NEW p \in Projects, ProjectVanished(w, p) PROVE IInv'
  BY <1>6, EndMoves DEF ProjectVanished
<1>7. CASE EndPass(w)
  BY <1>7, EndMoves DEF EndPass
<1>8. CASE List(w)
  <2>1. PICK found \in SUBSET FilesOf(now.project), expired \in {now.expired, TRUE} :
          /\ now.stage = "listing"
          /\ pass' = [pass EXCEPT ![w].stage = "files", ![w].todo = found,
                                  ![w].expired = expired]
          /\ UNCHANGED Local
    BY <1>8 DEF List, Listed
  <2>. DEFINE state == [now EXCEPT !.stage = "files", !.todo = found, !.expired = expired]
  <2>2. state \in PassState
    BY <1>0, <2>1 DEF PassState, Stages, FilesOf
  <2>3. state.stage = "files" /\ state.todo = found /\ state.project = now.project
        /\ state.queue = now.queue /\ state.unsaved = now.unsaved
        /\ pass' = [pass EXCEPT ![w] = state]
    BY <1>0, <2>1 DEF PassState
  <2>. QED
    BY <1>0, <1>1, <2>1, <2>2, <2>3
<1>9. CASE ProjectFails(w)
  <2>1. now.stage \in {"listing", "files"}
    BY <1>9 DEF ProjectFails
  <2>2. CASE Ends(w)
    BY <2>1, <2>2, EndMoves
  <2>. DEFINE state == [now EXCEPT !.stage = "projects", !.project = NoProject,
                                   !.todo = {}, !.expired = TRUE]
  <2>3. CASE pass' = [pass EXCEPT ![w] = state] /\ UNCHANGED Local
    <3>1. state \in PassState
      BY <1>0 DEF PassState, Stages
    <3>2. /\ state.stage = "projects" /\ state.todo = {} /\ state.queue = now.queue
          /\ state.unsaved = now.unsaved
      BY <1>0 DEF PassState
    <3>. QED
      BY <1>0, <1>1, <2>1, <2>3, <3>1, <3>2
  <2>. QED
    BY <1>9, <2>2, <2>3 DEF ProjectFails
<1>10. CASE ProjectDone(w)
  <2>1. now.stage = "files" /\ now.todo = {}
    BY <1>10 DEF ProjectDone
  <2>2. CASE Ends(w)
    BY <2>1, <2>2, EndMoves
  <2>. DEFINE state == [now EXCEPT !.stage = "projects", !.project = NoProject]
  <2>3. CASE pass' = [pass EXCEPT ![w] = state] /\ UNCHANGED Local
    <3>1. state \in PassState
      BY <1>0 DEF PassState, Stages
    <3>2. /\ state.stage = "projects" /\ state.todo = now.todo /\ state.queue = now.queue
          /\ state.unsaved = now.unsaved
      BY <1>0 DEF PassState
    <3>. QED
      BY <1>0, <1>1, <2>1, <2>3, <3>1, <3>2
  <2>. QED
    BY <1>10, <2>2, <2>3 DEF ProjectDone
<1>. QED
  BY <1>2, <1>3, <1>4, <1>5, <1>6, <1>7, <1>8, <1>9, <1>10 DEF Starts
(* With a file in hand.                                                    *)
LEMMA FilesStep ==
    ASSUME IInv, NEW w \in Workers,
           FileStep(w) \/ WorkerDies(w) \/ \E f \in Files : Check(w, f)
    PROVE  IInv'
<1>. DEFINE now == pass[w]
            i   == InHand(w)
<1>0. now \in PassState /\ Sound(now) /\ projects \subseteq created
  BY DEF IInv, TypeOK, LocalInv
<1>. USE DEF InFile, InProject, InHand
<1>1. /\ copies \in [Files -> Nat] /\ placeholders \in [Files -> Nat]
      /\ marks \in [Files -> [Outcome -> Nat]] /\ crashes \in Nat
      /\ "ok" \in Outcome /\ "bad" \in Outcome /\ "unfetched" \in Outcome
  BY DEF IInv, TypeOK, Outcome
<1>2. ASSUME NEW f \in Files, Check(w, f) PROVE IInv'
  <2>. DEFINE state == [now EXCEPT !.todo  = @ \ {f},
                                   !.stage = IF Marked(f) THEN "files" ELSE "file",
                                   !.file  = IF Marked(f) THEN NoFile ELSE f]
  <2>1. now.stage = "files" /\ f \in now.todo /\ pass' = [pass EXCEPT ![w] = state]
        /\ UNCHANGED Local
    BY <1>2 DEF Check
  <2>2. state \in PassState
    BY <1>0 DEF PassState, Stages
  <2>3. /\ state.todo = now.todo \ {f} /\ state.project = now.project /\ state.queue = now.queue
        /\ state.unsaved = now.unsaved
        /\ \/ state.stage = "files"
           \/ state.stage = "file" /\ state.file = f
    BY <1>0 DEF PassState
  <2>4. Sound(state)
    BY <1>0, <2>1, <2>3 DEF Sound, FilesOf
  <2>. QED
    BY <2>1, <2>2, <2>3, <2>4, LocalMoves DEF Local, IsPlacing, IsOwed
<1>3. CASE SkipFile(w)
  <2>. DEFINE state == [now EXCEPT !.stage = "files", !.file = NoFile]
  <2>1. now.stage = "file" /\ pass' = [pass EXCEPT ![w] = state] /\ UNCHANGED Local
    BY <1>3 DEF SkipFile
  <2>2. state \in PassState
    BY <1>0 DEF PassState, Stages
  <2>3. state.todo = now.todo /\ state.project = now.project /\ state.queue = now.queue
        /\ state.unsaved = now.unsaved /\ state.stage = "files"
    BY <1>0 DEF PassState
  <2>4. Sound(state)
    BY <1>0, <2>1, <2>3 DEF Sound
  <2>. QED
    BY <2>1, <2>2, <2>3, <2>4, LocalMoves DEF Local, IsPlacing, IsOwed
<1>4. CASE FetchFails(w)
  <2>. DEFINE state == [now EXCEPT !.stage = "mark", !.outcome = "unfetched"]
  <2>1. now.stage = "file" /\ pass' = [pass EXCEPT ![w] = state] /\ UNCHANGED Local
    BY <1>4 DEF FetchFails
  <2>2. state \in PassState
    BY <1>0, <1>1 DEF PassState, Stages
  <2>3. state.todo = now.todo /\ state.project = now.project /\ state.queue = now.queue
        /\ state.unsaved = now.unsaved /\ state.stage = "mark" /\ state.file = now.file
        /\ state.outcome = "unfetched"
    BY <1>0 DEF PassState
  <2>4. Sound(state)
    BY <1>0, <2>1, <2>3 DEF Sound
  <2>. QED
    BY <2>1, <2>2, <2>3, <2>4, LocalMoves DEF Local, IsPlacing, IsOwed
<1>5. CASE ConvertFails(w)
  <2>1. PICK some \in BOOLEAN :
          pass' = [pass EXCEPT ![w].stage = "mark", ![w].outcome = "bad", ![w].unsaved = some]
    BY <1>5 DEF ConvertFails
  <2>. DEFINE state == [now EXCEPT !.stage = "mark", !.outcome = "bad", !.unsaved = some]
  <2>2. now.stage = "file" /\ pass' = [pass EXCEPT ![w] = state] /\ UNCHANGED Local
    BY <1>5, <2>1 DEF ConvertFails
  <2>3. state \in PassState
    BY <1>0, <1>1 DEF PassState, Stages
  <2>4. state.todo = now.todo /\ state.project = now.project /\ state.queue = now.queue
        /\ state.stage = "mark" /\ state.file = now.file /\ state.outcome = "bad"
    BY <1>0 DEF PassState
  <2>5. Sound(state)
    BY <1>0, <2>2, <2>4 DEF Sound
  <2>. QED
    BY <2>2, <2>3, <2>4, <2>5, LocalMoves DEF Local, IsPlacing, IsOwed
<1>6. CASE FlushFails(w)
  <2>1. now.stage \in {"asset", "mark"} =>
          now.project \notin projects \/ (now.stage = "mark" /\ now.unsaved)
    BY <1>6 DEF FlushFails
  <2>. QED
    BY <1>6, <2>1, EndMoves DEF FlushFails
(* The commits: the file in hand is one of an existing project.            *)
<1>7. ASSUME NEW stage \in {"asset", "mark"}, NEW outcome \in {"ok", "bad"},
             Committed(w, stage, outcome), now.stage \in InFile, stage = "asset" => i \in Rapp
      PROVE  \E state \in PassState :
               /\ pass' = [pass EXCEPT ![w] = state] /\ Sound(state)
               /\ state.stage = stage /\ state.outcome = outcome /\ state.file = i
  <2>. DEFINE state == [now EXCEPT !.stage = stage, !.outcome = outcome,
                                   !.unsaved = FALSE, !.expired = TRUE]
  <2>1. pass' = [pass EXCEPT ![w] = state]
    BY <1>7 DEF Committed
  <2>2. state \in PassState
    BY <1>0, <1>1 DEF PassState, Stages
  <2>3. /\ state.todo = now.todo /\ state.project = now.project /\ state.queue = now.queue
        /\ state.unsaved = FALSE /\ state.stage = stage /\ state.file = now.file
        /\ state.outcome = outcome
    BY <1>0 DEF PassState
  <2>4. Sound(state)
    BY <1>0, <1>7, <2>3 DEF Sound
  <2>. QED
    BY <2>1, <2>2, <2>3, <2>4
<1>8. now.stage \in InFile /\ now.project \in projects => i \in Files /\ Owner[i] \in projects
  BY <1>0 DEF Sound
<1>9. now.stage \in InFile =>
        /\ IsPlacing(now, i) <=> now.stage = "asset"
        /\ IsOwed(now, i) <=> now.stage = "asset" \/ (now.stage = "mark" /\ now.outcome = "ok")
  BY DEF IsPlacing, IsOwed
<1>10. i \in Files => /\ copies[i] \in Nat /\ placeholders[i] \in Nat
                     /\ marks[i]["ok"] \in Nat /\ marks[i]["bad"] \in Nat
  BY <1>1
<1>11. CASE SaveFeatures(w)
  <2>1. PICK state \in PassState :
               /\ pass' = [pass EXCEPT ![w] = state] /\ Sound(state)
               /\ state.stage = "mark" /\ state.outcome = "ok" /\ state.file = i
    BY <1>7, <1>11 DEF SaveFeatures
  <2>2. /\ now.stage = "file" /\ i \in Files /\ Owner[i] \in projects
        /\ copies' = [copies EXCEPT ![i] = @ + 1]
        /\ UNCHANGED <<projects, enqueued, created, placeholders, marks, stranded, crashes>>
    BY <1>8, <1>11 DEF SaveFeatures
  <2>3. /\ D(IsPlacing(state, i)) = 0 /\ D(IsPlacing(now, i)) = 0
        /\ D(IsOwed(state, i)) = 1 /\ D(IsOwed(now, i)) = 0
    BY <2>1, <2>2 DEF IsPlacing, IsOwed, D
  <2>4. copies' \in [Files -> Int] /\ copies'[i] = copies[i] + 1
    BY <1>1, <2>2
  <2>5. /\ copies' \in [Files -> Int] /\ placeholders' \in [Files -> Int]
        /\ marks' \in [Files -> [Outcome -> Nat]]
        /\ \A f \in Files \ {i} : /\ copies'[f] = copies[f]
                                 /\ placeholders'[f] = placeholders[f]
                                 /\ marks'[f] = marks[f]
    BY <1>1, <2>2, <2>4
  <2>6. /\ copies'[i] >= copies[i]
        /\ placeholders'[i] - placeholders[i] = D(IsPlacing(state, i)) - D(IsPlacing(now, i))
        /\ (copies'[i] + placeholders'[i]) - (copies[i] + placeholders[i])
              <= (marks'[i]["ok"] + marks'[i]["bad"]) - (marks[i]["ok"] + marks[i]["bad"])
                 + D(IsOwed(state, i)) - D(IsOwed(now, i))
    BY <1>10, <2>2, <2>3, <2>4
  <2>. QED
    BY <2>1, <2>2, <2>5, <2>6, CommitMoves
<1>12. CASE PlaceFeature(w)
  <2>1. PICK state \in PassState :
               /\ pass' = [pass EXCEPT ![w] = state] /\ Sound(state)
               /\ state.stage = "asset" /\ state.outcome = "ok" /\ state.file = i
    BY <1>7, <1>12 DEF PlaceFeature
  <2>2. /\ now.stage = "file" /\ i \in Files /\ Owner[i] \in projects
        /\ placeholders' = [placeholders EXCEPT ![i] = @ + 1]
        /\ UNCHANGED <<projects, enqueued, created, copies, marks, stranded, crashes>>
    BY <1>8, <1>12 DEF PlaceFeature
  <2>3. /\ D(IsPlacing(state, i)) = 1 /\ D(IsPlacing(now, i)) = 0
        /\ D(IsOwed(state, i)) = 1 /\ D(IsOwed(now, i)) = 0
    BY <2>1, <2>2 DEF IsPlacing, IsOwed, D
  <2>4. placeholders' \in [Files -> Int] /\ placeholders'[i] = placeholders[i] + 1
    BY <1>1, <2>2
  <2>5. /\ copies' \in [Files -> Int] /\ placeholders' \in [Files -> Int]
        /\ marks' \in [Files -> [Outcome -> Nat]]
        /\ \A f \in Files \ {i} : /\ copies'[f] = copies[f]
                                 /\ placeholders'[f] = placeholders[f]
                                 /\ marks'[f] = marks[f]
    BY <1>1, <2>2, <2>4
  <2>6. /\ copies'[i] >= copies[i]
        /\ placeholders'[i] - placeholders[i] = D(IsPlacing(state, i)) - D(IsPlacing(now, i))
        /\ (copies'[i] + placeholders'[i]) - (copies[i] + placeholders[i])
              <= (marks'[i]["ok"] + marks'[i]["bad"]) - (marks[i]["ok"] + marks[i]["bad"])
                 + D(IsOwed(state, i)) - D(IsOwed(now, i))
    BY <1>10, <2>2, <2>3, <2>4
  <2>. QED
    BY <2>1, <2>2, <2>5, <2>6, CommitMoves
<1>13. CASE AttachAsset(w)
  <2>1. PICK state \in PassState :
               /\ pass' = [pass EXCEPT ![w] = state] /\ Sound(state)
               /\ state.stage = "mark" /\ state.outcome = "ok" /\ state.file = i
    BY <1>7, <1>13 DEF AttachAsset
  <2>2. /\ now.stage = "asset" /\ i \in Files /\ Owner[i] \in projects
        /\ placeholders' = [placeholders EXCEPT ![i] = @ - 1]
        /\ copies' = [copies EXCEPT ![i] = @ + 1]
        /\ UNCHANGED <<projects, enqueued, created, marks, stranded, crashes>>
    BY <1>8, <1>13 DEF AttachAsset
  <2>3. /\ D(IsPlacing(state, i)) = 0 /\ D(IsPlacing(now, i)) = 1
        /\ D(IsOwed(state, i)) = 1 /\ D(IsOwed(now, i)) = 1
    BY <2>1, <2>2 DEF IsPlacing, IsOwed, D
  <2>4. /\ placeholders' \in [Files -> Int] /\ placeholders'[i] = placeholders[i] - 1
        /\ copies' \in [Files -> Int] /\ copies'[i] = copies[i] + 1
    BY <1>1, <2>2
  <2>5. /\ copies' \in [Files -> Int] /\ placeholders' \in [Files -> Int]
        /\ marks' \in [Files -> [Outcome -> Nat]]
        /\ \A f \in Files \ {i} : /\ copies'[f] = copies[f]
                                 /\ placeholders'[f] = placeholders[f]
                                 /\ marks'[f] = marks[f]
    BY <1>1, <2>2, <2>4
  <2>6. /\ copies'[i] >= copies[i]
        /\ placeholders'[i] - placeholders[i] = D(IsPlacing(state, i)) - D(IsPlacing(now, i))
        /\ (copies'[i] + placeholders'[i]) - (copies[i] + placeholders[i])
              <= (marks'[i]["ok"] + marks'[i]["bad"]) - (marks[i]["ok"] + marks[i]["bad"])
                 + D(IsOwed(state, i)) - D(IsOwed(now, i))
    BY <1>10, <2>2, <2>3, <2>4
  <2>. QED
    BY <2>1, <2>2, <2>5, <2>6, CommitMoves
<1>14. CASE AssetFails(w)
  <2>1. PICK state \in PassState :
               /\ pass' = [pass EXCEPT ![w] = state] /\ Sound(state)
               /\ state.stage = "mark" /\ state.outcome = "bad" /\ state.file = i
    BY <1>7, <1>14 DEF AssetFails
  <2>2. /\ now.stage = "asset" /\ i \in Files /\ Owner[i] \in projects
        /\ placeholders' = [placeholders EXCEPT ![i] = @ - 1]
        /\ UNCHANGED <<projects, enqueued, created, copies, marks, stranded, crashes>>
    BY <1>8, <1>14 DEF AssetFails
  <2>3. /\ D(IsPlacing(state, i)) = 0 /\ D(IsPlacing(now, i)) = 1
        /\ D(IsOwed(state, i)) = 0 /\ D(IsOwed(now, i)) = 1
    BY <2>1, <2>2 DEF IsPlacing, IsOwed, D
  <2>4. placeholders' \in [Files -> Int] /\ placeholders'[i] = placeholders[i] - 1
    BY <1>1, <2>2
  <2>5. /\ copies' \in [Files -> Int] /\ placeholders' \in [Files -> Int]
        /\ marks' \in [Files -> [Outcome -> Nat]]
        /\ \A f \in Files \ {i} : /\ copies'[f] = copies[f]
                                 /\ placeholders'[f] = placeholders[f]
                                 /\ marks'[f] = marks[f]
    BY <1>1, <2>2, <2>4
  <2>6. /\ copies'[i] >= copies[i]
        /\ placeholders'[i] - placeholders[i] = D(IsPlacing(state, i)) - D(IsPlacing(now, i))
        /\ (copies'[i] + placeholders'[i]) - (copies[i] + placeholders[i])
              <= (marks'[i]["ok"] + marks'[i]["bad"]) - (marks[i]["ok"] + marks[i]["bad"])
                 + D(IsOwed(state, i)) - D(IsOwed(now, i))
    BY <1>10, <2>2, <2>3, <2>4
  <2>. QED
    BY <2>1, <2>2, <2>5, <2>6, CommitMoves
<1>15. CASE Mark(w)
  <2>. DEFINE state == [now EXCEPT !.stage = "files", !.file = NoFile, !.outcome = "ok",
                                   !.unsaved = FALSE, !.expired = TRUE]
              o     == now.outcome
  <2>1. /\ now.stage = "mark" /\ i \in Files /\ Owner[i] \in projects
        /\ marks' = [marks EXCEPT ![i][o] = @ + 1]
        /\ copies' = IF now.unsaved THEN [copies EXCEPT ![i] = @ + 1] ELSE copies
        /\ pass' = [pass EXCEPT ![w] = state]
        /\ UNCHANGED <<projects, enqueued, created, placeholders, stranded, crashes>>
    BY <1>8, <1>15 DEF Mark
  <2>2. state \in PassState
    BY <1>0, <1>1 DEF PassState, Stages
  <2>3. /\ state.todo = now.todo /\ state.project = now.project /\ state.queue = now.queue
        /\ state.unsaved = FALSE /\ state.stage = "files" /\ state.file = NoFile
    BY <1>0 DEF PassState
  <2>4. Sound(state)
    BY <1>0, <2>1, <2>3 DEF Sound
  <2>5. /\ D(IsPlacing(state, i)) = 0 /\ D(IsPlacing(now, i)) = 0
        /\ D(IsOwed(state, i)) = 0 /\ D(IsOwed(now, i)) = D(o = "ok")
    BY <2>1, <2>3 DEF IsPlacing, IsOwed, D
  <2>6. o \in Outcome /\ (now.unsaved => o = "bad")
    BY <1>0 DEF PassState, Sound
  <2>7. /\ copies' \in [Files -> Int] /\ copies'[i] = copies[i] + D(now.unsaved)
        /\ \A f \in Files \ {i} : copies'[f] = copies[f]
    BY <1>1, <2>1 DEF D
  <2>8. [marks[i] EXCEPT ![o] = @ + 1] \in [Outcome -> Nat]
    BY <1>1, <2>1, <2>6
  <2>9. /\ marks' \in [Files -> [Outcome -> Nat]]
        /\ \A f \in Files \ {i} : marks'[f] = marks[f]
        /\ marks'[i]["ok"] = marks[i]["ok"] + D(o = "ok")
        /\ marks'[i]["bad"] = marks[i]["bad"] + D(o = "bad")
    BY <1>1, <2>1, <2>6, <2>8 DEF D
  <2>10. /\ (copies'[i] + placeholders'[i]) - (copies[i] + placeholders[i])
              <= (marks'[i]["ok"] + marks'[i]["bad"]) - (marks[i]["ok"] + marks[i]["bad"])
                 + D(IsOwed(state, i)) - D(IsOwed(now, i))
         /\ copies'[i] >= copies[i] /\ placeholders' = placeholders
         /\ placeholders'[i] - placeholders[i] = D(IsPlacing(state, i)) - D(IsPlacing(now, i))
    <3>1. CASE o = "ok"
      BY <1>10, <2>1, <2>5, <2>6, <2>7, <2>9, <3>1 DEF D
    <3>2. CASE o = "bad"
      BY <1>10, <2>1, <2>5, <2>6, <2>7, <2>9, <3>2 DEF D
    <3>3. CASE o = "unfetched"
      BY <1>10, <2>1, <2>5, <2>6, <2>7, <2>9, <3>3 DEF D
    <3>. QED  BY <2>6, <3>1, <3>2, <3>3 DEF Outcome
  <2>11. placeholders' \in [Files -> Int] /\ state.file \in {i, NoFile}
    BY <1>1, <2>1, <2>3
  <2>. QED
    BY <2>1, <2>2, <2>4, <2>7, <2>9, <2>10, <2>11, CommitMoves
<1>16. CASE MetadataRejected(w)
  <2>1. /\ now.stage = "asset" /\ i \in Files /\ Owner[i] \in projects /\ i \in Poison
        /\ stranded' = [stranded EXCEPT ![i] = @ + 1] /\ pass' = [pass EXCEPT ![w] = Idle]
        /\ UNCHANGED <<projects, enqueued, created, copies, placeholders, marks, crashes>>
    BY <1>8, <1>16 DEF MetadataRejected
  <2>2. i \in Rapp
    BY <1>0, <2>1 DEF Sound
  <2>3. stranded \in [Files -> Nat] /\ stranded' \in [Files -> Nat]
    BY <2>1 DEF IInv, TypeOK
  <2>4. ASSUME NEW f \in Files
        PROVE  /\ copies'[f] >= copies[f]
               /\ Owner[f] \notin projects =>
                     copies'[f] = copies[f] /\ placeholders'[f] = placeholders[f]
               /\ Owner[f] \in projects =>
                     /\ D(IsPlacing(Idle, f)) - D(IsPlacing(now, f))
                          <= placeholders'[f] - placeholders[f]
                     /\ placeholders'[f] - placeholders[f]
                          <= D(IsPlacing(Idle, f)) - D(IsPlacing(now, f))
                             + Excused(f)' - Excused(f)
                     /\ (copies'[f] + placeholders'[f]) - (copies[f] + placeholders[f])
                          <= (marks'[f]["ok"] + marks'[f]["bad"])
                             - (marks[f]["ok"] + marks[f]["bad"])
                             + D(IsOwed(Idle, f)) - D(IsOwed(now, f)) + Excused(f)' - Excused(f)
    <3>1. /\ D(IsPlacing(Idle, f)) = 0 /\ D(IsOwed(Idle, f)) = 0
          /\ D(IsPlacing(now, f)) = D(f = i) /\ D(IsOwed(now, f)) = D(f = i)
      BY <2>1, IdleFits DEF D, IsPlacing, IsOwed
    <3>2. /\ copies[f] \in Nat /\ placeholders[f] \in Nat
          /\ marks[f]["ok"] \in Nat /\ marks[f]["bad"] \in Nat /\ Excused(f) \in Nat
      BY <1>1, ExcusedCount DEF IInv
    <3>3. Excused(f)' = Excused(f) + D(f = i)
      <4>1. CASE f = i
        <5>1. stranded'[f] = stranded[f] + 1 /\ stranded[f] \in Nat
          BY <2>1, <2>3, <4>1
        <5>. QED  BY <1>1, <2>1, <2>2, <4>1, <5>1 DEF Excused, D
      <4>2. CASE f # i
        <5>1. stranded'[f] = stranded[f] /\ stranded[f] \in Nat
          BY <2>1, <2>3, <4>2
        <5>. QED  BY <1>1, <2>1, <4>2, <5>1 DEF Excused, D
      <4>. QED  BY <4>1, <4>2
    <3>4. D(f = i) \in {0, 1}
      BY DEF D
    <3>. QED  BY <2>1, <3>1, <3>2, <3>3, <3>4
  <2>5. /\ copies' \in [Files -> Int] /\ placeholders' \in [Files -> Int]
        /\ marks' \in [Files -> [Outcome -> Nat]] /\ enqueued' \subseteq enqueued
        /\ crashes' \in Nat /\ UNCHANGED <<projects, created>>
    BY <1>1, <2>1
  <2>. QED
    BY <2>1, <2>3, <2>4, <2>5, IdleFits, WorkerMoves
<1>17. CASE WorkerDies(w)
  <2>1. /\ crashes' = crashes + 1 /\ pass' = [pass EXCEPT ![w] = Idle]
        /\ UNCHANGED <<projects, enqueued, created, map>>
    BY <1>17 DEF WorkerDies
  <2>2. crashes' \in Nat /\ stranded' \in [Files -> Nat]
    BY <1>1, <2>1 DEF map, IInv, TypeOK
  <2>3. ASSUME NEW f \in Files
        PROVE  /\ copies'[f] >= copies[f]
               /\ Owner[f] \notin projects =>
                     copies'[f] = copies[f] /\ placeholders'[f] = placeholders[f]
               /\ Owner[f] \in projects =>
                     /\ D(IsPlacing(Idle, f)) - D(IsPlacing(now, f))
                          <= placeholders'[f] - placeholders[f]
                     /\ placeholders'[f] - placeholders[f]
                          <= D(IsPlacing(Idle, f)) - D(IsPlacing(now, f))
                             + Excused(f)' - Excused(f)
                     /\ (copies'[f] + placeholders'[f]) - (copies[f] + placeholders[f])
                          <= (marks'[f]["ok"] + marks'[f]["bad"])
                             - (marks[f]["ok"] + marks[f]["bad"])
                             + D(IsOwed(Idle, f)) - D(IsOwed(now, f)) + Excused(f)' - Excused(f)
    <3>1. /\ D(IsPlacing(Idle, f)) = 0 /\ D(IsOwed(Idle, f)) = 0
          /\ D(IsPlacing(now, f)) \in {0, 1} /\ D(IsOwed(now, f)) \in {0, 1}
      BY IdleFits DEF D
    <3>2. /\ copies[f] \in Nat /\ placeholders[f] \in Nat
          /\ marks[f]["ok"] \in Nat /\ marks[f]["bad"] \in Nat
          /\ Excused(f) \in Nat /\ Excused(f)' = Excused(f) + 1
      BY <1>1, <2>1, ExcusedCount DEF Excused, map, IInv, TypeOK
    <3>. QED  BY <2>1, <3>1, <3>2 DEF map
  <2>4. /\ copies' \in [Files -> Int] /\ placeholders' \in [Files -> Int]
        /\ marks' \in [Files -> [Outcome -> Nat]] /\ enqueued' \subseteq enqueued
        /\ UNCHANGED <<projects, created>>
    BY <1>1, <2>1 DEF map
  <2>. QED
    BY <2>1, <2>2, <2>3, <2>4, IdleFits, WorkerMoves
<1>. QED
  BY <1>2, <1>3, <1>4, <1>5, <1>6, <1>11, <1>12, <1>13, <1>14, <1>15, <1>16,
     <1>17 DEF FileStep

(* What goes on meanwhile.  A project that is created anew has no worker   *)
(* in its files yet; one that is deleted takes its counts with it.         *)
LEMMA OutsideStep ==
    ASSUME IInv, Outside
    PROVE  IInv'
<1>. USE DEF IInv
<1>1. /\ copies \in [Files -> Nat] /\ placeholders \in [Files -> Nat]
      /\ marks \in [Files -> [Outcome -> Nat]] /\ crashes \in Nat
      /\ [o \in Outcome |-> 0] \in [Outcome -> Nat]
      /\ "ok" \in Outcome /\ "bad" \in Outcome
  BY DEF TypeOK, Outcome
<1>2. ASSUME NEW f \in Files
      PROVE  Cardinality(Placing(f)) \in Nat /\ Cardinality(Owed(f)) \in Nat
  <2>1. Placing(f) \in SUBSET Workers /\ Owed(f) \in SUBSET Workers
    BY DEF Placing, Owed
  <2>. QED  BY <2>1, WorkersCount
<1>3. ASSUME pass' = pass
      PROVE  \A f \in Files : /\ Cardinality(Placing(f))' = Cardinality(Placing(f))
                              /\ Cardinality(Owed(f))' = Cardinality(Owed(f))
  BY <1>3 DEF Placing, Owed
<1>4. ASSUME NEW p \in Projects, CreateProject(p) PROVE IInv'
  <2>1. /\ p \notin created /\ created' = created \cup {p} /\ projects' = projects \cup {p}
        /\ enqueued' \in {enqueued, enqueued \cup {p}} /\ UNCHANGED <<map, pass, crashes>>
    BY <1>4 DEF CreateProject
  <2>2. TypeOK'
    BY <2>1 DEF TypeOK, map
  <2>3. LocalInv'
    BY <2>1 DEF LocalInv, Sound
  <2>4. ASSUME NEW f \in Files PROVE Balanced(f)'
    <3>1. CASE Owner[f] = p
      <4>1. Placing(f) = {}
        BY <2>1, <3>1 DEF LocalInv, Sound, Placing, IsPlacing, InProject, InFile
      <4>2. Cardinality(Placing(f)) = 0
        BY <4>1, FS_EmptySet
      <4>3. copies[f] = 0 /\ placeholders[f] = 0
        BY <2>1, <3>1 DEF Balanced, LocalInv
      <4>4. marks[f]["ok"] \in Nat /\ marks[f]["bad"] \in Nat
        BY <1>1
      <4>5. /\ copies' = copies /\ placeholders' = placeholders /\ marks' = marks
            /\ Excused(f)' = Excused(f) /\ Excused(f) \in Nat
        BY <2>1, ExcusedCount DEF map, Excused
      <4>6. Cardinality(Placing(f))' = 0 /\ Cardinality(Owed(f))' \in Nat
        BY <1>2, <1>3, <2>1, <4>2
      <4>. QED
        BY <1>1, <4>3, <4>4, <4>5, <4>6 DEF Balanced
    <3>2. CASE Owner[f] # p
      BY <1>3, <2>1, <3>2 DEF Balanced, Excused, map
    <3>. QED  BY <3>1, <3>2
  <2>. QED
    BY <2>2, <2>3, <2>4
<1>5. ASSUME NEW p \in Projects, DeleteProject(p) PROVE IInv'
  <2>1. /\ projects' = projects \ {p}
        /\ copies' = [f \in Files |-> IF Owner[f] = p THEN 0 ELSE copies[f]]
        /\ placeholders' = [f \in Files |-> IF Owner[f] = p THEN 0 ELSE placeholders[f]]
        /\ marks' = [f \in Files |-> IF Owner[f] = p THEN [o \in Outcome |-> 0] ELSE marks[f]]
        /\ stranded' = [f \in Files |-> IF Owner[f] = p THEN 0 ELSE stranded[f]]
        /\ UNCHANGED <<enqueued, created, pass, crashes>>
    BY <1>5 DEF DeleteProject
  <2>2. TypeOK'
    BY <1>1, <2>1 DEF TypeOK
  <2>3. LocalInv'
    BY <2>1 DEF LocalInv, Sound
  <2>4. ASSUME NEW f \in Files PROVE Balanced(f)'
    <3>1. CASE Owner[f] = p
      BY <2>1, <3>1 DEF Balanced
    <3>2. CASE Owner[f] # p
      <4>1. /\ copies'[f] = copies[f] /\ placeholders'[f] = placeholders[f]
            /\ marks'[f] = marks[f] /\ Excused(f)' = Excused(f)
        BY <2>1, <3>2 DEF Excused
      <4>. QED  BY <1>3, <2>1, <3>2, <4>1 DEF Balanced
    <3>. QED  BY <3>1, <3>2
  <2>. QED
    BY <2>2, <2>3, <2>4
<1>6. ASSUME NEW f \in Files, DeleteFeature(f) PROVE IInv'
  <2>1. /\ copies[f] > 0 /\ copies' = [copies EXCEPT ![f] = @ - 1]
        /\ UNCHANGED <<projects, enqueued, created, placeholders, marks, stranded, pass, crashes>>
    BY <1>6 DEF DeleteFeature
  <2>2. copies' \in [Files -> Nat]
    BY <1>1, <2>1
  <2>3. TypeOK' /\ LocalInv'
    BY <2>1, <2>2 DEF TypeOK, LocalInv, Sound
  <2>4. ASSUME NEW g \in Files PROVE Balanced(g)'
    <3>1. copies'[g] <= copies[g] /\ copies'[g] \in Nat
      BY <1>1, <2>1, <2>2
    <3>2. copies[g] \in Nat /\ placeholders[g] \in Nat
          /\ marks[g]["ok"] \in Nat /\ marks[g]["bad"] \in Nat
          /\ Excused(g)' = Excused(g) /\ Excused(g) \in Nat
      BY <1>1, <2>1, ExcusedCount DEF Excused
    <3>. QED
      BY <1>1, <1>2, <1>3, <2>1, <3>1, <3>2 DEF Balanced
  <2>. QED
    BY <2>3, <2>4
<1>. QED
  BY <1>4, <1>5, <1>6 DEF Outside

LEMMA InitIInv == Init => IInv
<1>. SUFFICES ASSUME Init PROVE IInv
  OBVIOUS
<1>1. TypeOK
  BY IdleFits DEF Init, TypeOK
<1>2. LocalInv
  BY IdleFits DEF Init, LocalInv
<1>3. \A f \in Files : Balanced(f)
  BY ConstantsAssumption DEF Init, Balanced
<1>. QED
  BY <1>1, <1>2, <1>3 DEF IInv

LEMMA NextIInv == IInv /\ [Next]_vars => IInv'
<1>. SUFFICES ASSUME IInv, [Next]_vars PROVE IInv'
  OBVIOUS
<1>1. CASE UNCHANGED vars
  BY <1>1 DEF vars, map, IInv, TypeOK, LocalInv, Sound, Balanced, Placing, Owed, Excused
<1>2. ASSUME NEW w \in Workers, Starts(w) \/ PassStep(w) \/ WorkerDies(w)
      PROVE  IInv'
  BY <1>2, ProjectsStep, FilesStep DEF PassStep
<1>. QED
  BY <1>1, <1>2, OutsideStep DEF Next

LEMMA IInvHolds == Spec => []IInv
BY InitIInv, NextIInv, PTL DEF Spec

(* Every reachable state is well typed, for any number of overlapping      *)
(* passes: in particular no count of rows is ever negative.                *)
THEOREM TypeCorrect == Spec => []TypeOK
<1>1. IInv => TypeOK
  BY DEF IInv
<1>. QED
  BY <1>1, IInvHolds, PTL

(* However passes overlap, fail, die or lose their project, every feature  *)
(* made from a file is accounted for by a mark, by a worker about to write *)
(* one, by a worker that died, or by a commit in which the database        *)
(* rejected the metadata of a RApp file.                                   *)
THEOREM AllAccounted == Spec => []FeaturesAccounted
<1>1. ASSUME IInv, NEW f \in Files
      PROVE  copies[f] + placeholders[f] <=
               marks[f]["ok"] + marks[f]["bad"] + Cardinality(Owed(f)) + Excused(f)
  <2>1. Balanced(f)
    BY <1>1 DEF IInv
  <2>2. Cardinality(Owed(f)) \in Nat
    <3>1. Owed(f) \in SUBSET Workers
      BY DEF Owed
    <3>. QED  BY <3>1, WorkersCount
  <2>3. marks[f]["ok"] \in Nat /\ marks[f]["bad"] \in Nat /\ Excused(f) \in Nat
    BY <1>1, ExcusedCount DEF IInv, TypeOK, Outcome
  <2>. QED
    BY <2>1, <2>2, <2>3 DEF Balanced
<1>2. IInv => FeaturesAccounted
  BY <1>1 DEF FeaturesAccounted
<1>. QED
  BY <1>2, IInvHolds, PTL

(* A RApp feature without its asset belongs to a pass about to attach it,  *)
(* to a worker that died doing so, or to one whose commit of the file's    *)
(* metadata the database rejected.                                         *)
THEOREM NoStrayPlaceholder == Spec => []PlaceholdersExplained
<1>1. ASSUME IInv, NEW f \in Files
      PROVE  placeholders[f] <= Cardinality(Placing(f)) + Excused(f)
  <2>1. Balanced(f)
    BY <1>1 DEF IInv
  <2>2. Cardinality(Placing(f)) \in Nat
    <3>1. Placing(f) \in SUBSET Workers
      BY DEF Placing
    <3>. QED  BY <3>1, WorkersCount
  <2>3. Excused(f) \in Nat
    BY <1>1, ExcusedCount DEF IInv
  <2>. QED
    BY <2>1, <2>2, <2>3 DEF Balanced
<1>2. IInv => PlaceholdersExplained
  BY <1>1 DEF PlaceholdersExplained
<1>. QED
  BY <1>2, IInvHolds, PTL

(* A pass lets go of a file only when the file is marked, whatever the     *)
(* download, the conversion and the commits did; else it skipped a RApp    *)
(* file before any of it was on the map, the file's project is gone, the   *)
(* worker died, or the database rejects what the file holds                *)
(* (tasks/external_data.py, import_files_recursively_from_path).           *)
THEOREM FilesLetGoAreMarked == Spec => LetsGoMarked
<1>1. ASSUME IInv, [Next]_vars, NEW w \in Workers,
             pass[w].stage \in InFile, pass'[w].stage \notin InFile
      PROVE  \/ \E o \in Outcome : marks'[InHand(w)][o] > 0
             \/ pass[w].stage = "file" /\ InHand(w) \in Rapp
             \/ Owner[InHand(w)] \notin projects
             \/ InHand(w) \in Poison
             \/ crashes' # crashes
  <2>t. /\ pass \in [Workers -> PassState] /\ pass[w] \in PassState
        /\ InHand(w) \in Files /\ Owner[InHand(w)] = pass[w].project
    BY <1>1 DEF IInv, TypeOK, LocalInv, Sound, InHand
  <2>1. ASSUME NEW v \in Workers \ {w}, Starts(v) \/ PassStep(v) \/ WorkerDies(v)
        PROVE  FALSE
    <3>1. pass'[w] = pass[w]
      BY <2>t, <2>1 DEF Starts, StartHourly, StartSingle, PassStep, FileStep, WorkerDies, Visit,
           PassOver, ProjectVanished, List, Listed, Check, SkipFile, FetchFails, ConvertFails,
           SaveFeatures, PlaceFeature, AttachAsset, AssetFails, Mark, FlushFails, MetadataRejected,
           ProjectFails, ProjectDone, EndPass, Committed, Ends
    <3>. QED  BY <1>1, <3>1
  <2>2. ~Outside /\ ~UNCHANGED vars
    BY <1>1 DEF Outside, CreateProject, DeleteProject, DeleteFeature, vars
  <2>3. Starts(w) \/ PassStep(w) \/ WorkerDies(w)
    BY <1>1, <2>1, <2>2 DEF Next
  <2>4. CASE WorkerDies(w)
    BY <1>1, <2>4 DEF WorkerDies, IInv, TypeOK
  <2>5. CASE FileStep(w)
    <3>1. CASE SkipFile(w)
      BY <3>1 DEF SkipFile
    <3>2. CASE Mark(w)
      <4>1. pass[w].outcome \in Outcome
        BY <2>t DEF PassState
      <4>2. marks'[InHand(w)][pass[w].outcome] = marks[InHand(w)][pass[w].outcome] + 1
        BY <1>1, <2>t, <3>2, <4>1 DEF Mark, IInv, TypeOK
      <4>3. marks[InHand(w)][pass[w].outcome] \in Nat
        BY <1>1, <2>t, <4>1 DEF IInv, TypeOK
      <4>. QED  BY <4>1, <4>2, <4>3
    <3>3. CASE FlushFails(w) \/ MetadataRejected(w)
      BY <2>t, <3>3 DEF FlushFails, MetadataRejected
    <3>4. CASE SaveFeatures(w) \/ PlaceFeature(w) \/ AttachAsset(w) \/ AssetFails(w)
      <4>1. ASSUME NEW stage, NEW outcome, Committed(w, stage, outcome)
            PROVE  pass'[w].stage = stage
        BY <2>t, <4>1 DEF Committed, PassState
      <4>2. pass'[w].stage \in {"asset", "mark"}
        BY <3>4, <4>1 DEF SaveFeatures, PlaceFeature, AttachAsset, AssetFails
      <4>. QED  BY <1>1, <4>2 DEF InFile
    <3>5. CASE FetchFails(w) \/ ConvertFails(w)
      <4>1. PICK outcome, unsaved :
               pass' = [pass EXCEPT ![w].stage = "mark", ![w].outcome = outcome,
                                    ![w].unsaved = unsaved]
        <5>1. FetchFails(w) =>
                 pass' = [pass EXCEPT ![w].stage = "mark", ![w].outcome = "unfetched",
                                      ![w].unsaved = pass[w].unsaved]
          BY <2>t DEF FetchFails, PassState
        <5>2. ConvertFails(w) =>
                 \E some \in BOOLEAN :
                    pass' = [pass EXCEPT ![w].stage = "mark", ![w].outcome = "bad",
                                         ![w].unsaved = some]
          BY DEF ConvertFails
        <5>. QED  BY <3>5, <5>1, <5>2
      <4>2. pass'[w].stage = "mark"
        BY <2>t, <4>1 DEF PassState
      <4>. QED  BY <1>1, <4>2 DEF InFile
    <3>. QED  BY <2>5, <3>1, <3>2, <3>3, <3>4, <3>5 DEF FileStep
  <2>6. PassStep(w) => FileStep(w)
    BY <1>1 DEF PassStep, InFile, Visit, PassOver, ProjectVanished, List, Listed, Check,
                ProjectFails, ProjectDone, EndPass
  <2>7. ~Starts(w)
    BY <1>1 DEF Starts, StartHourly, StartSingle, InFile
  <2>. QED  BY <2>3, <2>4, <2>5, <2>6, <2>7
<1>2. IInv /\ [Next]_vars =>
         \A w \in Workers : pass[w].stage \in InFile /\ pass'[w].stage \notin InFile =>
           \/ \E o \in Outcome : marks'[InHand(w)][o] > 0
           \/ pass[w].stage = "file" /\ InHand(w) \in Rapp
           \/ Owner[InHand(w)] \notin projects
           \/ InHand(w) \in Poison
           \/ crashes' # crashes
  BY <1>1
<1>. QED  BY <1>2, IInvHolds, PTL DEF Spec, LetsGoMarked

-----------------------------------------------------------------------------
(***************************************************************************)
(* Importing once.  If passes do not overlap and no worker dies, the       *)
(* features of an unmarked file are those the one running pass has just    *)
(* committed, so what it checked about the file in hand is still true when *)
(* it commits.                                                              *)
(***************************************************************************)
Alone == \A v, w \in Workers : pass[v].stage # "idle" /\ pass[w].stage # "idle" => v = w

StillUnseen(w) ==
    pass[w].stage \in InFile /\ pass[w].project \in projects =>
        /\ ~Marked(InHand(w))
        /\ pass[w].stage # "mark" \/ pass[w].unsaved => copies[InHand(w)] = 0

AboutToMark(f) ==
    \E w \in Workers : pass[w].stage = "mark" /\ pass[w].outcome = "ok" /\ InHand(w) = f

OnceInv ==
    /\ Alone
    /\ \A w \in Workers : StillUnseen(w)
    /\ \A f \in Files : copies[f] > 0 => Marked(f) \/ AboutToMark(f)

LEMMA AloneStep ==
    ASSUME TypeOK, Alone, ~Overlap, [Next]_vars
    PROVE  Alone'
<1>. USE DEF Alone, TypeOK
<1>1. ASSUME NEW w \in Workers, NEW state, pass' = [pass EXCEPT ![w] = state],
             pass[w].stage # "idle"
      PROVE  Alone'
  BY <1>1
<1>2. ASSUME NEW w \in Workers, Starts(w) PROVE Alone'
  <2>1. \A v \in Workers : pass[v].stage = "idle"
    BY <1>2 DEF Starts, StartHourly, StartSingle, Turn
  <2>2. \A v \in Workers \ {w} : pass'[v] = pass[v]
    BY <1>2 DEF Starts, StartHourly, StartSingle
  <2>. QED  BY <2>1, <2>2
<1>3. ASSUME NEW w \in Workers, PassStep(w) \/ WorkerDies(w) PROVE Alone'
  <2>1. pass[w].stage # "idle"
    BY <1>3 DEF PassStep, FileStep, WorkerDies, Visit, PassOver, ProjectVanished, List, Listed,
                Check, SkipFile, FetchFails, ConvertFails, SaveFeatures, PlaceFeature,
                AttachAsset, AssetFails, Mark, FlushFails, MetadataRejected, ProjectFails,
                ProjectDone, EndPass
  <2>2. \A v \in Workers \ {w} : pass'[v] = pass[v]
    BY <1>3 DEF PassStep, FileStep, WorkerDies, Visit, PassOver, ProjectVanished, List, Listed,
                Check, SkipFile, FetchFails, ConvertFails, SaveFeatures, PlaceFeature,
                AttachAsset, AssetFails, Mark, FlushFails, MetadataRejected, ProjectFails,
                ProjectDone, EndPass,
                Committed, Ends
  <2>. QED  BY <2>1, <2>2
<1>4. CASE Outside
  BY <1>4 DEF Outside, CreateProject, DeleteProject, DeleteFeature
<1>5. CASE UNCHANGED vars
  BY <1>5 DEF vars
<1>. QED
  BY <1>2, <1>3, <1>4, <1>5 DEF Next

Stutters == UNCHANGED <<copies, marks>>

LEMMA StutterMaps ==
    ASSUME Stutters
    PROVE  [Catalog!Next]_(Catalog!catalog)
BY DEF Stutters, Catalog!catalog, Settled, Marked

(* A local step of the pass: what is in hand was in hand before, or has    *)
(* just been checked; a feature waiting for its mark keeps waiting.        *)
LEMMA LocalOnce ==
    ASSUME IInv, OnceInv, Alone', NEW w \in Workers, NEW state,
           pass' = [pass EXCEPT ![w] = state],
           UNCHANGED <<projects, copies, marks>>,
           state.stage \in InFile =>
              /\ state.file = InHand(w) /\ pass[w].stage \in InFile
              /\ state.project = pass[w].project
              /\ pass[w].stage = "mark" => state.stage = "mark"
              /\ state.stage # "mark" \/ state.unsaved => pass[w].stage # "mark" \/ pass[w].unsaved,
           pass[w].stage = "mark" /\ pass[w].outcome = "ok" => pass[w].project \notin projects
    PROVE  OnceInv' /\ [Catalog!Next]_(Catalog!catalog)
<1>1. \A v \in Workers : pass'[v] = IF v = w THEN state ELSE pass[v]
  BY DEF IInv, TypeOK
<1>2. ASSUME NEW v \in Workers PROVE StillUnseen(v)'
  BY <1>1 DEF OnceInv, StillUnseen, InHand, Marked
<1>3. ASSUME NEW f \in Files, copies'[f] > 0 PROVE Marked(f)' \/ AboutToMark(f)'
  <2>1. Marked(f) \/ AboutToMark(f)
    BY <1>3 DEF OnceInv
  <2>2. CASE Marked(f)
    BY <2>2 DEF Marked
  <2>3. ASSUME NEW v \in Workers, pass[v].stage = "mark", pass[v].outcome = "ok",
               InHand(v) = f
        PROVE  AboutToMark(f)'
    <3>1. v # w
      <4>1. SUFFICES ASSUME v = w PROVE FALSE
        OBVIOUS
      <4>2. Owner[f] \notin projects
        BY <2>3, <4>1 DEF IInv, LocalInv, Sound, InFile, InHand
      <4>3. copies[f] = 0
        BY <4>2 DEF IInv, Balanced
      <4>. QED  BY <1>3, <4>3
    <3>. QED  BY <1>1, <2>3, <3>1 DEF AboutToMark, InHand
  <2>. QED  BY <2>1, <2>2, <2>3 DEF AboutToMark
<1>. QED
  BY <1>2, <1>3, StutterMaps DEF OnceInv, Stutters

(* Steps that change neither the map nor the marks.                        *)
LEMMA QuietOnce ==
    ASSUME IInv, OnceInv, Alone', MaxCrashes = 0, NEW w \in Workers,
           \/ Starts(w) \/ List(w) \/ ProjectFails(w) \/ ProjectDone(w) \/ EndPass(w)
           \/ \E p \in Projects : Visit(w, p) \/ PassOver(w, p) \/ ProjectVanished(w, p)
           \/ SkipFile(w) \/ FetchFails(w) \/ ConvertFails(w)
           \/ PlaceFeature(w) \/ AssetFails(w) \/ FlushFails(w) \/ MetadataRejected(w)
    PROVE  OnceInv' /\ [Catalog!Next]_(Catalog!catalog)
<1>. DEFINE Quiet(state) ==
       /\ pass' = [pass EXCEPT ![w] = state]
       /\ state.stage \in InFile =>
              /\ state.file = InHand(w) /\ pass[w].stage \in InFile
              /\ state.project = pass[w].project
              /\ pass[w].stage = "mark" => state.stage = "mark"
              /\ state.stage # "mark" \/ state.unsaved => pass[w].stage # "mark" \/ pass[w].unsaved
       /\ pass[w].stage = "mark" /\ pass[w].outcome = "ok" => pass[w].project \notin projects
<1>1. pass[w] \in PassState /\ Sound(pass[w])
  BY DEF IInv, TypeOK, LocalInv
<1>2. ASSUME UNCHANGED <<projects, copies, marks>>, NEW state, Quiet(state)
      PROVE  OnceInv' /\ [Catalog!Next]_(Catalog!catalog)
  BY <1>2, LocalOnce
<1>3. ASSUME Ends(w),
             pass[w].stage = "mark" /\ pass[w].outcome = "ok" => pass[w].project \notin projects
      PROVE  OnceInv' /\ [Catalog!Next]_(Catalog!catalog)
  <2>1. Quiet(Idle)
    BY <1>3 DEF Ends, Idle, InFile
  <2>. QED  BY <1>2, <1>3, <2>1 DEF Ends, Local, map
<1>4. CASE StartHourly(w)
  <2>1. Quiet([Idle EXCEPT !.stage = "projects", !.hourly = TRUE, !.queue = projects])
    BY <1>4 DEF StartHourly, Idle, InFile
  <2>. HIDE DEF Quiet
  <2>. QED  BY <1>2, <1>4, <2>1 DEF StartHourly, map
<1>5. ASSUME NEW p \in Projects, StartSingle(w, p)
      PROVE  OnceInv' /\ [Catalog!Next]_(Catalog!catalog)
  <2>1. Quiet([Idle EXCEPT !.stage = "listing", !.project = p])
    BY <1>5 DEF StartSingle, Idle, InFile
  <2>. HIDE DEF Quiet
  <2>. QED  BY <1>2, <1>5, <2>1 DEF StartSingle, map
<1>6. CASE List(w)
  <2>1. PICK found \in SUBSET FilesOf(pass[w].project) : Listed(w, found)
    BY <1>6 DEF List
  <2>2. PICK e \in {pass[w].expired, TRUE} :
          pass' = [pass EXCEPT ![w].stage = "files", ![w].todo = found, ![w].expired = e]
    BY <2>1 DEF Listed
  <2>3. Quiet([pass[w] EXCEPT !.stage = "files", !.todo = found, !.expired = e])
    BY <1>1, <2>1, <2>2 DEF InFile, PassState, Listed
  <2>. HIDE DEF Quiet
  <2>. QED  BY <1>2, <2>1, <2>3 DEF Listed, Local, map
<1>7. CASE ProjectFails(w)
  <2>1. CASE ~Ends(w)
    <3>1. Quiet([pass[w] EXCEPT !.stage = "projects", !.project = NoProject,
                                !.todo = {}, !.expired = TRUE])
      BY <1>1, <1>7, <2>1 DEF ProjectFails, InFile, PassState
    <3>. HIDE DEF Quiet
    <3>. QED  BY <1>2, <1>7, <2>1, <3>1 DEF ProjectFails, Local, map
  <2>. QED  BY <1>3, <1>7, <2>1 DEF ProjectFails
<1>8. CASE ProjectDone(w)
  <2>1. CASE ~Ends(w)
    <3>1. Quiet([pass[w] EXCEPT !.stage = "projects", !.project = NoProject])
      BY <1>1, <1>8, <2>1 DEF ProjectDone, InFile, PassState
    <3>. HIDE DEF Quiet
    <3>. QED  BY <1>2, <1>8, <2>1, <3>1 DEF ProjectDone, Local, map
  <2>. QED  BY <1>3, <1>8, <2>1 DEF ProjectDone
<1>9. CASE EndPass(w)
  BY <1>3, <1>9 DEF EndPass
<1>10. ASSUME NEW p \in Projects, Visit(w, p)
       PROVE  OnceInv' /\ [Catalog!Next]_(Catalog!catalog)
  <2>1. Quiet([pass[w] EXCEPT !.stage = "listing", !.project = p, !.queue = @ \ {p}])
    BY <1>1, <1>10 DEF Visit, InFile, PassState
  <2>. HIDE DEF Quiet
  <2>. QED  BY <1>2, <1>10, <2>1 DEF Visit, Local, map
<1>11. ASSUME NEW p \in Projects, PassOver(w, p)
       PROVE  OnceInv' /\ [Catalog!Next]_(Catalog!catalog)
  <2>1. Quiet([pass[w] EXCEPT !.queue = @ \ {p}])
    BY <1>1, <1>11 DEF PassOver, InFile, PassState
  <2>. HIDE DEF Quiet
  <2>. QED  BY <1>2, <1>11, <2>1 DEF PassOver, Local, map
<1>12. ASSUME NEW p \in Projects, ProjectVanished(w, p)
       PROVE  OnceInv' /\ [Catalog!Next]_(Catalog!catalog)
  BY <1>3, <1>12 DEF ProjectVanished
<1>13. CASE SkipFile(w)
  <2>1. Quiet([pass[w] EXCEPT !.stage = "files", !.file = NoFile])
    BY <1>1, <1>13 DEF SkipFile, InFile, PassState
  <2>. HIDE DEF Quiet
  <2>. QED  BY <1>2, <1>13, <2>1 DEF SkipFile, Local, map
<1>14. CASE FetchFails(w)
  <2>1. Quiet([pass[w] EXCEPT !.stage = "mark", !.outcome = "unfetched"])
    BY <1>1, <1>14 DEF FetchFails, InFile, PassState, InHand
  <2>. HIDE DEF Quiet
  <2>. QED  BY <1>2, <1>14, <2>1 DEF FetchFails, Local, map
<1>15. CASE ConvertFails(w)
  <2>1. PICK some \in BOOLEAN :
          pass' = [pass EXCEPT ![w].stage = "mark", ![w].outcome = "bad", ![w].unsaved = some]
    BY <1>15 DEF ConvertFails
  <2>2. Quiet([pass[w] EXCEPT !.stage = "mark", !.outcome = "bad", !.unsaved = some])
    BY <1>1, <1>15, <2>1 DEF ConvertFails, InFile, PassState, InHand
  <2>. HIDE DEF Quiet
  <2>. QED  BY <1>2, <1>15, <2>2 DEF ConvertFails, Local, map
<1>16. CASE PlaceFeature(w)
  <2>1. Quiet([pass[w] EXCEPT !.stage = "asset", !.outcome = "ok", !.unsaved = FALSE,
                              !.expired = TRUE])
    BY <1>1, <1>16 DEF PlaceFeature, Committed, InFile, PassState, InHand
  <2>. HIDE DEF Quiet
  <2>. QED  BY <1>2, <1>16, <2>1 DEF PlaceFeature
<1>17. CASE AssetFails(w)
  <2>1. Quiet([pass[w] EXCEPT !.stage = "mark", !.outcome = "bad", !.unsaved = FALSE,
                              !.expired = TRUE])
    BY <1>1, <1>17 DEF AssetFails, Committed, InFile, PassState, InHand
  <2>. HIDE DEF Quiet
  <2>. QED  BY <1>2, <1>17, <2>1 DEF AssetFails
<1>18. CASE FlushFails(w)
  <2>1. pass[w].stage = "mark" /\ pass[w].outcome = "ok" => pass[w].project \notin projects
    BY <1>1, <1>18 DEF FlushFails, Sound
  <2>. QED  BY <1>3, <1>18, <2>1 DEF FlushFails
<1>19. CASE MetadataRejected(w)
  <2>1. Quiet(Idle)
    BY <1>19 DEF MetadataRejected, Idle, InFile
  <2>. HIDE DEF Quiet
  <2>. QED  BY <1>2, <1>19, <2>1 DEF MetadataRejected
<1>. QED
  BY <1>4, <1>5, <1>6, <1>7, <1>8, <1>9, <1>10, <1>11, <1>12, <1>13, <1>14, <1>15,
     <1>16, <1>17, <1>18, <1>19 DEF Starts

(* A pass that takes up an unmarked file finds none of it on the map: only *)
(* a pass about to mark it could have put it there.                        *)
LEMMA CheckOnce ==
    ASSUME IInv, OnceInv, Alone', NEW w \in Workers, NEW f \in Files, Check(w, f)
    PROVE  OnceInv' /\ [Catalog!Next]_(Catalog!catalog)
<1>1. /\ \A v \in Workers \ {w} : pass'[v] = pass[v]
      /\ pass[w].stage = "files" /\ ~Marked(f) => pass'[w].file = f /\ ~pass'[w].stage = "mark"
      /\ Marked(f) => pass'[w].stage = "files"
      /\ pass[w].stage = "files" /\ pass'[w].stage # "mark"
      /\ pass'[w].unsaved = pass[w].unsaved
      /\ UNCHANGED <<projects, copies, marks>>
  BY DEF Check, Local, map, IInv, TypeOK, PassState
<1>2. ~Marked(f) => copies[f] = 0
  <2>1. ~AboutToMark(f)
    BY <1>1 DEF OnceInv, Alone, AboutToMark
  <2>. QED  BY <2>1 DEF OnceInv, IInv, TypeOK
<1>3. ASSUME NEW v \in Workers PROVE StillUnseen(v)'
  <2>1. CASE v = w
    BY <1>1, <1>2, <2>1 DEF StillUnseen, InHand, Marked, InFile
  <2>2. CASE v # w
    BY <1>1, <2>2 DEF OnceInv, StillUnseen, InHand, Marked
  <2>. QED  BY <2>1, <2>2
<1>4. ASSUME NEW g \in Files, copies'[g] > 0 PROVE Marked(g)' \/ AboutToMark(g)'
  BY <1>1, <1>4 DEF OnceInv, Marked, AboutToMark, InHand
<1>. QED
  BY <1>1, <1>3, <1>4, StutterMaps DEF OnceInv, Stutters

(* The commits: the features of the file in hand, and its mark.            *)
LEMMA CommitOnce ==
    ASSUME IInv, OnceInv, Alone', NEW w \in Workers,
           SaveFeatures(w) \/ AttachAsset(w) \/ Mark(w)
    PROVE  OnceInv' /\ [Catalog!Next]_(Catalog!catalog)
<1>0. PICK i \in Files : i = InHand(w)
  BY DEF IInv, LocalInv, SaveFeatures, AttachAsset, Mark, InFile, Sound, InHand
<1>1. /\ pass[w] \in PassState /\ Sound(pass[w]) /\ pass[w].stage \in InFile
      /\ pass[w].project \in projects
      /\ pass \in [Workers -> PassState]
      /\ copies \in [Files -> Nat] /\ marks \in [Files -> [Outcome -> Nat]]
  BY DEF IInv, TypeOK, LocalInv, SaveFeatures, AttachAsset, Mark, InFile
<1>2. ~Marked(i) /\ (pass[w].stage # "mark" \/ pass[w].unsaved => copies[i] = 0)
  BY <1>0, <1>1 DEF OnceInv, StillUnseen
<1>3. /\ UNCHANGED projects
      /\ \A v \in Workers \ {w} : pass'[v] = pass[v]
      /\ \A f \in Files \ {i} : copies'[f] = copies[f] /\ marks'[f] = marks[f]
  <2>1. CASE SaveFeatures(w)
    BY <1>0, <1>1, <2>1 DEF SaveFeatures, Committed
  <2>2. CASE AttachAsset(w)
    BY <1>0, <1>1, <2>2 DEF AttachAsset, Committed
  <2>3. CASE Mark(w)
    BY <1>0, <1>1, <2>3 DEF Mark
  <2>. QED  BY <2>1, <2>2, <2>3
<1>4. \A v \in Workers \ {w} : pass[v].stage = "idle"
  BY <1>1 DEF OnceInv, Alone, InFile
<1>5. ASSUME NEW v \in Workers \ {w} PROVE StillUnseen(v)'
  BY <1>3, <1>4 DEF StillUnseen, InFile
<1>6. ASSUME NEW f \in Files \ {i}, copies'[f] > 0 PROVE Marked(f)' \/ AboutToMark(f)'
  <2>1. Marked(f) \/ AboutToMark(f)
    BY <1>3, <1>6 DEF OnceInv
  <2>2. ~AboutToMark(f)
    BY <1>0, <1>4 DEF AboutToMark
  <2>. QED  BY <1>3, <2>1, <2>2 DEF Marked
<1>7. CASE SaveFeatures(w) \/ AttachAsset(w)
  <2>1. /\ marks' = marks /\ copies' = [copies EXCEPT ![i] = @ + 1]
        /\ pass'[w].stage = "mark" /\ pass'[w].outcome = "ok" /\ ~pass'[w].unsaved
        /\ pass'[w].file = i /\ copies[i] = 0
    BY <1>0, <1>1, <1>2, <1>7 DEF SaveFeatures, AttachAsset, Committed, InHand, PassState,
      IInv, TypeOK
  <2>2. StillUnseen(w)'
    BY <1>0, <1>2, <2>1 DEF StillUnseen, Marked, InHand
  <2>3. AboutToMark(i)'
    BY <2>1 DEF AboutToMark, InHand
  <2>4. Catalog!Show(i)
    BY <1>1, <1>2, <2>1 DEF Catalog!Show, Settled, Marked
  <2>. QED
    BY <1>1, <1>5, <1>6, <2>2, <2>3, <2>4 DEF OnceInv, Catalog!Next
<1>8. CASE Mark(w)
  <2>1. /\ marks' = [marks EXCEPT ![i][pass[w].outcome] = @ + 1]
        /\ copies' = IF pass[w].unsaved THEN [copies EXCEPT ![i] = @ + 1] ELSE copies
        /\ pass'[w].stage = "files" /\ pass[w].outcome \in Outcome
    BY <1>0, <1>1, <1>8 DEF Mark, InHand, PassState, IInv, TypeOK
  <2>2. StillUnseen(w)'
    BY <2>1 DEF StillUnseen, InFile
  <2>3. Marked(i)'
    <3>1. marks'[i][pass[w].outcome] = marks[i][pass[w].outcome] + 1
      BY <1>1, <2>1
    <3>2. marks[i][pass[w].outcome] \in Nat
      BY <1>1, <2>1
    <3>3. marks'[i][pass[w].outcome] > 0
      BY <3>1, <3>2
    <3>. QED  BY <2>1, <3>3 DEF Marked
  <2>4. Settled' = Settled \cup {i}
    BY <1>1, <1>3, <2>3 DEF Settled, Marked
  <2>5. copies' = copies \/ (copies[i] = 0 /\ copies' = [copies EXCEPT ![i] = 1])
    <3>1. CASE pass[w].unsaved
      <4>1. copies[i] = 0 /\ 0 + 1 = 1
        BY <1>2, <3>1
      <4>2. copies' = [copies EXCEPT ![i] = copies[i] + 1]
        BY <2>1, <3>1
      <4>. QED  BY <4>1, <4>2
    <3>2. CASE ~pass[w].unsaved
      BY <2>1, <3>2
    <3>. QED  BY <3>1, <3>2
  <2>6. Catalog!Settle(i)
    BY <1>2, <2>4, <2>5 DEF Catalog!Settle, Settled
  <2>. QED
    BY <1>1, <1>5, <1>6, <2>2, <2>3, <2>6 DEF OnceInv, Catalog!Next
<1>. QED
  BY <1>7, <1>8

LEMMA OutsideOnce ==
    ASSUME IInv, OnceInv, Alone', Outside
    PROVE  OnceInv' /\ [Catalog!Next]_(Catalog!catalog)
<1>. USE DEF OnceInv
<1>1. copies \in [Files -> Nat] /\ pass' = pass
  BY DEF IInv, TypeOK, Outside, CreateProject, DeleteProject, DeleteFeature
<1>2. ASSUME NEW p \in Projects, CreateProject(p)
      PROVE  OnceInv' /\ [Catalog!Next]_(Catalog!catalog)
  <2>1. UNCHANGED <<copies, marks, pass>> /\ projects' = projects \cup {p} /\ p \notin created
    BY <1>2 DEF CreateProject, map
  <2>2. ASSUME NEW w \in Workers PROVE StillUnseen(w)'
    <3>1. pass[w].stage \in InFile => pass[w].project # p
      BY <2>1 DEF IInv, LocalInv, Sound, InFile, InProject
    <3>. QED  BY <2>1, <3>1 DEF StillUnseen, InHand, Marked
  <2>3. ASSUME NEW f \in Files, copies'[f] > 0 PROVE Marked(f)' \/ AboutToMark(f)'
    BY <2>1, <2>3 DEF Marked, AboutToMark, InHand
  <2>. QED  BY <2>1, <2>2, <2>3, StutterMaps DEF Stutters
<1>3. ASSUME NEW p \in Projects, DeleteProject(p)
      PROVE  OnceInv' /\ [Catalog!Next]_(Catalog!catalog)
  <2>1. /\ projects' = projects \ {p}
        /\ copies' = [f \in Files |-> IF Owner[f] = p THEN 0 ELSE copies[f]]
        /\ marks' = [f \in Files |-> IF Owner[f] = p THEN [o \in Outcome |-> 0] ELSE marks[f]]
    BY <1>3 DEF DeleteProject
  <2>2. ASSUME NEW w \in Workers PROVE StillUnseen(w)'
    <3>1. pass[w].stage \in InFile => InHand(w) \in Files /\ Owner[InHand(w)] = pass[w].project
      BY DEF IInv, LocalInv, Sound, InHand
    <3>. QED  BY <1>1, <2>1, <3>1 DEF StillUnseen, InHand, Marked
  <2>3. ASSUME NEW f \in Files, copies'[f] > 0 PROVE Marked(f)' \/ AboutToMark(f)'
    <3>1. Owner[f] # p /\ copies[f] > 0
      BY <2>1, <2>3
    <3>. QED  BY <1>1, <2>1, <3>1 DEF Marked, AboutToMark, InHand
  <2>4. Settled' = {f \in Settled : Owner[f] # p}
    BY <2>1 DEF Settled, Marked
  <2>5. Catalog!Forget(p)
    BY <2>1, <2>4 DEF Catalog!Forget
  <2>. QED  BY <2>2, <2>3, <2>5 DEF Catalog!Next
<1>4. ASSUME NEW f \in Files, DeleteFeature(f)
      PROVE  OnceInv' /\ [Catalog!Next]_(Catalog!catalog)
  <2>1. /\ UNCHANGED <<projects, marks>>
        /\ copies[f] > 0 /\ copies' = [copies EXCEPT ![f] = @ - 1]
    BY <1>4 DEF DeleteFeature
  <2>2. ASSUME NEW w \in Workers PROVE StillUnseen(w)'
    BY <1>1, <2>1 DEF StillUnseen, InHand, Marked
  <2>3. ASSUME NEW g \in Files, copies'[g] > 0 PROVE Marked(g)' \/ AboutToMark(g)'
    <3>1. copies[g] > 0
      BY <1>1, <2>1, <2>3
    <3>. QED  BY <1>1, <2>1, <3>1 DEF Marked, AboutToMark, InHand
  <2>4. Catalog!Hide(f)
    BY <2>1 DEF Catalog!Hide, Settled, Marked
  <2>. QED  BY <2>2, <2>3, <2>4 DEF Catalog!Next
<1>. QED
  BY <1>2, <1>3, <1>4 DEF Outside

LEMMA OnceStep ==
    ASSUME IInv, OnceInv, ~Overlap, MaxCrashes = 0, [Next]_vars
    PROVE  OnceInv' /\ [Catalog!Next]_(Catalog!catalog)
<1>1. Alone'
  BY AloneStep DEF IInv, OnceInv
<1>2. ASSUME NEW w \in Workers, Starts(w) \/ PassStep(w)
      PROVE  OnceInv' /\ [Catalog!Next]_(Catalog!catalog)
  BY <1>1, <1>2, QuietOnce, CheckOnce, CommitOnce DEF PassStep, FileStep
<1>3. ~\E w \in Workers : WorkerDies(w)
  BY DEF WorkerDies, IInv, TypeOK
<1>4. CASE UNCHANGED vars
  <2>1. OnceInv'
    BY <1>1, <1>4 DEF OnceInv, vars, map, StillUnseen, AboutToMark, InHand, Marked
  <2>. QED  BY <1>4, <2>1, StutterMaps DEF Stutters, vars, map
<1>. QED
  BY <1>1, <1>2, <1>3, <1>4, OutsideOnce DEF Next

(* When passes do not overlap and no worker dies, every file is put on the *)
(* map at most once and, once marked, never again: the import implements   *)
(* MapCatalog whatever fails and whatever users delete meanwhile.          *)
THEOREM ImportedOnce ==
    ASSUME ~Overlap, MaxCrashes = 0
    PROVE  Spec => ImportsOnce
<1>1. Init => OnceInv /\ Catalog!Init
  BY IdleFits DEF Init, OnceInv, Alone, StillUnseen, Idle, InFile, Catalog!Init, Settled, Marked
<1>2. IInv /\ OnceInv /\ [Next]_vars => OnceInv' /\ [Catalog!Next]_(Catalog!catalog)
  BY OnceStep
<1>3. Spec => []IInv
  BY IInvHolds
<1>4. Spec => []OnceInv
  BY <1>1, <1>2, <1>3, PTL DEF Spec
<1>. QED
  BY <1>1, <1>2, <1>3, <1>4, PTL DEF Spec, ImportsOnce, Catalog!Spec
=============================================================================
