---------------------------- MODULE ProjectMembers ----------------------------
(***************************************************************************)
(* The members of one map project on a DesignSafe project: the rows of     *)
(* projects_users with their two flags, the request that creates the map,  *)
(* requests that add and remove users, and the periodic pass that makes    *)
(* the members those of the DesignSafe project.  Every one of them loads   *)
(* the members, and writes the difference to what they should be later on. *)
(*                                                                         *)
(* MembersInit, MembersNext and the like carry the name of the module: the *)
(* proofs extend it together with ProjectCatalog.                          *)
(***************************************************************************)
EXTENDS Integers, FiniteSets

CONSTANTS Users,
          Creator,      \* the user who creates the map
          LoggedIn,     \* users with a Tapis token; the pass needs one
          NoUser,       \* no user
          Maker,        \* the request that creates the map
          Adders,       \* requests to add a user
          Removers,     \* requests to remove a user
          Passes,       \* workers of refresh_projects_watch_users
          MaxChanges,   \* bound on changes of the DesignSafe project
          MaxStops      \* bound on dead processes and failed remote calls

Procs == {Maker} \cup Adders \cup Removers \cup Passes

ASSUME MembersAssumption ==
    /\ IsFiniteSet(Users)
    /\ Creator \in LoggedIn /\ LoggedIn \subseteq Users
    /\ NoUser \notin Users
    /\ Maker \notin Adders \cup Removers \cup Passes
    /\ Adders \cap (Removers \cup Passes) = {} /\ Removers \cap Passes = {}
    /\ MaxChanges \in Nat /\ MaxStops \in Nat

VARIABLES
    there,      \* whether the project's row is there
    members,    \* who has a row in projects_users
    admins,     \* whose row has the admin flag
    creators,   \* whose row has the creator flag
    remote,     \* users of the DesignSafe project, and its PIs and co-PIs
    proc,       \* local state of each process
    overtaken,  \* who works on members that others have changed since
    changes,    \* changes of the DesignSafe project so far
    stops       \* processes that died and calls that failed so far

memberVars == <<there, members, admins, creators, remote, proc, overtaken, changes, stops>>

memberRows == <<there, members, admins, creators>>
-----------------------------------------------------------------------------
Team == {t \in [members : SUBSET Users, admins : SUBSET Users] :
            t.admins \subseteq t.members /\ t.admins # {}}

NoTeam == [members |-> {}, admins |-> {}]

(* user, admin: what the request says; seen: the members as loaded; got:   *)
(* the users of the DesignSafe project.                                    *)
Off == [stage |-> "off", user |-> NoUser, admin |-> FALSE, seen |-> {}, got |-> NoTeam]

MembersTypeOK ==
    /\ there \in BOOLEAN
    /\ members \subseteq Users
    /\ admins \subseteq members /\ creators \subseteq members
    /\ remote \in Team
    /\ proc \in [Procs -> [stage : {"off", "creator", "users", "add", "role", "remove",
                                    "fetch", "assign", "roles", "done"},
                           user : Users \cup {NoUser}, admin : BOOLEAN,
                           seen : SUBSET Users,
                           got : [members : SUBSET Users, admins : SUBSET Users]]]
    /\ overtaken \subseteq Procs
    /\ changes \in Nat /\ stops \in Nat

(* The map as the first commit of ProjectsService.create leaves it.        *)
MembersInit ==
    /\ there = TRUE
    /\ members = {Creator}
    /\ admins = {} /\ creators = {}
    /\ remote \in Team
    /\ proc = [p \in Procs |-> IF p = Maker THEN [Off EXCEPT !.stage = "creator"] ELSE Off]
    /\ overtaken = {}
    /\ changes = 0 /\ stops = 0
-----------------------------------------------------------------------------
At(p, stage) == proc[p].stage = stage

Proceeds(p, stage) == proc' = [proc EXCEPT ![p].stage = stage]

(* The request is over; a pass starts again with the next beat.            *)
Ends(p) == proc' = [proc EXCEPT ![p] = IF p \in Passes THEN Off
                                                       ELSE [Off EXCEPT !.stage = "done"]]

Loaded == {p \in Procs : proc[p].stage \in {"users", "add", "remove", "fetch", "assign"}}

(* p wrote the members: those who loaded them before work on old ones.     *)
Overtakes(p) ==
    overtaken' = (overtaken \ {p}) \cup (IF members' # members THEN Loaded \ {p} ELSE {})

(* p writes the rows of those who come and deletes those of who goes.      *)
Possible(added, removed) ==
    /\ there \/ added = {}
    /\ added \cap members = {} /\ removed \subseteq members

Write(p, added, removed) ==
    /\ members' = (members \cup added) \ removed
    /\ admins' = admins \ removed
    /\ creators' = creators \ removed
    /\ Overtakes(p)
    /\ UNCHANGED there

(* A row that is there already, or not any more: the commit fails.         *)
Conflict(p) ==
    /\ Ends(p)
    /\ overtaken' = overtaken \ {p}
    /\ UNCHANGED <<memberRows, remote, changes, stops>>
-----------------------------------------------------------------------------
(***************************************************************************)
(* ProjectsService.create, after its first commit.                         *)
(***************************************************************************)
MarkCreator ==
    /\ At(Maker, "creator")
    /\ creators' = creators \cup ({Creator} \cap members)
    /\ proc' = [proc EXCEPT ![Maker].stage = "users", ![Maker].seen = {Creator}]
    /\ UNCHANGED <<there, members, admins, remote, overtaken, changes, stops>>

(* A creator who is not a user of the DesignSafe project is not found in   *)
(* the list: an error, and the map stays with its creator alone.           *)
AskTeam ==
    /\ At(Maker, "users")
    /\ IF Creator \in remote.members
         THEN proc' = [proc EXCEPT ![Maker].stage = "assign", ![Maker].got = remote]
         ELSE Ends(Maker)
    /\ UNCHANGED <<memberRows, remote, overtaken, changes, stops>>

(* The session still has the rows as they were before the users were set,  *)
(* and sets the admin flag of these: of the creator.                       *)
AssignTeam ==
    LET added == proc[Maker].got.members \ proc[Maker].seen
        promoted == {Creator} \cap proc[Maker].got.admins IN
    /\ At(Maker, "assign")
    /\ IF Possible(added, {}) /\ promoted \subseteq members
         THEN /\ members' = members \cup added
              /\ admins' = admins \cup promoted
              /\ Ends(Maker)
              /\ Overtakes(Maker)
              /\ UNCHANGED <<there, creators, remote, changes, stops>>
         ELSE Conflict(Maker)
-----------------------------------------------------------------------------
(***************************************************************************)
(* addUserToProject and removeUserFromProject.                             *)
(***************************************************************************)
AskAdd(a) ==
    /\ At(a, "off") /\ there
    /\ \E u \in Users, admin \in BOOLEAN :
         proc' = [proc EXCEPT ![a] = [Off EXCEPT !.stage = "add", !.user = u,
                                                 !.admin = admin, !.seen = members]]
    /\ UNCHANGED <<memberRows, remote, overtaken, changes, stops>>

(* For a user who was a member when they were loaded nothing is written.   *)
AddMember(a) ==
    LET added == {proc[a].user} \ proc[a].seen IN
    /\ At(a, "add")
    /\ IF Possible(added, {})
         THEN /\ Write(a, added, {})
              /\ Proceeds(a, "role")
              /\ UNCHANGED <<remote, changes, stops>>
         ELSE Conflict(a)

(* In a second commit, if the row is still there.                          *)
SetRole(a) ==
    /\ At(a, "role")
    /\ admins' = IF proc[a].admin THEN admins \cup ({proc[a].user} \cap members)
                                  ELSE admins \ {proc[a].user}
    /\ Ends(a)
    /\ UNCHANGED <<there, members, creators, remote, overtaken, changes, stops>>

(* Mutant: nobody looks at who stays.                                      *)
AllowAny(u, loaded) == u \in loaded

(* Not the last member, nor the last who can watch files or users.         *)
MayRemove(u, loaded) ==
    /\ u \in loaded
    /\ loaded # {u}
    /\ loaded \cap LoggedIn # {u}

AskRemove(r) ==
    /\ At(r, "off") /\ there
    /\ \E u \in Users :
         IF MayRemove(u, members)
           THEN proc' = [proc EXCEPT ![r] = [Off EXCEPT !.stage = "remove", !.user = u,
                                                        !.seen = members]]
           ELSE Ends(r)
    /\ UNCHANGED <<memberRows, remote, overtaken, changes, stops>>

RemoveMember(r) ==
    /\ At(r, "remove")
    /\ IF Possible({}, {proc[r].user})
         THEN /\ Write(r, {}, {proc[r].user})
              /\ Ends(r)
              /\ UNCHANGED <<remote, changes, stops>>
         ELSE Conflict(r)
-----------------------------------------------------------------------------
(***************************************************************************)
(* refresh_projects_watch_users for this map.                              *)
(***************************************************************************)
(* Without a member who has a token the map is passed over.                *)
BeginPass(s) ==
    /\ At(s, "off") /\ there
    /\ members \cap LoggedIn # {}
    /\ proc' = [proc EXCEPT ![s] = [Off EXCEPT !.stage = "fetch", !.seen = members,
                                               !.got = [members |-> members,
                                                        admins |-> admins]]]
    /\ UNCHANGED <<memberRows, remote, overtaken, changes, stops>>

(* Mutant: only who is a member is compared.                               *)
SameMembers(loaded, team) == loaded.members = team.members

SameTeam(loaded, team) == loaded = team

Compare(s) ==
    /\ At(s, "fetch")
    /\ IF SameTeam(proc[s].got, remote)
         THEN Ends(s) /\ overtaken' = overtaken \ {s}
         ELSE /\ proc' = [proc EXCEPT ![s].stage = "assign", ![s].got = remote]
              /\ UNCHANGED overtaken
    /\ UNCHANGED <<memberRows, remote, changes, stops>>

(* Mutant: all rows are made anew.                                         *)
AssignNew(s) ==
    /\ At(s, "assign")
    /\ there
    /\ members' = proc[s].got.members
    /\ admins' = {} /\ creators' = {}
    /\ Overtakes(s)
    /\ Proceeds(s, "roles")
    /\ UNCHANGED <<there, remote, changes, stops>>

(* Mutant: who left the DesignSafe project stays on the map.               *)
AssignAdded(s) ==
    /\ At(s, "assign")
    /\ \E loaded \in {proc[s].seen, members} :
         LET added == proc[s].got.members \ loaded IN
         IF Possible(added, {})
           THEN /\ Write(s, added, {})
                /\ Proceeds(s, "roles")
                /\ UNCHANGED <<remote, changes, stops>>
           ELSE Conflict(s)

(* The difference to the members as loaded; they are loaded once more if   *)
(* the token was refreshed, which commits, for the remote call.            *)
Assign(s) ==
    /\ At(s, "assign")
    /\ \E loaded \in {proc[s].seen, members} :
         LET added == proc[s].got.members \ loaded
             removed == loaded \ proc[s].got.members IN
         IF Possible(added, removed)
           THEN /\ Write(s, added, removed)
                /\ Proceeds(s, "roles")
                /\ UNCHANGED <<remote, changes, stops>>
           ELSE Conflict(s)

(* The rows are loaded again.  One of somebody else's making has no status *)
(* to be set: an error, and no flag is changed.                            *)
AssignRoles(s) ==
    /\ At(s, "roles")
    /\ admins' = IF members \subseteq proc[s].got.members
                 THEN proc[s].got.admins \cap members ELSE admins
    /\ Ends(s)
    /\ UNCHANGED <<there, members, creators, remote, overtaken, changes, stops>>
-----------------------------------------------------------------------------
(* A remote call fails, or the process dies; what is committed stays.      *)
Stops(p) ==
    /\ stops < MaxStops
    /\ proc[p].stage \notin {"off", "done"}
    /\ stops' = stops + 1
    /\ Ends(p)
    /\ overtaken' = overtaken \ {p}
    /\ UNCHANGED <<memberRows, remote, changes>>

DeleteProject ==
    /\ there
    /\ admins \cup creators # {}
    /\ there' = FALSE
    /\ members' = {} /\ admins' = {} /\ creators' = {}
    /\ overtaken' = overtaken \cup Loaded
    /\ UNCHANGED <<remote, proc, changes, stops>>

ChangeTeam ==
    /\ changes < MaxChanges
    /\ changes' = changes + 1
    /\ remote' \in Team \ {remote}
    /\ UNCHANGED <<memberRows, proc, overtaken, stops>>
-----------------------------------------------------------------------------
Pass(s) == BeginPass(s) \/ Compare(s) \/ Assign(s) \/ AssignRoles(s)

MembersNext ==
    \/ MarkCreator \/ AskTeam \/ AssignTeam
    \/ \E a \in Adders : AskAdd(a) \/ AddMember(a) \/ SetRole(a)
    \/ \E r \in Removers : AskRemove(r) \/ RemoveMember(r)
    \/ \E s \in Passes : Pass(s)
    \/ \E p \in Procs : Stops(p)
    \/ DeleteProject \/ ChangeTeam

MembersSpec == MembersInit /\ [][MembersNext]_memberVars

(* Beat keeps starting passes, and a pass that is not killed goes on.      *)
FairMembersSpec == MembersSpec /\ \A s \in Passes : WF_memberVars(Pass(s))
-----------------------------------------------------------------------------
(***************************************************************************)
(* Properties                                                              *)
(***************************************************************************)
Acts(p) == proc'[p] # proc[p]

(* A map loses its last member only to a request or pass that worked on    *)
(* members which another one had changed.                                  *)
LastMemberStays ==
    [][there' /\ members # {} =>
           members' # {} \/ \E p \in overtaken : Acts(p)]_memberVars

(* Nor does a request, unless it was overtaken, take away the last member  *)
(* with a token, which would end the watching of files and users.          *)
ObserverStays ==
    [][\A r \in Removers \ overtaken :
           Acts(r) /\ members \cap LoggedIn # {} => members' \cap LoggedIn # {}]_memberVars

(* Neither watching nor the map is left without anybody by a request alone *)
(* (services/projects.py, removeUserFromProject).                          *)
MembersStay == LastMemberStays /\ ObserverStays

(* A creator who stays a member stays the creator, whatever the passes do. *)
CreatorStays == [][creators \cap members' \subseteq creators']_memberVars

(* What a pass writes is what DesignSafe answered: if nobody changed the   *)
(* members while it was asking they become its users, and if nobody came   *)
(* or went before the second commit either, its admins are the admins      *)
(* (tasks/external_data.py, refresh_projects_watch_users).                 *)
PassesSetTeam ==
    [][\A s \in Passes :
           Acts(s) /\ stops' = stops /\ there =>
               /\ At(s, "assign") /\ s \notin overtaken =>
                      members' = proc[s].got.members /\ At(s, "roles")'
               /\ At(s, "roles") /\ members = proc[s].got.members =>
                      members' = members /\ admins' = proc[s].got.admins]_memberVars

(* As long as the map is there and has a member with a token, it comes     *)
(* back to the users and the admins of the DesignSafe project.             *)
Watched == there /\ members \cap LoggedIn # {}

InSync == members = remote.members /\ admins = remote.admins

SyncConverges == <>[]Watched => []<>InSync

(* Claims the code does not keep.                                          *)

(* "Unable to remove last user of project".                                *)
NeverEmpty == there => members # {}

(* "Initialize the admin status".                                          *)
AdminsInitialized ==
    [][At(Maker, "assign") /\ members' # members =>
           admins' = proc[Maker].got.admins]_memberVars
=============================================================================
