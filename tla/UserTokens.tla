------------------------------ MODULE UserTokens ------------------------------
(***************************************************************************)
(* One user's row and its Auth row with the Tapis tokens, and everybody    *)
(* who reads and writes them: Celery tasks and pages that make sure of a   *)
(* valid token before each remote call, OAuth logins that store a new      *)
(* pair of tokens, and requests that bring a JWT from elsewhere.  Tokens   *)
(* are numbered in the order in which Tapis issues them, in which they     *)
(* also expire; a pair carries one number.                                 *)
(***************************************************************************)
EXTENDS Integers, FiniteSets

CONSTANTS Tasks,       \* Celery tasks; their user belongs to their session
          Pages,       \* requests that make a call; their user is detached
          Logins,      \* OAuth callbacks
          Visits,      \* requests that bring a JWT of their own
          Nobody,      \* no process
          MaxTokens,   \* bound on tokens issued
          MaxLosses    \* bound on dead processes and lost answers

Callers == Tasks \cup Pages
Procs   == Callers \cup Logins \cup Visits

ASSUME ConstantsAssumption ==
    /\ Tasks \cap Pages = {} /\ Callers \cap (Logins \cup Visits) = {}
    /\ Logins \cap Visits = {}
    /\ Nobody \notin Procs
    /\ MaxTokens \in Nat /\ MaxLosses \in Nat

VARIABLES
    user,      \* "none", "bare" (no Auth row), or "whole"
    auth,      \* the tokens in the Auth row, 0 for NULL
    lock,      \* who holds the Auth row FOR UPDATE
    issued,    \* tokens Tapis has issued
    used,      \* refresh tokens that were exchanged at Tapis
    aged,      \* tokens up to this one were not issued just now
    soon,      \* tokens up to this one are about to expire
    dead,      \* tokens up to this one have expired
    proc,      \* local state of each process
    losses     \* processes that died and answers that were lost

vars == <<user, auth, lock, issued, used, aged, soon, dead, proc, losses>>

time == <<aged, soon, dead>>
-----------------------------------------------------------------------------
Token == 0..MaxTokens
Pair  == [access : Token, refresh : Token]
NoPair == [access |-> 0, refresh |-> 0]

Stages == {"off", "ready", "lock", "put", "commit", "undo", "send",
           "lookup", "create", "created", "save"}

(* seen: the Auth row as the process has it; header: what the client of a  *)
(* task sends as X-Tapis-Token, that of a page sends seen.access; got: a   *)
(* token just issued or brought along.                                     *)
Off == [stage |-> "off", seen |-> NoPair, header |-> 0, got |-> 0]

TypeOK ==
    /\ user \in {"none", "bare", "whole"}
    /\ auth \in Pair
    /\ lock \in Callers \cup {Nobody}
    /\ issued \in Token
    /\ used \subseteq Token
    /\ aged \in Token /\ soon \in Token /\ dead \in Token
    /\ proc \in [Procs -> [stage : Stages, seen : Pair, header : Token, got : Token]]
    /\ losses \in Nat

Init ==
    /\ user = "none"
    /\ auth = NoPair
    /\ lock = Nobody
    /\ issued = 0 /\ used = {}
    /\ aged = 0 /\ soon = 0 /\ dead = 0
    /\ proc = [p \in Procs |-> Off]
    /\ losses = 0
-----------------------------------------------------------------------------
At(p, stage) == proc[p].stage = stage

Goes(p, stage) == proc' = [proc EXCEPT ![p].stage = stage]

DB     == <<user, auth, lock>>
Rows   == <<user, auth>>
Tapis  == <<issued, used>>

(* Row locks: an UPDATE of the Auth row waits for who selected it.         *)
Unlocked == lock = Nobody

(* The database ends p's transaction.                                      *)
ReleasedBy(p) == IF lock = p THEN Nobody ELSE lock

Valid(token) == token > dead
ExpiresSoon(token) == token <= soon
Recent(token) == token > aged
-----------------------------------------------------------------------------
(***************************************************************************)
(* Remote calls: ApiUtils and refresh_access_token.                        *)
(***************************************************************************)
(* The client is made with the token the user has at that time.            *)
Open(p) ==
    /\ At(p, "off")
    /\ user = "whole" /\ auth.access # 0
    /\ proc' = [proc EXCEPT ![p] = [stage |-> "ready", seen |-> auth,
                                    header |-> IF p \in Tasks THEN auth.access ELSE 0,
                                    got |-> 0]]
    /\ UNCHANGED <<DB, Tapis, time, losses>>

(* A commit of the task's own work makes it load the row again.            *)
Reload(p) ==
    /\ At(p, "ready")
    /\ proc[p].seen # auth \/ lock = p
    /\ proc' = [proc EXCEPT ![p].seen = auth]
    /\ lock' = ReleasedBy(p)
    /\ UNCHANGED <<Rows, Tapis, time, losses>>

MustRefresh(p) == proc[p].seen.refresh # 0 /\ ExpiresSoon(proc[p].seen.access)

(* has_valid_token on the row as p sees it: the call is made, or ends in   *)
(* ExpiredTokenError and the session with it.  holder has the row's lock.  *)
Judge(p, seen, header, holder) ==
    IF Valid(seen.access)
    THEN /\ proc' = [proc EXCEPT ![p] = [stage |-> "send", seen |-> seen,
                                         header |-> header, got |-> 0]]
         /\ lock' = holder
    ELSE /\ proc' = [proc EXCEPT ![p] = Off]
         /\ lock' = IF holder = p THEN Nobody ELSE holder

Ensure(p) ==
    /\ At(p, "ready")
    /\ IF MustRefresh(p) THEN Goes(p, "lock") /\ UNCHANGED lock
                         ELSE Judge(p, proc[p].seen, proc[p].header, lock)
    /\ UNCHANGED <<Rows, Tapis, time, losses>>

(* Mutant: a page, too, is given the row as it saw it before.              *)
RowStale(p) == proc[p].seen

(* What SELECT ... FOR UPDATE returns.  The session of a task has the Auth *)
(* object already and keeps the values it had: what others committed while *)
(* the task waited is not seen.  A page's user came from another session,  *)
(* so its own loads the row as it is now.                                  *)
Row(p) == IF p \in Pages THEN auth ELSE proc[p].seen

(* The refresh token sent to Tapis.                                        *)
Sent(p) == Row(p).refresh

(* Mutant: the row is selected without FOR UPDATE.                         *)
AcquireUnlocked(p) ==
    /\ At(p, "lock")
    /\ Goes(p, "put")
    /\ UNCHANGED <<DB, Tapis, time, losses>>

(* With a row that was refreshed recently p is done: the client is made    *)
(* anew, and the row stays locked, because the end of the savepoint is not *)
(* the end of the transaction.                                             *)
Acquire(p) ==
    /\ At(p, "lock")
    /\ lock \in {Nobody, p}
    /\ IF Recent(Row(p).refresh)
       THEN Judge(p, Row(p), IF p \in Tasks THEN Row(p).access ELSE 0, p)
       ELSE Goes(p, "put") /\ lock' = p
    /\ UNCHANGED <<Rows, Tapis, time, losses>>

Issue == /\ issued < MaxTokens
         /\ issued' = issued + 1

(* Tapis exchanges the refresh token for a new pair.                       *)
Exchange(p) ==
    /\ At(p, "put")
    /\ Issue
    /\ used' = used \cup {Sent(p)}
    /\ proc' = [proc EXCEPT ![p].stage = "commit", ![p].got = issued + 1]
    /\ UNCHANGED <<DB, time, losses>>

(* It refuses, one that was used before for instance.                      *)
Refuse(p) ==
    /\ At(p, "put")
    /\ Goes(p, "undo")
    /\ UNCHANGED <<DB, Tapis, time, losses>>

(* It exchanges the token and the answer is lost.                          *)
LoseAnswer(p) ==
    /\ At(p, "put")
    /\ losses < MaxLosses
    /\ losses' = losses + 1
    /\ Issue
    /\ used' = used \cup {Sent(p)}
    /\ Goes(p, "undo")
    /\ UNCHANGED <<DB, time>>

(* Mutant: a refresh token that is there already is kept.                  *)
KeepRefreshToken(p) == [access |-> proc[p].got,
                        refresh |-> IF auth.refresh = 0 THEN proc[p].got ELSE auth.refresh]

NewPair(p) == [access |-> proc[p].got, refresh |-> proc[p].got]

(* The commit closes the transaction inside its context manager.  Then     *)
(* both are refused: the task, whose expired user is loaded for the log,   *)
(* and the page, whose detached user cannot be refreshed.  RefreshTokenError*)
(* leaves the client as it is; what is judged is the user's Auth row, which *)
(* the task reads again and the page does not.                             *)
Commit(p) ==
    /\ At(p, "commit")
    /\ auth' = NewPair(p)
    /\ Judge(p, IF p \in Pages THEN proc[p].seen ELSE NewPair(p), proc[p].header, Nobody)
    /\ UNCHANGED <<user, Tapis, time, losses>>

(* Rolled back.  A task reads the row again, and another's refresh will    *)
(* do; a page is left with what it had.                                    *)
Undo(p) ==
    /\ At(p, "undo")
    /\ Judge(p, IF p \in Pages THEN proc[p].seen ELSE auth, proc[p].header, Nobody)
    /\ UNCHANGED <<Rows, Tapis, time, losses>>

(* Mutant: the session of a request that was answered is not closed.       *)
SendOpen(p) ==
    /\ At(p, "send")
    /\ IF p \in Tasks THEN Goes(p, "ready") ELSE proc' = [proc EXCEPT ![p] = Off]
    /\ UNCHANGED <<DB, Tapis, time, losses>>

(* The call is made; a task goes on to its next, a page answers.           *)
Send(p) ==
    /\ At(p, "send")
    /\ IF p \in Tasks
       THEN Goes(p, "ready") /\ UNCHANGED lock
       ELSE proc' = [proc EXCEPT ![p] = Off] /\ lock' = ReleasedBy(p)
    /\ UNCHANGED <<Rows, Tapis, time, losses>>

(* Mutant: the session of a task that ends is not closed.                  *)
CloseOpen(p) ==
    /\ At(p, "ready")
    /\ proc' = [proc EXCEPT ![p] = Off]
    /\ UNCHANGED <<DB, Tapis, time, losses>>

Close(p) ==
    /\ At(p, "ready")
    /\ proc' = [proc EXCEPT ![p] = Off]
    /\ lock' = ReleasedBy(p)
    /\ UNCHANGED <<Rows, Tapis, time, losses>>
-----------------------------------------------------------------------------
(***************************************************************************)
(* Logins and requests with a JWT.                                         *)
(***************************************************************************)
(* The code of an OAuth callback is exchanged; or a JWT comes in.          *)
Arrive(p) ==
    /\ p \in Logins \cup Visits
    /\ At(p, "off")
    /\ Issue
    /\ proc' = [proc EXCEPT ![p] = [Off EXCEPT !.stage = "lookup", !.got = issued + 1]]
    /\ UNCHANGED <<DB, used, time, losses>>

(* getUser gives a user without an Auth row an empty one.                  *)
Lookup(p) ==
    /\ At(p, "lookup")
    /\ user' = IF user = "bare" THEN "whole" ELSE user
    /\ proc' = [proc EXCEPT ![p].stage = IF user = "none" THEN "create" ELSE "save",
                            ![p].seen = auth]
    /\ UNCHANGED <<auth, lock, Tapis, time, losses>>

Ends(p) == proc' = [proc EXCEPT ![p] = Off]

(* The user name is unique: the slower of two fails.                       *)
CreateUser(p) ==
    /\ At(p, "create")
    /\ IF user = "none" THEN user' = "bare" /\ Goes(p, "created")
                        ELSE UNCHANGED user /\ Ends(p)
    /\ UNCHANGED <<auth, lock, Tapis, time, losses>>

(* The Auth row, in a second commit, unless another process was faster.  A *)
(* visit passes its decoded token, which the database cannot store.        *)
CreateAuth(p) ==
    /\ At(p, "created")
    /\ IF p \in Logins /\ user = "bare"
       THEN user' = "whole" /\ Goes(p, "save")
       ELSE UNCHANGED user /\ Ends(p)
    /\ UNCHANGED <<auth, lock, Tapis, time, losses>>

StoreLogin(p) ==
    /\ At(p, "save") /\ p \in Logins
    /\ Unlocked
    /\ auth' = NewPair(p)
    /\ Ends(p)
    /\ UNCHANGED <<user, lock, Tapis, time, losses>>

(* Without a refresh token, a JWT that expires later than the one p saw.   *)
Improves(p) == proc[p].seen.refresh = 0 /\ proc[p].got > proc[p].seen.access

StoreVisit(p) ==
    /\ At(p, "save") /\ p \in Visits
    /\ Improves(p) => Unlocked
    /\ auth' = IF Improves(p) THEN [auth EXCEPT !.access = proc[p].got] ELSE auth
    /\ Ends(p)
    /\ UNCHANGED <<user, lock, Tapis, time, losses>>
-----------------------------------------------------------------------------
(* A process dies; the database rolls its transaction back.                *)
Dies(p) ==
    /\ losses < MaxLosses
    /\ ~At(p, "off")
    /\ losses' = losses + 1
    /\ lock' = ReleasedBy(p)
    /\ proc' = [proc EXCEPT ![p] = Off]
    /\ UNCHANGED <<Rows, Tapis, time>>

(* A token is recent for five minutes, and expires soon for its last five. *)
TimePasses ==
    /\ \/ aged < issued /\ aged' = aged + 1 /\ UNCHANGED <<soon, dead>>
       \/ soon < aged /\ soon' = soon + 1 /\ UNCHANGED <<aged, dead>>
       \/ dead < soon /\ dead' = dead + 1 /\ UNCHANGED <<aged, soon>>
    /\ UNCHANGED <<DB, Tapis, proc, losses>>
-----------------------------------------------------------------------------
(* What a caller does by itself, and what waits for an answer.             *)
Own(p) == Ensure(p) \/ Acquire(p) \/ Commit(p) \/ Undo(p)

Call(p) == Own(p) \/ Exchange(p) \/ Refuse(p) \/ LoseAnswer(p) \/ Send(p)

Store(p) ==
    \/ Lookup(p) \/ CreateUser(p) \/ CreateAuth(p) \/ StoreLogin(p) \/ StoreVisit(p)

Next ==
    \/ \E p \in Callers : Open(p) \/ Call(p) \/ Close(p)
    \/ \E p \in Tasks : Reload(p)
    \/ \E p \in Logins \cup Visits : Arrive(p) \/ Store(p)
    \/ \E p \in Procs : Dies(p)
    \/ TimePasses

Spec == Init /\ [][Next]_vars

(* Processes go on, and a task that goes on for ever commits now and then. *)
(* Nothing is assumed of remote calls: requests.put and the client have no *)
(* timeout, and an answer may never come.                                  *)
EndsWork(p) == lock = p /\ (Reload(p) \/ Close(p))

FairSpec ==
    /\ Spec
    /\ \A p \in Callers : WF_vars(Own(p))
    /\ \A p \in Tasks : SF_vars(EndsWork(p))
-----------------------------------------------------------------------------
(***************************************************************************)
(* Properties                                                              *)
(***************************************************************************)
(* The stages of a refresh.                                                *)
Locking == {"put", "commit", "undo"}

(* A refresh holds the row's lock, and nobody who has ended holds it.      *)
LockHeld ==
    \A p \in Callers :
        /\ proc[p].stage \in Locking => lock = p
        /\ lock = p => ~At(p, "off")

(* Tokens keep their bounds and the lock has a holder who will give it     *)
(* back: an early return from the refresh leaves it held.                  *)
TokensConsistent == TypeOK /\ LockHeld

(* A refresh that is about to be stored is newer than what it replaces,    *)
(* whoever else refreshed, logged in or brought a token meanwhile.         *)
RefreshGoesForward ==
    \A p \in Callers : At(p, "commit") => proc[p].got > auth.access

(* The refresh token of the row was not exchanged already: a refresh in    *)
(* hand will replace it, or a process died or an answer was lost and the   *)
(* user must log in again.                                                 *)
RefreshTokenUsable ==
    auth.refresh \in used =>
        losses > 0 \/ \E p \in Callers : At(p, "commit") /\ lock = p

(* The refresh token that the user has: what a caller brings from Tapis    *)
(* counts from the exchange on, because only that caller can write the row.*)
Current == IF lock # Nobody /\ At(lock, "commit") THEN proc[lock].got ELSE auth.refresh

Brought == {proc[p].got : p \in {q \in Logins : ~At(q, "off")}}

Promise == INSTANCE TokenExchange WITH
    stored <- Current, spent <- used, brought <- Brought, lost <- losses > 0

(* The row lock makes the exchange at Tapis and the commit of its answer   *)
(* one step, for other callers, logins and requests with a JWT.            *)
RefreshIsAtomic == Promise!Spec

Exchanges(p) == At(p, "put") /\ issued' # issued /\ proc'[p].stage # "put"

(* A page that waited for the lock while others refreshed or logged in     *)
(* neither refreshes again nor sends a token that was exchanged already,   *)
(* unless a process or an answer was lost.                                 *)
PagesRefreshOnce ==
    [][\A p \in Pages : Exchanges(p) =>
           ~Recent(auth.refresh) /\ (Sent(p) \in used => losses > 0)]_vars

Waits(p) == proc[p].stage \in {"put", "send"}

(* However a refresh ends, the Auth row, for which logins and other callers *)
(* wait, is unlocked again, unless a remote call never returns.            *)
LockReleased == (\A p \in Callers : []<>~Waits(p)) => []<>Unlocked

(* Claims the code does not keep.                                          *)

(* "... to ensure that any request has a valid token."                     *)
EveryRequestHasValidToken ==
    [][\A p \in Tasks : ~At(p, "send") /\ proc'[p].stage = "send" =>
           Valid(proc'[p].header)]_vars

(* "Check if the tokens were updated while we were getting the lock."      *)
TasksRefreshOnce ==
    [][\A p \in Tasks : Exchanges(p) => proc[p].seen = auth]_vars

(* "Re-query the updated user ... so that the caller has the latest state."*)
PageHasLatestToken ==
    [][\A p \in Pages : At(p, "commit") /\ proc'[p].stage = "send" =>
           proc'[p].seen = auth']_vars
=============================================================================
