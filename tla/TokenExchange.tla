---------------------------- MODULE TokenExchange ----------------------------
(***************************************************************************)
(* What the refresh of a user's tokens promises, told without processes,   *)
(* rows or locks: a refresh token is exchanged at Tapis and its successor  *)
(* takes its place in one step, unless a process or an answer is lost.     *)
(* Tokens are numbered in the order in which Tapis issues them.            *)
(***************************************************************************)
EXTENDS Integers

VARIABLES issued,     \* tokens issued so far
          stored,     \* the refresh token that the user has, 0 for none
          spent,      \* refresh tokens that were exchanged
          brought,    \* tokens of logins under way, known to nobody else
          lost        \* whether a process died or an answer was lost

tokens == <<issued, stored, spent, brought, lost>>

Init ==
    /\ issued = 0 /\ stored = 0
    /\ spent = {} /\ brought = {}
    /\ lost = FALSE

KnownTokens == 1 .. issued \ brought

Issue == issued' = issued + 1

(* Issued to a login under way, or in a JWT without a refresh token.       *)
Bring ==
    /\ Issue
    /\ brought' \in {brought, brought \cup {issued + 1}}
    /\ UNCHANGED <<stored, spent, lost>>

Store(token) ==
    /\ token \in brought
    /\ stored' = token
    /\ brought' = brought \ {token}
    /\ UNCHANGED <<issued, spent, lost>>

Forget(token) ==
    /\ token \in brought
    /\ brought' = brought \ {token}
    /\ UNCHANGED <<issued, stored, spent, lost>>

(* The token need not be the stored one: a session may have an older row.  *)
Spend(token) ==
    /\ token \in KnownTokens
    /\ Issue
    /\ spent' = spent \cup {token}
    /\ UNCHANGED brought

Refresh(token) ==
    /\ Spend(token)
    /\ stored' = issued + 1
    /\ UNCHANGED lost

LoseAnswer(token) ==
    /\ Spend(token)
    /\ lost' = TRUE
    /\ UNCHANGED stored

(* With a process goes the token it had; what is stored may be an old one. *)
LoseProcess ==
    /\ lost' = TRUE
    /\ brought' \in SUBSET brought
    /\ stored' \in KnownTokens \cup {0}
    /\ UNCHANGED <<issued, spent>>

Next ==
    \/ Bring \/ LoseProcess
    \/ \E token \in brought : Store(token) \/ Forget(token)
    \/ \E token \in KnownTokens : Refresh(token) \/ LoseAnswer(token)

Spec == Init /\ [][Next]_tokens
-----------------------------------------------------------------------------
(* The token that the user has was not exchanged already, or else he must  *)
(* log in again: only a loss can bring that about.                         *)
StoredIsUsable == stored \in spent => lost
=============================================================================
