-------------------------- MODULE UserTokens_proofs --------------------------
(***************************************************************************)
(* Theorems about UserTokens, for any tasks, pages, logins and visits and  *)
(* any bounds, with their proofs.                                          *)
(***************************************************************************)
EXTENDS UserTokens, TLAPS

-----------------------------------------------------------------------------
(***************************************************************************)
(* The invariant.  That the token of a refresh is newer than the row's     *)
(* needs the lock: it is held from the exchange to the commit.  That a     *)
(* refresh is one step needs more: a token is in one pair of hands until   *)
(* it is stored, so it was exchanged by nobody.                            *)
(***************************************************************************)
State == [stage : Stages, seen : Pair, header : Token, got : Token]

(* Where each kind of process can be.                                      *)
StagesOf(p) == IF p \in Callers
               THEN {"off", "ready", "lock", "put", "commit", "undo", "send"}
               ELSE {"off", "lookup", "create", "created", "save"}

StageInv == \A p \in Procs : proc[p].stage \in StagesOf(p)

(* Who refreshes holds the lock, and who holds the lock has not ended.     *)
LockFits(p, stage, holder) ==
    /\ stage \in Locking => holder = p
    /\ holder = p => stage # "off"

(* No token is ahead of Tapis, and NULL is never exchanged.                *)
NumberInv ==
    /\ auth.access <= issued /\ auth.refresh <= issued
    /\ used \subseteq 1 .. issued
    /\ \A p \in Procs : proc[p].seen.refresh <= issued /\ proc[p].got <= issued
    /\ \A p \in Callers : proc[p].stage \in {"lock", "put"} => proc[p].seen.refresh # 0
    /\ \A p \in Procs : proc[p].seen.refresh # 0 => auth.refresh # 0

(* A process with this local state has a token that it has not stored yet. *)
InHand(p, state) == IF p \in Callers THEN state.stage = "commit" ELSE state.stage # "off"

Unspent(p) ==
    /\ proc[p].got \notin used /\ proc[p].got \notin {0, auth.refresh}
    /\ \A q \in Procs : /\ proc[q].seen.refresh # proc[p].got
                        /\ q # p /\ InHand(q, proc[q]) => proc[q].got # proc[p].got

FreshInv == \A p \in Procs : InHand(p, proc[p]) => Unspent(p)

IInv ==
    /\ TypeOK /\ StageInv /\ LockHeld /\ NumberInv /\ FreshInv
    /\ RefreshGoesForward

-----------------------------------------------------------------------------
(***************************************************************************)
(* One process moves.                                                      *)
(***************************************************************************)
LEMMA OneProcess ==
    ASSUME TypeOK, NEW p \in Procs, NEW state \in State,
           proc' = [proc EXCEPT ![p] = state]
    PROVE  /\ proc' \in [Procs -> State]
           /\ \A q \in Procs : proc'[q] = IF q = p THEN state ELSE proc[q]
BY DEF TypeOK, State

(* A move that neither asks Tapis for a token nor writes the Auth row.     *)
Quietly(p, state) ==
    /\ state \in State
    /\ proc' = [proc EXCEPT ![p] = state]
    /\ user' \in {"none", "bare", "whole"} /\ lock' \in Callers \cup {Nobody}
    /\ auth' = auth /\ issued' = issued /\ used' = used /\ UNCHANGED time
    /\ losses' \in Nat /\ losses <= losses'
    /\ state.stage \in StagesOf(p)
    /\ InHand(p, state) => InHand(p, proc[p]) /\ state.got = proc[p].got
    /\ state.got <= issued
    /\ state.seen.refresh \in {proc[p].seen.refresh, auth.refresh, 0}
    /\ p \in Callers /\ state.stage \in {"lock", "put"} => state.seen.refresh # 0
    /\ \A q \in Callers :
          LockFits(q, IF q = p THEN state.stage ELSE proc[q].stage, lock')

LEMMA QuietMove ==
    ASSUME IInv, NEW p \in Procs, NEW state, Quietly(p, state)
    PROVE  IInv'
<1>. USE DEF Quietly
<1>1. /\ proc' \in [Procs -> State]
      /\ \A q \in Procs : proc'[q] = IF q = p THEN state ELSE proc[q]
  BY OneProcess DEF IInv
<1>2. Callers \subseteq Procs
  BY DEF Procs
<1>3. TypeOK'
  BY <1>1 DEF IInv, TypeOK, State, time
<1>4. StageInv'
  BY <1>1 DEF IInv, StageInv, StagesOf
<1>5. LockHeld'
  BY <1>1, <1>2 DEF LockHeld, LockFits, At
<1>6. NumberInv'
  BY <1>1, <1>2 DEF IInv, NumberInv, TypeOK, Token
<1>7. FreshInv'
  <2>1. SUFFICES ASSUME NEW q \in Procs, InHand(q, proc[q])'
                 PROVE  Unspent(q)'
    BY DEF FreshInv
  <2>2. InHand(q, proc[q]) /\ proc'[q].got = proc[q].got
    BY <1>1, <2>1 DEF InHand
  <2>3. Unspent(q)
    BY <2>2 DEF IInv, FreshInv
  <2>4. ASSUME NEW r \in Procs
        PROVE  /\ proc'[r].seen.refresh # proc'[q].got
               /\ r # q /\ InHand(r, proc[r])' => proc'[r].got # proc'[q].got
    <3>1. proc'[r].seen.refresh \in {proc[r].seen.refresh, auth.refresh, 0}
      BY <1>1
    <3>2. InHand(r, proc[r])' => InHand(r, proc[r]) /\ proc'[r].got = proc[r].got
      BY <1>1 DEF InHand
    <3>. QED  BY <2>2, <2>3, <3>1, <3>2 DEF Unspent
  <2>. QED  BY <2>2, <2>3, <2>4 DEF Unspent
<1>8. RefreshGoesForward'
  BY <1>1, <1>2 DEF IInv, RefreshGoesForward, InHand, At
<1>. QED
  BY <1>3, <1>4, <1>5, <1>6, <1>7, <1>8 DEF IInv

(* Tapis issues a token to p, perhaps in exchange for another.             *)
Issues(p, state) ==
    /\ state \in State
    /\ proc' = [proc EXCEPT ![p] = state]
    /\ user' = user /\ auth' = auth /\ lock' = lock /\ UNCHANGED time
    /\ issued < MaxTokens /\ issued' = issued + 1
    /\ losses' \in Nat /\ losses <= losses'
    /\ state.stage \in StagesOf(p) \ {"lock", "put"}
    /\ InHand(p, state) => state.got = issued + 1
    /\ state.got <= issued + 1
    /\ state.seen.refresh \in {proc[p].seen.refresh, 0}
    /\ IF p \in Callers
         THEN /\ proc[p].stage = "put" /\ state.stage \in Locking
              /\ used' = used \cup {Sent(p)}
         ELSE used' = used

LEMMA IssueMove ==
    ASSUME IInv, NEW p \in Procs, NEW state, Issues(p, state)
    PROVE  IInv'
<1>. USE DEF Issues
<1>1. /\ proc' \in [Procs -> State]
      /\ \A q \in Procs : proc'[q] = IF q = p THEN state ELSE proc[q]
  BY OneProcess DEF IInv
<1>2. Callers \subseteq Procs
  BY DEF Procs
<1>n. /\ issued \in Nat /\ MaxTokens \in Nat /\ used \subseteq 1 .. issued
      /\ \A q \in Procs : /\ proc[q].seen.refresh \in 0 .. issued
                          /\ proc[q].got \in 0 .. issued
  BY ConstantsAssumption DEF IInv, TypeOK, NumberInv, Token, Pair
<1>s. Sent(p) \in {proc[p].seen.refresh, auth.refresh}
  BY DEF Sent, Row
<1>u. used' \subseteq 1 .. issued /\ (p \notin Callers => used' = used)
  <2>1. CASE p \in Callers
    <3>1. proc[p].seen.refresh # 0 /\ auth.refresh # 0
      BY <1>2, <2>1 DEF IInv, NumberInv
    <3>2. proc[p].seen.refresh \in 1 .. issued /\ auth.refresh \in 1 .. issued
      BY <1>n, <3>1 DEF IInv, TypeOK, NumberInv, Pair, Token
    <3>. QED  BY <1>n, <1>s, <2>1, <3>2
  <2>. QED  BY <1>n, <2>1
<1>3. TypeOK'
  BY <1>1, <1>n, <1>u, ConstantsAssumption DEF IInv, TypeOK, State, Token, time
<1>4. StageInv'
  BY <1>1 DEF IInv, StageInv, StagesOf
<1>5. LockHeld'
  BY <1>1, <1>2 DEF IInv, LockHeld, Locking, At
<1>6. NumberInv'
  <2>1. auth'.access <= issued' /\ auth'.refresh <= issued'
    BY <1>n DEF IInv, NumberInv, TypeOK, Pair, Token
  <2>2. used' \subseteq 1 .. issued'
    BY <1>n, <1>u
  <2>3. \A q \in Procs : proc'[q].seen.refresh <= issued' /\ proc'[q].got <= issued'
    BY <1>1, <1>n
  <2>4. \A q \in Callers : proc'[q].stage \in {"lock", "put"} => proc'[q].seen.refresh # 0
    BY <1>1, <1>2 DEF IInv, NumberInv
  <2>5. \A q \in Procs : proc'[q].seen.refresh # 0 => auth'.refresh # 0
    BY <1>1 DEF IInv, NumberInv
  <2>. QED  BY <2>1, <2>2, <2>3, <2>4, <2>5 DEF NumberInv
<1>7. FreshInv'
  <2>1. SUFFICES ASSUME NEW q \in Procs, InHand(q, proc[q])'
                 PROVE  Unspent(q)'
    BY DEF FreshInv
  <2>2. \A r \in Procs : proc'[r].seen.refresh \in {proc[r].seen.refresh, 0}
    BY <1>1
  <2>3. CASE q = p
    <3>1. proc'[q].got = issued + 1
      BY <1>1, <2>1, <2>3 DEF InHand
    <3>. QED  BY <1>1, <1>n, <1>u, <2>2, <2>3, <3>1
              DEF Unspent, IInv, NumberInv, TypeOK, Pair, Token
  <2>4. CASE q # p
    <3>1. proc'[q] = proc[q] /\ InHand(q, proc[q])
      BY <1>1, <2>1, <2>4 DEF InHand
    <3>2. Unspent(q)
      BY <3>1 DEF IInv, FreshInv
    <3>3. proc[q].got \notin used'
      BY <1>s, <3>2 DEF Unspent
    <3>. QED  BY <1>1, <1>n, <2>2, <2>4, <3>1, <3>2, <3>3 DEF Unspent, InHand
  <2>. QED  BY <2>3, <2>4
<1>8. RefreshGoesForward'
  BY <1>1, <1>2, <1>n DEF IInv, RefreshGoesForward, InHand, At, NumberInv, TypeOK, Pair, Token
<1>. QED
  BY <1>3, <1>4, <1>5, <1>6, <1>7, <1>8 DEF IInv

(* p stores its token, or half of it, and nobody else had the lock.        *)
Storing(p, state) ==
    /\ state \in State
    /\ proc' = [proc EXCEPT ![p] = state]
    /\ user' = user /\ issued' = issued /\ used' = used /\ UNCHANGED time
    /\ losses' = losses
    /\ InHand(p, proc[p]) /\ ~InHand(p, state)
    /\ lock \in {p, Nobody} /\ lock' = Nobody
    /\ auth' \in Pair
    /\ auth'.access = proc[p].got
    /\ auth'.refresh \in {auth.refresh, proc[p].got}
    /\ p \in Callers => auth'.refresh = proc[p].got
    /\ state.stage \in StagesOf(p) \ (Locking \cup {"lock"})
    /\ state.got <= issued
    /\ state.seen.refresh \in {proc[p].seen.refresh, 0, auth'.refresh}

LEMMA StoreMove ==
    ASSUME IInv, NEW p \in Procs, NEW state, Storing(p, state)
    PROVE  IInv'
<1>. USE DEF Storing
<1>1. /\ proc' \in [Procs -> State]
      /\ \A q \in Procs : proc'[q] = IF q = p THEN state ELSE proc[q]
  BY OneProcess DEF IInv
<1>2. Callers \subseteq Procs /\ Nobody \notin Procs
  BY ConstantsAssumption DEF Procs
<1>3. TypeOK'
  BY <1>1 DEF IInv, TypeOK, State, time
<1>4. StageInv'
  BY <1>1 DEF IInv, StageInv, StagesOf
<1>5. LockHeld'
  BY <1>1, <1>2 DEF IInv, LockHeld, Locking, At
<1>6. NumberInv'
  <2>1. proc[p].got # 0 /\ proc[p].got \in 0 .. issued
    BY DEF IInv, FreshInv, Unspent, NumberInv, TypeOK, Token
  <2>2. \A q \in Procs : proc'[q].seen.refresh # 0 => auth'.refresh # 0
    BY <1>1, <2>1 DEF IInv, NumberInv
  <2>3. \A q \in Procs : proc'[q].seen.refresh <= issued' /\ proc'[q].got <= issued'
    BY <1>1, <2>1 DEF IInv, NumberInv, TypeOK, Token, Pair
  <2>4. \A q \in Callers : proc'[q].stage \in {"lock", "put"} => proc'[q].seen.refresh # 0
    BY <1>1, <1>2 DEF IInv, NumberInv, Locking
  <2>5. auth'.access <= issued' /\ auth'.refresh <= issued' /\ used' \subseteq 1 .. issued'
    BY <2>1 DEF IInv, NumberInv, TypeOK, Token, Pair
  <2>. QED  BY <2>2, <2>3, <2>4, <2>5 DEF NumberInv
<1>7. FreshInv'
  <2>1. SUFFICES ASSUME NEW q \in Procs, InHand(q, proc[q])'
                 PROVE  Unspent(q)'
    BY DEF FreshInv
  <2>2. q # p /\ proc'[q] = proc[q] /\ InHand(q, proc[q])
    BY <1>1, <2>1 DEF InHand
  <2>3. Unspent(q) /\ proc[p].got # proc[q].got
    BY <2>2 DEF IInv, FreshInv, Unspent
  <2>4. auth'.refresh # proc[q].got
    BY <2>3 DEF Unspent
  <2>5. \A r \in Procs : proc'[r].seen.refresh \in {proc[r].seen.refresh, 0, auth'.refresh}
    BY <1>1
  <2>6. \A r \in Procs : InHand(r, proc[r])' => InHand(r, proc[r]) /\ proc'[r] = proc[r]
    BY <1>1 DEF InHand
  <2>. QED  BY <2>2, <2>3, <2>4, <2>5, <2>6 DEF Unspent
<1>8. RefreshGoesForward'
  BY <1>2, <1>5 DEF RefreshGoesForward, LockHeld, Locking, LockFits, At
<1>. QED
  BY <1>3, <1>4, <1>5, <1>6, <1>7, <1>8 DEF IInv

-----------------------------------------------------------------------------
(***************************************************************************)
(* The actions.                                                            *)
(***************************************************************************)
LEMMA Facts ==
    ASSUME IInv, NEW p \in Procs
    PROVE  /\ proc[p] \in State /\ auth \in Pair /\ NoPair \in Pair /\ Off \in State
           /\ Callers \subseteq Procs /\ Nobody \notin Procs
           /\ proc[p].got \in 0 .. issued /\ proc[p].seen.refresh \in 0 .. issued
           /\ auth.access \in 0 .. issued /\ auth.refresh \in 0 .. issued
           /\ issued \in Token /\ losses \in Nat /\ lock \in Callers \cup {Nobody}
           /\ proc[p].stage \in StagesOf(p)
           /\ p \in Callers => LockFits(p, proc[p].stage, lock)
<1>1. proc[p] \in State /\ auth \in Pair
  BY DEF IInv, TypeOK, State
<1>2. NoPair \in Pair /\ Off \in State
  BY ConstantsAssumption DEF NoPair, Off, Pair, State, Stages, Token
<1>3. Callers \subseteq Procs /\ Nobody \notin Procs
  BY ConstantsAssumption DEF Procs
<1>4. /\ proc[p].got \in 0 .. issued /\ proc[p].seen.refresh \in 0 .. issued
      /\ auth.access \in 0 .. issued /\ auth.refresh \in 0 .. issued
  BY <1>1 DEF IInv, NumberInv, TypeOK, Pair, State, Token
<1>. QED
  BY <1>1, <1>2, <1>3, <1>4 DEF IInv, TypeOK, StageInv, LockHeld, LockFits, At

(* What Judge leaves p with: it sends, or ends in an error.                *)
Judged(seen, header) == IF Valid(seen.access)
                        THEN [stage |-> "send", seen |-> seen, header |-> header, got |-> 0]
                        ELSE Off

LEMMA JudgeMoves ==
    ASSUME IInv, NEW p \in Callers, NEW seen \in Pair, NEW header \in Token, NEW holder,
           Judge(p, seen, header, holder)
    PROVE  /\ Judged(seen, header) \in State
           /\ proc' = [proc EXCEPT ![p] = Judged(seen, header)]
           /\ Judged(seen, header).stage \in {"send", "off"}
           /\ Judged(seen, header).got = 0
           /\ Judged(seen, header).seen.refresh \in {seen.refresh, 0}
           /\ lock' \in {holder, Nobody}
           /\ lock' = p => Judged(seen, header).stage = "send"
<1>1. p \in Procs /\ p # Nobody
  BY ConstantsAssumption DEF Procs
<1>2. Off \in State
  BY <1>1, Facts
<1>3. Judged(seen, header) \in State
  BY <1>2, ConstantsAssumption DEF Judged, State, Stages, Token
<1>. QED
  BY <1>1, <1>3 DEF Judged, Judge, Off, NoPair

(* What Goes leaves p with.                                                *)
Gone(p, stage) == [proc[p] EXCEPT !.stage = stage]

LEMMA GoesMoves ==
    ASSUME IInv, NEW p \in Procs, NEW stage \in Stages, Goes(p, stage)
    PROVE  /\ Gone(p, stage) \in State
           /\ proc' = [proc EXCEPT ![p] = Gone(p, stage)]
           /\ Gone(p, stage).stage = stage
           /\ Gone(p, stage).got = proc[p].got
           /\ Gone(p, stage).seen = proc[p].seen
BY Facts DEF Gone, Goes, State

LEMMA CallerStep ==
    ASSUME IInv, NEW p \in Callers, Open(p) \/ Reload(p) \/ Call(p) \/ Close(p)
    PROVE  IInv'
<1>p. p \in Procs
  BY DEF Procs
<1>f. /\ proc[p] \in State /\ auth \in Pair /\ NoPair \in Pair /\ Off \in State
      /\ Callers \subseteq Procs /\ Nobody \notin Callers
      /\ proc[p].got \in 0 .. issued /\ proc[p].seen.refresh \in 0 .. issued
      /\ auth.access \in 0 .. issued /\ auth.refresh \in 0 .. issued
      /\ issued \in Token /\ losses \in Nat /\ lock \in Callers \cup {Nobody}
      /\ user \in {"none", "bare", "whole"} /\ 0 \in Token /\ issued \in Nat
      /\ \A q \in Callers : LockFits(q, proc[q].stage, lock)
  BY <1>p, Facts, ConstantsAssumption DEF IInv, TypeOK, LockHeld, Token, Procs
<1>1. CASE Open(p)
  <2> DEFINE state == [stage |-> "ready", seen |-> auth,
                       header |-> IF p \in Tasks THEN auth.access ELSE 0, got |-> 0]
  <2>1. state \in State
    BY <1>f DEF State, Stages, Pair
  <2>2. proc' = [proc EXCEPT ![p] = state] /\ At(p, "off")
    BY <1>1 DEF Open
  <2>3. UNCHANGED <<user, auth, lock, issued, used, time, losses>>
    BY <1>1 DEF Open, DB, Tapis
  <2>4. \A q \in Callers : LockFits(q, IF q = p THEN state.stage ELSE proc[q].stage, lock')
    BY <2>2, <2>3, <1>f DEF Locking, LockFits, At
  <2>5. /\ state.stage \in StagesOf(p) /\ ~InHand(p, state) /\ ~InHand(p, proc[p])
        /\ state.got <= issued /\ state.seen.refresh = auth.refresh /\ state.stage = "ready"
    BY <2>2, <1>f DEF StagesOf, InHand, At
  <2> HIDE DEF state
  <2>. QED
    <3>1. Quietly(p, state)
      BY <1>f, <2>1, <2>2, <2>3, <2>4, <2>5 DEF Quietly
    <3>. QED  BY <1>p, <3>1, QuietMove
<1>j. ASSUME NEW seen \in Pair, NEW header \in Token, NEW holder \in {lock, p, Nobody},
             Judge(p, seen, header, holder),
             seen.refresh \in {proc[p].seen.refresh, auth.refresh},
             UNCHANGED <<user, auth, issued, used, time, losses>>,
             holder = lock \/ lock \in {p, Nobody}
      PROVE  IInv'
  <2> DEFINE state == Judged(seen, header)
  <2>1. /\ state \in State /\ proc' = [proc EXCEPT ![p] = state]
        /\ state.stage \in {"send", "off"} /\ state.got = 0
        /\ state.seen.refresh \in {seen.refresh, 0}
        /\ lock' \in {holder, Nobody} /\ (lock' = p => state.stage = "send")
        /\ lock' = holder \/ holder = p
    <3>1. lock' = holder \/ holder = p
      BY <1>j DEF Judge
    <3>. QED  BY <1>j, <3>1, JudgeMoves
  <2> HIDE DEF state
  <2>2. \A q \in Callers : LockFits(q, IF q = p THEN state.stage ELSE proc[q].stage, lock')
    BY <1>j, <1>f, <2>1 DEF Locking, LockFits
  <2>3. Quietly(p, state)
    BY <1>j, <1>f, <2>1, <2>2 DEF Quietly, StagesOf, InHand
  <2>. QED  BY <1>p, <2>3, QuietMove
<1>g. ASSUME NEW stage \in {"ready", "lock", "put", "undo"}, Goes(p, stage),
             UNCHANGED <<user, auth, issued, used, time, losses>>,
             proc[p].stage # "commit",
             lock' \in Callers \cup {Nobody},
             stage \in {"lock", "put"} => proc[p].seen.refresh # 0,
             \A q \in Callers :
                LockFits(q, IF q = p THEN stage ELSE proc[q].stage, lock')
      PROVE  IInv'
  <2> DEFINE state == Gone(p, stage)
  <2>1. /\ state \in State /\ proc' = [proc EXCEPT ![p] = state]
        /\ state.stage = stage /\ state.got = proc[p].got
        /\ state.seen = proc[p].seen
    BY <1>g, <1>p, GoesMoves DEF Stages
  <2> HIDE DEF state
  <2>2. Quietly(p, state)
    BY <1>g, <1>f, <2>1 DEF Quietly, StagesOf, InHand
  <2>. QED  BY <1>p, <2>2, QuietMove
<1>e. ASSUME proc' = [proc EXCEPT ![p] = Off], lock' = ReleasedBy(p),
             UNCHANGED <<user, auth, issued, used, time, losses>>
      PROVE  IInv'
  <2>1. \A q \in Callers : LockFits(q, IF q = p THEN Off.stage ELSE proc[q].stage, lock')
    BY <1>e, <1>f DEF ReleasedBy, LockFits, Locking, Off
  <2>2. Quietly(p, Off)
    BY <1>e, <1>f, <2>1 DEF Quietly, StagesOf, InHand, ReleasedBy, Off, NoPair
  <2>. QED  BY <1>p, <2>2, QuietMove
<1>2. CASE Reload(p)
  <2> DEFINE state == [proc[p] EXCEPT !.seen = auth]
  <2>1. /\ proc[p].stage = "ready" /\ proc' = [proc EXCEPT ![p] = state]
        /\ UNCHANGED <<user, auth, issued, used, time, losses>> /\ lock' = ReleasedBy(p)
    BY <1>2 DEF Reload, At, Rows, Tapis
  <2>2. state \in State /\ state.stage = "ready" /\ state.seen = auth /\ state.got = proc[p].got
    BY <1>f, <2>1 DEF State
  <2> HIDE DEF state
  <2>3. \A q \in Callers : LockFits(q, IF q = p THEN state.stage ELSE proc[q].stage, lock')
    BY <1>f, <2>1, <2>2 DEF LockFits, Locking, ReleasedBy
  <2>4. Quietly(p, state)
    BY <1>f, <2>1, <2>2, <2>3 DEF Quietly, StagesOf, InHand, ReleasedBy
  <2>. QED  BY <1>p, <2>4, QuietMove
<1>3. CASE Ensure(p)
  <2>1. /\ UNCHANGED <<user, auth, issued, used, time, losses>>
        /\ proc[p].stage = "ready"
    BY <1>3 DEF Ensure, Rows, Tapis, At
  <2>2. CASE MustRefresh(p) /\ Goes(p, "lock") /\ UNCHANGED lock
    BY <1>g, <1>f, <2>1, <2>2 DEF MustRefresh, Locking, LockFits
  <2>3. CASE Judge(p, proc[p].seen, proc[p].header, lock)
    <3>1. proc[p].seen \in Pair /\ proc[p].header \in Token
      BY <1>f DEF State
    <3>. QED  BY <1>j, <2>1, <2>3, <3>1
  <2>. QED  BY <1>3, <2>2, <2>3 DEF Ensure
<1>4. CASE Acquire(p)
  <2>1. proc[p].stage = "lock" /\ proc[p].seen.refresh # 0
    BY <1>4 DEF Acquire, At, IInv, NumberInv
  <2>2. lock \in {Nobody, p} /\ UNCHANGED <<user, auth, issued, used, time, losses>>
    BY <1>4 DEF Acquire, Rows, Tapis
  <2>3. CASE Goes(p, "put") /\ lock' = p
    BY <1>g, <1>f, <2>1, <2>2, <2>3 DEF Locking, LockFits
  <2>4. CASE Judge(p, Row(p), IF p \in Tasks THEN Row(p).access ELSE 0, p)
    <3>1. /\ Row(p) \in Pair /\ Row(p).access \in Token
          /\ Row(p).refresh \in {proc[p].seen.refresh, auth.refresh}
      BY <1>f DEF Row, State, Pair
    <3>. QED  BY <1>j, <1>f, <2>2, <2>4, <3>1
  <2>. QED  BY <1>4, <2>3, <2>4 DEF Acquire
<1>5. CASE Exchange(p)
  <2> DEFINE state == [proc[p] EXCEPT !.stage = "commit", !.got = issued + 1]
  <2>1. proc[p].stage = "put" /\ issued < MaxTokens /\ issued' = issued + 1
        /\ used' = used \cup {Sent(p)}
        /\ UNCHANGED <<user, auth, lock, time, losses>>
    BY <1>5 DEF Exchange, At, Issue, DB
  <2>2. issued + 1 \in Token
    BY <1>f, <2>1, ConstantsAssumption DEF Token
  <2>3. state \in State /\ proc' = [proc EXCEPT ![p] = state]
        /\ state.stage = "commit" /\ state.got = issued + 1 /\ state.seen = proc[p].seen
    BY <1>5, <1>f, <2>2 DEF Exchange, State, Stages
  <2> HIDE DEF state
  <2>4. Issues(p, state)
    BY <1>f, <2>1, <2>3 DEF Issues, StagesOf, InHand, Locking, LockFits
  <2>. QED  BY <1>p, <2>4, IssueMove
<1>6. CASE Refuse(p)
  <2>1. proc[p].stage = "put" /\ Goes(p, "undo")
        /\ UNCHANGED <<user, auth, lock, issued, used, time, losses>>
    BY <1>6 DEF Refuse, At, DB, Tapis
  <2>. QED  BY <1>g, <1>f, <2>1 DEF Locking, LockFits
<1>7. CASE LoseAnswer(p)
  <2>1. proc[p].stage = "put" /\ issued < MaxTokens /\ issued' = issued + 1
        /\ used' = used \cup {Sent(p)} /\ losses' = losses + 1
        /\ UNCHANGED <<user, auth, lock, time>> /\ Goes(p, "undo")
    BY <1>7 DEF LoseAnswer, At, Issue, DB
  <2> DEFINE state == Gone(p, "undo")
  <2>2. /\ state \in State /\ proc' = [proc EXCEPT ![p] = state]
        /\ state.stage = "undo" /\ state.got = proc[p].got
        /\ state.seen = proc[p].seen
    BY <2>1, <1>p, GoesMoves DEF Stages
  <2> HIDE DEF state
  <2>3. Issues(p, state)
    BY <1>f, <2>1, <2>2 DEF Issues, StagesOf, InHand, Locking, LockFits
  <2>. QED  BY <1>p, <2>3, IssueMove
<1>8. CASE Commit(p)
  <2> DEFINE seen == IF p \in Pages THEN proc[p].seen ELSE NewPair(p)
             state == Judged(seen, proc[p].header)
  <2>1. /\ proc[p].stage = "commit" /\ auth' = NewPair(p)
        /\ Judge(p, seen, proc[p].header, Nobody)
        /\ UNCHANGED <<user, issued, used, time, losses>>
    BY <1>8 DEF Commit, At, Tapis
  <2>2. /\ NewPair(p) \in Pair /\ lock = p /\ seen \in Pair /\ proc[p].header \in Token
        /\ NewPair(p).access = proc[p].got /\ NewPair(p).refresh = proc[p].got
        /\ seen.refresh \in {proc[p].seen.refresh, proc[p].got}
    BY <1>f, <2>1 DEF NewPair, Pair, State, Locking, LockFits
  <2>l. lock' = Nobody
    BY <2>1 DEF Judge
  <2> HIDE DEF seen
  <2>3. /\ state \in State /\ proc' = [proc EXCEPT ![p] = state]
        /\ state.stage \in {"send", "off"} /\ state.got = 0
        /\ state.seen.refresh \in {proc[p].seen.refresh, proc[p].got, 0}
    BY <2>1, <2>2, JudgeMoves
  <2> HIDE DEF state
  <2>4. Storing(p, state)
    BY <1>f, <2>1, <2>2, <2>l, <2>3 DEF Storing, StagesOf, InHand, Locking
  <2>. QED  BY <1>p, <2>4, StoreMove
<1>9. CASE Undo(p)
  <2> DEFINE seen == IF p \in Pages THEN proc[p].seen ELSE auth
  <2>1. /\ proc[p].stage = "undo" /\ lock = p /\ Judge(p, seen, proc[p].header, Nobody)
        /\ UNCHANGED <<user, auth, issued, used, time, losses>>
    BY <1>9, <1>f DEF Undo, At, Rows, Tapis, Locking, LockFits
  <2>2. seen \in Pair /\ seen.refresh \in {proc[p].seen.refresh, auth.refresh}
        /\ proc[p].header \in Token
    BY <1>f DEF State
  <2> HIDE DEF seen
  <2>. QED  BY <1>j, <2>1, <2>2
<1>10. CASE Send(p)
  <2>1. /\ proc[p].stage = "send" /\ UNCHANGED <<user, auth, issued, used, time, losses>>
        /\ \/ Goes(p, "ready") /\ UNCHANGED lock
           \/ proc' = [proc EXCEPT ![p] = Off] /\ lock' = ReleasedBy(p)
    BY <1>10 DEF Send, At, Rows, Tapis
  <2>2. CASE Goes(p, "ready") /\ UNCHANGED lock
    BY <1>g, <1>f, <2>1, <2>2 DEF Locking, LockFits
  <2>3. CASE proc' = [proc EXCEPT ![p] = Off] /\ lock' = ReleasedBy(p)
    BY <1>e, <2>1, <2>3
  <2>. QED  BY <2>1, <2>2, <2>3
<1>11. CASE Close(p)
  BY <1>e, <1>11 DEF Close, Rows, Tapis
<1>. QED
  BY <1>1, <1>2, <1>3, <1>4, <1>5, <1>6, <1>7, <1>8, <1>9, <1>10, <1>11 DEF Call, Own

LEMMA StorerStep ==
    ASSUME IInv, NEW p \in Logins \cup Visits, Arrive(p) \/ Store(p)
    PROVE  IInv'
<1>p. p \in Procs /\ p \notin Callers
  BY ConstantsAssumption DEF Procs
<1>f. /\ proc[p] \in State /\ auth \in Pair /\ NoPair \in Pair /\ Off \in State
      /\ Callers \subseteq Procs /\ Nobody \notin Callers
      /\ proc[p].got \in 0 .. issued /\ proc[p].seen.refresh \in 0 .. issued
      /\ auth.access \in 0 .. issued /\ auth.refresh \in 0 .. issued
      /\ issued \in Token /\ losses \in Nat /\ lock \in Callers \cup {Nobody}
      /\ user \in {"none", "bare", "whole"} /\ 0 \in Token /\ issued \in Nat
      /\ \A q \in Callers : LockFits(q, proc[q].stage, lock)
  BY <1>p, Facts, ConstantsAssumption DEF IInv, TypeOK, LockHeld, Token, Procs
<1>o. ASSUME proc' = [proc EXCEPT ![p] = Off], user' \in {"none", "bare", "whole"},
             UNCHANGED <<auth, lock, issued, used, time, losses>>
      PROVE  IInv'
  <2>1. Quietly(p, Off)
    BY <1>f, <1>o, <1>p DEF Quietly, StagesOf, InHand, Off, NoPair
  <2>. QED  BY <1>p, <2>1, QuietMove
<1>g. ASSUME NEW stage \in {"created", "save"}, Goes(p, stage), proc[p].stage # "off",
             user' \in {"none", "bare", "whole"},
             UNCHANGED <<auth, lock, issued, used, time, losses>>
      PROVE  IInv'
  <2> DEFINE state == Gone(p, stage)
  <2>1. /\ state \in State /\ proc' = [proc EXCEPT ![p] = state]
        /\ state.stage = stage /\ state.got = proc[p].got
        /\ state.seen = proc[p].seen
    BY <1>g, <1>p, GoesMoves DEF Stages
  <2> HIDE DEF state
  <2>2. Quietly(p, state)
    BY <1>g, <1>f, <1>p, <2>1 DEF Quietly, StagesOf, InHand
  <2>. QED  BY <1>p, <2>2, QuietMove
<1>1. CASE Arrive(p)
  <2> DEFINE state == [Off EXCEPT !.stage = "lookup", !.got = issued + 1]
  <2>1. /\ issued < MaxTokens /\ issued' = issued + 1 /\ proc' = [proc EXCEPT ![p] = state]
        /\ UNCHANGED <<user, auth, lock, used, time, losses>>
    BY <1>1 DEF Arrive, Issue, DB
  <2>2. issued + 1 \in Token
    BY <1>f, <2>1, ConstantsAssumption DEF Token
  <2>3. /\ state \in State /\ state.stage = "lookup" /\ state.got = issued + 1
        /\ state.seen.refresh = 0
    BY <1>f, <2>2 DEF State, Off, NoPair, Stages
  <2> HIDE DEF state
  <2>4. Issues(p, state)
    BY <1>f, <1>p, <2>1, <2>3 DEF Issues, StagesOf, InHand
  <2>. QED  BY <1>p, <2>4, IssueMove
<1>2. CASE Lookup(p)
  <2> DEFINE state == [proc[p] EXCEPT !.stage = IF user = "none" THEN "create" ELSE "save",
                                      !.seen = auth]
  <2>1. /\ proc[p].stage = "lookup" /\ proc' = [proc EXCEPT ![p] = state]
        /\ user' \in {"none", "bare", "whole"}
        /\ UNCHANGED <<auth, lock, issued, used, time, losses>>
    BY <1>2, <1>f DEF Lookup, At, Tapis
  <2>2. /\ state \in State /\ state.stage \in {"create", "save"} /\ state.seen = auth
        /\ state.got = proc[p].got
    BY <1>f DEF State, Stages
  <2> HIDE DEF state
  <2>3. Quietly(p, state)
    BY <1>f, <1>p, <2>1, <2>2 DEF Quietly, StagesOf, InHand
  <2>. QED  BY <1>p, <2>3, QuietMove
<1>3. CASE CreateUser(p)
  <2>1. /\ proc[p].stage # "off" /\ user' \in {"none", "bare", "whole"}
        /\ UNCHANGED <<auth, lock, issued, used, time, losses>>
        /\ Goes(p, "created") \/ proc' = [proc EXCEPT ![p] = Off]
    BY <1>3, <1>f DEF CreateUser, At, Ends, Tapis
  <2>. QED  BY <1>o, <1>g, <2>1
<1>4. CASE CreateAuth(p)
  <2>1. /\ proc[p].stage # "off" /\ user' \in {"none", "bare", "whole"}
        /\ UNCHANGED <<auth, lock, issued, used, time, losses>>
        /\ Goes(p, "save") \/ proc' = [proc EXCEPT ![p] = Off]
    BY <1>4, <1>f DEF CreateAuth, At, Ends, Tapis
  <2>. QED  BY <1>o, <1>g, <2>1
<1>5. CASE StoreLogin(p)
  <2>1. /\ proc[p].stage = "save" /\ lock = Nobody /\ lock' = Nobody
        /\ auth' = NewPair(p) /\ proc' = [proc EXCEPT ![p] = Off]
        /\ UNCHANGED <<user, issued, used, time, losses>>
    BY <1>5 DEF StoreLogin, At, Unlocked, Ends, Tapis
  <2>2. NewPair(p) \in Pair /\ NewPair(p).access = proc[p].got /\ NewPair(p).refresh = proc[p].got
    BY <1>f DEF NewPair, Pair, State
  <2>3. Storing(p, Off)
    BY <1>f, <1>p, <2>1, <2>2 DEF Storing, StagesOf, InHand, Locking, LockFits, Off, NoPair
  <2>. QED  BY <1>p, <2>3, StoreMove
<1>6. CASE StoreVisit(p)
  <2>1. /\ proc[p].stage = "save" /\ lock' = lock /\ proc' = [proc EXCEPT ![p] = Off]
        /\ UNCHANGED <<user, issued, used, time, losses>>
        /\ auth' = IF Improves(p) THEN [auth EXCEPT !.access = proc[p].got] ELSE auth
        /\ Improves(p) => lock = Nobody
    BY <1>6 DEF StoreVisit, At, Unlocked, Ends, Tapis
  <2>2. CASE Improves(p)
    <3>1. auth' \in Pair /\ auth'.access = proc[p].got /\ auth'.refresh = auth.refresh
      BY <1>f, <2>1, <2>2 DEF Pair, State
    <3>2. Storing(p, Off)
      BY <1>f, <1>p, <2>1, <2>2, <3>1 DEF Storing, StagesOf, InHand, Locking, LockFits, Off, NoPair
    <3>. QED  BY <1>p, <3>2, StoreMove
  <2>3. CASE ~Improves(p)
    BY <1>o, <1>f, <2>1, <2>3
  <2>. QED  BY <2>2, <2>3
<1>. QED
  BY <1>1, <1>2, <1>3, <1>4, <1>5, <1>6 DEF Store

LEMMA DeathStep ==
    ASSUME IInv, NEW p \in Procs, Dies(p)
    PROVE  IInv'
<1>1. /\ losses' = losses + 1 /\ lock' = (IF lock = p THEN Nobody ELSE lock)
      /\ proc' = [proc EXCEPT ![p] = Off]
      /\ UNCHANGED <<user, auth, issued, used, time>>
  BY DEF Dies, Rows, Tapis, ReleasedBy
<1>2. /\ Off \in State /\ Callers \subseteq Procs /\ Nobody \notin Callers
      /\ losses \in Nat /\ lock \in Callers \cup {Nobody} /\ issued \in Nat
      /\ user \in {"none", "bare", "whole"}
      /\ \A q \in Callers : LockFits(q, proc[q].stage, lock)
  BY Facts DEF IInv, TypeOK, LockHeld, Token
<1>3. Quietly(p, Off)
  BY <1>1, <1>2 DEF Quietly, StagesOf, InHand, Locking, LockFits, Off, NoPair
<1>. QED  BY <1>3, QuietMove

LEMMA TimeStep ==
    ASSUME IInv, TimePasses
    PROVE  IInv'
<1>1. UNCHANGED <<user, auth, lock, issued, used, proc, losses>>
  BY DEF TimePasses, DB, Tapis
<1>2. aged' \in Token /\ soon' \in Token /\ dead' \in Token
  BY ConstantsAssumption DEF IInv, TypeOK, TimePasses, Token
<1>. QED
  BY <1>1, <1>2 DEF IInv, TypeOK, StageInv, LockHeld, NumberInv, FreshInv, Unspent,
                    RefreshGoesForward, At

LEMMA Step ==
    ASSUME IInv, [Next]_vars
    PROVE  IInv'
<1>1. CASE UNCHANGED vars
  BY <1>1 DEF vars, IInv, TypeOK, StageInv, LockHeld, NumberInv, FreshInv, Unspent,
              RefreshGoesForward, At
<1>2. CASE Next
  <2>1. Tasks \subseteq Callers
    BY DEF Callers
  <2>. QED
    BY <1>2, <2>1, CallerStep, StorerStep, DeathStep, TimeStep DEF Next
<1>. QED  BY <1>1, <1>2

LEMMA Start == Init => IInv
<1>1. SUFFICES ASSUME Init PROVE IInv
  OBVIOUS
<1>2. /\ 0 \in Token /\ NoPair \in Pair /\ Off \in State
      /\ \A p \in Procs : proc[p] = Off
      /\ proc \in [Procs -> State]
  BY <1>1, ConstantsAssumption DEF Init, Off, NoPair, Pair, State, Token, Stages
<1>3. TypeOK
  BY <1>1, <1>2 DEF Init, TypeOK, State
<1>4. Nobody \notin Callers /\ Callers \subseteq Procs
  BY ConstantsAssumption DEF Procs
<1>. QED
  BY <1>1, <1>2, <1>3, <1>4
  DEF Init, IInv, StageInv, StagesOf, LockHeld, Locking, LockFits, NumberInv, FreshInv, InHand,
      RefreshGoesForward, At, Off, NoPair, Token

-----------------------------------------------------------------------------
(***************************************************************************)
(* The promise of TokenExchange.  Exchange is its Refresh; Commit, which   *)
(* changes the row, changes nothing there, because the caller at the lock  *)
(* is the only one at "commit" and no login stores meanwhile.  Everything  *)
(* else that callers do is invisible.                                      *)
(***************************************************************************)
CurrentExplained ==
    /\ \A q \in Callers : At(q, "commit") => Current = proc[q].got
    /\ (\A q \in Callers : ~At(q, "commit")) => Current = auth.refresh

LEMMA CurrentIs == IInv => CurrentExplained
<1>1. SUFFICES ASSUME IInv PROVE CurrentExplained
  OBVIOUS
<1>2. /\ Nobody \notin Callers /\ lock \in Callers \cup {Nobody}
      /\ \A q \in Callers : proc[q].stage \in Locking => lock = q
  BY <1>1, ConstantsAssumption DEF IInv, TypeOK, LockHeld, Procs
<1>. QED
  BY <1>2 DEF CurrentExplained, Current, At, Locking

LEMMA CurrentSame ==
    ASSUME IInv, IInv', NEW p \in Procs, NEW state \in State,
           proc' = [proc EXCEPT ![p] = state], auth'.refresh = auth.refresh,
           p \in Callers => proc[p].stage # "commit" /\ state.stage # "commit"
    PROVE  Current' = Current
<1>1. \A q \in Procs : proc'[q] = IF q = p THEN state ELSE proc[q]
  BY OneProcess DEF IInv
<1>2. \A q \in Callers : /\ At(q, "commit")' <=> At(q, "commit")
                         /\ At(q, "commit") => proc'[q] = proc[q]
  BY <1>1 DEF At, Procs
<1>3. CurrentExplained /\ CurrentExplained'
  BY CurrentIs, PTL
<1>. QED
  BY <1>2, <1>3 DEF CurrentExplained

(* What one process does to the set of the logins' tokens.                 *)
LEMMA BroughtMoves ==
    ASSUME IInv, NEW p \in Procs, NEW state \in State,
           proc' = [proc EXCEPT ![p] = state]
    PROVE  /\ p \notin Logins => Brought' = Brought
           /\ p \in Logins /\ proc[p].stage # "off" /\ state.stage # "off"
                 /\ state.got = proc[p].got => Brought' = Brought
           /\ p \in Logins /\ proc[p].stage = "off" /\ state.stage # "off" =>
                 Brought' = Brought \cup {state.got}
           /\ p \in Logins /\ proc[p].stage # "off" /\ state.stage = "off" =>
                 proc[p].got \in Brought /\ Brought' = Brought \ {proc[p].got}
<1>1. \A q \in Logins : proc'[q] = IF q = p THEN state ELSE proc[q]
  BY OneProcess DEF IInv, Procs
<1>2. \A q \in Logins : proc[q].stage # "off" /\ p \in Logins /\ proc[p].stage # "off" =>
        (proc[q].got = proc[p].got => q = p)
  BY ConstantsAssumption DEF IInv, FreshInv, Unspent, InHand, Procs
<1>3. \A t : t \in Brought <=> \E q \in Logins : proc[q].stage # "off" /\ t = proc[q].got
  BY DEF Brought, At
<1>4. \A t : t \in Brought' <=> \E q \in Logins : proc'[q].stage # "off" /\ t = proc'[q].got
  BY DEF Brought, At
<1>5. CASE p \notin Logins
  <2>1. \A t : t \in Brought' <=> t \in Brought
    BY <1>1, <1>3, <1>4, <1>5
  <2>. QED  BY <1>5, <2>1
<1>6. CASE p \in Logins /\ proc[p].stage # "off" /\ state.stage # "off" /\ state.got = proc[p].got
  <2>1. \A t : t \in Brought' <=> t \in Brought
    BY <1>1, <1>3, <1>4, <1>6
  <2>. QED  BY <1>6, <2>1
<1>7. CASE p \in Logins /\ proc[p].stage = "off" /\ state.stage # "off"
  BY <1>1, <1>3, <1>4, <1>7
<1>8. CASE p \in Logins /\ proc[p].stage # "off" /\ state.stage = "off"
  <2>1. proc[p].got \in Brought
    BY <1>3, <1>8
  <2>2. \A t : t \in Brought' <=> t \in Brought /\ t # proc[p].got
    BY <1>1, <1>2, <1>3, <1>4, <1>8
  <2>. QED  BY <1>8, <2>1, <2>2
<1>. QED
  BY <1>5, <1>6, <1>7, <1>8

(* No caller knows a login's token: what it can exchange, and what is      *)
(* stored, are known tokens.                                               *)
LEMMA TokensKnown ==
    ASSUME IInv
    PROVE  /\ issued \in Nat /\ Brought \subseteq 1 .. issued
           /\ Current \in Promise!KnownTokens \cup {0}
           /\ auth.refresh \in Promise!KnownTokens \cup {0}
           /\ \A q \in Callers : proc[q].stage = "put" => Sent(q) \in Promise!KnownTokens
<1>1. /\ issued \in Nat /\ auth.refresh \in 0 .. issued /\ Callers \subseteq Procs
      /\ Logins \subseteq Procs /\ Logins \cap Callers = {} /\ Nobody \notin Callers
      /\ lock \in Callers \cup {Nobody}
      /\ \A q \in Procs : proc[q].got \in 0 .. issued /\ proc[q].seen.refresh \in 0 .. issued
  BY ConstantsAssumption DEF IInv, TypeOK, NumberInv, Token, Pair, Procs
<1>2. \A q \in Logins : proc[q].stage # "off" => Unspent(q)
  BY <1>1 DEF IInv, FreshInv, InHand
<1>3. Brought \subseteq 1 .. issued
  BY <1>1, <1>2 DEF Brought, At, Unspent
<1>4. \A q \in Procs : proc[q].seen.refresh \notin Brought
  BY <1>1, <1>2 DEF Brought, At, Unspent
<1>5. auth.refresh \notin Brought
  BY <1>1, <1>2 DEF Brought, At, Unspent
<1>6. Current \in 0 .. issued /\ Current \notin Brought
  <2>1. CASE lock # Nobody /\ At(lock, "commit")
    <3>1. lock \in Callers /\ InHand(lock, proc[lock]) /\ Current = proc[lock].got
      BY <1>1, <2>1 DEF InHand, At, Current
    <3>2. \A q \in Logins : proc[q].stage # "off" => proc[q].got # proc[lock].got
      BY <1>1, <1>2, <3>1 DEF Unspent
    <3>. QED  BY <1>1, <3>1, <3>2 DEF Brought, At
  <2>. QED  BY <1>1, <1>5, <2>1 DEF Current
<1>7. ASSUME NEW q \in Callers, proc[q].stage = "put"
      PROVE  Sent(q) \in Promise!KnownTokens
  <2>1. proc[q].seen.refresh # 0 /\ auth.refresh # 0
    BY <1>1, <1>7 DEF IInv, NumberInv
  <2>2. Sent(q) \in {proc[q].seen.refresh, auth.refresh}
    BY DEF Sent, Row
  <2>. QED  BY <1>1, <1>4, <1>5, <2>1, <2>2 DEF Promise!KnownTokens
<1>. QED
  BY <1>1, <1>3, <1>5, <1>6, <1>7 DEF Promise!KnownTokens

Kept == [Promise!Next]_(Promise!tokens)

LEMMA Invisible ==
    ASSUME UNCHANGED <<issued, used, losses>>, Current' = Current, Brought' = Brought
    PROVE  Kept
BY DEF Kept, Promise!tokens

LEMMA CallerKeeps ==
    ASSUME IInv, IInv', NEW p \in Callers, Open(p) \/ Reload(p) \/ Call(p) \/ Close(p)
    PROVE  Kept
<1>p. p \in Procs /\ p \notin Logins /\ Callers \subseteq Procs
  BY ConstantsAssumption DEF Procs
<1>f. proc[p] \in State /\ proc' \in [Procs -> State] /\ lock \in Callers \cup {Nobody}
  BY <1>p DEF IInv, TypeOK, State
<1>1. PICK state : proc' = [proc EXCEPT ![p] = state]
  BY DEF Open, Reload, Call, Own, Ensure, Acquire, Exchange, Refuse, LoseAnswer, Commit, Undo,
         Send, Close, Goes, Judge
<1>2. proc'[p] = state /\ state \in State
  BY <1>1, <1>p, <1>f DEF IInv, TypeOK
<1>3. Brought' = Brought
  BY <1>1, <1>2, <1>p, BroughtMoves
<1>4. CASE Exchange(p)
  <2>1. /\ proc[p].stage = "put" /\ issued' = issued + 1 /\ losses' = losses
        /\ used' = used \cup {Sent(p)}
        /\ state.stage = "commit" /\ state.got = issued + 1
    BY <1>4, <1>2, <1>p, <1>f DEF Exchange, At, Issue, DB, IInv, TypeOK, State
  <2>2. Current' = issued + 1
    <3>1. CurrentExplained'
      BY CurrentIs, PTL
    <3>. QED  BY <1>2, <2>1, <3>1 DEF CurrentExplained, At
  <2>3. Promise!Refresh(Sent(p))
    BY <1>3, <2>1, <2>2, TokensKnown DEF Promise!Refresh, Promise!Spend, Promise!Issue
  <2>. QED  BY <2>1, <2>3, TokensKnown DEF Kept, Promise!Next
<1>5. CASE LoseAnswer(p)
  <2>1. /\ proc[p].stage = "put" /\ issued' = issued + 1 /\ losses' = losses + 1
        /\ used' = used \cup {Sent(p)} /\ auth' = auth
        /\ state.stage = "undo"
    BY <1>5, <1>2, <1>p, <1>f DEF LoseAnswer, At, Issue, DB, Goes, IInv, TypeOK, State
  <2>2. Current' = Current
    BY <1>1, <1>2, <1>p, <2>1, CurrentSame
  <2>3. losses' > 0
    BY <2>1 DEF IInv, TypeOK
  <2>4. Promise!LoseAnswer(Sent(p))
    BY <1>3, <2>1, <2>2, <2>3, TokensKnown DEF Promise!LoseAnswer, Promise!Spend, Promise!Issue
  <2>. QED  BY <2>1, <2>4, TokensKnown DEF Kept, Promise!Next
<1>6. CASE Commit(p)
  <2>1. /\ proc[p].stage = "commit" /\ auth' = NewPair(p) /\ lock' = Nobody
        /\ UNCHANGED <<issued, used, losses>>
    BY <1>6 DEF Commit, At, Tapis, Judge
  <2>2. CurrentExplained /\ CurrentExplained'
    BY CurrentIs, PTL
  <2>3. Current = proc[p].got
    BY <2>1, <2>2 DEF CurrentExplained, At
  <2>4. Current' = auth'.refresh
    BY <2>1 DEF Current
  <2>. QED  BY <1>3, <2>1, <2>3, <2>4, Invisible DEF NewPair
<1>7. CASE Open(p) \/ Reload(p) \/ Ensure(p) \/ Acquire(p) \/ Refuse(p) \/ Undo(p)
           \/ Send(p) \/ Close(p)
  <2>1. UNCHANGED <<auth, issued, used, losses>>
    BY <1>7 DEF Open, Reload, Ensure, Acquire, Refuse, Undo, Send, Close, DB, Rows, Tapis
  <2>2. proc[p].stage # "commit"
    BY <1>7 DEF Open, Reload, Ensure, Acquire, Refuse, Undo, Send, Close, At
  <2>3. ASSUME NEW seen, NEW header, NEW holder, Judge(p, seen, header, holder)
        PROVE  state.stage # "commit"
    BY <1>2, <1>p, <2>3 DEF Judge, IInv, TypeOK, Off
  <2>4. ASSUME NEW stage, stage # "commit", Goes(p, stage)
        PROVE  state.stage # "commit"
    BY <1>2, <1>p, <2>4 DEF Goes, IInv, TypeOK
  <2>5. state.stage # "commit"
    <3>1. CASE Ensure(p) \/ Acquire(p) \/ Refuse(p) \/ Undo(p)
      BY <2>3, <2>4, <3>1 DEF Ensure, Acquire, Refuse, Undo
    <3>2. CASE Open(p) \/ Close(p) \/ Send(p)
      BY <1>2, <1>p, <2>4, <3>2 DEF Open, Close, Send, IInv, TypeOK, Off
    <3>3. CASE Reload(p)
      BY <1>2, <1>p, <1>f, <3>3 DEF Reload, At, IInv, TypeOK, State
    <3>. QED  BY <1>7, <3>1, <3>2, <3>3
  <2>6. Current' = Current
    BY <1>1, <1>2, <1>p, <2>1, <2>2, <2>5, CurrentSame
  <2>. QED  BY <1>3, <2>1, <2>6, Invisible
<1>. QED
  BY <1>4, <1>5, <1>6, <1>7 DEF Call, Own

LEMMA StorerKeeps ==
    ASSUME IInv, IInv', NEW p \in Logins \cup Visits, Arrive(p) \/ Store(p)
    PROVE  Kept
<1>p. p \in Procs /\ p \notin Callers
  BY ConstantsAssumption DEF Procs
<1>f. proc[p] \in State /\ proc' \in [Procs -> State]
  BY <1>p DEF IInv, TypeOK, State
<1>1. PICK state : proc' = [proc EXCEPT ![p] = state]
  BY DEF Arrive, Store, Lookup, CreateUser, CreateAuth, StoreLogin, StoreVisit, Goes, Ends
<1>2. proc'[p] = state /\ state \in State
  BY <1>1, <1>p, <1>f DEF IInv, TypeOK
<1>3. ASSUME auth'.refresh = auth.refresh, UNCHANGED <<issued, used, losses>>,
             proc[p].stage # "off", state.stage = "off"
      PROVE  Kept
  <2>1. Current' = Current
    BY <1>1, <1>2, <1>3, <1>p, CurrentSame
  <2>2. CASE p \in Logins
    <3>1. proc[p].got \in Brought /\ Brought' = Brought \ {proc[p].got}
      BY <1>1, <1>2, <1>3, <1>p, <2>2, BroughtMoves
    <3>2. Promise!Forget(proc[p].got)
      BY <1>3, <2>1, <3>1 DEF Promise!Forget
    <3>. QED  BY <3>1, <3>2 DEF Kept, Promise!Next
  <2>3. CASE p \notin Logins
    <3>1. Brought' = Brought
      BY <1>1, <1>2, <1>p, <2>3, BroughtMoves
    <3>. QED  BY <1>3, <2>1, <3>1, Invisible
  <2>. QED  BY <2>2, <2>3
<1>4. ASSUME auth' = auth, UNCHANGED <<issued, used, losses>>,
             proc[p].stage # "off", state.stage # "off", state.got = proc[p].got
      PROVE  Kept
  <2>1. Current' = Current
    BY <1>1, <1>2, <1>4, <1>p, CurrentSame
  <2>2. Brought' = Brought
    BY <1>1, <1>2, <1>4, <1>p, BroughtMoves
  <2>. QED  BY <1>4, <2>1, <2>2, Invisible
<1>5. CASE Arrive(p)
  <2>1. /\ proc[p].stage = "off" /\ issued' = issued + 1
        /\ UNCHANGED <<auth, used, losses>>
        /\ state.stage = "lookup" /\ state.got = issued + 1
    BY <1>5, <1>2, <1>p DEF Arrive, At, Issue, DB, Off, IInv, TypeOK
  <2>2. Current' = Current
    BY <1>1, <1>2, <1>p, <2>1, CurrentSame
  <2>3. Brought' \in {Brought, Brought \cup {issued + 1}}
    BY <1>1, <1>2, <1>p, <2>1, BroughtMoves
  <2>4. Promise!Bring
    BY <2>1, <2>2, <2>3 DEF Promise!Bring, Promise!Issue
  <2>. QED  BY <2>4 DEF Kept, Promise!Next
<1>6. CASE Lookup(p)
  <2>1. /\ proc[p].stage # "off" /\ UNCHANGED <<auth, issued, used, losses>>
        /\ state.stage # "off" /\ state.got = proc[p].got
    BY <1>6, <1>2, <1>p, <1>f DEF Lookup, At, Tapis, IInv, TypeOK, State
  <2>. QED  BY <1>4, <2>1
<1>7. CASE CreateUser(p) \/ CreateAuth(p)
  <2>1. proc[p].stage # "off" /\ UNCHANGED <<auth, issued, used, losses>>
    BY <1>7 DEF CreateUser, CreateAuth, At, Tapis
  <2>2. Ends(p) \/ Goes(p, "created") \/ Goes(p, "save")
    BY <1>7 DEF CreateUser, CreateAuth
  <2>3. CASE Ends(p)
    BY <1>2, <1>3, <1>p, <2>1, <2>3 DEF Ends, Off, IInv, TypeOK
  <2>4. CASE Goes(p, "created") \/ Goes(p, "save")
    <3>1. state.stage # "off" /\ state.got = proc[p].got
      BY <1>2, <1>p, <1>f, <2>4 DEF Goes, IInv, TypeOK, State
    <3>. QED  BY <1>4, <2>1, <3>1
  <2>. QED  BY <2>2, <2>3, <2>4
<1>8. CASE StoreLogin(p)
  <2>1. /\ p \in Logins /\ proc[p].stage # "off" /\ lock = Nobody /\ auth' = NewPair(p)
        /\ UNCHANGED <<lock, issued, used, losses>> /\ state.stage = "off"
    BY <1>8, <1>2, <1>p DEF StoreLogin, At, Unlocked, Ends, Tapis, Off, IInv, TypeOK
  <2>2. Current' = proc[p].got
    BY <2>1 DEF Current, NewPair
  <2>3. proc[p].got \in Brought /\ Brought' = Brought \ {proc[p].got}
    BY <1>1, <1>2, <1>p, <2>1, BroughtMoves
  <2>4. Promise!Store(proc[p].got)
    BY <2>1, <2>2, <2>3 DEF Promise!Store
  <2>. QED  BY <2>3, <2>4 DEF Kept, Promise!Next
<1>9. CASE StoreVisit(p)
  <2>1. /\ proc[p].stage # "off" /\ UNCHANGED <<issued, used, losses>>
        /\ state.stage = "off" /\ auth'.refresh = auth.refresh
    BY <1>9, <1>2, <1>p DEF StoreVisit, At, Ends, Tapis, Off, IInv, TypeOK, Pair
  <2>. QED  BY <1>3, <2>1
<1>. QED
  BY <1>5, <1>6, <1>7, <1>8, <1>9 DEF Store

LEMMA DeathKeeps ==
    ASSUME IInv, IInv', NEW p \in Procs, Dies(p)
    PROVE  Kept
<1>1. /\ losses' = losses + 1 /\ proc' = [proc EXCEPT ![p] = Off]
      /\ UNCHANGED <<auth, issued, used>> /\ proc[p].stage # "off"
  BY DEF Dies, Rows, Tapis, At
<1>2. Off \in State /\ Off.stage = "off" /\ losses' > 0 /\ ~(losses' = 0)
  BY <1>1, Facts DEF Off, IInv, TypeOK
<1>3. Brought' \in SUBSET Brought
  BY <1>1, <1>2, BroughtMoves
<1>4. Current' \in {Current, auth.refresh}
  <2>1. CASE p \in Callers /\ proc[p].stage = "commit"
    <3>1. \A q \in Procs : proc'[q] = IF q = p THEN Off ELSE proc[q]
      BY <1>1, <1>2, OneProcess DEF IInv
    <3>2. \A q \in Callers : ~At(q, "commit")'
      BY <1>2, <2>1, <3>1 DEF IInv, LockHeld, Locking, LockFits, At, Procs
    <3>3. CurrentExplained'
      BY CurrentIs, PTL
    <3>. QED  BY <1>1, <3>2, <3>3 DEF CurrentExplained
  <2>2. CASE ~(p \in Callers /\ proc[p].stage = "commit")
    BY <1>1, <1>2, <2>2, CurrentSame
  <2>. QED  BY <2>1, <2>2
<1>5. Current' \in Promise!KnownTokens \cup {0}
  BY <1>4, TokensKnown
<1>6. Promise!LoseProcess
  BY <1>1, <1>2, <1>3, <1>5 DEF Promise!LoseProcess
<1>. QED  BY <1>6 DEF Kept, Promise!Next

LEMMA StepKeeps ==
    ASSUME IInv, IInv', [Next]_vars
    PROVE  Kept
<1>1. CASE UNCHANGED vars \/ TimePasses
  <2>1. UNCHANGED <<auth, lock, issued, used, proc, losses>>
    BY <1>1 DEF vars, TimePasses, DB, Tapis
  <2>2. Current' = Current /\ Brought' = Brought
    BY <2>1 DEF Current, Brought, At
  <2>. QED  BY <2>1, <2>2, Invisible
<1>2. CASE \E p \in Callers : Open(p) \/ Reload(p) \/ Call(p) \/ Close(p)
  BY <1>2, CallerKeeps
<1>3. CASE \E p \in Logins \cup Visits : Arrive(p) \/ Store(p)
  BY <1>3, StorerKeeps
<1>4. CASE \E p \in Procs : Dies(p)
  BY <1>4, DeathKeeps
<1>. QED
  BY <1>1, <1>2, <1>3, <1>4 DEF Next, Callers

LEMMA StartKeeps == Init => Promise!Init
<1>1. SUFFICES ASSUME Init PROVE Promise!Init
  OBVIOUS
<1>2. /\ \A p \in Logins : proc[p] = Off
      /\ auth.refresh = 0 /\ lock = Nobody /\ losses = 0 /\ issued = 0 /\ used = {}
  BY <1>1 DEF Init, NoPair, Procs
<1>3. Brought = {}
  BY <1>2 DEF Brought, At, Off
<1>. QED
  BY <1>2, <1>3 DEF Promise!Init, Current

-----------------------------------------------------------------------------
(***************************************************************************)
(* The theorems.                                                           *)
(***************************************************************************)
LEMMA HolderMoves ==
    ASSUME IInv, [Next]_vars, NEW p \in Callers, lock = p, auth' # auth
    PROVE  Commit(p)
<1>1. p # Nobody /\ \A q \in Callers : q # p => proc[q].stage \notin Locking
  BY ConstantsAssumption DEF IInv, LockHeld, Procs
<1>2. \/ \E q \in Callers : Commit(q)
      \/ \E q \in Logins : StoreLogin(q)
      \/ \E q \in Visits : StoreVisit(q) /\ Improves(q)
  BY DEF Next, vars, Open, Call, Own, Close, Reload, Arrive, Store, Dies, TimePasses, DB, Rows,
         Ensure, Acquire, Exchange, Refuse, LoseAnswer, Undo, Send, Lookup, CreateUser,
         CreateAuth, StoreLogin, StoreVisit
<1>3. ~Unlocked
  BY <1>1 DEF Unlocked
<1>4. ASSUME NEW q \in Callers, Commit(q)
      PROVE  q = p
  BY <1>1, <1>4 DEF Commit, At, Locking
<1>. QED  BY <1>2, <1>3, <1>4 DEF StoreLogin, StoreVisit

LEMMA TimeGoesOn ==
    ASSUME IInv, [Next]_vars
    PROVE  aged <= aged'
<1>1. aged \in Int /\ issued \in Int
  BY DEF IInv, TypeOK, Token
<1>2. CASE TimePasses
  BY <1>1, <1>2 DEF TimePasses
<1>3. CASE ~TimePasses
  <2>1. aged' = aged
    BY <1>3 DEF Next, vars, Open, Call, Own, Close, Reload, Arrive, Store, Dies, time, Ensure,
                Acquire, Exchange, Refuse, LoseAnswer, Commit, Undo, Send, Lookup, CreateUser,
                CreateAuth, StoreLogin, StoreVisit
  <2>. QED  BY <1>1, <2>1
<1>. QED  BY <1>2, <1>3

(* Only its own Acquire takes a caller to Tapis.                           *)
LEMMA OnlyAcquire ==
    ASSUME IInv, [Next]_vars, NEW p \in Callers, ~At(p, "put"), At(p, "put")'
    PROVE  Acquire(p) /\ Goes(p, "put")
<1>p. p \in Procs /\ p \notin Logins \cup Visits
  BY ConstantsAssumption DEF Procs
<1>1. ASSUME NEW q \in Procs, NEW state, proc' = [proc EXCEPT ![q] = state]
      PROVE  q = p /\ state.stage = "put"
  BY <1>p, <1>1 DEF At, IInv, TypeOK
<1>2. ASSUME NEW q \in Procs, proc' = [proc EXCEPT ![q] = Off]
      PROVE  FALSE
  <2>1. Off.stage # "put"
    BY DEF Off
  <2>. QED  BY <1>1, <1>2, <2>1
<1>3. ASSUME NEW q \in Procs, NEW seen, NEW header, NEW holder, Judge(q, seen, header, holder)
      PROVE  FALSE
  <2>1. CASE Valid(seen.access)
    <3> DEFINE state == [stage |-> "send", seen |-> seen, header |-> header, got |-> 0]
    <3>1. proc' = [proc EXCEPT ![q] = state] /\ state.stage # "put"
      BY <1>3, <2>1 DEF Judge
    <3> HIDE DEF state
    <3>. QED  BY <1>1, <3>1
  <2>2. CASE ~Valid(seen.access)
    BY <1>2, <1>3, <2>2 DEF Judge
  <2>. QED  BY <2>1, <2>2
<1>4. ASSUME NEW q \in Procs, NEW stage, Goes(q, stage)
      PROVE  q = p /\ stage = "put"
  BY <1>p, <1>4 DEF Goes, At, IInv, TypeOK
<1>5. CASE UNCHANGED proc
  BY <1>5 DEF At
<1>6. ASSUME NEW q \in Callers, Open(q) \/ Reload(q) \/ Call(q) \/ Close(q)
      PROVE  Acquire(p) /\ Goes(p, "put")
  <2>q. q \in Procs
    BY DEF Procs
  <2>1. CASE Open(q) \/ Reload(q) \/ Close(q) \/ Exchange(q)
    <3>1. CASE Close(q)
      BY <1>2, <2>q, <3>1 DEF Close
    <3>2. CASE Open(q) \/ Reload(q) \/ Exchange(q)
      BY <2>q, <1>p, <3>2 DEF Open, Reload, Exchange, At, IInv, TypeOK
    <3>. QED  BY <2>1, <3>1, <3>2
  <2>2. CASE Ensure(q) \/ Commit(q) \/ Undo(q) \/ Refuse(q) \/ LoseAnswer(q)
    BY <1>3, <1>4, <2>q, <2>2 DEF Ensure, Commit, Undo, Refuse, LoseAnswer
  <2>3. CASE Send(q)
    BY <1>2, <1>4, <2>q, <2>3 DEF Send
  <2>4. CASE Acquire(q)
    BY <1>3, <1>4, <2>q, <2>4 DEF Acquire
  <2>. QED  BY <1>6, <2>1, <2>2, <2>3, <2>4 DEF Call, Own
<1>7. ASSUME NEW q \in Logins \cup Visits, Arrive(q) \/ Store(q)
      PROVE  FALSE
  <2>1. PICK state : proc' = [proc EXCEPT ![q] = state]
    BY <1>7 DEF Arrive, Store, Lookup, CreateUser, CreateAuth, StoreLogin, StoreVisit, Goes, Ends
  <2>2. q \in Procs /\ q # p
    BY <1>p DEF Procs
  <2>. QED  BY <1>1, <2>1, <2>2
<1>8. ASSUME NEW q \in Procs, Dies(q)
      PROVE  FALSE
  BY <1>2, <1>8 DEF Dies
<1>. QED
  BY <1>5, <1>6, <1>7, <1>8 DEF Next, vars, TimePasses, Callers

LEMMA Invariance == Spec => []IInv
<1>1. IInv /\ [Next]_vars => IInv'
  BY Step
<1>. QED  BY Start, <1>1, PTL DEF Spec

(* The rows and the processes keep their types, a refresh holds the row's  *)
(* lock, and a process that ended, in an error too, holds it no more       *)
(* (models/users.py, services/users.py, db.py).                            *)
THEOREM TypeCorrect == Spec => []TokensConsistent
<1>1. IInv => TokensConsistent
  BY DEF IInv, TokensConsistent
<1>. QED  BY Invariance, <1>1, PTL

(* A refresh never overwrites tokens that are newer than those it brings:  *)
(* the row is locked from before the exchange until the commit             *)
(* (utils/external_apis.py).                                               *)
THEOREM RefreshesGoForward == Spec => []RefreshGoesForward
<1>1. IInv => RefreshGoesForward
  BY DEF IInv
<1>. QED  BY Invariance, <1>1, PTL

(* Whoever has selected the row FOR UPDATE, in a refresh or after an early *)
(* return that leaves it locked, is the only one who may be in a refresh,  *)
(* and the row changes only when a refresh that has it locked commits, or  *)
(* while it is unlocked (services/users.py, refresh_access_token).         *)
HolderOwnsRow ==
    [][\A p \in Callers : lock = p =>
           /\ \A q \in Callers \ {p} : proc[q].stage \notin Locking
           /\ auth' # auth => At(p, "commit") /\ auth' = NewPair(p) /\ Unlocked']_vars

THEOREM HoldersTakeTurns == Spec => HolderOwnsRow
<1>1. ASSUME IInv, [Next]_vars, NEW p \in Callers, lock = p
      PROVE  /\ \A q \in Callers \ {p} : proc[q].stage \notin Locking
             /\ auth' # auth => At(p, "commit") /\ auth' = NewPair(p) /\ Unlocked'
  <2>1. p # Nobody /\ \A q \in Callers : q # p => proc[q].stage \notin Locking
    BY <1>1, ConstantsAssumption DEF IInv, LockHeld, Procs
  <2>2. auth' # auth => Commit(p)
    BY <1>1, HolderMoves
  <2>3. Commit(p) => At(p, "commit") /\ auth' = NewPair(p) /\ Unlocked'
    BY <2>1 DEF Commit, Judge, Unlocked
  <2>. QED  BY <2>1, <2>2, <2>3
<1>2. IInv /\ [Next]_vars =>
          \A p \in Callers : lock = p =>
              /\ \A q \in Callers \ {p} : proc[q].stage \notin Locking
              /\ auth' # auth => At(p, "commit") /\ auth' = NewPair(p) /\ Unlocked'
  BY <1>1
<1>. QED  BY <1>2, Invariance, PTL DEF Spec, HolderOwnsRow

(* For other callers, logins and requests with a JWT, a refresh is one     *)
(* step: the row lock of refresh_access_token implements TokenExchange     *)
(* (utils/external_apis.py, services/users.py).                            *)
THEOREM RefreshesAreAtomic == Spec => RefreshIsAtomic
<1>1. IInv /\ [Next]_vars => IInv'
  BY Step
<1>2. IInv /\ IInv' /\ [Next]_vars => [Promise!Next]_(Promise!tokens)
  BY StepKeeps DEF Kept
<1>. QED
  BY Start, <1>1, <1>2, StartKeeps, PTL DEF Spec, RefreshIsAtomic, Promise!Spec

(* What TokenExchange promises is worth having: a token that is stored was *)
(* not exchanged, unless a process or an answer was lost.                  *)
THEOREM PromiseKeepsTokens == Promise!Spec => []Promise!StoredIsUsable
<1> DEFINE Inv == /\ issued \in Nat /\ Brought \subseteq 1 .. issued
                  /\ Current \in 0 .. issued /\ used \subseteq 1 .. issued
                  /\ used \cap Brought = {} /\ Current \notin Brought
                  /\ Promise!StoredIsUsable
<1>1. Promise!Init => Inv
  BY DEF Promise!Init, Promise!StoredIsUsable
<1>2. Inv /\ [Promise!Next]_(Promise!tokens) => Inv'
  <2>1. SUFFICES ASSUME Inv, [Promise!Next]_(Promise!tokens) PROVE Inv'
    OBVIOUS
  <2>2. CASE UNCHANGED Promise!tokens
    BY <2>1, <2>2 DEF Promise!tokens, Promise!StoredIsUsable
  <2>3. CASE Promise!Bring
    BY <2>1, <2>3 DEF Promise!Bring, Promise!Issue, Promise!StoredIsUsable
  <2>4. CASE Promise!LoseProcess
    BY <2>1, <2>4 DEF Promise!LoseProcess, Promise!KnownTokens, Promise!StoredIsUsable
  <2>5. ASSUME NEW token \in Brought, Promise!Store(token) \/ Promise!Forget(token)
        PROVE  Inv'
    <3>1. /\ Brought' = Brought \ {token} /\ Current' \in {Current, token}
          /\ UNCHANGED <<issued, used>>
          /\ Current' = token \/ ((losses > 0)' = (losses > 0) /\ Current' = Current)
      BY <2>5 DEF Promise!Store, Promise!Forget
    <3>2. token \in 1 .. issued /\ token \notin used
      BY <2>1
    <3>. QED  BY <2>1, <3>1, <3>2 DEF Promise!StoredIsUsable
  <2>6. ASSUME NEW token \in Promise!KnownTokens,
               Promise!Refresh(token) \/ Promise!LoseAnswer(token)
        PROVE  Inv'
    <3>1. /\ Brought' = Brought /\ issued' = issued + 1 /\ used' = used \cup {token}
          /\ Current' = issued + 1 \/ (Current' = Current /\ (losses > 0)')
      BY <2>6 DEF Promise!Refresh, Promise!LoseAnswer, Promise!Spend, Promise!Issue
    <3>2. token \in 1 .. issued /\ token \notin Brought
      BY <2>6 DEF Promise!KnownTokens
    <3>3. issued + 1 \notin Brought /\ issued + 1 \notin used'
      BY <2>1, <3>1, <3>2
    <3>. QED  BY <2>1, <3>1, <3>2, <3>3 DEF Promise!StoredIsUsable
  <2>. QED  BY <2>1, <2>2, <2>3, <2>4, <2>5, <2>6 DEF Promise!Next
<1>. QED  BY <1>1, <1>2, PTL DEF Promise!Spec

(* As long as no process died and no answer was lost, the refresh token of *)
(* the row was not exchanged at Tapis, or its successor is about to be     *)
(* stored (utils/external_apis.py).                                        *)
THEOREM RefreshTokensStayUsable == Spec => []RefreshTokenUsable
<1>1. IInv /\ Promise!StoredIsUsable => RefreshTokenUsable
  <2>1. SUFFICES ASSUME IInv, Promise!StoredIsUsable, auth.refresh \in used, ~(losses > 0)
                 PROVE  \E p \in Callers : At(p, "commit") /\ lock = p
    BY DEF RefreshTokenUsable
  <2>2. lock # Nobody /\ At(lock, "commit")
    BY <2>1 DEF Promise!StoredIsUsable, Current
  <2>. QED  BY <2>1, <2>2 DEF IInv, TypeOK
<1>. QED
  BY Invariance, RefreshesAreAtomic, PromiseKeepsTokens, <1>1, PTL DEF RefreshIsAtomic

(* A page that is given the row after waiting for its lock refreshes only  *)
(* tokens that nobody refreshed just now, and sends a refresh token that   *)
(* was not exchanged, unless a process or an answer was lost               *)
(* (services/users.py, refresh_access_token).                              *)
PageInv == \A p \in Pages : At(p, "put") => ~Recent(auth.refresh)

LEMMA PageStep == IInv /\ PageInv /\ [Next]_vars => PageInv'
<1>1. SUFFICES ASSUME IInv, PageInv, [Next]_vars, NEW p \in Pages, At(p, "put")'
               PROVE  ~Recent(auth.refresh)'
  BY DEF PageInv
<1>2. p \in Callers /\ p \in Procs /\ p \notin Tasks /\ p # Nobody
  BY ConstantsAssumption DEF Callers, Procs
<1>3. CASE At(p, "put")
  <2>1. ~Recent(auth.refresh) /\ lock = p
    BY <1>1, <1>2, <1>3 DEF PageInv, IInv, LockHeld, Locking, At
  <2>2. auth' = auth
    BY <1>1, <1>2, <1>3, <2>1, HolderMoves DEF Commit, At
  <2>3. aged <= aged'
    BY <1>1, TimeGoesOn
  <2>4. aged \in Int /\ aged' \in Int /\ auth.refresh \in Int
    <3>1. IInv'
      BY <1>1, Step
    <3>. QED  BY <1>1, <3>1 DEF IInv, TypeOK, Pair, Token
  <2>. QED  BY <2>1, <2>2, <2>3, <2>4 DEF Recent
<1>4. CASE ~At(p, "put")
  <2>1. Acquire(p) /\ Goes(p, "put")
    BY <1>1, <1>2, <1>4, OnlyAcquire
  <2>2. ~Recent(auth.refresh)
    BY <1>1, <1>2, <2>1 DEF Acquire, Row, Goes, Judge, Off, IInv, TypeOK, At
  <2>3. auth' = auth /\ aged' = aged
    BY <2>1 DEF Acquire, Rows, time
  <2>. QED  BY <2>2, <2>3 DEF Recent
<1>. QED  BY <1>3, <1>4

THEOREM PagesRefreshWhatNeedsIt == Spec => PagesRefreshOnce
<1>1. Init => PageInv
  <2>1. SUFFICES ASSUME Init, NEW p \in Pages
                 PROVE  ~At(p, "put")
    BY DEF PageInv
  <2>. QED  BY <2>1 DEF Init, At, Off, Procs, Callers
<1>2. IInv /\ PageInv /\ Promise!StoredIsUsable /\ [Next]_vars =>
          \A p \in Pages : Exchanges(p) =>
              ~Recent(auth.refresh) /\ (Sent(p) \in used => losses > 0)
  <2>1. SUFFICES ASSUME IInv, PageInv, Promise!StoredIsUsable, NEW p \in Pages, At(p, "put")
                 PROVE  ~Recent(auth.refresh) /\ (Sent(p) \in used => losses > 0)
    BY DEF Exchanges
  <2>2. lock = p /\ ~At(p, "commit")
    BY <2>1 DEF IInv, LockHeld, Locking, At, Callers
  <2>3. Current = auth.refresh /\ Sent(p) = auth.refresh
    BY <2>1, <2>2 DEF Current, Sent, Row
  <2>. QED  BY <2>1, <2>3 DEF PageInv, Promise!StoredIsUsable
<1>3. IInv /\ PageInv /\ [Next]_vars => PageInv'
  BY PageStep
<1>. QED
  BY Invariance, RefreshesAreAtomic, PromiseKeepsTokens, <1>1, <1>2, <1>3, PTL
  DEF Spec, RefreshIsAtomic, PagesRefreshOnce
=============================================================================
