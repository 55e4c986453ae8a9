------------------------ MODULE StreetviewAccess_proofs ------------------------
(***************************************************************************)
(* Theorems about StreetviewAccess, for any number of visits and           *)
(* conversions, with their proofs.                                         *)
(***************************************************************************)
EXTENDS StreetviewAccess, FiniteSetTheorems, TLAPS

-----------------------------------------------------------------------------
(***************************************************************************)
(* The invariant.                                                          *)
(***************************************************************************)
VisitState == [stage : {"idle", "nullify", "act", "drop", "insert", "done", "failed"},
               kind : Kinds, row : Rows \cup {Nothing}, bare : BOOLEAN, stale : BOOLEAN]

(* What a visit holds, by its stage.                                       *)
Holds(state) ==
    /\ state.stage \in {"drop", "insert"} => state.kind = "create"
    /\ state.stage \in {"nullify", "drop"} => state.row # Nothing
    /\ state.stage \in {"idle", "done", "failed"} => state.row = Nothing

StageInv ==
    \A v \in Visits : Holds(visit[v]) /\ (visit[v].stage = "idle" => v \notin late)

(* Nobody has seen the row of a visit that has not inserted it.            *)
RowInv ==
    \A v \in Visits : visit[v].stage # "done" =>
        v \notin rows /\ \A w \in Visits : visit[w].row # v

(* A token about to be nullified has expired, or was written meanwhile.    *)
ExpiredInv ==
    \A v \in Visits : visit[v].stage = "nullify" /\ ~visit[v].stale =>
        token[visit[v].row] = "expired"

(* At most one visit on its way found nobody else on his.                  *)
FirstInv == \A v, w \in Pending \ late : v = w

(* A visit that will make one row more than it deletes: it found none, or  *)
(* has deleted one, or somebody else has deleted the one it is to delete.  *)
AddsRow(v) ==
    \/ visit[v].stage = "insert"
    \/ visit[v].stage = "drop" /\ visit[v].row \notin rows
    \/ visit[v].stage = "act" /\ visit[v].row = Nothing /\ visit[v].kind \in {"login", "create"}

(* Those that may yet make a row more.  Each late one may.                 *)
Claims == {v \in Pending : v \in late \/ AddsRow(v)}

BudgetInv == Cardinality(rows) + Cardinality(Claims) <= 1 + Cardinality(late)

AccessInv == StageInv /\ RowInv /\ ExpiredInv /\ FirstInv /\ BudgetInv

IInv == TypeOK /\ AccessInv

-----------------------------------------------------------------------------
(***************************************************************************)
(* Counting rows and claims.                                               *)
(***************************************************************************)
LEMMA Finite ==
    ASSUME TypeOK
    PROVE  /\ IsFiniteSet(rows) /\ IsFiniteSet(Claims) /\ IsFiniteSet(late)
           /\ Cardinality(rows) \in Nat /\ Cardinality(Claims) \in Nat
           /\ Cardinality(late) \in Nat
<1>1. IsFiniteSet(Rows)
  BY ConstantsAssumption, FS_AddElement DEF Rows
<1>2. rows \subseteq Rows /\ Claims \subseteq Visits /\ late \subseteq Visits
  BY DEF TypeOK, Claims, Pending
<1>3. IsFiniteSet(rows) /\ IsFiniteSet(Claims) /\ IsFiniteSet(late)
  BY <1>1, <1>2, ConstantsAssumption, FS_Subset
<1>. QED  BY <1>3, FS_CardinalityType

LEMMA OneMore ==
    ASSUME NEW S, IsFiniteSet(S), NEW x
    PROVE  /\ IsFiniteSet(S \cup {x})
           /\ Cardinality(S \cup {x}) \in Nat /\ Cardinality(S) \in Nat
           /\ Cardinality(S \cup {x}) <= Cardinality(S) + 1
<1>1. /\ IsFiniteSet(S \cup {x})
      /\ Cardinality(S \cup {x}) = IF x \in S THEN Cardinality(S) ELSE Cardinality(S) + 1
  BY FS_AddElement
<1>2. Cardinality(S \cup {x}) \in Nat /\ Cardinality(S) \in Nat
  BY <1>1, FS_CardinalityType
<1>. QED  BY <1>1, <1>2

(* A claim may be dropped, spent on a row, or made when a row is deleted.  *)
LEMMA Budget ==
    ASSUME TypeOK, BudgetInv, late' = late,
           \/ rows' = rows /\ Claims' \subseteq Claims
           \/ \E v \in Claims : rows' = rows \cup {v} /\ Claims' \subseteq Claims \ {v}
           \/ \E r \in rows : \E x : rows' = rows \ {r} /\ Claims' \subseteq Claims \cup {x}
    PROVE  BudgetInv'
<1> USE Finite
<1>1. ASSUME NEW S, NEW T, IsFiniteSet(T), S \subseteq T
      PROVE  IsFiniteSet(S) /\ Cardinality(S) \in Nat /\ Cardinality(S) <= Cardinality(T)
  BY <1>1, FS_Subset, FS_CardinalityType
<1>2. CASE rows' = rows /\ Claims' \subseteq Claims
  <2>1. Cardinality(Claims') \in Nat /\ Cardinality(Claims') <= Cardinality(Claims)
    BY <1>1, <1>2
  <2>. QED  BY <1>2, <2>1 DEF BudgetInv
<1>3. CASE \E v \in Claims : rows' = rows \cup {v} /\ Claims' \subseteq Claims \ {v}
  <2>1. PICK v \in Claims : rows' = rows \cup {v} /\ Claims' \subseteq Claims \ {v}
    BY <1>3
  <2>2. Cardinality(Claims \ {v}) = Cardinality(Claims) - 1 /\ IsFiniteSet(Claims \ {v})
    BY FS_RemoveElement
  <2>3. Cardinality(Claims') \in Nat /\ Cardinality(Claims') <= Cardinality(Claims) - 1
    BY <1>1, <2>1, <2>2
  <2>4. Cardinality(rows') \in Nat /\ Cardinality(rows') <= Cardinality(rows) + 1
    BY <2>1, OneMore
  <2>. QED  BY <2>3, <2>4 DEF BudgetInv
<1>4. CASE \E r \in rows : \E x : rows' = rows \ {r} /\ Claims' \subseteq Claims \cup {x}
  <2>0. PICK r \in rows : \E x : rows' = rows \ {r} /\ Claims' \subseteq Claims \cup {x}
    BY <1>4
  <2>1. PICK x : rows' = rows \ {r} /\ Claims' \subseteq Claims \cup {x}
    BY <2>0
  <2>2. Cardinality(rows') = Cardinality(rows) - 1
    BY <2>1, FS_RemoveElement
  <2>3. IsFiniteSet(Claims \cup {x}) /\ Cardinality(Claims \cup {x}) <= Cardinality(Claims) + 1
    BY OneMore
  <2>4. Cardinality(Claims') \in Nat /\ Cardinality(Claims') <= Cardinality(Claims) + 1
    BY <1>1, <2>1, <2>3, FS_CardinalityType
  <2>. QED  BY <2>2, <2>4 DEF BudgetInv
<1>. QED  BY <1>2, <1>3, <1>4

-----------------------------------------------------------------------------
(***************************************************************************)
(* A visit goes on.                                                        *)
(***************************************************************************)
Acts(v, state) ==
    /\ v \in Pending
    /\ state \in VisitState
    /\ state.stage \notin {"idle", "nullify"}
    /\ Holds(state)
    /\ state.row \in {Nothing, visit[v].row} \cup rows
    /\ visit' \in [Visits -> VisitState]
    /\ visit'[v] = state
    /\ \A w \in Visits \ {v} :
         /\ visit'[w].stage = visit[w].stage /\ visit'[w].kind = visit[w].kind
         /\ visit'[w].row = visit[w].row
         /\ visit[w].stale => visit'[w].stale
    /\ late' = late

LEMMA Acting ==
    ASSUME IInv, NEW v \in Visits, NEW state, Acts(v, state),
           rows' \subseteq rows \cup IF state.stage = "done" THEN {v} ELSE {},
           \A w \in Visits \ {v} :
               visit[w].stage = "nullify" /\ ~visit'[w].stale
               => token'[visit[w].row] = token[visit[w].row],
           \/ rows' = rows /\ Claims' \subseteq Claims
           \/ \E u \in Claims : rows' = rows \cup {u} /\ Claims' \subseteq Claims \ {u}
           \/ \E r \in rows : \E x : rows' = rows \ {r} /\ Claims' \subseteq Claims \cup {x}
    PROVE  AccessInv'
<1>1. StageInv'
  BY DEF IInv, AccessInv, StageInv, Acts, Holds
<1>2. RowInv'
  <2> SUFFICES ASSUME NEW u \in Visits, visit'[u].stage # "done"
               PROVE  u \notin rows' /\ \A w \in Visits : visit'[w].row # u
    BY DEF RowInv
  <2>1. visit[u].stage # "done"
    BY DEF Acts, Pending
  <2>2. u \notin rows /\ (\A w \in Visits : visit[w].row # u) /\ u # Nothing
    BY <2>1, ConstantsAssumption DEF IInv, AccessInv, RowInv
  <2>. QED  BY <2>2 DEF Acts
<1>3. ExpiredInv'
  BY DEF IInv, AccessInv, ExpiredInv, Acts
<1>4. FirstInv'
  <2>1. Pending' \subseteq Pending
    BY DEF Pending, Acts
  <2>. QED  BY <2>1 DEF IInv, AccessInv, FirstInv, Acts
<1>5. BudgetInv'
  BY Budget DEF IInv, AccessInv, Acts
<1>. QED  BY <1>1, <1>2, <1>3, <1>4, <1>5 DEF AccessInv

(* What a visit leaves of the claims.                                      *)
LEMMA ClaimsLeft ==
    ASSUME NEW v \in Visits, NEW state, Acts(v, state)
    PROVE  /\ \A w \in Claims' \ {v} :
                  \/ w \in Claims
                  \/ /\ w \in Pending \ late /\ visit[w].stage = "drop"
                     /\ visit[w].row \in rows \ rows'
           /\ state.stage \in {"done", "failed"} => v \notin Claims'
           /\ v \in late => v \in Claims
BY DEF Claims, Pending, AddsRow, Acts

(* Most visits leave the rows alone, and claim nothing they did not claim. *)
LEMMA ActsOnToken ==
    ASSUME IInv, NEW v \in Visits, NEW state, Acts(v, state), rows' = rows,
           v \in Claims' => v \in Claims,
           \A w \in Visits \ {v} :
               visit[w].stage = "nullify" /\ ~visit'[w].stale
               => token'[visit[w].row] = token[visit[w].row]
    PROVE  AccessInv'
<1>1. Claims' \subseteq Claims
  BY ClaimsLeft
<1>. QED  BY <1>1, Acting

(* The state Goes leaves the visit in.                                     *)
Left(v, stage) == IF stage \in {"done", "failed"} THEN At(stage)
                  ELSE [visit[v] EXCEPT !.stage = stage]

LEMMA GoesActs ==
    ASSUME IInv, NEW v \in Visits, NEW stage \in {"act", "insert", "done", "failed"},
           NEW written, Goes(v, stage, written), v \in Pending, late' = late,
           stage = "insert" => visit[v].kind = "create"
    PROVE  /\ Acts(v, Left(v, stage))
           /\ Left(v, stage).stage = stage
           /\ stage \in {"act", "insert"} =>
                 Left(v, stage).kind = visit[v].kind /\ Left(v, stage).row = visit[v].row
           /\ \A w \in Visits \ {v} : 
                 w \in Pending /\ visit[w].row \in written => visit'[w].stale
<1>1. visit \in [Visits -> VisitState] /\ visit[v] \in VisitState
  BY DEF IInv, TypeOK, VisitState
<1>2. Left(v, stage) \in VisitState /\ Left(v, stage).stage = stage
  BY <1>1 DEF Left, At, VisitState, Kinds
<1>3. Holds(Left(v, stage))
  BY <1>1, <1>2 DEF Left, At, VisitState, Holds
<1>4. visit' \in [Visits -> VisitState] /\ visit'[v] = Left(v, stage)
  BY <1>1, <1>2 DEF Goes, Left, VisitState
<1>5. \A w \in Visits \ {v} :
         /\ visit'[w].stage = visit[w].stage /\ visit'[w].kind = visit[w].kind
         /\ visit'[w].row = visit[w].row
         /\ visit[w].stale \/ (w \in Pending /\ visit[w].row \in written) => visit'[w].stale
  BY <1>1 DEF Goes, VisitState
<1>6. /\ Left(v, stage).row \in {Nothing, visit[v].row}
      /\ stage \in {"act", "insert"} =>
            Left(v, stage).kind = visit[v].kind /\ Left(v, stage).row = visit[v].row
  BY <1>1 DEF Left, At, VisitState
<1>. QED  BY <1>2, <1>3, <1>4, <1>5, <1>6 DEF Acts

LEMMA TypeActs ==
    ASSUME TypeOK, NEW v, NEW state, Acts(v, state), rows' \subseteq Rows,
           token' \in [Rows -> Tokens],
           sequence' \in [there : BOOLEAN, task : Conversions \cup {Nothing}],
           UNCHANGED <<converting, upsets>>
    PROVE  TypeOK'
BY DEF TypeOK, Acts, VisitState, converting

-----------------------------------------------------------------------------
(***************************************************************************)
(* One step of a visit.                                                    *)
(***************************************************************************)
LEMMA LookStep ==
    ASSUME IInv, NEW v \in Visits, NEW kind \in Kinds, Look(v, kind)
    PROVE  IInv'
<1>1. PICK state :
         /\ visit' = [visit EXCEPT ![v] = state]
         /\ state \in VisitState /\ state.kind = kind
         /\ \/ rows = {} /\ state.stage = "act" /\ state.row = Nothing
            \/ /\ rows # {} /\ state.row \in rows /\ state.stale = FALSE
               /\ state.stage = IF token[state.row] = "expired" THEN "nullify" ELSE "act"
  <2>1. CASE rows = {} /\ visit' = [visit EXCEPT ![v] = [At("act") EXCEPT !.kind = kind]]
    <3> DEFINE state == [At("act") EXCEPT !.kind = kind]
    <3>1. /\ state \in VisitState /\ state.kind = kind
          /\ state.stage = "act" /\ state.row = Nothing
      BY DEF At, VisitState, Kinds
    <3>. QED  BY <2>1, <3>1
  <2>2. CASE \E r \in rows :
            visit' = [visit EXCEPT ![v] =
                        [stage |-> IF token[r] = "expired" THEN "nullify" ELSE "act",
                         kind |-> kind, row |-> r, bare |-> token[r] \in {"none", "expired"},
                         stale |-> FALSE]]
    <3>1. PICK r \in rows :
            visit' = [visit EXCEPT ![v] =
                        [stage |-> IF token[r] = "expired" THEN "nullify" ELSE "act",
                         kind |-> kind, row |-> r, bare |-> token[r] \in {"none", "expired"},
                         stale |-> FALSE]]
      BY <2>2
    <3> DEFINE state == [stage |-> IF token[r] = "expired" THEN "nullify" ELSE "act",
                         kind |-> kind, row |-> r, bare |-> token[r] \in {"none", "expired"},
                         stale |-> FALSE]
    <3>2. /\ state \in VisitState /\ state.kind = kind /\ state.row = r /\ state.stale = FALSE
          /\ state.stage = IF token[r] = "expired" THEN "nullify" ELSE "act"
      BY DEF VisitState, IInv, TypeOK
    <3>. QED  BY <3>1, <3>2
  <2>. QED  BY <2>1, <2>2 DEF Look
<1>2. /\ visit[v].stage = "idle" /\ v \notin Pending /\ v \notin late
      /\ late' = IF Pending = {} THEN late ELSE late \cup {v}
      /\ rows' = rows /\ token' = token /\ UNCHANGED <<sequence, converting, upsets>>
  BY DEF Look, Pending, IInv, AccessInv, StageInv
<1>3. /\ visit' \in [Visits -> VisitState] /\ visit'[v] = state
      /\ \A w \in Visits \ {v} : visit'[w] = visit[w]
  BY <1>1, <1>2 DEF IInv, TypeOK, VisitState
<1>4. TypeOK'
  BY <1>2, <1>3 DEF IInv, TypeOK, VisitState, converting
<1>5. Pending' = Pending \cup {v}
  BY <1>1, <1>3 DEF Pending
<1>6. StageInv'
  <2>1. rows \subseteq Rows /\ Nothing \notin Rows
    BY ConstantsAssumption DEF IInv, TypeOK, Rows
  <2>2. Holds(state) /\ state.stage # "idle"
    BY <1>1, <2>1 DEF Holds
  <2>. QED  BY <1>2, <1>3, <2>2 DEF IInv, AccessInv, StageInv
<1>7. RowInv'
  <2> SUFFICES ASSUME NEW u \in Visits, visit'[u].stage # "done"
               PROVE  u \notin rows /\ \A w \in Visits : visit'[w].row # u
    BY <1>2 DEF RowInv
  <2>1. visit[u].stage # "done"
    BY <1>2, <1>3
  <2>2. u \notin rows /\ (\A w \in Visits : visit[w].row # u) /\ u # Nothing
    BY <2>1, ConstantsAssumption DEF IInv, AccessInv, RowInv
  <2>. QED  BY <1>1, <1>3, <2>2
<1>8. ExpiredInv'
  BY <1>1, <1>2, <1>3 DEF IInv, AccessInv, ExpiredInv
<1>9. FirstInv'
  BY <1>2, <1>5 DEF IInv, AccessInv, FirstInv
<1>10. BudgetInv'
  <2>1. \A w \in Visits \ {v} : w \in Claims' => w \in Claims
    BY <1>2, <1>3, <1>5 DEF Claims, AddsRow
  <2>2. CASE Pending # {}
    <3>1. Cardinality(late') = Cardinality(late) + 1
      BY <1>2, <2>2, Finite, FS_AddElement DEF IInv
    <3>2. Claims' \subseteq Claims \cup {v}
      BY <2>1 DEF Claims, Pending
    <3>3. IsFiniteSet(Claims \cup {v}) /\ Cardinality(Claims \cup {v}) <= Cardinality(Claims) + 1
          /\ Cardinality(Claims \cup {v}) \in Nat
      BY Finite, OneMore DEF IInv
    <3>4. Cardinality(Claims') \in Nat /\ Cardinality(Claims') <= Cardinality(Claims \cup {v})
      BY <3>2, <3>3, FS_Subset, FS_CardinalityType
    <3>. QED  BY <1>2, <3>1, <3>3, <3>4, Finite DEF IInv, AccessInv, BudgetInv
  <2>3. CASE Pending = {}
    <3>1. Claims = {} /\ Claims' \subseteq {v} /\ Cardinality({}) = 0
      BY <2>1, <2>3, FS_EmptySet DEF Claims, Pending
    <3>2. CASE rows = {}
      <4>1. IsFiniteSet({v}) /\ Cardinality({v}) = 1
        BY FS_Singleton
      <4>2. Cardinality(Claims') \in Nat /\ Cardinality(Claims') <= 1
        BY <3>1, <4>1, FS_Subset, FS_CardinalityType
      <4>. QED  BY <1>2, <2>3, <3>1, <3>2, <4>2, Finite DEF IInv, BudgetInv
    <3>3. CASE rows # {}
      <4>1. ~AddsRow(v)'
        BY <1>1, <1>2, <1>3, <3>3, ConstantsAssumption DEF AddsRow, IInv, TypeOK, Rows
      <4>2. Claims' = {}
        BY <1>2, <2>3, <3>1, <4>1 DEF Claims
      <4>. QED  BY <1>2, <2>3, <3>1, <4>2 DEF IInv, AccessInv, BudgetInv
    <3>. QED  BY <3>2, <3>3
  <2>. QED  BY <2>2, <2>3
<1>. QED  BY <1>4, <1>6, <1>7, <1>8, <1>9, <1>10 DEF IInv, AccessInv

(* A step that writes neither rows nor tokens.                             *)
LEMMA LooksOn ==
    ASSUME IInv, NEW v \in Visits, NEW stage \in {"act", "insert", "done", "failed"},
           Goes(v, stage, {}), v \in Pending,
           stage \in {"act", "insert"} =>
              /\ stage = "insert" /\ visit[v].stage = "act" /\ visit[v].kind = "create"
              /\ visit[v].row = Nothing,
           UNCHANGED <<rows, token, late, sequence, converting, upsets>>
    PROVE  IInv'
<1>1. /\ Acts(v, Left(v, stage)) /\ Left(v, stage).stage = stage
  BY GoesActs
<1>2. TypeOK'
  BY <1>1, TypeActs DEF IInv, TypeOK
<1>3. v \in Claims' => v \in Claims
  BY <1>1, ClaimsLeft DEF Claims, AddsRow
<1>4. AccessInv'
  BY <1>1, <1>3, ActsOnToken
<1>. QED  BY <1>2, <1>4 DEF IInv

(* A step that writes the token of the row that the visit has read.        *)
LEMMA WritesToken ==
    ASSUME IInv, NEW v \in Visits, NEW stage \in {"act", "done"}, NEW new \in Tokens,
           visit[v].stage \in {"act", "nullify"}, visit[v].row \in rows,
           token' = [token EXCEPT ![visit[v].row] = new],
           Goes(v, stage, {visit[v].row}),
           UNCHANGED <<rows, late, sequence, converting, upsets>>
    PROVE  IInv'
<1>1. /\ Acts(v, Left(v, stage)) /\ Left(v, stage).stage = stage
      /\ stage = "act" => Left(v, stage).row = visit[v].row
      /\ \A w \in Visits \ {v} : w \in Pending /\ visit[w].row = visit[v].row => visit'[w].stale
  BY GoesActs DEF Pending
<1>2. TypeOK'
  BY <1>1, TypeActs DEF IInv, TypeOK
<1>3. v \in Claims' => v \in Claims
  <2>1. visit[v].row # Nothing
    BY ConstantsAssumption DEF IInv, TypeOK, Rows
  <2>. QED  BY <1>1, <2>1, ClaimsLeft DEF Claims, AddsRow, Acts
<1>4. ASSUME NEW w \in Visits \ {v}, visit[w].stage = "nullify", ~visit'[w].stale
      PROVE  token'[visit[w].row] = token[visit[w].row]
  BY <1>1, <1>4 DEF Pending, IInv, TypeOK
<1>5. AccessInv'
  BY <1>1, <1>3, <1>4, ActsOnToken
<1>. QED  BY <1>2, <1>5 DEF IInv

(* A step that makes a row: the claim is spent.                            *)
LEMMA MakesRow ==
    ASSUME IInv, NEW v \in Claims, NEW new \in Tokens, Inserts(v, new)
    PROVE  IInv'
<1>1. /\ v \in Visits /\ v \in Pending
      /\ rows' = rows \cup {v} /\ token' = [token EXCEPT ![v] = new] /\ Goes(v, "done", {})
      /\ UNCHANGED <<late, sequence, converting, upsets>>
  BY DEF Claims, Pending, Inserts
<1>2. Acts(v, Left(v, "done")) /\ Left(v, "done").stage = "done"
  BY <1>1, GoesActs
<1>3. rows' \subseteq Rows /\ token' \in [Rows -> Tokens]
  BY <1>1 DEF IInv, TypeOK, Rows
<1>4. TypeOK'
  BY <1>1, <1>2, <1>3, TypeActs DEF IInv, TypeOK
<1>5. Claims' \subseteq Claims \ {v}
  BY <1>1, <1>2, ClaimsLeft
<1>6. \A w \in Visits : token'[visit[w].row] = token[visit[w].row]
  BY <1>1 DEF IInv, AccessInv, RowInv, Pending, TypeOK
<1>7. AccessInv'
  BY <1>1, <1>2, <1>5, <1>6, Acting
<1>. QED  BY <1>4, <1>7 DEF IInv

(* The row that create deletes is looked for again.                        *)
LEMMA LooksAgain ==
    ASSUME IInv, NEW v \in Visits, NEW r \in rows,
           visit[v].stage = "act" /\ visit[v].kind = "create",
           visit' = [visit EXCEPT ![v].stage = "drop", ![v].row = r],
           UNCHANGED <<rows, token, late, sequence, converting, upsets>>
    PROVE  IInv'
<1> DEFINE state == [visit[v] EXCEPT !.stage = "drop", !.row = r]
<1>1. /\ visit \in [Visits -> VisitState] /\ visit[v] \in VisitState /\ r \in Rows
      /\ rows \subseteq Rows
  BY DEF IInv, TypeOK, VisitState
<1>2. /\ state \in VisitState /\ state.stage = "drop" /\ state.row = r /\ state.kind = "create"
      /\ visit' = [visit EXCEPT ![v] = state]
  BY <1>1 DEF VisitState
<1> HIDE DEF state
<1>3. Acts(v, state)
  <2>1. /\ visit' \in [Visits -> VisitState] /\ visit'[v] = state
        /\ \A w \in Visits \ {v} : visit'[w] = visit[w]
    BY <1>1, <1>2
  <2>2. Holds(state) /\ v \in Pending
    BY <1>1, <1>2, ConstantsAssumption DEF Holds, Pending, Rows
  <2>. QED  BY <1>2, <2>1, <2>2 DEF Acts
<1>4. TypeOK'
  BY <1>3, TypeActs DEF IInv, TypeOK
<1>5. v \in Claims' => v \in Claims
  BY <1>2, <1>3 DEF Claims, AddsRow, Acts
<1>6. AccessInv'
  BY <1>3, <1>5, ActsOnToken
<1>. QED  BY <1>4, <1>6 DEF IInv

(* A deletion makes room for one row: of the visit itself, or of the one   *)
(* other that is not late and whose row it was.                            *)
LEMMA DropStep ==
    ASSUME IInv, NEW v \in Visits, Drop(v)
    PROVE  IInv'
<1> DEFINE stage == IF visit[v].stage = "drop" THEN "insert" ELSE "done"
           r == visit[v].row
<1>1. /\ visit[v].stage \in {"drop", "act"} /\ v \in Pending
      /\ rows' = rows \ {r} /\ token' = [token EXCEPT ![r] = "none"]
      /\ sequence' = [sequence EXCEPT !.there = @ /\ r # Old]
      /\ Goes(v, stage, {r}) /\ UNCHANGED <<late, converting, upsets>>
      /\ visit[v].stage = "drop" => visit[v].kind = "create"
  BY DEF Drop, Pending, IInv, AccessInv, StageInv, Holds
<1>2. /\ Acts(v, Left(v, stage)) /\ Left(v, stage).stage = stage
      /\ \A w \in Visits \ {v} : w \in Pending /\ visit[w].row = r => visit'[w].stale
  BY <1>1, GoesActs
<1>3. /\ rows' \subseteq Rows /\ token' \in [Rows -> Tokens]
      /\ sequence' \in [there : BOOLEAN, task : Conversions \cup {Nothing}]
  BY <1>1 DEF IInv, TypeOK, Tokens
<1>4. TypeOK'
  BY <1>1, <1>2, <1>3, TypeActs DEF IInv
<1>5. \A w \in Visits \ {v} : visit[w].stage = "nullify" /\ ~visit'[w].stale
         => token'[visit[w].row] = token[visit[w].row]
  BY <1>1, <1>2 DEF Pending, IInv, TypeOK
<1>6. \/ rows' = rows /\ Claims' \subseteq Claims
      \/ \E s \in rows : \E x : rows' = rows \ {s} /\ Claims' \subseteq Claims \cup {x}
  <2>1. CASE r \notin rows
    <3>1. rows' = rows
      BY <1>1, <2>1
    <3>2. v \in Claims' => v \in Claims
      BY <1>1, <1>2, <2>1, ClaimsLeft DEF Claims, AddsRow
    <3>3. Claims' \subseteq Claims
      BY <1>2, <3>1, <3>2, ClaimsLeft
    <3>. QED  BY <3>1, <3>3
  <2>2. CASE r \in rows /\ v \in late
    <3>1. v \in Claims
      BY <1>2, <2>2, ClaimsLeft
    <3>2. \E x : Pending \ late \subseteq {x}
      <4>1. CASE Pending \ late = {}
        BY <4>1
      <4>2. CASE Pending \ late # {}
        BY <4>2 DEF IInv, AccessInv, FirstInv
      <4>. QED  BY <4>1, <4>2
    <3>3. \E x : Claims' \subseteq Claims \cup {x}
      BY <1>2, <3>1, <3>2, ClaimsLeft
    <3>. QED  BY <1>1, <2>2, <3>3
  <2>3. CASE r \in rows /\ v \notin late
    <3>1. Pending \ late \subseteq {v}
      BY <1>1, <2>3 DEF IInv, AccessInv, FirstInv
    <3>2. Claims' \subseteq Claims \cup {v}
      BY <1>2, <3>1, ClaimsLeft
    <3>. QED  BY <1>1, <2>3, <3>2
  <2>. QED  BY <2>1, <2>2, <2>3
<1>7. AccessInv'
  BY <1>1, <1>2, <1>5, <1>6, Acting
<1>. QED  BY <1>4, <1>7 DEF IInv

LEMMA VisitStep ==
    ASSUME IInv, NEW v \in Visits, Visiting(v)
    PROVE  IInv'
<1>1. CASE \E kind \in Kinds : Look(v, kind)
  BY <1>1, LookStep
<1>2. CASE Nullify(v)
  <2>1. "none" \in Tokens
    BY DEF Tokens
  <2>. QED  BY <1>2, <2>1, WritesToken DEF Nullify
<1>3. CASE Read(v)
  BY <1>3, LooksOn DEF Read, Pending
<1>4. ASSUME NEW new \in Tokens, visit[v].stage = "act", Writes(v, new)
      PROVE  IInv'
  BY <1>4, WritesToken DEF Writes
<1>5. ASSUME NEW new \in Tokens, AddsRow(v), v \in Pending, Inserts(v, new)
      PROVE  IInv'
  <2>1. v \in Claims
    BY <1>5 DEF Claims
  <2>. QED  BY <1>5, <2>1, MakesRow
<1>6. CASE StoreLogin(v)
  <2>1. "live" \in Tokens /\ visit[v].stage = "act" /\ visit[v].kind = "login"
    BY <1>6 DEF Tokens, StoreLogin
  <2>2. CASE Writes(v, "live")
    BY <1>4, <2>1, <2>2
  <2>3. CASE visit[v].row = Nothing /\ Inserts(v, "live")
    BY <1>5, <2>1, <2>3 DEF AddsRow, Pending
  <2>. QED  BY <1>6, <2>2, <2>3 DEF StoreLogin
<1>7. CASE Update(v)
  <2>1. visit[v].row \in rows
    BY <1>7 DEF Update, Writes
  <2>2. (IF token[visit[v].row] = "none" THEN "pasted" ELSE token[visit[v].row]) \in Tokens
    BY <2>1 DEF IInv, TypeOK, Tokens
  <2>. QED  BY <1>4, <1>7, <2>2 DEF Update
<1>8. CASE Logout(v)
  <2>1. "none" \in Tokens /\ visit[v].stage = "act" /\ v \in Pending
    BY <1>8 DEF Tokens, Logout, Pending
  <2>2. CASE Writes(v, "none")
    BY <1>4, <2>1, <2>2
  <2>3. CASE Goes(v, "done", {}) /\ UNCHANGED <<rows, token, late, sequence, converting, upsets>>
    BY <2>1, <2>3, LooksOn
  <2>. QED  BY <1>8, <2>2, <2>3 DEF Logout
<1>9. CASE Replace(v)
  <2>1. /\ visit[v].stage = "act" /\ visit[v].kind = "create" /\ v \in Pending
        /\ UNCHANGED <<rows, token, late, sequence, converting, upsets>>
    BY <1>9 DEF Replace, Pending
  <2>2. CASE visit[v].row = Nothing /\ Goes(v, "insert", {})
    BY <2>1, <2>2, LooksOn
  <2>3. CASE Goes(v, "failed", {})
    BY <2>1, <2>3, LooksOn
  <2>4. CASE \E r \in rows : visit' = [visit EXCEPT ![v].stage = "drop", ![v].row = r]
    BY <2>1, <2>4, LooksAgain
  <2>. QED  BY <1>9, <2>2, <2>3, <2>4 DEF Replace
<1>10. CASE Drop(v)
  BY <1>10, DropStep
<1>11. CASE Create(v)
  <2>1. AddsRow(v) /\ v \in Pending
    BY <1>11 DEF Create, AddsRow, Pending
  <2>. QED  BY <1>5, <1>11, <2>1 DEF Create, Tokens
<1>12. CASE VisitFails(v)
  BY <1>12, LooksOn DEF VisitFails, Pending
<1>. QED
  BY <1>1, <1>2, <1>3, <1>6, <1>7, <1>8, <1>9, <1>10, <1>11, <1>12 DEF Visiting

-----------------------------------------------------------------------------
(***************************************************************************)
(* Everything else.                                                        *)
(***************************************************************************)
LEMMA Elsewhere ==
    ASSUME IInv, UNCHANGED access, TypeOK'
    PROVE  IInv'
BY DEF IInv, AccessInv, access, StageInv, RowInv, ExpiredInv, FirstInv, BudgetInv, Claims, AddsRow,
       Pending

LEMMA ExpiryStep ==
    ASSUME IInv, NEW r \in Rows, TokenExpires(r)
    PROVE  IInv'
<1>1. /\ token[r] = "live" /\ token' = [token EXCEPT ![r] = "expired"]
      /\ UNCHANGED <<rows, visit, late, sequence, converting, upsets>>
  BY DEF TokenExpires
<1>2. TypeOK'
  BY <1>1 DEF IInv, TypeOK, Tokens, converting
<1>3. ExpiredInv'
  BY <1>1 DEF IInv, TypeOK, AccessInv, ExpiredInv
<1>. QED
  BY <1>1, <1>2, <1>3 DEF IInv, AccessInv, StageInv, RowInv, FirstInv, BudgetInv, Claims, AddsRow,
                          Pending

LEMMA ConversionStep ==
    ASSUME IInv, NEW c \in Conversions,
           StoreTask(c) \/ Converting(c) \/ ConverterDies(c) \/ DeleteFeature(c)
    PROVE  IInv'
<1> DEFINE ConvState == [stage : {"idle", "stored", "queued", "calls", "failing", "done", "failed",
                                  "lost"},
                         reports : Conversions \cup {Nothing}]
<1>1. UNCHANGED access
  BY DEF StoreTask, Converting, Publish, LoadSequence, MapillaryFails, CommitFeature, OnFailure,
         ConverterDies, DeleteFeature
<1>t. /\ sequence \in [there : BOOLEAN, task : Conversions \cup {Nothing}]
      /\ conv \in [Conversions -> ConvState]
      /\ task \in [Conversions -> {"none", "RUNNING", "COMPLETED", "FAILED"}]
      /\ onmap \subseteq Conversions /\ project \in BOOLEAN
      /\ upsets \in 0 .. MaxUpsets /\ MaxUpsets \in Nat
  BY ConstantsAssumption DEF IInv, TypeOK
<1>2. SUFFICES /\ sequence' \in [there : BOOLEAN, task : Conversions \cup {Nothing}]
               /\ conv' \in [Conversions -> ConvState]
               /\ task' \in [Conversions -> {"none", "RUNNING", "COMPLETED", "FAILED"}]
               /\ onmap' \subseteq Conversions /\ project' \in BOOLEAN
               /\ upsets' \in 0 .. MaxUpsets
  <2>1. TypeOK'
    BY <1>1, <1>2 DEF IInv, TypeOK, access
  <2>. QED  BY <1>1, <2>1, Elsewhere
<1>3. Upset => upsets' \in 0 .. MaxUpsets
  BY <1>t DEF Upset
<1>4. ASSUME NEW stage \in {"stored", "queued", "calls", "failing", "done", "failed", "lost"},
             Converts(c, stage)
      PROVE  conv' \in [Conversions -> ConvState]
  <2> DEFINE reports == IF stage \in {"failed", "lost"} THEN Nothing ELSE conv[c].reports
             state == [conv[c] EXCEPT !.stage = stage, !.reports = reports]
  <2>1. conv[c] \in ConvState /\ reports \in Conversions \cup {Nothing}
    BY <1>t
  <2>2. state \in ConvState
    BY <2>1
  <2>3. conv' = [conv EXCEPT ![c] = state]
    BY <1>t, <1>4 DEF Converts
  <2>. QED  BY <1>t, <2>2, <2>3
<1>5. CASE StoreTask(c)
  BY <1>t, <1>4, <1>5 DEF StoreTask
<1>6. CASE Publish(c)
  BY <1>t, <1>3, <1>4, <1>6 DEF Publish
<1>7. CASE LoadSequence(c)
  <2> DEFINE stage == IF sequence.there THEN "calls" ELSE "failing"
             reports == IF sequence.there THEN sequence.task ELSE Nothing
             state == [conv[c] EXCEPT !.stage = stage, !.reports = reports]
  <2>1. conv[c] \in ConvState /\ reports \in Conversions \cup {Nothing}
    BY <1>t
  <2>2. state \in ConvState
    BY <2>1
  <2>3. conv' = [conv EXCEPT ![c] = state]
    BY <1>t, <1>7 DEF LoadSequence
  <2>. QED  BY <1>t, <1>7, <2>2, <2>3 DEF LoadSequence
<1>8. CASE MapillaryFails(c)
  BY <1>t, <1>4, <1>8 DEF MapillaryFails
<1>9. CASE CommitFeature(c)
  BY <1>t, <1>4, <1>9 DEF CommitFeature
<1>10. CASE OnFailure(c)
  BY <1>t, <1>4, <1>10 DEF OnFailure
<1>11. CASE ConverterDies(c)
  BY <1>t, <1>3, <1>4, <1>11 DEF ConverterDies
<1>12. CASE DeleteFeature(c)
  BY <1>t, <1>3, <1>12 DEF DeleteFeature
<1>. QED
  BY <1>5, <1>6, <1>7, <1>8, <1>9, <1>10, <1>11, <1>12 DEF Converting

LEMMA DeletionStep ==
    ASSUME IInv, DeleteSequence \/ DeleteProject
    PROVE  IInv'
<1>1. Upset => upsets' \in 0 .. MaxUpsets
  BY ConstantsAssumption DEF Upset, IInv, TypeOK
<1>2. CASE DeleteSequence
  <2>1. TypeOK'
    BY <1>1, <1>2 DEF DeleteSequence, IInv, TypeOK, access, converting
  <2>. QED  BY <1>2, <2>1, Elsewhere DEF DeleteSequence
<1>3. CASE DeleteProject
  <2>1. TypeOK'
    BY <1>1, <1>3 DEF DeleteProject, IInv, TypeOK, access
  <2>. QED  BY <1>3, <2>1, Elsewhere DEF DeleteProject
<1>. QED  BY <1>2, <1>3

LEMMA NextStep == IInv /\ [Next]_vars => IInv'
<1> SUFFICES ASSUME IInv, [Next]_vars PROVE IInv'
  OBVIOUS
<1>1. CASE UNCHANGED vars
  <2>1. TypeOK' /\ UNCHANGED access
    BY <1>1 DEF vars, access, converting, IInv, TypeOK
  <2>. QED  BY <2>1, Elsewhere
<1>. QED  BY <1>1, VisitStep, ExpiryStep, ConversionStep, DeletionStep DEF Next

LEMMA Start == Init => IInv
<1> SUFFICES ASSUME Init PROVE IInv
  OBVIOUS
<1>1. At("idle") \in VisitState /\ At("idle").stage = "idle" /\ At("idle").row = Nothing
  BY DEF At, VisitState, Kinds
<1>2. visit \in [Visits -> VisitState] /\ \A v \in Visits : visit[v] = At("idle")
  BY <1>1 DEF Init
<1>3. TypeOK
  BY <1>2, ConstantsAssumption DEF Init, TypeOK, VisitState, Rows, Tokens
<1>4. Pending = {} /\ Claims = {}
  BY <1>1, <1>2 DEF Pending, Claims
<1>5. Cardinality(rows) = 1 /\ Cardinality(Claims) = 0 /\ Cardinality(late) = 0
  BY <1>4, FS_Singleton, FS_EmptySet DEF Init
<1>6. StageInv /\ RowInv /\ ExpiredInv
  BY <1>1, <1>2, ConstantsAssumption DEF Init, StageInv, Holds, RowInv, ExpiredInv
<1>. QED  BY <1>3, <1>4, <1>5, <1>6 DEF IInv, AccessInv, FirstInv, BudgetInv

LEMMA Invariance == Spec => []IInv
BY Start, NextStep, PTL DEF Spec

-----------------------------------------------------------------------------
(***************************************************************************)
(* The conversions and their Tasks.                                        *)
(***************************************************************************)
ConvStages == {"idle", "stored", "queued", "calls", "failing", "done", "failed", "lost"}
ConvState  == [stage : ConvStages, reports : Conversions \cup {Nothing}]

(* The Task that a conversion finds on the sequence is that of one that    *)
(* has begun, so nothing makes it RUNNING again.                           *)
Begun(c) == c \in Conversions /\ conv[c].stage # "idle"

ReportsInv ==
    /\ sequence.task # Nothing => Begun(sequence.task)
    /\ \A c \in Conversions :
          /\ conv[c].stage # "idle" => sequence.task # Nothing
          /\ conv[c].stage \in {"calls", "done"} => Begun(conv[c].reports)

Tells(c) ==
    /\ task[c] = "RUNNING" =>
          \/ conv[c].stage \notin {"idle", "failed", "done"}
          \/ conv[c].stage = "done" /\ conv[c].reports # c
    /\ task[c] = "COMPLETED" =>
          \E d \in Conversions : conv[d].stage = "done" /\ conv[d].reports = c
    /\ task[c] = "FAILED" => conv[c].stage = "failed"
    /\ c \in onmap =>
          project /\ conv[c].stage = "done" /\ task[conv[c].reports] \in {"COMPLETED", "FAILED"}

ConvInv == ReportsInv /\ \A c \in Conversions : Tells(c)

LEMMA ConvTypes ==
    ASSUME TypeOK
    PROVE  /\ sequence \in [there : BOOLEAN, task : Conversions \cup {Nothing}]
           /\ conv \in [Conversions -> ConvState]
           /\ task \in [Conversions -> {"none", "RUNNING", "COMPLETED", "FAILED"}]
           /\ onmap \subseteq Conversions
           /\ Nothing \notin Conversions
BY ConstantsAssumption DEF TypeOK, ConvState, ConvStages

(* One conversion goes from a stage that is not an end to another one, and *)
(* no Task and no feature is touched.                                      *)
LEMMA ConverterMoves ==
    ASSUME TypeOK, ConvInv, NEW c \in Conversions, NEW state \in ConvState,
           conv' = [conv EXCEPT ![c] = state],
           conv[c].stage \notin {"idle", "failed", "done"},
           state.stage \notin {"idle", "failed", "done"},
           state.stage = "calls" => Begun(state.reports),
           UNCHANGED <<sequence, task, onmap, project>>
    PROVE  ConvInv'
<1>1. conv'[c] = state /\ \A d \in Conversions \ {c} : conv'[d] = conv[d]
  BY ConvTypes
<1>2. \A d : Begun(d) => Begun(d)'
  BY <1>1 DEF Begun
<1>3. ReportsInv'
  BY <1>1, <1>2 DEF ConvInv, ReportsInv
<1>4. ASSUME NEW d \in Conversions
      PROVE  Tells(d)'
  <2>1. Tells(d)
    BY DEF ConvInv
  <2>2. CASE d = c
    BY <1>1, <2>1, <2>2 DEF Tells
  <2>3. CASE d # c
    <3>1. conv'[d] = conv[d]
      BY <1>1, <2>3
    <3>2. \A e \in Conversions : conv[e].stage = "done" => conv'[e] = conv[e]
      BY <1>1
    <3>. QED  BY <2>1, <3>1, <3>2 DEF Tells
  <2>. QED  BY <2>2, <2>3
<1>. QED  BY <1>3, <1>4 DEF ConvInv

(* Its states as Converts makes them.                                      *)
LEMMA ConvertsTo ==
    ASSUME TypeOK, NEW c \in Conversions, NEW stage \in ConvStages, Converts(c, stage)
    PROVE  \E state \in ConvState :
              /\ conv' = [conv EXCEPT ![c] = state] /\ state.stage = stage
              /\ stage \notin {"failed", "lost"} => state.reports = conv[c].reports
<1> DEFINE reports == IF stage \in {"failed", "lost"} THEN Nothing ELSE conv[c].reports
           state == [conv[c] EXCEPT !.stage = stage, !.reports = reports]
<1>1. conv[c] \in ConvState /\ reports \in Conversions \cup {Nothing}
  BY ConvTypes DEF ConvState
<1>2. state \in ConvState /\ state.stage = stage /\ state.reports = reports
  BY <1>1 DEF ConvState
<1>3. conv' = [conv EXCEPT ![c] = state]
  BY <1>1, ConvTypes DEF Converts
<1>. QED  BY <1>2, <1>3

LEMMA StoreTaskTells ==
    ASSUME TypeOK, ConvInv, NEW c \in Conversions, StoreTask(c)
    PROVE  ConvInv'
<1>1. PICK state \in ConvState :
         conv' = [conv EXCEPT ![c] = state] /\ state.stage = "stored"
  BY ConvertsTo DEF StoreTask, ConvStages
<1>2. /\ conv[c].stage = "idle" /\ conv'[c] = state
      /\ \A d \in Conversions \ {c} : conv'[d] = conv[d]
      /\ sequence'.task = c /\ task' = [task EXCEPT ![c] = "RUNNING"]
      /\ UNCHANGED <<onmap, project>>
  BY <1>1, ConvTypes DEF StoreTask
<1>3. \A d : Begun(d) => Begun(d)' /\ d # c
  BY <1>1, <1>2 DEF Begun
<1>4. ReportsInv'
  BY <1>1, <1>2, <1>3, ConvTypes DEF ConvInv, ReportsInv, Begun
<1>5. ASSUME NEW d \in Conversions
      PROVE  Tells(d)'
  <2>1. Tells(d)
    BY DEF ConvInv
  <2>2. CASE d = c
    <3>1. d \notin onmap /\ task'[d] = "RUNNING" /\ conv'[d].stage = "stored"
      BY <1>1, <1>2, <2>1, <2>2, ConvTypes DEF Tells
    <3>. QED  BY <1>2, <3>1 DEF Tells
  <2>3. CASE d # c
    <3>1. conv'[d] = conv[d] /\ task'[d] = task[d]
      BY <1>2, <2>3, ConvTypes
    <3>2. \A e \in Conversions : conv[e].stage = "done" => conv'[e] = conv[e]
      BY <1>2
    <3>3. conv[d].stage = "done" => task'[conv[d].reports] = task[conv[d].reports]
      BY <1>2, <1>3, ConvTypes DEF ConvInv, ReportsInv
    <3>. QED  BY <1>2, <2>1, <3>1, <3>2, <3>3 DEF Tells
  <2>. QED  BY <2>2, <2>3
<1>. QED  BY <1>4, <1>5 DEF ConvInv

(* The end of a conversion settles the Task it reports on.                 *)
LEMMA CommitFeatureTells ==
    ASSUME TypeOK, ConvInv, NEW c \in Conversions, CommitFeature(c), project /\ sequence.there
    PROVE  ConvInv'
<1> DEFINE r == conv[c].reports
<1>1. PICK state \in ConvState :
         conv' = [conv EXCEPT ![c] = state] /\ state.stage = "done" /\ state.reports = r
  BY ConvertsTo DEF CommitFeature, ConvStages
<1>2. /\ conv[c].stage = "calls" /\ conv'[c] = state
      /\ \A d \in Conversions \ {c} : conv'[d] = conv[d]
      /\ onmap' = onmap \cup {c} /\ task' = [task EXCEPT ![r] = "COMPLETED"]
      /\ UNCHANGED <<project, sequence>>
  BY <1>1, ConvTypes DEF CommitFeature
<1>3. Begun(r) /\ task'[r] = "COMPLETED" /\ \A d \in Conversions \ {r} : task'[d] = task[d]
  BY <1>2, ConvTypes DEF ConvInv, ReportsInv, Begun
<1>4. \A d : Begun(d) => Begun(d)'
  BY <1>1, <1>2 DEF Begun
<1>5. ReportsInv'
  BY <1>1, <1>2, <1>3, <1>4 DEF ConvInv, ReportsInv
<1>6. ASSUME NEW d \in Conversions
      PROVE  Tells(d)'
  <2>1. Tells(d)
    BY DEF ConvInv
  <2>2. \A e \in Conversions : conv[e].stage = "done" => conv'[e] = conv[e]
    BY <1>2
  <2>3. task'[d] = "RUNNING" =>
           \/ conv'[d].stage \notin {"idle", "failed", "done"}
           \/ conv'[d].stage = "done" /\ conv'[d].reports # d
    <3>1. task'[d] = "RUNNING" => d # r /\ task[d] = "RUNNING"
      BY <1>3
    <3>2. CASE d = c
      BY <1>1, <1>2, <3>1, <3>2
    <3>3. CASE d # c
      BY <1>2, <2>1, <3>1, <3>3 DEF Tells
    <3>. QED  BY <3>2, <3>3
  <2>4. task'[d] = "COMPLETED" =>
           \E e \in Conversions : conv'[e].stage = "done" /\ conv'[e].reports = d
    <3>1. CASE d = r
      BY <1>1, <1>2, <3>1
    <3>2. CASE d # r
      BY <1>3, <2>1, <2>2, <3>2 DEF Tells
    <3>. QED  BY <3>1, <3>2
  <2>5. task'[d] = "FAILED" => conv'[d].stage = "failed"
    BY <1>2, <1>3, <2>1 DEF Tells
  <2>6. d \in onmap' =>
           project' /\ conv'[d].stage = "done" /\ task'[conv'[d].reports] \in {"COMPLETED", "FAILED"}
    <3>1. CASE d = c
      BY <1>1, <1>2, <1>3, <3>1 DEF CommitFeature
    <3>2. CASE d # c
      BY <1>2, <1>3, <2>1, <3>2 DEF Tells, ConvInv, ReportsInv, Begun
    <3>. QED  BY <3>1, <3>2
  <2>. QED  BY <2>3, <2>4, <2>5, <2>6 DEF Tells
<1>. QED  BY <1>5, <1>6 DEF ConvInv

LEMMA OnFailureTells ==
    ASSUME TypeOK, ConvInv, NEW c \in Conversions, OnFailure(c)
    PROVE  ConvInv'
<1>1. PICK state \in ConvState :
         conv' = [conv EXCEPT ![c] = state] /\ state.stage = "failed"
  BY ConvertsTo DEF OnFailure, ConvStages
<1>2. /\ conv[c].stage = "failing" /\ conv'[c] = state
      /\ \A d \in Conversions \ {c} : conv'[d] = conv[d]
      /\ task'[c] = "FAILED" /\ \A d \in Conversions \ {c} : task'[d] = task[d]
      /\ UNCHANGED <<sequence, onmap, project>>
  BY <1>1, ConvTypes DEF OnFailure
<1>3. \A d : Begun(d) => Begun(d)'
  BY <1>1, <1>2 DEF Begun
<1>4. ReportsInv'
  BY <1>1, <1>2, <1>3 DEF ConvInv, ReportsInv
<1>5. ASSUME NEW d \in Conversions
      PROVE  Tells(d)'
  <2>1. Tells(d)
    BY DEF ConvInv
  <2>2. CASE d = c
    BY <1>1, <1>2, <2>1, <2>2 DEF Tells
  <2>3. CASE d # c
    <3>1. conv'[d] = conv[d] /\ task'[d] = task[d]
      BY <1>2, <2>3
    <3>2. \A e \in Conversions : conv[e].stage = "done" => conv'[e] = conv[e]
      BY <1>2
    <3>3. d \in onmap => task'[conv[d].reports] \in {"COMPLETED", "FAILED"}
      BY <1>2, <2>1 DEF Tells, ConvInv, ReportsInv, Begun
    <3>. QED  BY <1>2, <2>1, <3>1, <3>2, <3>3 DEF Tells
  <2>. QED  BY <2>2, <2>3
<1>. QED  BY <1>4, <1>5 DEF ConvInv

(* Nothing that conversions have written changes, but features may go.     *)
LEMMA ConversionsStay ==
    ASSUME TypeOK, ConvInv, UNCHANGED <<conv, task>>, sequence'.task = sequence.task,
           \/ onmap' \subseteq onmap /\ project' = project
           \/ onmap' = {}
    PROVE  ConvInv'
BY DEF ConvInv, ReportsInv, Begun, Tells

LEMMA ConvStep == TypeOK /\ ConvInv /\ [Next]_vars => ConvInv'
<1> SUFFICES ASSUME TypeOK, ConvInv, [Next]_vars PROVE ConvInv'
  OBVIOUS
<1>1. ASSUME NEW v \in Visits, Visiting(v)
      PROVE  ConvInv'
  <2>1. UNCHANGED <<conv, task, onmap, project>> /\ sequence'.task = sequence.task
    BY <1>1, ConvTypes DEF Visiting, Look, Nullify, Read, Writes, Inserts, StoreLogin, Update,
                           Logout, Replace, Drop, Create, VisitFails, converting
  <2>. QED  BY <2>1, ConversionsStay
<1>2. ASSUME NEW c \in Conversions,
             StoreTask(c) \/ Converting(c) \/ ConverterDies(c) \/ DeleteFeature(c)
      PROVE  ConvInv'
  <2>1. ASSUME NEW stage \in ConvStages \ {"idle", "calls", "done", "failed"}, Converts(c, stage),
               conv[c].stage \notin {"idle", "failed", "done"},
               UNCHANGED <<sequence, task, onmap, project>>
        PROVE  ConvInv'
    <3>1. PICK state \in ConvState :
             conv' = [conv EXCEPT ![c] = state] /\ state.stage = stage
      BY <2>1, ConvertsTo
    <3>. QED  BY <2>1, <3>1, ConverterMoves
  <2>2. CASE Publish(c)
    BY <2>1, <2>2 DEF Publish, ConvStages
  <2>3. CASE LoadSequence(c)
    <3> DEFINE stage == IF sequence.there THEN "calls" ELSE "failing"
               reports == IF sequence.there THEN sequence.task ELSE Nothing
               state == [conv[c] EXCEPT !.stage = stage, !.reports = reports]
    <3>1. /\ conv[c].stage = "queued" /\ UNCHANGED <<sequence, task, onmap, project>>
          /\ conv[c] \in ConvState /\ reports \in Conversions \cup {Nothing}
      BY <2>3, ConvTypes DEF LoadSequence
    <3>2. state \in ConvState /\ state.stage = stage /\ state.reports = reports
      BY <3>1 DEF ConvState, ConvStages
    <3>3. conv' = [conv EXCEPT ![c] = state]
      BY <2>3, ConvTypes DEF LoadSequence
    <3>4. state.stage = "calls" => Begun(state.reports)
      BY <3>1, <3>2 DEF ConvInv, ReportsInv
    <3> HIDE DEF state
    <3>. QED  BY <3>1, <3>2, <3>3, <3>4, ConverterMoves
  <2>4. CASE MapillaryFails(c)
    BY <2>1, <2>4 DEF MapillaryFails, ConvStages
  <2>5. CASE CommitFeature(c)
    <3>1. CASE project /\ sequence.there
      BY <2>5, <3>1, CommitFeatureTells
    <3>2. CASE ~(project /\ sequence.there)
      BY <2>1, <2>5, <3>2 DEF CommitFeature, ConvStages
    <3>. QED  BY <3>1, <3>2
  <2>6. CASE ConverterDies(c)
    BY <2>1, <2>6 DEF ConverterDies, ConvStages
  <2>7. CASE DeleteFeature(c)
    BY <2>7, ConversionsStay DEF DeleteFeature
  <2>. QED
    BY <1>2, <2>2, <2>3, <2>4, <2>5, <2>6, <2>7, StoreTaskTells, OnFailureTells DEF Converting
<1>3. CASE DeleteSequence
  BY <1>3, ConvTypes, ConversionsStay DEF DeleteSequence, converting
<1>4. CASE DeleteProject
  BY <1>4, ConversionsStay DEF DeleteProject
<1>5. CASE \E r \in Rows : TokenExpires(r)
  BY <1>5, ConversionsStay DEF TokenExpires, converting
<1>6. CASE UNCHANGED vars
  BY <1>6, ConversionsStay DEF vars, converting
<1>. QED  BY <1>1, <1>2, <1>3, <1>4, <1>5, <1>6 DEF Next

LEMMA ConversionsTold == Spec => []ConvInv
<1>1. Init => ConvInv
  BY DEF Init, ConvInv, ReportsInv, Begun, Tells
<1>2. IInv => TypeOK
  BY DEF IInv
<1>. QED  BY <1>1, <1>2, ConvStep, Invariance, PTL DEF Spec

-----------------------------------------------------------------------------
(* The variables keep their types, and a user's rows for Mapillary are at  *)
(* most one and one for each visit that began while another was on its     *)
(* way: nothing in the database makes the row unique, and the look-up at   *)
(* the head of every visit does, as long as visits do not overlap          *)
(* (services/streetview.py, getByService, create, deleteByService;         *)
(* routes/streetview.py, mapillary_callback).  What a Task says of its     *)
(* conversion is true: one that is RUNNING has a conversion on its way, or *)
(* one that was lost or has reported on another Task; COMPLETED, one that  *)
(* finished; FAILED, its own that failed (tasks/streetview.py).            *)
THEOREM StreetviewStaysConsistent == Spec => []StreetviewConsistent
<1>1. IInv /\ ConvInv => StreetviewConsistent
  <2> SUFFICES ASSUME IInv, ConvInv PROVE StreetviewConsistent
    OBVIOUS
  <2>1. TypeOK /\ AccessIsSingle
    BY Finite DEF IInv, AccessInv, BudgetInv, AccessIsSingle
  <2>2. TaskTellsConversion
    BY DEF ConvInv, Tells, TaskTellsConversion
  <2>. QED  BY <2>1, <2>2 DEF StreetviewConsistent
<1>. QED  BY <1>1, Invariance, ConversionsTold, PTL

(* A visit that only reads nullifies an expired token at most, or one that *)
(* was stored over an expired one after the visit had read the row         *)
(* (nullify_expired_tokens).                                               *)
THEOREM ReadersAlwaysSpareTokens == Spec => ReadersSpareTokens
<1>1. ASSUME IInv, [Next]_vars, NEW v \in Visits, NEW r \in Rows,
             visit'[v].stage # visit[v].stage, visit[v].kind = "read", ~visit[v].stale,
             r \in rows, token[r] # "none"
      PROVE  token'[r] # "none" \/ token[r] = "expired"
  <2>t. token \in [Rows -> Tokens] /\ visit \in [Visits -> VisitState]
    BY <1>1 DEF IInv, TypeOK, VisitState
  <2>1. Visiting(v)
    <3>1. ASSUME NEW w \in Visits, Visiting(w), w # v
          PROVE  visit'[v].stage = visit[v].stage
      BY <2>t, <3>1 DEF Visiting, Look, Nullify, Read, Writes, Inserts, StoreLogin, Update, Logout,
                        Replace, Drop, Create, VisitFails, Goes, VisitState
    <3>2. CASE UNCHANGED visit
      BY <1>1, <3>2
    <3>3. CASE \E w \in Visits : Visiting(w)
      BY <1>1, <3>1, <3>3
    <3>4. Next /\ (\A w \in Visits : ~Visiting(w)) => UNCHANGED visit
      BY DEF Next, TokenExpires, StoreTask, Converting, Publish, LoadSequence, MapillaryFails,
             CommitFeature, OnFailure, ConverterDies, DeleteFeature, DeleteSequence, DeleteProject,
             access
    <3>. QED  BY <1>1, <3>2, <3>3, <3>4 DEF vars, access
  <2>2. visit[v].stage \notin {"drop", "insert"}
    BY <1>1 DEF IInv, AccessInv, StageInv, Holds
  <2>3. CASE Nullify(v)
    BY <1>1, <2>t, <2>3 DEF Nullify, IInv, AccessInv, ExpiredInv
  <2>4. CASE ~Nullify(v)
    BY <1>1, <2>1, <2>2, <2>4 DEF Visiting, Look, Read, StoreLogin, Update, Logout, Replace, Drop,
                                  Create, VisitFails
  <2>. QED  BY <2>3, <2>4
<1>2. IInv /\ [Next]_vars =>
         \A v \in Visits : \A r \in Rows :
            visit'[v].stage # visit[v].stage /\ visit[v].kind = "read" /\ ~visit[v].stale
            /\ r \in rows /\ token[r] # "none" => token'[r] # "none" \/ token[r] = "expired"
  BY <1>1
<1>. QED  BY <1>2, Invariance, PTL DEF Spec, ReadersSpareTokens
=============================================================================
