--------------------------- MODULE Projects_proofs ---------------------------
(***************************************************************************)
(* Theorems about ProjectCatalog, for any maps, directories and wishes and *)
(* any number of failures, and in the second part about ProjectMembers,    *)
(* for any users, requests and passes, with their proofs.                  *)
(***************************************************************************)
EXTENDS ProjectCatalog, ProjectMembers, TLAPS

-----------------------------------------------------------------------------
(***************************************************************************)
(* The invariant.  What each of the three places says of a map at rest     *)
(* follows from what it must say at every stage of its creation and of its *)
(* deletion, which may overtake the creation.                              *)
(***************************************************************************)
Creation(m) == at[<<"create", m>>]
Removal(m)  == at[<<"delete", m>>]

StageInv ==
    \A m \in Maps :
        /\ Creation(m) # "rows" /\ Removal(m) \notin {"checked", "layers", "members"}
        /\ "died" \in {Creation(m), Removal(m)} => m \in strayed /\ m \in mislaid
        /\ Creation(m) \in {"maps", "patch"} => OnDesignsafe(m)

(* A map has its row from the second step of its creation to the last but  *)
(* one of its deletion.                                                    *)
RowInv ==
    \A m \in Maps :
        /\ m \in rows => /\ Creation(m) \notin {"idle", "checked"}
                         /\ Removal(m) \notin {"enqueue", "done", "failed"}
        /\ Removal(m) # "idle" => Creation(m) \notin {"idle", "checked"}
        /\ /\ Creation(m) \notin {"idle", "checked", "failed", "died"}
           /\ Removal(m) \notin {"enqueue", "done", "failed", "died"}
           => m \in rows

(* Watchers of one directory, from the check on.                           *)
Coming(m) == m \in rows \/ Creation(m) = "checked"

Rivals(m, n) ==
    /\ m # n
    /\ wanted[m].watch /\ wanted[n].watch
    /\ DirOf[Spot(m)] = DirOf[Spot(n)]

WatchInv ==
    \A m, n \in Maps :
        Coming(m) /\ Coming(n) /\ Rivals(m, n) => m \in unseen[n] \/ n \in unseen[m]

(* Between the write of its creation and that of its deletion a map is in  *)
(* the list; likewise for its file.                                        *)
DueListed(m) ==
    /\ m \in rows /\ OnDesignsafe(m)
    /\ Creation(m) \in {"members", "enqueue", "done", "failed"}
    /\ Removal(m) \in {"idle", "stored", "maps", "patch"}

ListInv == \A m \in Maps \ strayed : m \in listed <=> DueListed(m)

DueMarked(m) ==
    /\ m \in rows
    /\ Creation(m) \in {"layers", "maps", "patch", "members", "enqueue", "done", "failed"}
    /\ Removal(m) \in {"idle", "stored"}

MarkerInv == \A m \in Maps \ mislaid : marker[Spot(m)] = m <=> DueMarked(m)

IInv == TypeOK /\ StageInv /\ RowInv /\ WatchInv /\ ListInv /\ MarkerInv

-----------------------------------------------------------------------------
(***************************************************************************)
(* One request goes on.                                                    *)
(***************************************************************************)
LEMMA RequestsAre ==
    /\ \A m \in Maps : <<"create", m>> \in Requests /\ <<"delete", m>> \in Requests
    /\ \A r \in Requests : \E m \in Maps : r = <<"create", m>> \/ r = <<"delete", m>>
    /\ \A m \in Maps : \A stage :
          After(<<"create", m>>) = "members" /\ After(<<"delete", m>>) = "rows"
BY DEF Requests, After

LEMMA CreationMoves ==
    ASSUME TypeOK, NEW m \in Maps, NEW stage \in Stages, Goes(<<"create", m>>, stage)
    PROVE  /\ at' \in [Requests -> Stages]
           /\ \A n \in Maps : /\ Creation(n)' = IF n = m THEN stage ELSE Creation(n)
                              /\ Removal(n)' = Removal(n)
BY RequestsAre DEF TypeOK, Goes, Creation, Removal

LEMMA RemovalMoves ==
    ASSUME TypeOK, NEW m \in Maps, NEW stage \in Stages, Goes(<<"delete", m>>, stage)
    PROVE  /\ at' \in [Requests -> Stages]
           /\ \A n \in Maps : /\ Removal(n)' = IF n = m THEN stage ELSE Removal(n)
                              /\ Creation(n)' = Creation(n)
BY RequestsAre DEF TypeOK, Goes, Creation, Removal

LEMMA SpotsAre ==
    ASSUME TypeOK
    PROVE  \A m \in Maps : Spot(m) \in Spots
BY ConstantsAssumption DEF TypeOK, Spot

(* Who is asked for, and where, does not change.                           *)
LEMMA WishesStay ==
    ASSUME wanted' = wanted
    PROVE  /\ \A m : Spot(m)' = Spot(m) /\ OnDesignsafe(m)' = OnDesignsafe(m)
           /\ \A m, n : Rivals(m, n)' = Rivals(m, n)
BY DEF Spot, OnDesignsafe, Rivals

(* The watchers are as they were when the same maps are coming.            *)
LEMMA WatchersStay ==
    ASSUME WatchInv, UNCHANGED <<wanted, unseen>>, \A m \in Maps : Coming(m)' => Coming(m)
    PROVE  WatchInv'
BY WishesStay DEF WatchInv

-----------------------------------------------------------------------------
LEMMA CheckStep ==
    ASSUME IInv, NEW m \in Maps, Check(m)
    PROVE  IInv'
<1>1. PICK stage \in {"checked", "failed"} :
        /\ Goes(<<"create", m>>, stage)
        /\ IF stage = "checked"
           THEN /\ Free(m)
                /\ unseen' = [unseen EXCEPT ![m] = {n \in Maps : Creation(n) = "checked"}]
           ELSE unseen' = unseen
  BY DEF Check, Creation
<1>2. /\ at' \in [Requests -> Stages]
      /\ \A n \in Maps : /\ Creation(n)' = IF n = m THEN stage ELSE Creation(n)
                         /\ Removal(n)' = Removal(n)
  BY <1>1, CreationMoves DEF IInv, Stages
<1>3. /\ Creation(m) = "idle" /\ m \notin rows /\ Removal(m) = "idle"
      /\ UNCHANGED <<rows, wanted, marker, listed, strayed, mislaid, copy, failures>>
  BY DEF Check, Creation, IInv, RowInv, outside
<1>4. TypeOK'
  <2>1. unseen' \in [Maps -> SUBSET Maps]
    BY <1>1 DEF IInv, TypeOK
  <2>. QED  BY <1>2, <1>3, <2>1 DEF IInv, TypeOK
<1>5. StageInv' /\ RowInv'
  BY <1>1, <1>2, <1>3, WishesStay DEF IInv, StageInv, RowInv
<1>6. ListInv' /\ MarkerInv'
  BY <1>1, <1>2, <1>3, WishesStay DEF IInv, ListInv, MarkerInv, DueListed, DueMarked
<1>7. WatchInv'
  <2>1. CASE stage = "failed"
    BY <1>1, <1>2, <1>3, <2>1, WatchersStay DEF IInv, Coming
  <2>2. CASE stage = "checked"
    <3>1. /\ \A n \in Maps : n # m => unseen'[n] = unseen[n]
          /\ unseen'[m] = {n \in Maps : Creation(n) = "checked"}
      BY <1>1, <2>2 DEF IInv, TypeOK
    <3>2. \A n \in Maps : n # m => (Coming(n)' <=> Coming(n))
      BY <1>2, <1>3 DEF Coming
    <3>3. ASSUME NEW n \in Maps, Coming(n)', Rivals(m, n)
          PROVE  n \in unseen'[m]
      BY <1>1, <2>2, <3>1, <3>2, <3>3 DEF Rivals, Coming, Free, Watching
    <3>4. ASSUME NEW n \in Maps, NEW k \in Maps, n # m, k # m, Coming(n)', Coming(k)', Rivals(n, k)
          PROVE  n \in unseen'[k] \/ k \in unseen'[n]
      BY <3>1, <3>2, <3>4 DEF IInv, WatchInv
    <3>5. \A n, k \in Maps : Rivals(n, k) => n # k /\ Rivals(k, n)
      BY DEF Rivals
    <3>. QED  BY <1>3, <3>3, <3>4, <3>5, WishesStay DEF WatchInv
  <2>. QED  BY <2>1, <2>2
<1>. QED
  BY <1>4, <1>5, <1>6, <1>7 DEF IInv

(* A step that only takes a request on: nothing is due that was not, and   *)
(* all that was still is.                                                  *)
LEMMA StageStep ==
    ASSUME IInv,
           UNCHANGED <<rows, wanted, unseen, marker, listed>>,
           strayed \subseteq strayed', mislaid \subseteq mislaid',
           strayed' \subseteq Maps, mislaid' \subseteq Maps,
           copy' \in [Requests -> SUBSET Maps], failures' \in 0 .. MaxFailures,
           at' \in [Requests -> Stages],
           \A m \in Maps : Creation(m)' # "checked" \/ Creation(m) = "checked",
           StageInv', RowInv',
           \A m \in Maps \ strayed' : DueListed(m)' <=> DueListed(m),
           \A m \in Maps \ mislaid' : DueMarked(m)' <=> DueMarked(m)
    PROVE  IInv'
<1>1. TypeOK'
  BY DEF IInv, TypeOK
<1>2. WatchInv'
  BY WatchersStay DEF IInv, Coming
<1>3. ListInv' /\ MarkerInv'
  BY WishesStay DEF IInv, ListInv, MarkerInv
<1>. QED  BY <1>1, <1>2, <1>3 DEF IInv

LEMMA StoreStep ==
    ASSUME IInv, NEW m \in Maps, Store(m)
    PROVE  IInv'
<1>1. /\ Goes(<<"create", m>>, "stored") /\ Creation(m) = "checked"
      /\ rows' = rows \cup {m}
      /\ UNCHANGED <<wanted, unseen, marker, listed, strayed, mislaid, copy, failures>>
  BY DEF Store, Creation, outside
<1>2. /\ at' \in [Requests -> Stages]
      /\ \A n \in Maps : /\ Creation(n)' = IF n = m THEN "stored" ELSE Creation(n)
                         /\ Removal(n)' = Removal(n)
  BY <1>1, CreationMoves DEF IInv, Stages
<1>3. Removal(m) = "idle" /\ m \notin rows
  BY <1>1 DEF IInv, RowInv
<1>4. TypeOK'
  BY <1>1, <1>2 DEF IInv, TypeOK
<1>5. StageInv' /\ RowInv'
  BY <1>1, <1>2, <1>3, WishesStay DEF IInv, StageInv, RowInv
<1>6. ListInv' /\ MarkerInv'
  BY <1>1, <1>2, <1>3, WishesStay DEF IInv, ListInv, MarkerInv, DueListed, DueMarked
<1>7. WatchInv'
  BY <1>1, <1>2, WatchersStay DEF IInv, Coming
<1>. QED
  BY <1>4, <1>5, <1>6, <1>7 DEF IInv

LEMMA PutMarkerStep ==
    ASSUME IInv, NEW m \in Maps, PutMarker(m)
    PROVE  IInv'
<1>1. /\ Goes(<<"create", m>>, "layers") /\ Creation(m) = "stored"
      /\ UNCHANGED <<rows, wanted, unseen, listed, strayed, copy>>
      /\ failures' \in 0 .. MaxFailures
  BY ConstantsAssumption DEF PutMarker, Creation, database, Fails, IInv, TypeOK
<1>2. /\ at' \in [Requests -> Stages]
      /\ \A n \in Maps : /\ Creation(n)' = IF n = m THEN "layers" ELSE Creation(n)
                         /\ Removal(n)' = Removal(n)
  BY <1>1, CreationMoves DEF IInv, Stages
<1>3. /\ marker' \in {marker, [marker EXCEPT ![Spot(m)] = m]}
      /\ mislaid \subseteq mislaid' /\ mislaid' \subseteq mislaid \cup ({m, marker[Spot(m)]} \ {Nobody})
      /\ marker[Spot(m)] # Nobody => marker[Spot(m)] \in mislaid'
      /\ m \notin mislaid' => /\ marker' = [marker EXCEPT ![Spot(m)] = m]
                              /\ Removal(m) \in {"idle", "stored"}
  <2>1. /\ marker[Spot(m)] \in Maps \cup {Nobody} /\ mislaid \subseteq Maps
    BY SpotsAre DEF IInv, TypeOK
  <2>. QED  BY <2>1, ConstantsAssumption DEF PutMarker, Removal
<1>4. /\ marker' \in [Spots -> Maps \cup {Nobody}] /\ mislaid' \subseteq Maps
      /\ \A n \in Maps : marker'[Spot(n)] \in {marker[Spot(n)], m}
      /\ \A n \in Maps : Spot(n) # Spot(m) => marker'[Spot(n)] = marker[Spot(n)]
      /\ m \notin mislaid' => marker'[Spot(m)] = m
  BY <1>3, SpotsAre DEF IInv, TypeOK
<1>5. TypeOK'
  BY <1>1, <1>2, <1>4 DEF IInv, TypeOK
<1>6. StageInv' /\ RowInv'
  BY <1>1, <1>2, <1>3, WishesStay DEF IInv, StageInv, RowInv
<1>7. WatchInv' /\ ListInv'
  BY <1>1, <1>2, WatchersStay, WishesStay DEF IInv, Coming, ListInv, DueListed
<1>8. MarkerInv'
  <2>1. SUFFICES ASSUME NEW n \in Maps \ mislaid'
                 PROVE  marker'[Spot(n)] = n <=> DueMarked(n)'
    BY <1>1, WishesStay DEF MarkerInv
  <2>2. CASE n = m
    BY <1>1, <1>2, <1>3, <1>4, <2>2 DEF IInv, RowInv, DueMarked
  <2>3. CASE n # m
    <3>1. DueMarked(n)' <=> DueMarked(n)
      BY <1>1, <1>2, <2>3 DEF DueMarked
    <3>2. marker'[Spot(n)] = n <=> marker[Spot(n)] = n
      BY <1>3, <1>4, <2>1, <2>3, ConstantsAssumption
    <3>. QED  BY <1>3, <3>1, <3>2 DEF IInv, MarkerInv
  <2>. QED  BY <2>2, <2>3
<1>. QED
  BY <1>5, <1>6, <1>7, <1>8 DEF IInv

LEMMA AddLayersStep ==
    ASSUME IInv, NEW m \in Maps, AddLayers(m)
    PROVE  IInv'
<1>1. PICK stage \in {"maps", "members", "failed"} :
        /\ Goes(<<"create", m>>, stage)
        /\ IF m \in rows THEN stage = (IF OnDesignsafe(m) THEN "maps" ELSE "members")
                         ELSE stage = "failed"
  BY DEF AddLayers
<1>2. /\ Creation(m) = "layers"
      /\ UNCHANGED <<rows, wanted, unseen, marker, listed, strayed, mislaid, copy, failures>>
  BY DEF AddLayers, Creation, database, outside
<1>3. /\ at' \in [Requests -> Stages]
      /\ \A n \in Maps : /\ Creation(n)' = IF n = m THEN stage ELSE Creation(n)
                         /\ Removal(n)' = Removal(n)
  BY <1>1, CreationMoves DEF IInv, Stages
<1>4. StageInv' /\ RowInv'
  BY <1>1, <1>2, <1>3, WishesStay DEF IInv, StageInv, RowInv
<1>5. \A n \in Maps : (DueListed(n)' <=> DueListed(n)) /\ (DueMarked(n)' <=> DueMarked(n))
  BY <1>1, <1>2, <1>3, WishesStay DEF DueListed, DueMarked
<1>. QED
  BY <1>1, <1>2, <1>3, <1>4, <1>5, StageStep DEF IInv, TypeOK

LEMMA SetMembersStep ==
    ASSUME IInv, NEW m \in Maps, SetMembers(m)
    PROVE  IInv'
<1>1. PICK stage \in {"enqueue", "done", "failed"} : Goes(<<"create", m>>, stage)
  BY DEF SetMembers
<1>2. /\ Creation(m) = "members" /\ failures' \in 0 .. MaxFailures
      /\ UNCHANGED <<rows, wanted, unseen, marker, listed, strayed, mislaid, copy>>
  BY ConstantsAssumption
  DEF SetMembers, Creation, database, outside, Fails, IInv, TypeOK
<1>3. /\ at' \in [Requests -> Stages]
      /\ \A n \in Maps : /\ Creation(n)' = IF n = m THEN stage ELSE Creation(n)
                         /\ Removal(n)' = Removal(n)
  BY <1>1, CreationMoves DEF IInv, Stages
<1>4. StageInv' /\ RowInv'
  BY <1>1, <1>2, <1>3, WishesStay DEF IInv, StageInv, RowInv
<1>5. \A n \in Maps : (DueListed(n)' <=> DueListed(n)) /\ (DueMarked(n)' <=> DueMarked(n))
  BY <1>1, <1>2, <1>3, WishesStay DEF DueListed, DueMarked
<1>. QED
  BY <1>1, <1>2, <1>3, <1>4, <1>5, StageStep DEF IInv, TypeOK

-----------------------------------------------------------------------------
(* What a request does to the stages of its map, whichever it is.          *)
LEMMA RequestMoves ==
    ASSUME TypeOK, NEW r \in Requests, NEW stage \in Stages, Goes(r, stage)
    PROVE  /\ at' \in [Requests -> Stages]
           /\ \E m \in Maps :
                 /\ r[2] = m
                 /\ \A n \in Maps \ {m} : Creation(n)' = Creation(n) /\ Removal(n)' = Removal(n)
                 /\ \/ /\ r = <<"create", m>> /\ Creation(m) = at[r]
                       /\ Creation(m)' = stage /\ Removal(m)' = Removal(m)
                    \/ /\ r = <<"delete", m>> /\ Removal(m) = at[r]
                       /\ Removal(m)' = stage /\ Creation(m)' = Creation(m)
<1>1. CASE \E m \in Maps : r = <<"create", m>>
  BY <1>1, CreationMoves DEF Creation
<1>2. CASE \E m \in Maps : r = <<"delete", m>>
  BY <1>2, RemovalMoves DEF Removal
<1>. QED  BY <1>1, <1>2, RequestsAre

LEMMA ReadMapsStep ==
    ASSUME IInv, NEW r \in Requests, ReadMaps(r)
    PROVE  IInv'
<1>. DEFINE m == r[2]
<1>1. PICK stage \in {"patch", "members", "rows"} :
        /\ Goes(r, stage)
        /\ stage # "patch" => stage = After(r) /\ strayed' = strayed \cup {m}
        /\ stage = "patch" => strayed' = strayed
  BY DEF ReadMaps, After
<1>2. /\ at[r] = "maps" /\ failures' \in 0 .. MaxFailures
      /\ copy' \in [Requests -> SUBSET Maps]
      /\ UNCHANGED <<rows, wanted, unseen, marker, listed, mislaid>>
  BY ConstantsAssumption DEF ReadMaps, database, Fails, IInv, TypeOK
<1>3. /\ at' \in [Requests -> Stages] /\ m \in Maps
      /\ \A n \in Maps \ {m} : Creation(n)' = Creation(n) /\ Removal(n)' = Removal(n)
      /\ \/ /\ r = <<"create", m>> /\ Creation(m) = "maps"
            /\ Creation(m)' = stage /\ Removal(m)' = Removal(m)
         \/ /\ r = <<"delete", m>> /\ Removal(m) = "maps"
            /\ Removal(m)' = stage /\ Creation(m)' = Creation(m)
  BY <1>1, <1>2, RequestMoves DEF IInv, Stages
<1>4. stage \in {"patch", IF r = <<"create", m>> THEN "members" ELSE "rows"}
  BY <1>1, <1>3, RequestsAre
<1> HIDE DEF m
<1>5. StageInv' /\ RowInv'
  BY <1>1, <1>2, <1>3, <1>4, WishesStay DEF IInv, StageInv, RowInv
<1>6. /\ \A n \in Maps \ strayed' : DueListed(n)' <=> DueListed(n)
      /\ \A n \in Maps \ mislaid' : DueMarked(n)' <=> DueMarked(n)
  BY <1>1, <1>2, <1>3, <1>4, WishesStay DEF DueListed, DueMarked
<1>7. strayed' \subseteq Maps /\ strayed \subseteq strayed' /\ mislaid \subseteq Maps
  BY <1>1, <1>3 DEF IInv, TypeOK
<1>. QED
  BY <1>1, <1>2, <1>3, <1>4, <1>5, <1>6, <1>7, StageStep

LEMMA WriteMapsStep ==
    ASSUME IInv, NEW r \in Requests, WriteMaps(r)
    PROVE  IInv'
<1>. DEFINE m == r[2]
<1>1. /\ at[r] = "patch" /\ Goes(r, After(r)) /\ failures' \in 0 .. MaxFailures
      /\ copy' \in [Requests -> SUBSET Maps]
      /\ UNCHANGED <<rows, wanted, unseen, marker, mislaid>>
      /\ listed' \in {listed, NewMaps(r)}
      /\ strayed' \in {strayed \cup Upset(r), strayed \cup {m} \cup Upset(r)}
      /\ m \notin strayed' => listed' = NewMaps(r)
  BY ConstantsAssumption DEF WriteMaps, database, Fails, IInv, TypeOK
<1>2. After(r) \in Stages
  BY DEF After, Stages
<1>3. /\ at' \in [Requests -> Stages] /\ m \in Maps
      /\ \A n \in Maps \ {m} : Creation(n)' = Creation(n) /\ Removal(n)' = Removal(n)
      /\ \/ /\ r = <<"create", m>> /\ Creation(m) = "patch"
            /\ Creation(m)' = "members" /\ Removal(m)' = Removal(m)
         \/ /\ r = <<"delete", m>> /\ Removal(m) = "patch"
            /\ Removal(m)' = "rows" /\ Creation(m)' = Creation(m)
  <2>1. /\ at' \in [Requests -> Stages] /\ m \in Maps
        /\ \A n \in Maps \ {m} : Creation(n)' = Creation(n) /\ Removal(n)' = Removal(n)
        /\ \/ /\ r = <<"create", m>> /\ Creation(m) = "patch"
              /\ Creation(m)' = After(r) /\ Removal(m)' = Removal(m)
           \/ /\ r = <<"delete", m>> /\ Removal(m) = "patch"
              /\ Removal(m)' = After(r) /\ Creation(m)' = Creation(m)
    BY <1>1, <1>2, RequestMoves DEF IInv
  <2>2. /\ r = <<"create", m>> => After(r) = "members"
        /\ r = <<"delete", m>> => After(r) = "rows"
    BY <2>1, RequestsAre
  <2>. QED  BY <2>1, <2>2
<1>4. /\ r[2] = m /\ copy[r] \subseteq Maps
      /\ r = <<"create", m>> => r[1] = "create"
      /\ r = <<"delete", m>> => r[1] # "create"
  BY DEF IInv, TypeOK
<1> HIDE DEF m
<1>5. /\ NewMaps(r) \subseteq Maps
      /\ \A n \in Maps \ {m} : n \in NewMaps(r) <=> n \in copy[r]
      /\ m \in NewMaps(r) <=> r[1] = "create"
  BY <1>3, <1>4 DEF NewMaps
<1>6. /\ Upset(r) \subseteq Maps
      /\ \A n \in Maps \ {m} : n \notin Upset(r) => (n \in listed <=> n \in copy[r])
      /\ r = <<"create", m>> /\ m \notin Upset(r) => Removal(m) = "idle"
  BY <1>3, <1>4 DEF Upset, Removal
<1>7. TypeOK'
  BY <1>1, <1>3, <1>5, <1>6 DEF IInv, TypeOK
<1>8. StageInv' /\ RowInv'
  BY <1>1, <1>3, WishesStay DEF IInv, StageInv, RowInv
<1>9. WatchInv' /\ MarkerInv'
  BY <1>1, <1>3, WatchersStay, WishesStay DEF IInv, Coming, MarkerInv, DueMarked
<1>10. ListInv'
  <2>1. SUFFICES ASSUME NEW n \in Maps \ strayed'
                 PROVE  n \in listed' <=> DueListed(n)'
    BY <1>1, WishesStay DEF ListInv
  <2>2. CASE n # m
    <3>1. n \in listed' <=> n \in listed
      BY <1>1, <1>5, <1>6, <2>1, <2>2
    <3>2. DueListed(n)' <=> DueListed(n)
      BY <1>1, <1>3, <2>2, WishesStay DEF DueListed
    <3>. QED  BY <1>1, <2>1, <3>1, <3>2 DEF IInv, ListInv
  <2>3. CASE n = m /\ r = <<"create", m>>
    BY <1>1, <1>3, <1>4, <1>5, <1>6, <2>1, <2>3, WishesStay DEF IInv, StageInv, RowInv, DueListed
  <2>4. CASE n = m /\ r = <<"delete", m>>
    BY <1>1, <1>3, <1>4, <1>5, <2>1, <2>4, WishesStay DEF DueListed
  <2>. QED  BY <1>3, <2>2, <2>3, <2>4
<1>. QED
  BY <1>7, <1>8, <1>9, <1>10 DEF IInv

LEMMA EnqueueStep ==
    ASSUME IInv, NEW r \in Requests, Enqueue(r)
    PROVE  IInv'
<1>. DEFINE m == r[2]
<1>1. PICK stage \in {"done", "failed"} : Goes(r, stage)
  BY DEF Enqueue
<1>2. /\ at[r] = "enqueue" /\ failures' \in 0 .. MaxFailures
      /\ UNCHANGED <<rows, wanted, unseen, marker, listed, strayed, mislaid, copy>>
  BY ConstantsAssumption DEF Enqueue, database, outside, Fails, IInv, TypeOK
<1>3. /\ at' \in [Requests -> Stages] /\ m \in Maps
      /\ \A n \in Maps \ {m} : Creation(n)' = Creation(n) /\ Removal(n)' = Removal(n)
      /\ \/ /\ Creation(m) = "enqueue" /\ Creation(m)' = stage /\ Removal(m)' = Removal(m)
         \/ /\ Removal(m) = "enqueue" /\ Removal(m)' = stage /\ Creation(m)' = Creation(m)
  BY <1>1, <1>2, RequestMoves DEF IInv, Stages
<1> HIDE DEF m
<1>4. StageInv' /\ RowInv'
  BY <1>1, <1>2, <1>3, WishesStay DEF IInv, StageInv, RowInv
<1>5. \A n \in Maps : (DueListed(n)' <=> DueListed(n)) /\ (DueMarked(n)' <=> DueMarked(n))
  BY <1>1, <1>2, <1>3, WishesStay DEF DueListed, DueMarked
<1>. QED
  BY <1>1, <1>2, <1>3, <1>4, <1>5, StageStep DEF IInv, TypeOK

LEMMA DeathStep ==
    ASSUME IInv, NEW r \in Requests, Dies(r)
    PROVE  IInv'
<1>. DEFINE m == r[2]
<1>1. /\ Goes(r, "died") /\ at[r] \notin {"idle", "done", "failed", "died"}
      /\ failures' \in 0 .. MaxFailures
      /\ strayed' = strayed \cup {m} /\ mislaid' = mislaid \cup {m}
      /\ copy' \in [Requests -> SUBSET Maps]
      /\ UNCHANGED <<rows, wanted, unseen, marker, listed>>
  BY ConstantsAssumption DEF Dies, Open, database, Fails, IInv, TypeOK
<1>2. /\ at' \in [Requests -> Stages] /\ m \in Maps
      /\ \A n \in Maps \ {m} : Creation(n)' = Creation(n) /\ Removal(n)' = Removal(n)
      /\ \/ /\ Creation(m) # "idle" /\ Creation(m)' = "died" /\ Removal(m)' = Removal(m)
         \/ /\ Removal(m) # "idle" /\ Removal(m)' = "died" /\ Creation(m)' = Creation(m)
  BY <1>1, RequestMoves DEF IInv, Stages
<1> HIDE DEF m
<1>3. StageInv' /\ RowInv'
  BY <1>1, <1>2, WishesStay DEF IInv, StageInv, RowInv
<1>4. \A n \in Maps \ {m} : (DueListed(n)' <=> DueListed(n)) /\ (DueMarked(n)' <=> DueMarked(n))
  BY <1>1, <1>2, WishesStay DEF DueListed, DueMarked
<1>5. strayed' \subseteq Maps /\ mislaid' \subseteq Maps
  BY <1>1, <1>2 DEF IInv, TypeOK
<1>. QED
  BY <1>1, <1>2, <1>3, <1>4, <1>5, StageStep

-----------------------------------------------------------------------------
LEMMA AskDeleteStep ==
    ASSUME IInv, NEW m \in Maps, AskDelete(m)
    PROVE  IInv'
<1>1. /\ Goes(<<"delete", m>>, "stored") /\ Removal(m) = "idle" /\ m \in rows
      /\ UNCHANGED <<rows, wanted, unseen, marker, listed, strayed, mislaid, copy, failures>>
  BY DEF AskDelete, Removal, database, outside
<1>2. /\ at' \in [Requests -> Stages]
      /\ \A n \in Maps : /\ Removal(n)' = IF n = m THEN "stored" ELSE Removal(n)
                         /\ Creation(n)' = Creation(n)
  BY <1>1, RemovalMoves DEF IInv, Stages
<1>3. StageInv' /\ RowInv'
  BY <1>1, <1>2, WishesStay DEF IInv, StageInv, RowInv
<1>4. \A n \in Maps : (DueListed(n)' <=> DueListed(n)) /\ (DueMarked(n)' <=> DueMarked(n))
  BY <1>1, <1>2, WishesStay DEF DueListed, DueMarked
<1>. QED
  BY <1>1, <1>2, <1>3, <1>4, StageStep DEF IInv, TypeOK

LEMMA DropMarkerStep ==
    ASSUME IInv, NEW m \in Maps, DropMarker(m)
    PROVE  IInv'
<1>1. PICK stage \in {"maps", "rows"} :
        /\ Goes(<<"delete", m>>, stage)
        /\ stage = "maps" <=> OnDesignsafe(m)
  BY DEF DropMarker, AfterMarker, Logged
<1>2. /\ Removal(m) = "stored" /\ failures' \in 0 .. MaxFailures
      /\ UNCHANGED <<rows, wanted, unseen, listed, strayed, copy>>
  BY ConstantsAssumption DEF DropMarker, Removal, database, Fails, IInv, TypeOK
<1>3. /\ at' \in [Requests -> Stages]
      /\ \A n \in Maps : /\ Removal(n)' = IF n = m THEN stage ELSE Removal(n)
                         /\ Creation(n)' = Creation(n)
  BY <1>1, RemovalMoves DEF IInv, Stages
<1>4. /\ marker' \in {marker, [marker EXCEPT ![Spot(m)] = Nobody]}
      /\ mislaid \subseteq mislaid' /\ mislaid' \subseteq Maps
      /\ marker[Spot(m)] \in mislaid' \cup {Nobody, m}
      /\ m \notin mislaid' => marker' = [marker EXCEPT ![Spot(m)] = Nobody]
  <2>1. /\ marker[Spot(m)] \in Maps \cup {Nobody} /\ mislaid \subseteq Maps
    BY SpotsAre DEF IInv, TypeOK
  <2>. QED  BY <2>1, ConstantsAssumption DEF DropMarker
<1>5. /\ marker' \in [Spots -> Maps \cup {Nobody}]
      /\ \A n \in Maps : marker'[Spot(n)] \in {marker[Spot(n)], Nobody}
      /\ \A n \in Maps : Spot(n) # Spot(m) => marker'[Spot(n)] = marker[Spot(n)]
      /\ m \notin mislaid' => marker'[Spot(m)] = Nobody
  BY <1>4, SpotsAre DEF IInv, TypeOK
<1>6. TypeOK'
  BY <1>2, <1>3, <1>4, <1>5 DEF IInv, TypeOK
<1>7. StageInv' /\ RowInv'
  BY <1>1, <1>2, <1>3, <1>4, WishesStay DEF IInv, StageInv, RowInv
<1>8. WatchInv' /\ ListInv'
  BY <1>1, <1>2, <1>3, WatchersStay, WishesStay DEF IInv, Coming, ListInv, DueListed
<1>9. MarkerInv'
  <2>1. SUFFICES ASSUME NEW n \in Maps \ mislaid'
                 PROVE  marker'[Spot(n)] = n <=> DueMarked(n)'
    BY <1>2, WishesStay DEF MarkerInv
  <2>2. CASE n = m
    BY <1>1, <1>3, <1>5, <2>1, <2>2, ConstantsAssumption DEF DueMarked
  <2>3. CASE n # m
    <3>1. DueMarked(n)' <=> DueMarked(n)
      BY <1>2, <1>3, <2>3 DEF DueMarked
    <3>2. marker'[Spot(n)] = n <=> marker[Spot(n)] = n
      BY <1>4, <1>5, <2>1, <2>3, ConstantsAssumption
    <3>. QED  BY <1>4, <3>1, <3>2 DEF IInv, MarkerInv
  <2>. QED  BY <2>2, <2>3
<1>. QED
  BY <1>6, <1>7, <1>8, <1>9 DEF IInv

LEMMA DropRowsStep ==
    ASSUME IInv, NEW m \in Maps, DropRows(m)
    PROVE  IInv'
<1>1. /\ Goes(<<"delete", m>>, "enqueue") /\ Removal(m) = "rows" /\ rows' = rows \ {m}
      /\ UNCHANGED <<wanted, unseen, marker, listed, strayed, mislaid, copy, failures>>
  BY DEF DropRows, Removal, outside
<1>2. /\ at' \in [Requests -> Stages]
      /\ \A n \in Maps : /\ Removal(n)' = IF n = m THEN "enqueue" ELSE Removal(n)
                         /\ Creation(n)' = Creation(n)
  BY <1>1, RemovalMoves DEF IInv, Stages
<1>3. TypeOK'
  BY <1>1, <1>2 DEF IInv, TypeOK
<1>4. StageInv' /\ RowInv'
  BY <1>1, <1>2, WishesStay DEF IInv, StageInv, RowInv
<1>5. ListInv' /\ MarkerInv'
  BY <1>1, <1>2, WishesStay DEF IInv, ListInv, MarkerInv, DueListed, DueMarked
<1>6. WatchInv'
  BY <1>1, <1>2, WatchersStay DEF IInv, Coming
<1>. QED
  BY <1>3, <1>4, <1>5, <1>6 DEF IInv

-----------------------------------------------------------------------------
(***************************************************************************)
(* The theorems.                                                           *)
(***************************************************************************)
LEMMA NextStep ==
    ASSUME IInv, [Next]_vars
    PROVE  IInv'
<1>1. CASE UNCHANGED vars
  BY <1>1 DEF vars, IInv, TypeOK, StageInv, RowInv, WatchInv, ListInv, MarkerInv, Coming,
              Rivals, DueListed, DueMarked, Creation, Removal, Spot, OnDesignsafe
<1>2. \A r \in Requests : r[2] \in Maps
  BY RequestsAre
<1>. QED
  BY <1>1, <1>2, CheckStep, StoreStep, PutMarkerStep, AddLayersStep, SetMembersStep,
     ReadMapsStep, WriteMapsStep, EnqueueStep, DeathStep, AskDeleteStep, DropMarkerStep,
     DropRowsStep
  DEF Next, Step

LEMMA Start == Init => IInv
<1>1. SUFFICES ASSUME Init PROVE IInv
  OBVIOUS
<1>2. TypeOK
  BY <1>1, ConstantsAssumption DEF Init, TypeOK, Stages
<1>3. \A m \in Maps : Creation(m) = "idle" /\ Removal(m) = "idle" /\ marker[Spot(m)] = Nobody
  BY <1>1, <1>2, RequestsAre, SpotsAre DEF Init, Creation, Removal
<1>. QED
  BY <1>1, <1>2, <1>3, ConstantsAssumption
  DEF Init, IInv, StageInv, RowInv, WatchInv, Coming, ListInv, DueListed, MarkerInv, DueMarked

LEMMA Invariance == Spec => []IInv
<1>1. IInv /\ [Next]_vars => IInv'
  BY NextStep
<1>. QED  BY Start, <1>1, PTL DEF Spec

(* The database, the list of the DesignSafe project and the .hazmapper     *)
(* files agree on every map whose requests are over, except where a call   *)
(* failed, a deletion overtook the creation, or another request wrote over *)
(* it; and no step of a creation brings a map back that has been deleted   *)
(* under it (services/projects.py, custom/designsafe/project.py).          *)
THEOREM CatalogStaysConsistent == Spec => []CatalogConsistent
<1>1. IInv => TypeOK /\ ListIsTrue /\ MarkersAreTrue
  BY DEF IInv, ListIsTrue, MarkersAreTrue, AtRest, Open, RowInv, StageInv,
         ListInv, MarkerInv, DueListed, DueMarked, Creation, Removal, TypeOK, Stages
<1>2. IInv => DeletedIsGone
  BY DEF IInv, RowInv, Creation, Removal, DeletedIsGone
<1>3. IInv => CatalogConsistent
  BY <1>1, <1>2 DEF CatalogConsistent
<1>. QED  BY Invariance, <1>3, PTL

(* Two maps watch one directory only if one was checked before the other's *)
(* row was stored (services/projects.py, create).                          *)
THEOREM WatchersStayAlone == Spec => []WatchersAreAlone
<1>1. IInv => WatchersAreAlone
  BY DEF IInv, TypeOK, WatchersAreAlone, WatchInv, Coming, Rivals
<1>. QED  BY Invariance, <1>1, PTL

-----------------------------------------------------------------------------
(***************************************************************************)
(* The members of a map.  The system is that of ProjectMembers, and its    *)
(* specification MembersSpec; it shares no state with the one above.       *)
(***************************************************************************)
MemberStages == {"off", "creator", "users", "add", "role", "remove", "fetch", "assign",
                 "roles", "done"}

MemberState == [stage : MemberStages, user : Users \cup {NoUser}, admin : BOOLEAN,
                seen : SUBSET Users, got : [members : SUBSET Users, admins : SUBSET Users]]

(* Whoever was not overtaken works on the members as they are.             *)
Using == {"remove", "fetch", "assign"}

SeenInv == \A p \in (Removers \cup Passes) \ overtaken :
               proc[p].stage \in Using => proc[p].seen = members

(* What a request asks for, and a pass has been told, is sensible.         *)
AskedInv ==
    /\ \A p \in Procs : proc[p].stage = "add" => proc[p].user \in Users
    /\ \A r \in Removers : proc[r].stage = "remove" => MayRemove(proc[r].user, proc[r].seen)
    /\ \A s \in Passes : proc[s].stage \in {"assign", "roles"} => proc[s].got \in Team

MembersInv == MembersTypeOK /\ SeenInv /\ AskedInv

LEMMA MemberType == MembersTypeOK => proc \in [Procs -> MemberState] /\ Off \in MemberState
BY DEF MembersTypeOK, MemberState, MemberStages, Off, NoTeam

(* One process comes to a new state.  Either it leaves the members alone,  *)
(* and is overtaken as before if it works on them, or it wrote them and is *)
(* done with them.                                                         *)
LEMMA MemberMoves ==
    ASSUME MembersInv, NEW p \in Procs, NEW state \in MemberState,
           proc' = [proc EXCEPT ![p] = state],
           there' \in BOOLEAN, members' \in SUBSET Users,
           admins' \subseteq members', creators' \subseteq members',
           UNCHANGED <<remote, changes>>, stops' \in Nat,
           \/ /\ members' = members
              /\ overtaken' \in {overtaken, overtaken \ {p}}
              /\ state.stage \in Using
                    => /\ overtaken' = overtaken
                       /\ p = Maker \/ state.seen = members \/ p \in overtaken
           \/ Overtakes(p) /\ state.stage \notin Using,
           state.stage = "add" => state.user \in Users,
           state.stage = "remove" => MayRemove(state.user, state.seen),
           state.stage \in {"assign", "roles"} => state.got \in Team
    PROVE  MembersInv'
<1>1. proc \in [Procs -> MemberState] /\ proc' \in [Procs -> MemberState]
  BY MemberType DEF MembersInv
<1>2. MembersTypeOK'
  <2>1. overtaken' \subseteq Procs
    BY DEF MembersInv, MembersTypeOK, Overtakes, Loaded
  <2>. QED  BY <1>1, <2>1 DEF MembersInv, MembersTypeOK, MemberState, MemberStages
<1>3. /\ proc'[p] = state /\ \A q \in Procs : q # p => proc'[q] = proc[q]
      /\ Maker \notin Removers \cup Passes
  BY <1>1, MembersAssumption
<1>4. SeenInv'
  <2>1. CASE members' = members
    BY <1>3, <2>1 DEF MembersInv, SeenInv, Using, Procs, Overtakes
  <2>2. CASE members' # members
    BY <1>3, <2>2 DEF SeenInv, Using, Procs, Overtakes, Loaded
  <2>. QED  BY <2>1, <2>2
<1>5. AskedInv'
  BY <1>3 DEF MembersInv, AskedInv, Procs, MayRemove
<1>. QED  BY <1>2, <1>4, <1>5 DEF MembersInv

LEMMA MemberEnds ==
    ASSUME MembersInv, NEW p \in Procs, Ends(p),
           there' \in BOOLEAN, members' \in SUBSET Users,
           admins' \subseteq members', creators' \subseteq members',
           UNCHANGED <<remote, changes>>, stops' \in Nat,
           \/ members' = members /\ overtaken' \in {overtaken, overtaken \ {p}}
           \/ Overtakes(p)
    PROVE  MembersInv'
<1>. DEFINE state == IF p \in Passes THEN Off ELSE [Off EXCEPT !.stage = "done"]
<1>1. proc' = [proc EXCEPT ![p] = state]
  BY DEF Ends
<1>2. state \in MemberState /\ state.stage \in {"off", "done"}
  BY MemberType DEF MembersInv, MemberState, MemberStages, Off
<1>. QED  BY <1>1, <1>2, MemberMoves DEF Using

LEMMA MemberConflict ==
    ASSUME MembersInv, NEW p \in Procs, Conflict(p)
    PROVE  MembersInv'
BY MemberEnds DEF Conflict, memberRows, MembersInv, MembersTypeOK

(* The three writes of a request or pass keep members, admins and creators *)
(* in step.                                                                *)
LEMMA MemberWrites ==
    ASSUME MembersTypeOK, NEW p, NEW added \in SUBSET Users, NEW removed, Write(p, added, removed)
    PROVE  /\ there' \in BOOLEAN /\ members' \in SUBSET Users
           /\ admins' \subseteq members' /\ creators' \subseteq members'
           /\ Overtakes(p)
BY DEF Write, MembersTypeOK

LEMMA MakerStep ==
    ASSUME MembersInv, MarkCreator \/ AskTeam \/ AssignTeam
    PROVE  MembersInv'
<1>t. /\ MembersTypeOK /\ Maker \in Procs /\ Creator \in Users /\ proc[Maker] \in MemberState
  BY MemberType, MembersAssumption DEF MembersInv, Procs
<1>1. CASE MarkCreator
  <2>. DEFINE state == [proc[Maker] EXCEPT !.stage = "users", !.seen = {Creator}]
  <2>1. proc' = [proc EXCEPT ![Maker] = state] /\ creators' \subseteq members'
    BY <1>1, <1>t DEF MarkCreator, MembersTypeOK
  <2>2. state \in MemberState /\ state.stage = "users"
    BY <1>t DEF MemberState, MemberStages
  <2>. QED  BY <1>1, <1>t, <2>1, <2>2, MemberMoves DEF MarkCreator, MembersTypeOK, Using
<1>2. CASE AskTeam /\ Creator \in remote.members
  <2>. DEFINE state == [proc[Maker] EXCEPT !.stage = "assign", !.got = remote]
  <2>1. proc' = [proc EXCEPT ![Maker] = state] /\ remote \in Team
    BY <1>2, <1>t DEF AskTeam, MembersTypeOK
  <2>2. state \in MemberState /\ state.stage = "assign" /\ state.got \in Team
    BY <1>t, <2>1 DEF MemberState, MemberStages, Team
  <2>. QED  BY <1>2, <1>t, <2>1, <2>2, MemberMoves DEF AskTeam, MembersTypeOK, memberRows
<1>3. CASE AskTeam /\ Creator \notin remote.members
  BY <1>3, <1>t, MemberEnds DEF AskTeam, MembersTypeOK, memberRows
<1>4. CASE AssignTeam
  <2>. DEFINE added == proc[Maker].got.members \ proc[Maker].seen
              promoted == {Creator} \cap proc[Maker].got.admins
  <2>1. CASE Conflict(Maker)
    BY <2>1, <1>t, MemberConflict
  <2>2. CASE ~Conflict(Maker)
    <3>1. /\ promoted \subseteq members /\ members' = members \cup added
          /\ admins' = admins \cup promoted /\ Ends(Maker) /\ Overtakes(Maker)
          /\ UNCHANGED <<there, creators, remote, changes, stops>>
      BY <1>4, <2>2 DEF AssignTeam
    <3>2. added \subseteq Users
      BY <1>t DEF MemberState
    <3>. QED  BY <3>1, <3>2, <1>t, MemberEnds DEF MembersTypeOK
  <2>. QED  BY <2>1, <2>2
<1>. QED  BY <1>1, <1>2, <1>3, <1>4

LEMMA AdderStep ==
    ASSUME MembersInv, NEW a \in Adders,
           AskAdd(a) \/ AddMember(a) \/ SetRole(a)
    PROVE  MembersInv'
<1>t. /\ MembersTypeOK /\ a \in Procs /\ proc[a] \in MemberState /\ Off \in MemberState
  BY MemberType DEF MembersInv, Procs
<1>1. CASE AskAdd(a)
  <2>1. PICK u \in Users, admin \in BOOLEAN :
          proc' = [proc EXCEPT ![a] = [Off EXCEPT !.stage = "add", !.user = u,
                                                    !.admin = admin, !.seen = members]]
    BY <1>1 DEF AskAdd
  <2>. DEFINE state == [Off EXCEPT !.stage = "add", !.user = u, !.admin = admin,
                                     !.seen = members]
  <2>2. state \in MemberState /\ state.stage = "add" /\ state.user = u
    BY <1>t DEF MemberState, MemberStages, MembersTypeOK
  <2>. QED
    BY <1>1, <1>t, <2>1, <2>2, MemberMoves DEF AskAdd, MembersTypeOK, memberRows, Using
<1>2. CASE AddMember(a)
  <2>. DEFINE added == {proc[a].user} \ proc[a].seen
              state == [proc[a] EXCEPT !.stage = "role"]
  <2>1. CASE Conflict(a)
    BY <2>1, <1>t, MemberConflict
  <2>2. CASE ~Conflict(a)
    <3>1. /\ Write(a, added, {}) /\ proc[a].stage = "add"
          /\ proc' = [proc EXCEPT ![a] = state] /\ UNCHANGED <<remote, changes, stops>>
      BY <1>2, <1>t, <2>2 DEF AddMember, Proceeds, At, MembersTypeOK
    <3>2. state \in MemberState /\ state.stage = "role"
      BY <1>t DEF MemberState, MemberStages
    <3>3. added \subseteq Users
      BY <1>t, <3>1 DEF MembersInv, AskedInv
    <3>4. /\ there' \in BOOLEAN /\ members' \in SUBSET Users
          /\ admins' \subseteq members' /\ creators' \subseteq members' /\ Overtakes(a)
      BY <1>t, <3>1, <3>3, MemberWrites
    <3>. QED  BY <1>t, <3>1, <3>2, <3>4, MemberMoves DEF MembersTypeOK, Using
  <2>. QED  BY <2>1, <2>2
<1>3. CASE SetRole(a)
  <2>1. admins' \subseteq members
    BY <1>3, <1>t DEF SetRole, MembersTypeOK
  <2>. QED  BY <1>3, <1>t, <2>1, MemberEnds DEF SetRole, MembersTypeOK
<1>. QED  BY <1>1, <1>2, <1>3

LEMMA RemoverStep ==
    ASSUME MembersInv, NEW r \in Removers,
           AskRemove(r) \/ RemoveMember(r)
    PROVE  MembersInv'
<1>t. /\ MembersTypeOK /\ r \in Procs /\ proc[r] \in MemberState /\ Off \in MemberState
  BY MemberType DEF MembersInv, Procs
<1>1. CASE AskRemove(r)
  <2>1. CASE Ends(r)
    BY <1>1, <1>t, <2>1, MemberEnds DEF AskRemove, MembersTypeOK, memberRows
  <2>2. CASE ~Ends(r)
    <3>1. PICK u \in Users :
            /\ MayRemove(u, members)
            /\ proc' = [proc EXCEPT ![r] = [Off EXCEPT !.stage = "remove", !.user = u,
                                                         !.seen = members]]
      BY <1>1, <2>2 DEF AskRemove
    <3>. DEFINE state == [Off EXCEPT !.stage = "remove", !.user = u, !.seen = members]
    <3>2. /\ state \in MemberState /\ state.stage = "remove" /\ state.user = u
          /\ state.seen = members
      BY <1>t DEF MemberState, MemberStages, MembersTypeOK
    <3>. QED
      BY <1>1, <1>t, <3>1, <3>2, MemberMoves DEF AskRemove, MembersTypeOK, memberRows
  <2>. QED  BY <2>1, <2>2
<1>2. CASE RemoveMember(r)
  <2>1. CASE Conflict(r)
    BY <2>1, <1>t, MemberConflict
  <2>2. CASE ~Conflict(r)
    <3>1. /\ Write(r, {}, {proc[r].user}) /\ Ends(r)
          /\ UNCHANGED <<remote, changes, stops>>
      BY <1>2, <2>2 DEF RemoveMember
    <3>2. /\ there' \in BOOLEAN /\ members' \in SUBSET Users
          /\ admins' \subseteq members' /\ creators' \subseteq members' /\ Overtakes(r)
      BY <1>t, <3>1, MemberWrites
    <3>. QED  BY <1>t, <3>1, <3>2, MemberEnds DEF MembersTypeOK
  <2>. QED  BY <2>1, <2>2
<1>. QED  BY <1>1, <1>2

LEMMA PassStep ==
    ASSUME MembersInv, NEW s \in Passes, Pass(s)
    PROVE  MembersInv'
<1>t. /\ MembersTypeOK /\ s \in Procs /\ proc[s] \in MemberState /\ Off \in MemberState
  BY MemberType DEF MembersInv, Procs
<1>1. CASE BeginPass(s)
  <2>. DEFINE state == [Off EXCEPT !.stage = "fetch", !.seen = members,
                                     !.got = [members |-> members, admins |-> admins]]
  <2>1. proc' = [proc EXCEPT ![s] = state]
    BY <1>1 DEF BeginPass
  <2>2. state \in MemberState /\ state.stage = "fetch" /\ state.seen = members
    BY <1>t DEF MemberState, MemberStages, MembersTypeOK
  <2>. QED  BY <1>1, <1>t, <2>1, <2>2, MemberMoves DEF BeginPass, MembersTypeOK, memberRows
<1>2. CASE Compare(s)
  <2>1. CASE Ends(s) /\ overtaken' = overtaken \ {s}
    BY <1>2, <1>t, <2>1, MemberEnds DEF Compare, MembersTypeOK, memberRows
  <2>2. CASE ~(Ends(s) /\ overtaken' = overtaken \ {s})
    <3>. DEFINE state == [proc[s] EXCEPT !.stage = "assign", !.got = remote]
    <3>1. /\ proc[s].stage = "fetch" /\ proc' = [proc EXCEPT ![s] = state]
          /\ UNCHANGED <<there, members, admins, creators, remote, overtaken, changes, stops>>
      BY <1>2, <1>t, <2>2 DEF Compare, At, MembersTypeOK, memberRows
    <3>2. /\ state \in MemberState /\ state.stage = "assign" /\ state.got = remote
          /\ state.seen = proc[s].seen /\ remote \in Team
      BY <1>t DEF MemberState, MemberStages, MembersTypeOK, Team
    <3>3. state.seen = members \/ s \in overtaken
      BY <3>1, <3>2 DEF MembersInv, SeenInv, Using
    <3>. QED  BY <1>t, <3>1, <3>2, <3>3, MemberMoves DEF MembersTypeOK
  <2>. QED  BY <2>1, <2>2
<1>3. CASE Assign(s)
  <2>1. CASE Conflict(s)
    BY <2>1, <1>t, MemberConflict
  <2>2. CASE ~Conflict(s)
    <3>. DEFINE state == [proc[s] EXCEPT !.stage = "roles"]
    <3>1. PICK loaded \in {proc[s].seen, members} :
            /\ Write(s, proc[s].got.members \ loaded, loaded \ proc[s].got.members)
            /\ Proceeds(s, "roles") /\ UNCHANGED <<remote, changes, stops>>
      BY <1>3, <2>2 DEF Assign
    <3>2. state \in MemberState /\ state.stage = "roles" /\ proc' = [proc EXCEPT ![s] = state]
      BY <1>t, <3>1 DEF MemberState, MemberStages, Proceeds, MembersTypeOK
    <3>3. proc[s].got.members \ loaded \in SUBSET Users
      BY <1>t DEF MemberState
    <3>4. /\ there' \in BOOLEAN /\ members' \in SUBSET Users
          /\ admins' \subseteq members' /\ creators' \subseteq members' /\ Overtakes(s)
      BY <1>t, <3>1, <3>3, MemberWrites
    <3>5. state.stage = "roles" /\ state.got \in Team
      BY <1>3, <1>t DEF Assign, At, MembersInv, AskedInv, MemberState
    <3>. QED  BY <1>t, <3>1, <3>2, <3>4, <3>5, MemberMoves DEF MembersTypeOK, Using
  <2>. QED  BY <2>1, <2>2
<1>4. CASE AssignRoles(s)
  <2>1. admins' \subseteq members
    BY <1>4, <1>t DEF AssignRoles, MembersTypeOK
  <2>. QED  BY <1>4, <1>t, <2>1, MemberEnds DEF AssignRoles, MembersTypeOK
<1>. QED  BY <1>1, <1>2, <1>3, <1>4 DEF Pass

LEMMA MembersStep ==
    ASSUME MembersInv, [MembersNext]_memberVars
    PROVE  MembersInv'
<1>t. MembersTypeOK /\ proc \in [Procs -> MemberState]
  BY MemberType DEF MembersInv
<1>1. ASSUME NEW p \in Procs, Stops(p) PROVE MembersInv'
  BY <1>1, <1>t, MemberEnds DEF Stops, MembersTypeOK, memberRows
<1>2. CASE DeleteProject
  <2>1. MembersTypeOK'
    BY <1>2, <1>t DEF DeleteProject, MembersTypeOK, Loaded
  <2>2. SeenInv' /\ AskedInv'
    BY <1>2 DEF DeleteProject, Loaded, Procs, MayRemove, SeenInv, AskedInv, Using,
                MembersInv
  <2>. QED  BY <2>1, <2>2 DEF MembersInv
<1>3. CASE ChangeTeam
  <2>1. MembersTypeOK'
    BY <1>3, <1>t DEF ChangeTeam, MembersTypeOK, memberRows
  <2>2. SeenInv' /\ AskedInv'
    BY <1>3 DEF ChangeTeam, memberRows, MayRemove, SeenInv, AskedInv, MembersInv
  <2>. QED  BY <2>1, <2>2 DEF MembersInv
<1>4. CASE UNCHANGED memberVars
  <2>1. MembersTypeOK'
    BY <1>4, <1>t DEF memberVars, MembersTypeOK
  <2>2. SeenInv' /\ AskedInv'
    BY <1>4 DEF memberVars, MayRemove, SeenInv, AskedInv, MembersInv
  <2>. QED  BY <2>1, <2>2 DEF MembersInv
<1>. QED
  BY <1>1, <1>2, <1>3, <1>4, MakerStep, AdderStep, RemoverStep, PassStep DEF MembersNext

LEMMA MembersAlways == MembersSpec => []MembersInv
<1>1. MembersInit => MembersInv
  <2>. SUFFICES ASSUME MembersInit PROVE MembersInv
    OBVIOUS
  <2>1. Creator \in Users /\ Maker \notin Removers \cup Passes
    BY MembersAssumption
  <2>2. proc \in [Procs -> MemberState]
    BY DEF MembersInit, Off, NoTeam, MemberState, MemberStages
  <2>3. \A p \in Procs : proc[p].stage \in {"off", "creator"}
    BY DEF MembersInit, Off
  <2>4. MembersTypeOK
    BY <2>1, <2>2 DEF MembersInit, MembersTypeOK, MemberState, MemberStages
  <2>. QED  BY <2>3, <2>4 DEF MembersInv, SeenInv, AskedInv, Using, Procs
<1>2. MembersInv /\ [MembersNext]_memberVars => MembersInv'
  BY MembersStep
<1>. QED  BY <1>1, <1>2, PTL DEF MembersSpec

(* The rows of the members, their flags and the local states stay of their *)
(* types; a flag is never set on a row that is not there.                  *)
THEOREM MembersTypeCorrect == MembersSpec => []MembersTypeOK
<1>1. MembersInv => MembersTypeOK
  BY DEF MembersInv
<1>. QED  BY <1>1, MembersAlways, PTL

(* The check of a request holds when it writes, unless it was overtaken.   *)
LEMMA RemovalSpares ==
    ASSUME MembersInv, NEW r \in Removers \ overtaken,
           RemoveMember(r)
    PROVE  /\ members # {} => members' # {}
           /\ members \cap LoggedIn # {} => members' \cap LoggedIn # {}
<1>1. /\ proc[r].seen = members /\ MayRemove(proc[r].user, members)
      /\ \/ members' = members
         \/ members' = members \ {proc[r].user}
  BY DEF RemoveMember, At, Write, Conflict, memberRows, MembersInv, SeenInv, AskedInv, Using
<1>. QED  BY <1>1 DEF MayRemove

(* So does what a pass makes of the members.                               *)
LEMMA PassSpares ==
    ASSUME MembersInv, NEW s \in Passes \ overtaken, Assign(s),
           members # {}
    PROVE  members' # {}
<1>1. proc[s].seen = members /\ proc[s].got \in Team
  BY DEF Assign, At, MembersInv, SeenInv, AskedInv, Using
<1>2. \/ members' = members
      \/ members' = (members \cup (proc[s].got.members \ members))
                        \ (members \ proc[s].got.members)
  BY <1>1 DEF Assign, Write, Conflict, memberRows
<1>3. PICK u : u \in proc[s].got.members
  BY <1>1 DEF Team
<1>. QED  BY <1>2, <1>3

(* A request or pass that others did not overtake never leaves the map     *)
(* without members, nor does such a request take its last observer         *)
(* (services/projects.py, removeUserFromProject; tasks/external_data.py).  *)
THEOREM MembersAlwaysStay == MembersSpec => MembersStay
<1>1. ASSUME MembersInv, [MembersNext]_memberVars
      PROVE  there' /\ members # {} =>
                 members' # {} \/ \E p \in overtaken : Acts(p)
  <2>t. proc \in [Procs -> MemberState]
    BY <1>1, MemberType DEF MembersInv
  <2>. SUFFICES ASSUME there', members # {}, members' = {}
                PROVE  \E p \in overtaken : Acts(p)
    OBVIOUS
  <2>1. PICK p \in Removers \cup Passes : \/ p \in Removers /\ RemoveMember(p)
                                          \/ p \in Passes /\ Assign(p)
    BY <1>1 DEF MembersNext, memberVars, MarkCreator, AskTeam, AssignTeam, AskAdd, AddMember,
                SetRole, AskRemove, Pass, BeginPass, Compare, AssignRoles, Stops,
                DeleteProject, ChangeTeam, Write, Conflict, memberRows
  <2>2. p \in overtaken
    BY <1>1, <2>1, RemovalSpares, PassSpares
  <2>3. p \in Procs /\ proc[p].stage \in {"remove", "assign"}
    BY <2>1 DEF RemoveMember, Assign, At, Procs
  <2>4. proc'[p].stage \in {"off", "done", "roles"}
    <3>1. CASE Ends(p)
      BY <2>t, <2>3, <3>1 DEF Ends, Off
    <3>2. CASE Proceeds(p, "roles")
      BY <2>t, <2>3, <3>2 DEF Proceeds, MemberState
    <3>. QED  BY <2>1, <3>1, <3>2 DEF RemoveMember, Assign, Conflict
  <2>5. Acts(p)
    BY <2>3, <2>4 DEF Acts
  <2>. QED  BY <2>2, <2>5
<1>2. ASSUME MembersInv, [MembersNext]_memberVars, NEW r \in Removers \ overtaken, Acts(r),
             members \cap LoggedIn # {}
      PROVE  members' \cap LoggedIn # {}
  <2>1. /\ Maker # r /\ r \notin Adders /\ r \notin Passes /\ r \in Procs
        /\ proc \in [Procs -> MemberState]
    BY <1>2, MemberType, MembersAssumption DEF MembersInv, Procs
  <2>2. CASE MarkCreator \/ AskTeam \/ AssignTeam
    <3>1. proc'[r] = proc[r]
      BY <2>1, <2>2 DEF MarkCreator, AskTeam, AssignTeam, Ends, Conflict
    <3>. QED  BY <1>2, <3>1 DEF Acts
  <2>3. ASSUME NEW a \in Adders, AskAdd(a) \/ AddMember(a) \/ SetRole(a)
        PROVE  members' \cap LoggedIn # {}
    <3>1. proc'[r] = proc[r]
      BY <2>1, <2>3 DEF AskAdd, AddMember, SetRole, Proceeds, Ends, Conflict
    <3>. QED  BY <1>2, <3>1 DEF Acts
  <2>4. ASSUME NEW s \in Passes, Pass(s)
        PROVE  members' \cap LoggedIn # {}
    <3>1. proc'[r] = proc[r]
      BY <2>1, <2>4 DEF Pass, BeginPass, Compare, Assign, AssignRoles, Proceeds, Ends,
                        Conflict
    <3>. QED  BY <1>2, <3>1 DEF Acts
  <2>5. ASSUME NEW q \in Removers, RemoveMember(q)
        PROVE  members' \cap LoggedIn # {}
    <3>1. CASE q = r
      BY <1>2, <2>5, <3>1, RemovalSpares
    <3>2. CASE q # r
      <4>1. proc'[r] = proc[r]
        BY <2>1, <2>5, <3>2 DEF RemoveMember, Ends, Conflict
      <4>. QED  BY <1>2, <4>1 DEF Acts
    <3>. QED  BY <3>1, <3>2
  <2>6. CASE DeleteProject
    BY <1>2, <2>6 DEF DeleteProject, Acts
  <2>7. CASE \/ \E q \in Removers : AskRemove(q)
             \/ \E p \in Procs : Stops(p)
             \/ ChangeTeam \/ UNCHANGED memberVars
    BY <1>2, <2>7 DEF AskRemove, Stops, ChangeTeam, memberVars, memberRows
  <2>. QED  BY <1>2, <2>2, <2>3, <2>4, <2>5, <2>6, <2>7 DEF MembersNext
<1>3. MembersInv /\ [MembersNext]_memberVars =>
          /\ there' /\ members # {} => members' # {} \/ \E p \in overtaken : Acts(p)
          /\ \A r \in Removers \ overtaken :
                 Acts(r) /\ members \cap LoggedIn # {} => members' \cap LoggedIn # {}
  BY <1>1, <1>2
<1>. QED
  BY <1>3, MembersAlways, PTL DEF MembersSpec, MembersStay, LastMemberStays, ObserverStays

(* Whoever created the map keeps the flag for as long as the row is there, *)
(* whatever requests and passes write meanwhile.                           *)
THEOREM CreatorAlwaysStays == MembersSpec => CreatorStays
<1>1. [MembersNext]_memberVars => creators \cap members' \subseteq creators'
  BY DEF MembersNext, memberVars, MarkCreator, AskTeam, AssignTeam, AskAdd, AddMember,
         SetRole, AskRemove, RemoveMember, Pass, BeginPass, Compare, Assign,
         AssignRoles, Stops, DeleteProject, ChangeTeam, Write, Conflict, memberRows
<1>. QED  BY <1>1, PTL DEF MembersSpec, CreatorStays

(* What a pass writes is what DesignSafe answered: if nobody changed the   *)
(* members while it was asking they become its users, and if nobody came   *)
(* or went before the second commit either, its admins are the admins      *)
(* (tasks/external_data.py, refresh_projects_watch_users).                 *)
THEOREM PassesBringTeam == MembersSpec => PassesSetTeam
<1>1. ASSUME MembersInv, [MembersNext]_memberVars, NEW s \in Passes, Acts(s), stops' = stops,
             there
      PROVE  /\ At(s, "assign") /\ s \notin overtaken =>
                    members' = proc[s].got.members /\ At(s, "roles")'
             /\ At(s, "roles") /\ members = proc[s].got.members =>
                    members' = members /\ admins' = proc[s].got.admins
  <2>1. /\ Maker # s /\ s \notin Adders /\ s \notin Removers /\ s \in Procs
        /\ proc \in [Procs -> MemberState] /\ MembersTypeOK
    BY <1>1, MemberType, MembersAssumption DEF MembersInv, Procs
  <2>2. Pass(s)
    <3>2. CASE MarkCreator \/ AskTeam \/ AssignTeam
      BY <1>1, <2>1, <3>2 DEF MarkCreator, AskTeam, AssignTeam, Ends, Conflict, Acts
    <3>3. CASE \E a \in Adders : AskAdd(a) \/ AddMember(a) \/ SetRole(a)
      BY <1>1, <2>1, <3>3 DEF AskAdd, AddMember, SetRole, Proceeds, Ends, Conflict, Acts
    <3>4. CASE \E r \in Removers : AskRemove(r) \/ RemoveMember(r)
      BY <1>1, <2>1, <3>4 DEF AskRemove, RemoveMember, Ends, Conflict, Acts
    <3>5. CASE \E q \in Passes : Pass(q)
      <4>1. PICK q \in Passes : Pass(q)
        BY <3>5
      <4>2. q # s => proc'[s] = proc[s]
        BY <2>1, <4>1 DEF Pass, BeginPass, Compare, Assign, AssignRoles, Proceeds, Ends,
                          Conflict
      <4>. QED  BY <1>1, <4>1, <4>2 DEF Acts
    <3>6. CASE \E p \in Procs : Stops(p)
      BY <1>1, <2>1, <3>6 DEF Stops, MembersTypeOK
    <3>7. CASE DeleteProject \/ ChangeTeam \/ UNCHANGED memberVars
      BY <1>1, <3>7 DEF DeleteProject, ChangeTeam, memberVars, Acts
    <3>. QED  BY <1>1, <3>2, <3>3, <3>4, <3>5, <3>6, <3>7 DEF MembersNext
  <2>3. ASSUME At(s, "assign"), s \notin overtaken
        PROVE  members' = proc[s].got.members /\ At(s, "roles")'
    <3>1. Assign(s) /\ proc[s].seen = members
      BY <1>1, <2>2, <2>3 DEF Pass, BeginPass, Compare, AssignRoles, At, MembersInv, SeenInv,
                              Using
    <3>2. /\ Write(s, proc[s].got.members \ members, members \ proc[s].got.members)
          /\ Proceeds(s, "roles")
      BY <1>1, <3>1 DEF Assign, Possible
    <3>3. members' = proc[s].got.members
      BY <3>2 DEF Write
    <3>. QED  BY <2>1, <3>2, <3>3 DEF Proceeds, At, MemberState
  <2>4. ASSUME At(s, "roles"), members = proc[s].got.members
        PROVE  members' = members /\ admins' = proc[s].got.admins
    <3>1. AssignRoles(s) /\ proc[s].got \in Team
      BY <1>1, <2>2, <2>4 DEF Pass, BeginPass, Compare, Assign, At, MembersInv, AskedInv
    <3>. QED  BY <2>4, <3>1 DEF AssignRoles, Team
  <2>. QED  BY <2>3, <2>4
<1>2. MembersInv /\ [MembersNext]_memberVars =>
          \A s \in Passes :
              Acts(s) /\ stops' = stops /\ there =>
                  /\ At(s, "assign") /\ s \notin overtaken =>
                         members' = proc[s].got.members /\ At(s, "roles")'
                  /\ At(s, "roles") /\ members = proc[s].got.members =>
                         members' = members /\ admins' = proc[s].got.admins
  BY <1>1
<1>. QED  BY <1>2, MembersAlways, PTL DEF MembersSpec, PassesSetTeam
=============================================================================
