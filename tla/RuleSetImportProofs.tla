------------------------ MODULE RuleSetImportProofs -------------------------
(***************************************************************************)
(* RuleSetImport for any admins, names, library, requests and bounds: what *)
(* is stored as a definition, what an import never touches, what the lists *)
(* of names hold, and that the rules refer to nothing twice and to what is *)
(* defined.  Listing's lemmas stand here and in ProfileOutputProofs.       *)
(***************************************************************************)
EXTENDS RuleSetImport, FiniteSetTheorems, FunctionTheorems, TLAPS

\* R is a strict total order of K.
Orders(R, K) ==
    /\ \A i, j \in K : <<i, j>> \in R => <<j, i>> \notin R
    /\ \A i, j \in K : i # j => <<i, j>> \in R \/ <<j, i>> \in R
    /\ \A i, j, k \in K : <<i, j>> \in R /\ <<j, k>> \in R => <<i, k>> \in R

\* How many of K come before i, with i.
PlaceIn(R, K, i) == Cardinality({j \in K : j = i \/ <<j, i>> \in R})

\* f enumerates K in the order R.
Enumerates(f, R, K) ==
    /\ f \in [1 .. Cardinality(K) -> K]
    /\ \A i \in K : \E k \in 1 .. Cardinality(K) : f[k] = i
    /\ \A i, j \in 1 .. Cardinality(K) : i < j => <<f[i], f[j]>> \in R
    /\ \A i, j \in 1 .. Cardinality(K) : f[i] = f[j] => i = j

\* These places number the members of K from 1 on.
LEMMA Ranks ==
    ASSUME NEW K, IsFiniteSet(K), NEW R, Orders(R, K)
    PROVE  /\ \A i \in K : PlaceIn(R, K, i) \in 1 .. Cardinality(K)
           /\ \A k \in 1 .. Cardinality(K) : \E i \in K : PlaceIn(R, K, i) = k
           /\ \A i, j \in K : <<i, j>> \in R => PlaceIn(R, K, i) < PlaceIn(R, K, j)
           /\ \A i, j \in K : PlaceIn(R, K, i) = PlaceIn(R, K, j) => i = j
<1> DEFINE n == Cardinality(K)
           Down(i) == {j \in K : j = i \/ <<j, i>> \in R}
           Place == [i \in K |-> PlaceIn(R, K, i)]
<1>0. n \in Nat BY FS_CardinalityType
<1>1. ASSUME NEW i \in K PROVE IsFiniteSet(Down(i)) /\ Place[i] \in 1 .. n
  <2>1. Down(i) \in SUBSET K /\ i \in Down(i) /\ Place[i] = Cardinality(Down(i))
    BY DEF PlaceIn
  <2>2. IsFiniteSet(Down(i)) /\ Cardinality(Down(i)) <= n BY <2>1, FS_Subset
  <2>3. Cardinality(Down(i)) \in Nat BY <2>2, FS_CardinalityType
  <2>4. Cardinality(Down(i)) # 0 BY <2>1, <2>2, FS_EmptySet
  <2> HIDE DEF Down, Place, n
  <2> QED BY <1>0, <2>1, <2>2, <2>3, <2>4
<1>2. ASSUME NEW i \in K, NEW j \in K, <<i, j>> \in R PROVE Place[i] < Place[j]
  <2>1. Down(i) \in SUBSET Down(j) /\ j \in Down(j) /\ j \notin Down(i)
    BY <1>2 DEF Orders
  <2>2. Place[i] = Cardinality(Down(i)) /\ Place[j] = Cardinality(Down(j))
    BY DEF PlaceIn
  <2> HIDE DEF Down, Place
  <2>3. Cardinality(Down(i)) <= Cardinality(Down(j)) /\ Cardinality(Down(j)) # Cardinality(Down(i))
    BY <1>1, <2>1, FS_Subset
  <2>4. Cardinality(Down(i)) \in Nat /\ Cardinality(Down(j)) \in Nat
    BY <1>1, FS_CardinalityType
  <2> QED BY <2>2, <2>3, <2>4
<1> HIDE DEF Down
<1>3. \A i, j \in K : Place[i] = Place[j] => i = j
  <2> SUFFICES ASSUME NEW i \in K, NEW j \in K, Place[i] = Place[j], i # j PROVE FALSE
    OBVIOUS
  <2>1. Place[i] < Place[j] \/ Place[j] < Place[i] BY <1>2 DEF Orders
  <2>2. Place[i] \in Nat /\ Place[j] \in Nat BY <1>0, <1>1
  <2> HIDE DEF Place
  <2> QED BY <2>1, <2>2
<1>4. \A k \in 1 .. n : \E i \in K : Place[i] = k
  <2>1. Place \in Injection(K, 1 .. n)
    <3>1. Place \in [K -> 1 .. n] BY <1>1
    <3> HIDE DEF Place
    <3> QED BY <1>3, <3>1, Fun_IsInj
  <2>2. IsFiniteSet(1 .. n) /\ Cardinality(1 .. n) = n BY <1>0, FS_Interval
  <2>3. Place \in Surjection(K, 1 .. n)
    <3> HIDE DEF Place
    <3> QED BY <2>1, <2>2, FS_Injection
  <2> HIDE DEF Place, n
  <2> QED BY <2>3 DEF Surjection
<1>5. \A i \in K : Place[i] = PlaceIn(R, K, i) OBVIOUS
<1> HIDE DEF Place
<1> QED BY <1>1, <1>2, <1>3, <1>4, <1>5

\* So they list K.
LEMMA Arranged ==
    ASSUME NEW K, IsFiniteSet(K), NEW R, Orders(R, K),
           NEW f, f = [k \in 1 .. Cardinality(K) |-> f[k]],
           \A k \in 1 .. Cardinality(K) : f[k] \in K /\ PlaceIn(R, K, f[k]) = k
    PROVE  Enumerates(f, R, K)
<1> DEFINE n == Cardinality(K)
<1>0. n \in Nat BY FS_CardinalityType
<1>1. /\ \A i \in K : PlaceIn(R, K, i) \in 1 .. n
      /\ \A i, j \in K : <<i, j>> \in R => PlaceIn(R, K, i) < PlaceIn(R, K, j)
      /\ \A i, j \in K : PlaceIn(R, K, i) = PlaceIn(R, K, j) => i = j
  BY Ranks
<1>2. \A k \in 1 .. n : f[k] \in K /\ PlaceIn(R, K, f[k]) = k OBVIOUS
<1>3. f \in [1 .. n -> K] OBVIOUS
<1> HIDE DEF n
<1>4. \A i \in K : \E k \in 1 .. n : f[k] = i BY <1>1, <1>2
<1>5. \A i, j \in 1 .. n : f[i] = f[j] => i = j BY <1>2
<1>6. \A i, j \in 1 .. n : i < j => <<f[i], f[j]>> \in R
  <2> SUFFICES ASSUME NEW i \in 1 .. n, NEW j \in 1 .. n, i < j, <<f[i], f[j]>> \notin R
               PROVE  FALSE
    OBVIOUS
  <2>1. i \in Nat /\ j \in Nat BY <1>0
  <2>2. f[i] \in K /\ f[j] \in K /\ f[i] # f[j] BY <1>2, <2>1
  <2>3. <<f[j], f[i]>> \in R BY <2>2 DEF Orders
  <2>4. PlaceIn(R, K, f[j]) < PlaceIn(R, K, f[i]) BY <1>1, <2>2, <2>3
  <2> QED BY <1>2, <2>1, <2>4
<1> QED BY <1>3, <1>4, <1>5, <1>6 DEF n, Enumerates

\* A filter keeps the places K of a sequence, in their order.
LEMMA Kept ==
    ASSUME NEW T, NEW s \in Seq(T), NEW K \in SUBSET DOMAIN s
    PROVE  /\ IsFiniteSet(K) /\ Cardinality(K) \in Nat
           /\ \E f \in [1 .. Cardinality(K) -> K] :
                 /\ Pick(s, K) = [k \in 1 .. Cardinality(K) |-> s[f[k]]]
                 /\ \A i \in K : \E k \in 1 .. Cardinality(K) : f[k] = i
                 /\ \A i, j \in 1 .. Cardinality(K) : i < j => f[i] < f[j]
                 /\ \A i, j \in 1 .. Cardinality(K) : f[i] = f[j] => i = j
<1> DEFINE R == {p \in K \X K : p[1] < p[2]}
           n == Cardinality(K)
           Down(i) == {j \in K : j = i \/ j < i}
           f == [k \in 1 .. n |-> CHOOSE i \in K : Cardinality(Down(i)) = k]
<1>1. IsFiniteSet(K) /\ K \subseteq Nat
  <2>1. DOMAIN s = 1 .. Len(s) /\ Len(s) \in Nat OBVIOUS
  <2>2. IsFiniteSet(1 .. Len(s)) BY <2>1, FS_Interval
  <2> QED BY <2>1, <2>2, FS_Subset
<1>2. n \in Nat BY <1>1, FS_CardinalityType
<1>3. Orders(R, K) BY <1>1 DEF Orders
<1>4. \A i \in K : Cardinality(Down(i)) = PlaceIn(R, K, i)
  <2> SUFFICES ASSUME NEW i \in K PROVE Down(i) = {j \in K : j = i \/ <<j, i>> \in R}
    BY DEF PlaceIn
  <2> QED OBVIOUS
<1>5. \A i, j \in K : <<i, j>> \in R <=> i < j OBVIOUS
<1>6. Pick(s, K) = [k \in 1 .. n |-> s[f[k]]] BY DEF Pick, Arrange
<1> HIDE DEF R, Down
<1>7. \A k \in 1 .. n : f[k] \in K /\ PlaceIn(R, K, f[k]) = k
  <2>1. \A k \in 1 .. n : \E i \in K : Cardinality(Down(i)) = k BY <1>1, <1>3, <1>4, Ranks
  <2> QED BY <1>4, <2>1
<1>8. f = [k \in 1 .. n |-> f[k]] OBVIOUS
<1> HIDE DEF f
<1>9. Enumerates(f, R, K) BY <1>1, <1>3, <1>7, <1>8, Arranged
<1> HIDE DEF n
<1>10. /\ f \in [1 .. n -> K]
       /\ \A i \in K : \E k \in 1 .. n : f[k] = i
       /\ \A i, j \in 1 .. n : i < j => f[i] < f[j]
       /\ \A i, j \in 1 .. n : f[i] = f[j] => i = j
  BY <1>5, <1>9 DEF Enumerates, n
<1> QED BY <1>1, <1>2, <1>6, <1>10 DEF n

\* What it holds, and that it repeats nothing unless these places do.
LEMMA Picked ==
    ASSUME NEW S, NEW T, NEW s \in Seq(T), NEW K \in SUBSET DOMAIN s,
           \A i \in K : s[i] \in S
    PROVE  /\ Pick(s, K) \in Seq(S)
           /\ ToSet(Pick(s, K)) = {s[i] : i \in K}
           /\ (\A i, j \in K : s[i] = s[j] => i = j) => IsInjective(Pick(s, K))
<1> DEFINE n == Cardinality(K)
<1>1. n \in Nat BY Kept
<1>2. PICK f \in [1 .. n -> K] :
         /\ Pick(s, K) = [k \in 1 .. n |-> s[f[k]]]
         /\ \A i \in K : \E k \in 1 .. n : f[k] = i
         /\ \A i, j \in 1 .. n : f[i] = f[j] => i = j
  BY Kept
<1> HIDE DEF n
<1>3. Pick(s, K) \in Seq(S) BY <1>1, <1>2
<1>4. /\ DOMAIN Pick(s, K) = 1 .. n
      /\ \A k \in 1 .. n : Pick(s, K)[k] = s[f[k]]
  BY <1>2
<1>5. ToSet(Pick(s, K)) = {s[i] : i \in K} BY <1>2, <1>4 DEF ToSet
<1>6. (\A i, j \in K : s[i] = s[j] => i = j) => IsInjective(Pick(s, K))
  BY <1>2, <1>4 DEF IsInjective
<1> QED BY <1>3, <1>5, <1>6

\* normalize_names returns each name of the request once.
LEMMA NormalizedNames ==
    ASSUME NEW r \in Seq(Names \cup {BLANK})
    PROVE  NormalizeNames(r) \in Seq(Names) /\ IsInjective(NormalizeNames(r))
<1> DEFINE K == {i \in DOMAIN r : r[i] # BLANK /\ \A j \in 1 .. i - 1 : r[j] # r[i]}
<1>1. DOMAIN r = 1 .. Len(r) /\ Len(r) \in Nat OBVIOUS
<1>2. K \in SUBSET DOMAIN r /\ \A i \in K : r[i] \in Names OBVIOUS
<1>3. \A i, j \in K : r[i] = r[j] => i = j
  <2> SUFFICES ASSUME NEW i \in K, NEW j \in K, r[i] = r[j], i # j PROVE FALSE
    OBVIOUS
  <2>1. i \in 1 .. j - 1 \/ j \in 1 .. i - 1 BY <1>1
  <2> QED BY <2>1
<1> HIDE DEF K
<1> QED BY <1>2, <1>3, Picked DEF NormalizeNames, K

\* The names an import adds are those of its own that the text lacks.
LEMMA MissingNames ==
    ASSUME NEW asks \in Seq(Names), NEW t
    PROVE  /\ Missing(asks, t) \in Seq(Names)
           /\ ToSet(Missing(asks, t)) = ToSet(asks) \ ToSet(t)
           /\ IsInjective(asks) => IsInjective(Missing(asks, t))
<1> DEFINE K == {i \in DOMAIN asks : asks[i] \notin ToSet(t)}
<1>1. K \in SUBSET DOMAIN asks /\ \A i \in K : asks[i] \in Names OBVIOUS
<1>2. {asks[i] : i \in K} = ToSet(asks) \ ToSet(t) BY DEF ToSet
<1>3. IsInjective(asks) => \A i, j \in K : asks[i] = asks[j] => i = j BY DEF IsInjective
<1> HIDE DEF K
<1> QED BY <1>1, <1>2, <1>3, Picked DEF Missing, K

-----------------------------------------------------------------------------
USE RequestsAssumption, ImportNullAssumption

Lbl == {"idle", "checking", "copying", "inserting", "writing",
        "lib_updating"}

\* The definitions, wherever they are, and what an update has read.
Stored ==
    /\ lib \in [LibIds -> LibRow \cup {NULL}]
    /\ own \in [Names -> Def \cup {NULL}]
    /\ found \in [Admins -> Def \cup {NULL}]
    /\ edit \in [Admins -> Edit \cup {NULL}]
    /\ pc \in [Admins -> Lbl]
    /\ \A a \in Admins : /\ pc[a] = "lib_updating" => edit[a] # NULL
                         /\ pc[a] = "inserting" => found[a] # NULL

LEMMA DefsAreWhole ==
    \A d \in Def : /\ d.url \in Urls \cup {NULL}
                   /\ d.source = "remote" => d.url # NULL
  BY DEF Def, Manual, Remote

\* What normalize lets through is a definition.
LEMMA Normalized ==
    ASSUME NEW b \in Body, NEW u \in Urls \cup {NULL}, Accepts(b, u)
    PROVE  Normalize(b, u) \in Def
<1>1. CASE b.source = "manual" BY <1>1 DEF Normalize, Def
<1>2. CASE b.source # "manual"
  <2>1. b.url \in Urls \cup {BLANK} /\ (b.url # BLANK \/ u # NULL)
    BY <1>2 DEF Body, Accepts
  <2> QED BY <1>2, <2>1 DEF Normalize, Def
<1> QED BY <1>1, <1>2

LEMMA InitStored == Init => Stored
  BY DEF Init, Stored, Lbl

LEMMA Left ==
    ASSUME Stored, NEW a \in Admins, Leave(a)
    PROVE  /\ found' \in [Admins -> Def \cup {NULL}]
           /\ edit' \in [Admins -> Edit \cup {NULL}]
           /\ pc' \in [Admins -> Lbl]
           /\ \A b \in Admins : /\ pc'[b] = "lib_updating" => edit'[b] # NULL
                                /\ pc'[b] = "inserting" => found'[b] # NULL
  BY DEF Leave, Goto, Stored, Lbl

\* The steps of an import.
LEMMA ImportStored ==
    ASSUME Stored, NEW a \in Admins, Import(a) \/ ImportStep(a) \/ Abort(a)
    PROVE  Stored'
<1>1. CASE Import(a) BY <1>1 DEF Import, Goto, Stored, Lbl, tables
<1>2. CASE CheckOwn(a) BY <1>2 DEF CheckOwn, Goto, Stored, Lbl, tables
<1>3. CASE ReadLibrary(a)
  <2>1. \A i \in Holders(Head(todo[a])) : lib[i].def \in Def /\ lib[i].def # NULL
    BY DEF Holders, Stored, LibRow
  <2>2. CASE Holders(Head(todo[a])) = {}
    BY <1>3, <2>2 DEF ReadLibrary, Goto, Stored, Lbl, tables
  <2>3. CASE Holders(Head(todo[a])) # {}
    <3>1. PICK d \in Def : d # NULL /\ found' = [found EXCEPT ![a] = d]
      BY <1>3, <2>1, <2>3 DEF ReadLibrary
    <3> QED BY <1>3, <2>3, <3>1 DEF ReadLibrary, Goto, Stored, Lbl, tables
  <2> QED BY <2>2, <2>3
<1>4. CASE Insert(a)
  <2>1. CASE own[Head(todo[a])] = NULL
    <3>1. own' \in [Names -> Def \cup {NULL}] BY <1>4, <2>1 DEF Insert, Stored
    <3> QED BY <1>4, <2>1, <3>1 DEF Insert, Goto, Stored, Lbl
  <2>2. CASE own[Head(todo[a])] # NULL BY <1>4, <2>2, Left DEF Insert, Stored
  <2> QED BY <2>1, <2>2
<1>5. CASE ReadRules(a)
  <2>1. CASE Missing(names[a], rules) = <<>>
    BY <1>5, <2>1, Left DEF ReadRules, Stored, tables
  <2>2. CASE Missing(names[a], rules) # <<>>
    BY <1>5, <2>2 DEF ReadRules, Goto, Stored, Lbl, tables
  <2> QED BY <2>1, <2>2
<1>6. CASE WriteRules(a) \/ Abort(a)
  BY <1>6, Left DEF WriteRules, Abort, Stored, tables
<1> QED BY <1>1, <1>2, <1>3, <1>4, <1>5, <1>6 DEF ImportStep

\* The other calls.
LEMMA CallStored ==
    ASSUME Stored, NEW a \in Admins,
           \/ PutRules(a) \/ OwnCreate(a) \/ OwnUpdate(a) \/ OwnDelete(a)
           \/ LibCreate(a) \/ LibUpdate(a) \/ LibUpdateWrite(a) \/ LibDelete(a)
    PROVE  Stored'
<1>1. CASE PutRules(a) BY <1>1 DEF PutRules, Stored, locals
<1>2. CASE OwnCreate(a)
  <2>1. own' \in [Names -> Def \cup {NULL}] BY <1>2, Normalized DEF OwnCreate, Stored
  <2> QED BY <1>2, <2>1 DEF OwnCreate, Stored, locals
<1>3. CASE OwnUpdate(a)
  <2>1. PICK n \in Names, m \in Names, b \in Body :
          /\ own[n] # NULL /\ Accepts(b, own[n].url)
          /\ own' = [own EXCEPT ![n] = NULL, ![m] = Normalize(b, own[n].url)]
    BY <1>3 DEF OwnUpdate
  <2>2. own[n].url \in Urls \cup {NULL} BY <2>1, DefsAreWhole DEF Stored
  <2>3. Normalize(b, own[n].url) \in Def BY <2>1, <2>2, Normalized
  <2>4. own' \in [Names -> Def \cup {NULL}] BY <2>1, <2>3 DEF Stored
  <2> QED BY <1>3, <2>4 DEF OwnUpdate, Stored, locals
<1>4. CASE OwnDelete(a) BY <1>4 DEF OwnDelete, Stored, locals
<1>5. CASE LibCreate(a)
  <2>1. lib' \in [LibIds -> LibRow \cup {NULL}]
    BY <1>5, Normalized DEF LibCreate, Stored, LibRow
  <2> QED BY <1>5, <2>1 DEF LibCreate, Stored, locals
<1>6. CASE LibUpdate(a)
  <2>1. PICK i \in LibIds :
           lib[i] # NULL /\ edit' = [edit EXCEPT ![a] = [id |-> i, url |-> lib[i].def.url]]
    BY <1>6 DEF LibUpdate
  <2>2. lib[i].def.url \in Urls \cup {NULL}
    BY <2>1, DefsAreWhole DEF Stored, LibRow
  <2>3. [id |-> i, url |-> lib[i].def.url] \in Edit BY <2>2 DEF Edit
  <2>4. [id |-> i, url |-> lib[i].def.url] # NULL BY <2>3
  <2> QED BY <1>6, <2>1, <2>3, <2>4 DEF LibUpdate, Goto, Stored, Lbl, tables
<1>7. CASE LibUpdateWrite(a)
  <2>1. edit[a] \in Edit BY <1>7 DEF LibUpdateWrite, Stored
  <2>2. edit[a].url \in Urls \cup {NULL} BY <2>1 DEF Edit
  <2>3. lib' \in [LibIds -> LibRow \cup {NULL}]
    <3>1. \A b \in Body, n \in Names :
             Accepts(b, edit[a].url) =>
                [name |-> n, def |-> Normalize(b, edit[a].url)] \in LibRow
      BY <2>2, Normalized DEF LibRow
    <3>2. \/ lib' = lib
          \/ \E n \in Names, b \in Body :
                /\ Accepts(b, edit[a].url)
                /\ lib' = [lib EXCEPT ![edit[a].id] =
                              [name |-> n, def |-> Normalize(b, edit[a].url)]]
      BY <1>7 DEF LibUpdateWrite
    <3>3. CASE lib' = lib BY <3>3 DEF Stored
    <3>4. ASSUME NEW n \in Names, NEW b \in Body, Accepts(b, edit[a].url),
                 lib' = [lib EXCEPT ![edit[a].id] =
                            [name |-> n, def |-> Normalize(b, edit[a].url)]]
          PROVE  lib' \in [LibIds -> LibRow \cup {NULL}]
      BY <3>1, <3>4 DEF Stored
    <3> QED BY <3>2, <3>3, <3>4
  <2> QED BY <1>7, <2>3, Left DEF LibUpdateWrite, Stored
<1>8. CASE LibDelete(a) BY <1>8 DEF LibDelete, Stored, locals
<1> QED BY <1>1, <1>2, <1>3, <1>4, <1>5, <1>6, <1>7, <1>8

LEMMA NextStored == Stored /\ [Next]_vars => Stored'
<1>1. Stored /\ UNCHANGED vars => Stored' BY DEF Stored, vars, tables, locals
<1> QED BY <1>1, ImportStored, CallStored DEF Next

LEMMA StoredHolds == Spec => []Stored
<1>1. Init => Stored BY InitStored
<1>2. Stored /\ [Next]_vars => Stored' BY NextStored
<1> QED BY <1>1, <1>2, PTL DEF Spec

-----------------------------------------------------------------------------
\* No remote definition is ever without a URL, in the library, in the profile
\* or in the hands of an import: normalize keeps it so although the URL that
\* an update keeps was read before the row it is written to changed.
THEOREM RemoteHasUrlHolds == Spec => []RemoteHasUrl
<1>1. Stored => RemoteHasUrl
  <2> SUFFICES ASSUME Stored,
                      NEW d \in {own[n] : n \in Names} \cup {found[a] : a \in Admins}
                                \cup {lib[i].def : i \in {j \in LibIds : lib[j] # NULL}},
                      d # NULL, d.source = "remote"
               PROVE  d.url # NULL
    BY DEF RemoteHasUrl
  <2>1. d \in Def BY DEF Stored, LibRow
  <2> QED BY <2>1, DefsAreWhole
<1> QED BY <1>1, StoredHolds, PTL

\* The step that an import takes leaves every definition of the profile that
\* exists as it is.
LEMMA StepKeepsOwn ==
    ASSUME Stored, [Next]_vars, NEW a \in Admins,
           pc[a] \in {"checking", "copying", "inserting"}, pc'[a] # pc[a],
           NEW n \in Names, own[n] # NULL
    PROVE  own'[n] = own[n]
<1>t. pc \in [Admins -> Lbl] /\ own \in [Names -> Def \cup {NULL}] BY DEF Stored
<1>1. ASSUME NEW b \in Admins, Insert(b) PROVE own'[n] = own[n]
  BY <1>1, <1>t DEF Insert
<1>2. ASSUME NEW b \in Admins, OwnCreate(b) \/ OwnUpdate(b) \/ OwnDelete(b) PROVE FALSE
  BY <1>2, <1>t DEF OwnCreate, OwnUpdate, OwnDelete
<1>3. \/ own' = own
      \/ \E b \in Admins : Insert(b) \/ OwnCreate(b) \/ OwnUpdate(b) \/ OwnDelete(b)
  BY DEF Next, ImportStep, Import, CheckOwn, ReadLibrary, ReadRules, WriteRules, PutRules,
     LibCreate, LibUpdate, LibUpdateWrite, LibDelete, Abort, vars, tables
<1> QED BY <1>1, <1>2, <1>3

\* An import never replaces a definition of the profile, also not one that
\* was created between its check and its insert.
THEOREM OwnKeptHolds == Spec => OwnKept
<1>1. Stored /\ [Next]_vars =>
         [\A a \in Admins : pc[a] \in {"checking", "copying", "inserting"} /\ pc'[a] # pc[a]
            => \A n \in Names : own[n] # NULL => own'[n] = own[n]]_vars
  BY StepKeepsOwn
<1> QED BY <1>1, StoredHolds, PTL DEF Spec, OwnKept
-----------------------------------------------------------------------------
\* The lists of names: an import holds each name once, it has one in hand
\* while it copies, and none left when it comes to the rules.
Lists ==
    /\ rules \in Seq(Names)
    /\ names \in [Admins -> Seq(Names)] /\ todo \in [Admins -> Seq(Names)]
    /\ text \in [Admins -> Seq(Names)]
    /\ asked \in SUBSET Names /\ excused \in SUBSET Names
    /\ \A a \in Admins :
          /\ IsInjective(names[a])
          /\ pc[a] \in {"copying", "inserting"} => todo[a] # <<>>
          /\ pc[a] = "writing" => todo[a] = <<>>

LEMMA Empty == <<>> \in Seq(Names) /\ IsInjective(<<>>) /\ ToSet(<<>>) = {}
  BY DEF IsInjective, ToSet

LEMMA SetOfNames == \A s \in Seq(Names) : ToSet(s) \in SUBSET Names
  BY DEF ToSet

\* A name of a list that is not in its tail is its head.
LEMMA HeadAndTail ==
    ASSUME NEW s \in Seq(Names), s # <<>>
    PROVE  /\ Head(s) \in Names /\ Tail(s) \in Seq(Names)
           /\ ToSet(s) \subseteq ToSet(Tail(s)) \cup {Head(s)}
<1>1. Head(s) \in Names /\ Tail(s) \in Seq(Names) OBVIOUS
<1>2. ASSUME NEW i \in DOMAIN s PROVE s[i] \in ToSet(Tail(s)) \cup {Head(s)}
  <2>1. CASE i = 1 BY <2>1
  <2>2. CASE i # 1
    <3>1. i - 1 \in DOMAIN Tail(s) /\ Tail(s)[i - 1] = s[i] BY <2>2
    <3> QED BY <3>1 DEF ToSet
  <2> QED BY <2>1, <2>2
<1> QED BY <1>1, <1>2 DEF ToSet

LEMMA InitLists == Init => Lists
  BY Empty DEF Init, Lists

LEMMA LeftLists ==
    ASSUME Stored, Lists, NEW a \in Admins, Leave(a)
    PROVE  /\ names' \in [Admins -> Seq(Names)] /\ todo' \in [Admins -> Seq(Names)]
           /\ text' \in [Admins -> Seq(Names)]
           /\ \A b \in Admins :
                 /\ IsInjective(names'[b])
                 /\ pc'[b] \in {"copying", "inserting"} => todo'[b] # <<>>
                 /\ pc'[b] = "writing" => todo'[b] = <<>>
  BY Empty DEF Leave, Goto, Stored, Lists

LEMMA NextLists == Stored /\ Lists /\ [Next]_vars => Lists'
<1> SUFFICES ASSUME Stored, Lists, [Next]_vars PROVE Lists'
  OBVIOUS
<1>t. pc \in [Admins -> Lbl] BY DEF Stored
<1>1. ASSUME NEW a \in Admins, Import(a) PROVE Lists'
  <2>1. PICK r \in Requests :
           /\ names' = [names EXCEPT ![a] = NormalizeNames(r)]
           /\ todo' = [todo EXCEPT ![a] = NormalizeNames(r)]
    BY <1>1 DEF Import
  <2>2. NormalizeNames(r) \in Seq(Names) /\ IsInjective(NormalizeNames(r))
    BY NormalizedNames
  <2> QED BY <1>1, <1>t, <2>1, <2>2 DEF Import, Goto, Lists, tables, history
<1>2. ASSUME NEW a \in Admins, CheckOwn(a) PROVE Lists'
  <2>1. todo[a] \in Seq(Names) /\ todo[a] # <<>> BY <1>2 DEF CheckOwn, Lists
  <2>2. Tail(todo[a]) \in Seq(Names) BY <2>1, HeadAndTail
  <2> QED BY <1>2, <1>t, <2>1, <2>2 DEF CheckOwn, NextName, Goto, Lists, tables, history
<1>3. ASSUME NEW a \in Admins, ReadLibrary(a) PROVE Lists'
  <2>1. todo[a] \in Seq(Names) /\ todo[a] # <<>> BY <1>3 DEF ReadLibrary, Lists
  <2>2. Head(todo[a]) \in Names /\ Tail(todo[a]) \in Seq(Names) BY <2>1, HeadAndTail
  <2> QED BY <1>3, <1>t, <2>1, <2>2 DEF ReadLibrary, NextName, Goto, Lists, tables
<1>4. ASSUME NEW a \in Admins, Insert(a) PROVE Lists'
  <2>1. CASE own[Head(todo[a])] = NULL
    <3>1. todo[a] \in Seq(Names) /\ todo[a] # <<>> BY <1>4 DEF Insert, Lists
    <3>2. Tail(todo[a]) \in Seq(Names) BY <3>1, HeadAndTail
    <3> QED BY <1>4, <1>t, <2>1, <3>2 DEF Insert, NextName, Goto, Lists, history
  <2>2. CASE own[Head(todo[a])] # NULL
    BY <1>4, <2>2, LeftLists DEF Insert, Lists, history
  <2> QED BY <2>1, <2>2
<1>5. ASSUME NEW a \in Admins, ReadRules(a) PROVE Lists'
  <2>1. CASE Missing(names[a], rules) = <<>>
    BY <1>5, <2>1, LeftLists, SetOfNames DEF ReadRules, Lists, tables
  <2>2. CASE Missing(names[a], rules) # <<>>
    BY <1>5, <1>t, <2>2 DEF ReadRules, Goto, Lists, tables
  <2> QED BY <2>1, <2>2
<1>6. ASSUME NEW a \in Admins, WriteRules(a) PROVE Lists'
  <2>1. Missing(names[a], text[a]) \in Seq(Names) BY MissingNames DEF Lists
  <2>2. rules' \in Seq(Names) BY <1>6, <2>1 DEF WriteRules, Lists
  <2>3. asked' \in SUBSET Names BY <1>6, SetOfNames DEF WriteRules, Lists
  <2> QED BY <1>6, <2>2, <2>3, LeftLists DEF WriteRules, Lists
<1>7. ASSUME NEW a \in Admins, PutRules(a) PROVE Lists'
  <2>1. rules' \in Seq(Names) BY <1>7 DEF PutRules
  <2>2. excused' \in SUBSET Names /\ asked' \in SUBSET Names
    BY <1>7, <2>1, SetOfNames DEF PutRules, Lists
  <2> QED BY <1>7, <2>1, <2>2 DEF PutRules, Lists, locals
<1>8. ASSUME NEW a \in Admins, OwnCreate(a) \/ OwnUpdate(a) \/ OwnDelete(a) PROVE Lists'
  BY <1>8 DEF OwnCreate, OwnUpdate, OwnDelete, Lists, locals, history
<1>9. ASSUME NEW a \in Admins, LibCreate(a) \/ LibDelete(a) PROVE Lists'
  BY <1>9 DEF LibCreate, LibDelete, Lists, locals, history
<1>10. ASSUME NEW a \in Admins, LibUpdate(a) PROVE Lists'
  BY <1>10, <1>t DEF LibUpdate, Goto, Lists, tables, history
<1>11. ASSUME NEW a \in Admins, LibUpdateWrite(a) \/ Abort(a) PROVE Lists'
  BY <1>11, LeftLists DEF LibUpdateWrite, Abort, Lists, tables, history
<1>12. CASE UNCHANGED vars BY <1>12 DEF Lists, vars, tables, locals, history
<1> QED BY <1>1, <1>2, <1>3, <1>4, <1>5, <1>6, <1>7, <1>8, <1>9, <1>10, <1>11, <1>12
        DEF Next, ImportStep

LEMMA ListsHold == Spec => [](Stored /\ Lists)
<1>1. Init => Lists BY InitLists
<1>2. Stored /\ Lists /\ [Next]_vars => Lists' BY NextLists
<1> QED BY <1>1, <1>2, StoredHolds, PTL DEF Spec

LEMMA BoundsHold == Spec => [](edits \in 0 .. MaxEdits /\ faults \in 0 .. MaxFaults)
<1> DEFINE B == edits \in 0 .. MaxEdits /\ faults \in 0 .. MaxFaults
<1>1. Init => B BY ImportBoundsAssumption DEF Init
<1>2. B /\ [Next]_vars => B'
  <2> SUFFICES ASSUME B, [Next]_vars PROVE B'
    OBVIOUS
  <2>1. CASE UNCHANGED <<edits, faults>> BY <2>1
  <2>2. ASSUME NEW a \in Admins, Call(a) PROVE B'
    BY <2>2, ImportBoundsAssumption DEF Call
  <2>3. ASSUME NEW a \in Admins, Abort(a) PROVE B'
    BY <2>3, ImportBoundsAssumption DEF Abort
  <2>4. \/ UNCHANGED <<edits, faults>>
        \/ \E a \in Admins : Call(a) \/ Abort(a)
    BY DEF Next, ImportStep, Import, CheckOwn, ReadLibrary, Insert, ReadRules, WriteRules,
       PutRules, OwnCreate, OwnUpdate, OwnDelete, LibCreate, LibUpdate, LibUpdateWrite,
       LibDelete, vars, bounds
  <2> QED BY <2>1, <2>2, <2>3, <2>4
<1> QED BY <1>1, <1>2, PTL DEF Spec

\* The tables, what the handlers hold and the histories stay in their types,
\* for any admins, names, library, requests and bounds.
THEOREM TypeOKHolds == Spec => []TypeOK
<1>1. Stored /\ Lists /\ edits \in 0 .. MaxEdits /\ faults \in 0 .. MaxFaults => TypeOK
  BY DEF Stored, Lists, TypeOK, Lbl
<1> QED BY <1>1, ListsHold, BoundsHold, PTL

-----------------------------------------------------------------------------
\* Appending what a list lacks adds nothing twice.
LEMMA AddedToAdded ==
    ASSUME NEW s \in Seq(Names), AddedOnce(s),
           NEW m \in Seq(Names), IsInjective(m), ToSet(m) \cap ToSet(s) = {}
    PROVE  AddedOnce(s \o m)
<1>1. PICK t \in Texts \cup {<<>>} :
         /\ IsPrefix(t, s)
         /\ \A j \in Len(t) + 1 .. Len(s), i \in 1 .. Len(s) : i < j => s[i] # s[j]
  BY DEF AddedOnce
<1> DEFINE u == s \o m
<1>t. t \in Seq(Names) /\ Len(t) \in Nat /\ Len(s) \in Nat /\ Len(m) \in Nat
  <2>1. t \in Seq(Names) BY Empty
  <2> QED BY <2>1
<1>2. /\ u \in Seq(Names) /\ Len(u) = Len(s) + Len(m)
      /\ \A i \in 1 .. Len(s) : u[i] = s[i]
      /\ \A i \in Len(s) + 1 .. Len(u) : i - Len(s) \in 1 .. Len(m) /\ u[i] = m[i - Len(s)]
  BY <1>t
<1> HIDE DEF u
<1>3. IsPrefix(t, u)
  <2>1. Len(t) <= Len(s) /\ Len(t) <= Len(u) BY <1>1, <1>2, <1>t DEF IsPrefix
  <2>2. SubSeq(u, 1, Len(t)) = SubSeq(s, 1, Len(t)) BY <1>2, <1>t, <2>1
  <2> QED BY <1>1, <2>1, <2>2 DEF IsPrefix
<1>4. ASSUME NEW j \in Len(t) + 1 .. Len(u), NEW i \in 1 .. Len(u), i < j
      PROVE  u[i] # u[j]
  <2>0. i \in Nat /\ j \in Nat /\ 1 <= i /\ Len(t) + 1 <= j BY <1>2, <1>t
  <2>1. CASE j <= Len(s)
    <3>1. i \in 1 .. Len(s) /\ j \in Len(t) + 1 .. Len(s) /\ j \in 1 .. Len(s)
      BY <1>4, <1>t, <2>0, <2>1
    <3>2. s[i] # s[j] BY <1>1, <1>4, <3>1
    <3> QED BY <1>2, <3>1, <3>2
  <2>2. CASE j > Len(s)
    <3>0. j \in Len(s) + 1 .. Len(u) BY <1>2, <1>t, <2>0, <2>2
    <3>1. j - Len(s) \in DOMAIN m /\ u[j] = m[j - Len(s)] BY <1>2, <1>t, <3>0
    <3>2. CASE i <= Len(s)
      <4>1. i \in DOMAIN s /\ u[i] = s[i] BY <1>2, <1>t, <3>2
      <4> QED BY <3>1, <4>1 DEF ToSet
    <3>3. CASE i > Len(s)
      <4>1. i - Len(s) \in DOMAIN m /\ u[i] = m[i - Len(s)] /\ i - Len(s) # j - Len(s)
        BY <1>2, <1>4, <1>t, <3>3
      <4> QED BY <3>1, <4>1 DEF IsInjective
    <3> QED BY <1>t, <3>2, <3>3
  <2> QED BY <1>t, <2>1, <2>2
<1> QED BY <1>1, <1>3, <1>4 DEF AddedOnce, u

LEMMA SavedIsAdded == \A t \in Texts \cup {<<>>} : AddedOnce(t)
  BY DEF AddedOnce, IsPrefix

\* The rules, and every copy of them that an import holds.
Once == AddedOnce(rules) /\ \A a \in Admins : AddedOnce(text[a])

LEMMA NextOnce == Stored /\ Lists /\ Once /\ [Next]_vars => Once'
<1> SUFFICES ASSUME Stored, Lists, Once, [Next]_vars PROVE Once'
  OBVIOUS
<1>t. text \in [Admins -> Seq(Names)] BY DEF Lists
<1>1. ASSUME NEW a \in Admins, Leave(a), rules' = rules PROVE Once'
  <2>1. \A b \in Admins : text'[b] \in {text[b], <<>>} BY <1>1, <1>t DEF Leave
  <2>2. \A b \in Admins : AddedOnce(text'[b]) BY <2>1, SavedIsAdded DEF Once
  <2>3. AddedOnce(rules') BY <1>1 DEF Once
  <2> QED BY <2>2, <2>3 DEF Once
<1>2. ASSUME NEW a \in Admins, ReadRules(a) PROVE Once'
  <2>1. CASE Leave(a) BY <1>1, <1>2, <2>1 DEF ReadRules, tables
  <2>2. CASE text' = [text EXCEPT ![a] = rules]
    <3>1. \A b \in Admins : text'[b] \in {text[b], rules} BY <1>t, <2>2
    <3>2. \A b \in Admins : AddedOnce(text'[b]) BY <3>1 DEF Once
    <3>3. AddedOnce(rules') BY <1>2 DEF ReadRules, tables, Once
    <3> QED BY <3>2, <3>3 DEF Once
  <2> QED BY <1>2, <2>1, <2>2 DEF ReadRules
<1>3. ASSUME NEW a \in Admins, WriteRules(a) PROVE Once'
  <2> DEFINE m == Missing(names[a], text[a])
  <2>1. names[a] \in Seq(Names) /\ IsInjective(names[a]) /\ text[a] \in Seq(Names)
    BY DEF Lists
  <2>2. m \in Seq(Names) /\ ToSet(m) \cap ToSet(text[a]) = {} /\ IsInjective(m)
    BY <2>1, MissingNames
  <2>3. AddedOnce(text[a] \o m)
    <3> HIDE DEF m
    <3> QED BY <2>1, <2>2, AddedToAdded DEF Once
  <2>4. AddedOnce(rules') BY <1>3, <2>3 DEF WriteRules
  <2>5. \A b \in Admins : text'[b] \in {text[b], <<>>} BY <1>3, <1>t DEF WriteRules, Leave
  <2>6. \A b \in Admins : AddedOnce(text'[b]) BY <2>5, SavedIsAdded DEF Once
  <2> QED BY <2>4, <2>6 DEF Once
<1>4. ASSUME NEW a \in Admins, PutRules(a) PROVE Once'
  <2>1. AddedOnce(rules') /\ text' = text BY <1>4, SavedIsAdded DEF PutRules, locals
  <2> QED BY <2>1 DEF Once, AddedOnce
<1>5. ASSUME NEW a \in Admins, Insert(a) PROVE Once'
  <2>1. CASE Leave(a) BY <1>1, <1>5, <2>1 DEF Insert
  <2>2. CASE text' = text BY <1>5, <2>2 DEF Insert, Once, AddedOnce
  <2> QED BY <1>5, <2>1, <2>2 DEF Insert
<1>6. ASSUME NEW a \in Admins, LibUpdateWrite(a) \/ Abort(a) PROVE Once'
  BY <1>1, <1>6 DEF LibUpdateWrite, Abort, tables
<1>7. CASE UNCHANGED <<rules, text>> BY <1>7 DEF Once, AddedOnce
<1>8. \/ UNCHANGED <<rules, text>>
      \/ \E a \in Admins : \/ ReadRules(a) \/ WriteRules(a) \/ PutRules(a) \/ Insert(a)
                            \/ LibUpdateWrite(a) \/ Abort(a)
  BY DEF Next, ImportStep, Import, CheckOwn, ReadLibrary, OwnCreate, OwnUpdate, OwnDelete,
     LibCreate, LibUpdate, LibDelete, vars, tables, locals
<1> QED BY <1>2, <1>3, <1>4, <1>5, <1>6, <1>7, <1>8

\* What imports add to a saved text refers to no name twice, however many
\* imports overlap and whatever is saved between their read and their write.
THEOREM ReferredOnceHolds == Spec => []ReferredOnce
<1>1. Init => Once
  BY SavedIsAdded DEF Init, Once
<1>2. Stored /\ Lists /\ Once /\ [Next]_vars => Once' BY NextOnce
<1>3. Once => ReferredOnce BY DEF Once, ReferredOnce
<1> QED BY <1>1, <1>2, <1>3, ListsHold, PTL DEF Spec

\* The invariant of the runs.
THEOREM InvHolds == Spec => []Inv
<1>1. TypeOK /\ ReferredOnce /\ RemoteHasUrl => Inv BY DEF Inv
<1> QED BY <1>1, TypeOKHolds, ReferredOnceHolds, RemoteHasUrlHolds, PTL

-----------------------------------------------------------------------------
LEMMA NothingMissing ==
    ASSUME NEW asks \in Seq(Names), NEW t, Missing(asks, t) = <<>>
    PROVE  ToSet(asks) \subseteq ToSet(t)
  BY MissingNames, Empty

LEMMA ToSetOfConcat ==
    ASSUME NEW s \in Seq(Names), NEW t \in Seq(Names)
    PROVE  ToSet(s \o t) = ToSet(s) \cup ToSet(t)
<1> DEFINE u == s \o t
<1>1. /\ Len(s) \in Nat /\ DOMAIN s = 1 .. Len(s) /\ Len(t) \in Nat /\ DOMAIN t = 1 .. Len(t)
      /\ DOMAIN u = 1 .. Len(s) + Len(t)
  OBVIOUS
<1>2. /\ \A i \in 1 .. Len(s) : u[i] = s[i]
      /\ \A i \in 1 .. Len(s) + Len(t) : i > Len(s) => u[i] = t[i - Len(s)]
  OBVIOUS
<1> HIDE DEF u
<1>3. \A i \in DOMAIN t : i + Len(s) \in DOMAIN u /\ u[i + Len(s)] = t[i] BY <1>1, <1>2
<1>4. \A i \in DOMAIN s : i \in DOMAIN u /\ u[i] = s[i] BY <1>1, <1>2
<1>5. ASSUME NEW i \in DOMAIN u
      PROVE  \/ i \in DOMAIN s /\ u[i] = s[i]
             \/ i - Len(s) \in DOMAIN t /\ u[i] = t[i - Len(s)]
  <2>0. i \in 1 .. Len(s) + Len(t) BY <1>1
  <2>1. CASE i <= Len(s) BY <1>1, <1>2, <2>0, <2>1
  <2>2. CASE i > Len(s)
    <3>1. i - Len(s) \in 1 .. Len(t) BY <1>1, <2>0, <2>2
    <3> QED BY <1>1, <1>2, <2>0, <2>2, <3>1
  <2> QED BY <1>1, <2>0, <2>1, <2>2
<1>6. ToSet(u) = ToSet(s) \cup ToSet(t) BY <1>3, <1>4, <1>5 DEF ToSet
<1> QED BY <1>6 DEF u

\* What an import answered for stays referred to until other rules are saved,
\* or an import that read the rules before them writes over it.
THEOREM AskedStaysReferencedHolds == Spec => []AskedStaysReferenced
<1>1. Init => AskedStaysReferenced BY DEF Init, AskedStaysReferenced
<1>2. Stored /\ Lists /\ AskedStaysReferenced /\ [Next]_vars => AskedStaysReferenced'
  <2> SUFFICES ASSUME Stored, Lists, AskedStaysReferenced, [Next]_vars
               PROVE  AskedStaysReferenced'
    OBVIOUS
  <2>1. ASSUME NEW a \in Admins, ReadRules(a) PROVE AskedStaysReferenced'
    <3>1. CASE Missing(names[a], rules) = <<>>
      <4>1. ToSet(names[a]) \subseteq ToSet(rules) BY <3>1, NothingMissing DEF Lists
      <4> QED BY <2>1, <3>1, <4>1 DEF ReadRules, tables, AskedStaysReferenced
    <3>2. CASE Missing(names[a], rules) # <<>>
      BY <2>1, <3>2 DEF ReadRules, tables, AskedStaysReferenced
    <3> QED BY <3>1, <3>2
  <2>2. ASSUME NEW a \in Admins, WriteRules(a) PROVE AskedStaysReferenced'
    <3> DEFINE m == Missing(names[a], text[a])
    <3>1. m \in Seq(Names) /\ ToSet(m) = ToSet(names[a]) \ ToSet(text[a])
      BY MissingNames DEF Lists
    <3>2. text[a] \in Seq(Names) BY DEF Lists
    <3> HIDE DEF m
    <3>3. ToSet(text[a] \o m) = ToSet(text[a]) \cup ToSet(names[a])
      BY <3>1, <3>2, ToSetOfConcat
    <3>4. ToSet(rules') = ToSet(text[a]) \cup ToSet(names[a])
      BY <2>2, <3>3 DEF WriteRules, m
    <3> QED BY <2>2, <3>4 DEF WriteRules, AskedStaysReferenced
  <2>3. ASSUME NEW a \in Admins, PutRules(a) PROVE AskedStaysReferenced'
    BY <2>3 DEF PutRules, AskedStaysReferenced
  <2>4. CASE UNCHANGED <<rules, asked>> BY <2>4 DEF AskedStaysReferenced
  <2>5. \/ UNCHANGED <<rules, asked>>
        \/ \E a \in Admins : ReadRules(a) \/ WriteRules(a) \/ PutRules(a)
    BY DEF Next, ImportStep, Import, CheckOwn, ReadLibrary, Insert, OwnCreate, OwnUpdate,
       OwnDelete, LibCreate, LibUpdate, LibUpdateWrite, LibDelete, Abort, vars, tables, history
  <2> QED BY <2>1, <2>2, <2>3, <2>4, <2>5
<1> QED BY <1>1, <1>2, ListsHold, PTL DEF Spec

-----------------------------------------------------------------------------
\* Every name that is referred to, will be by a text in some import's hands,
\* or is behind an import in its loop, has a definition or a right to have
\* none.  The second and third part are what carries ReferredIsDefined
\* through the read-modify-write of the rules.
Covered == {n \in Names : own[n] # NULL \/ n \in excused}
Defined ==
    /\ ToSet(rules) \subseteq Covered
    /\ \A a \in Admins : /\ ToSet(text[a]) \subseteq Covered
                         /\ ToSet(names[a]) \ ToSet(todo[a]) \subseteq Covered

\* Who loses its definition is excused: what is covered stays so.
LEMMA CoveredStays ==
    ASSUME Stored, Lists, [Next]_vars
    PROVE  Covered \subseteq Covered'
<1>t. own \in [Names -> Def \cup {NULL}] /\ NULL \notin Def BY DEF Stored
<1>1. ASSUME NEW a \in Admins, Insert(a) PROVE Covered \subseteq Covered'
  <2>1. \A n \in Names : own[n] # NULL => own'[n] = own[n] BY <1>1, <1>t DEF Insert
  <2> QED BY <1>1, <2>1 DEF Insert, Covered, history
<1>2. ASSUME NEW a \in Admins, OwnCreate(a) PROVE Covered \subseteq Covered'
  <2>1. \A n \in Names : own[n] # NULL => own'[n] = own[n] BY <1>2, <1>t DEF OwnCreate
  <2> QED BY <1>2, <2>1 DEF OwnCreate, Covered, history
<1>3. ASSUME NEW a \in Admins, OwnUpdate(a) PROVE Covered \subseteq Covered'
  <2>1. PICK n \in Names, m \in Names, b \in Body :
          /\ own[n] # NULL /\ Accepts(b, own[n].url)
          /\ own' = [own EXCEPT ![n] = NULL, ![m] = Normalize(b, own[n].url)]
          /\ excused' = IF m = n THEN excused ELSE excused \cup {n}
    BY <1>3 DEF OwnUpdate
  <2>2. Normalize(b, own[n].url) \in Def
    BY <1>t, <2>1, DefsAreWhole, Normalized
  <2>3. \A k \in Names \ {n} : own[k] # NULL => own'[k] # NULL BY <1>t, <2>1, <2>2
  <2>4. m = n => own'[n] # NULL BY <1>t, <2>1, <2>2
  <2> QED BY <2>1, <2>3, <2>4 DEF Covered
<1>4. ASSUME NEW a \in Admins, OwnDelete(a) PROVE Covered \subseteq Covered'
  BY <1>4, <1>t DEF OwnDelete, Covered
<1>5. ASSUME NEW a \in Admins, ReadLibrary(a) PROVE Covered \subseteq Covered'
  BY <1>5 DEF ReadLibrary, Covered, tables
<1>6. ASSUME NEW a \in Admins, PutRules(a) PROVE Covered \subseteq Covered'
  BY <1>6 DEF PutRules, Covered
<1>7. CASE UNCHANGED <<own, excused>> BY <1>7 DEF Covered
<1>8. \/ UNCHANGED <<own, excused>>
      \/ \E a \in Admins : \/ Insert(a) \/ OwnCreate(a) \/ OwnUpdate(a) \/ OwnDelete(a)
                            \/ ReadLibrary(a) \/ PutRules(a)
  BY DEF Next, ImportStep, Import, CheckOwn, ReadRules, WriteRules, LibCreate, LibUpdate,
     LibUpdateWrite, LibDelete, Abort, vars, tables, history
<1> QED BY <1>1, <1>2, <1>3, <1>4, <1>5, <1>6, <1>7, <1>8

LEMMA NextDefined == Stored /\ Lists /\ Defined /\ [Next]_vars => Defined'
<1> SUFFICES ASSUME Stored, Lists, Defined, [Next]_vars PROVE Defined'
  OBVIOUS
<1>t. /\ names \in [Admins -> Seq(Names)] /\ todo \in [Admins -> Seq(Names)]
      /\ text \in [Admins -> Seq(Names)]
  BY DEF Lists
<1>c. Covered \subseteq Covered' BY CoveredStays
<1>e. ToSet(<<>>) = {} BY Empty
<1>1. ASSUME NEW a \in Admins, Leave(a), ToSet(rules') \subseteq Covered'
      PROVE  Defined'
  <2>1. \A b \in Admins : \/ names'[b] = <<>> /\ text'[b] = <<>>
                          \/ /\ names'[b] = names[b] /\ todo'[b] = todo[b]
                             /\ text'[b] = text[b]
    BY <1>1, <1>t DEF Leave
  <2> QED BY <1>1, <1>c, <1>e, <2>1 DEF Defined
<1>k. ToSet(rules) \subseteq Covered' BY <1>c DEF Defined
\* A step of an import with a name: either nothing is done with it yet, or
\* the name is covered now.
<1>n. ASSUME NEW a \in Admins, todo[a] # <<>>, Head(todo[a]) \in Covered',
             NextName(a), UNCHANGED <<rules, names, text>>
      PROVE  Defined'
  <2>1. \A b \in Admins : todo'[b] = IF b = a THEN Tail(todo[a]) ELSE todo[b]
    BY <1>n, <1>t DEF NextName
  <2>2. ToSet(todo[a]) \subseteq ToSet(Tail(todo[a])) \cup {Head(todo[a])}
    BY <1>n, <1>t, HeadAndTail
  <2>3. \A b \in Admins : ToSet(names[b]) \ ToSet(todo'[b]) \subseteq Covered'
    BY <1>n, <1>c, <2>1, <2>2 DEF Defined
  <2> QED BY <1>n, <1>c, <1>k, <2>3 DEF Defined
<1>2. ASSUME NEW a \in Admins, Import(a) PROVE Defined'
  <2>1. \A b \in Admins : \/ names'[b] = todo'[b]
                          \/ names'[b] = names[b] /\ todo'[b] = todo[b]
    BY <1>2, <1>t DEF Import
  <2> QED BY <1>2, <1>c, <1>k, <2>1 DEF Import, tables, Defined
<1>3. ASSUME NEW a \in Admins, CheckOwn(a) PROVE Defined'
  <2>1. CASE own[Head(todo[a])] # NULL
    <3>1. Head(todo[a]) \in Names BY <1>3, <1>t, HeadAndTail DEF CheckOwn
    <3>2. Head(todo[a]) \in Covered' BY <1>c, <2>1, <3>1 DEF Covered
    <3> QED BY <1>3, <1>n, <2>1, <3>2 DEF CheckOwn, tables
  <2>2. CASE own[Head(todo[a])] = NULL
    BY <1>3, <1>c, <1>k, <2>2 DEF CheckOwn, tables, Defined
  <2> QED BY <2>1, <2>2
<1>4. ASSUME NEW a \in Admins, ReadLibrary(a) PROVE Defined'
  <2>0. todo[a] # <<>> BY <1>4 DEF ReadLibrary, Lists
  <2>1. CASE Holders(Head(todo[a])) = {}
    <3>1. Head(todo[a]) \in Names BY <1>t, <2>0, HeadAndTail
    <3>2. Head(todo[a]) \in excused' BY <1>4, <2>1 DEF ReadLibrary
    <3>3. Head(todo[a]) \in Covered' BY <3>1, <3>2 DEF Covered
    <3> QED BY <1>4, <1>n, <2>0, <2>1, <3>3 DEF ReadLibrary, tables
  <2>2. CASE Holders(Head(todo[a])) # {}
    BY <1>4, <1>c, <1>k, <2>2 DEF ReadLibrary, tables, Defined
  <2> QED BY <2>1, <2>2
<1>5. ASSUME NEW a \in Admins, Insert(a) PROVE Defined'
  <2>0. todo[a] # <<>> BY <1>5 DEF Insert, Lists
  <2>1. CASE own[Head(todo[a])] = NULL
    <3>1. Head(todo[a]) \in Names BY <1>t, <2>0, HeadAndTail
    <3>2. found[a] \in Def /\ found[a] # NULL BY <1>5 DEF Insert, Stored
    <3>3. own' = [own EXCEPT ![Head(todo[a])] = found[a]] BY <1>5, <2>1 DEF Insert
    <3>4. own'[Head(todo[a])] # NULL BY <3>1, <3>2, <3>3 DEF Stored
    <3>5. Head(todo[a]) \in Covered' BY <3>1, <3>4 DEF Covered
    <3> QED BY <1>5, <1>n, <2>0, <2>1, <3>5 DEF Insert
  <2>2. CASE own[Head(todo[a])] # NULL BY <1>1, <1>5, <1>k, <2>2 DEF Insert
  <2> QED BY <2>1, <2>2
<1>6. ASSUME NEW a \in Admins, ReadRules(a) PROVE Defined'
  <2>1. CASE Missing(names[a], rules) = <<>> BY <1>1, <1>6, <1>k, <2>1 DEF ReadRules, tables
  <2>2. CASE Missing(names[a], rules) # <<>>
    <3>1. \A b \in Admins : text'[b] = text[b] \/ text'[b] = rules
      BY <1>6, <1>t, <2>2 DEF ReadRules
    <3>2. UNCHANGED <<rules, names, todo>> BY <1>6, <2>2 DEF ReadRules, tables
    <3> QED BY <1>c, <1>k, <3>1, <3>2 DEF Defined
  <2> QED BY <2>1, <2>2
<1>7. ASSUME NEW a \in Admins, WriteRules(a) PROVE Defined'
  <2> DEFINE m == Missing(names[a], text[a])
  <2>1. m \in Seq(Names) /\ ToSet(m) = ToSet(names[a]) \ ToSet(text[a])
    BY <1>t, MissingNames
  <2> HIDE DEF m
  <2>2. ToSet(text[a] \o m) = ToSet(text[a]) \cup ToSet(names[a])
    BY <1>t, <2>1, ToSetOfConcat
  <2>3. ToSet(rules') = ToSet(text[a]) \cup ToSet(names[a])
    BY <1>7, <2>2 DEF WriteRules, m
  <2>4. todo[a] = <<>> BY <1>7 DEF WriteRules, Lists
  <2>5. ToSet(rules') \subseteq Covered' BY <1>c, <1>e, <2>3, <2>4 DEF Defined
  <2> QED BY <1>1, <1>7, <2>5 DEF WriteRules
<1>8. ASSUME NEW a \in Admins, PutRules(a) PROVE Defined'
  <2>1. rules' \in Seq(Names) BY <1>8 DEF PutRules
  <2>2. ToSet(rules') \subseteq Covered' BY <1>8, <2>1, SetOfNames DEF PutRules, Covered
  <2> QED BY <1>8, <1>c, <2>2 DEF PutRules, locals, Defined
<1>9. ASSUME NEW a \in Admins, LibUpdateWrite(a) \/ Abort(a) PROVE Defined'
  BY <1>1, <1>9, <1>k DEF LibUpdateWrite, Abort, tables
<1>10. CASE UNCHANGED <<rules, names, todo, text>> BY <1>10, <1>c, <1>k DEF Defined
<1>11. \/ UNCHANGED <<rules, names, todo, text>>
       \/ \E a \in Admins : \/ Import(a) \/ ImportStep(a) \/ PutRules(a)
                             \/ LibUpdateWrite(a) \/ Abort(a)
  BY DEF Next, OwnCreate, OwnUpdate, OwnDelete, LibCreate, LibUpdate, LibDelete,
     vars, tables, locals
<1> QED BY <1>2, <1>3, <1>4, <1>5, <1>6, <1>7, <1>8, <1>9, <1>10, <1>11 DEF ImportStep

\* A RULE-SET line has its definition in the profile, although import copies
\* the definitions and appends the lines in different steps; the exceptions
\* are names the library did not have, names the admin wrote, and definitions
\* removed since.
THEOREM ReferredIsDefinedHolds == Spec => []ReferredIsDefined
<1>1. Init => Defined BY Empty DEF Init, Defined
<1>2. Stored /\ Lists /\ Defined /\ [Next]_vars => Defined' BY NextDefined
<1>3. Defined => ReferredIsDefined BY DEF Defined, Covered, ReferredIsDefined
<1> QED BY <1>1, <1>2, <1>3, ListsHold, PTL DEF Spec
=============================================================================
