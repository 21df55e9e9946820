--------------------------- MODULE DirectoryProofs ---------------------------
(***************************************************************************)
(* Theorems about Directory, for every set of companies, contents and      *)
(* pages and any number of calls under way.                                *)
(***************************************************************************)
EXTENDS Directory, FiniteSetTheorems, WellFoundedInduction, TLAPS

\* l holds the entries s[k], k \in K, each once: l[i] is s[f[i]].
Picks(l, s, K, f) ==
  /\ DOMAIN l = 1 .. Cardinality(K)
  /\ l = [i \in 1 .. Cardinality(K) |-> s[f[i]]]
  /\ \A i \in DOMAIN l : f[i] \in K
  /\ \A i, j \in DOMAIN l : f[i] = f[j] => i = j
  /\ \A k \in K : \E i \in DOMAIN l : f[i] = k

\* Sorting and filtering lose nothing and double nothing.
LEMMA Picked ==
  ASSUME NEW s, NEW K, IsFiniteSet(K), NEW l \in Kept(s, K) \cup Sorted(s, K)
  PROVE  \E f : Picks(l, s, K, f)
<1>1. PICK f \in SetToSeqs(K) : l = [i \in DOMAIN f |-> s[f[i]]]
  BY DEF Kept, Sorted, InOrder
<1>2. f \in [1 .. Cardinality(K) -> K]
  BY <1>1 DEF SetToSeqs
<1>3. \A i, j \in 1 .. Cardinality(K) : i # j => f[i] # f[j]
  BY <1>1 DEF SetToSeqs
<1>4. Cardinality(K) \in Nat
  BY FS_CardinalityType
<1>5. f \in Injection(1 .. Cardinality(K), K)
  BY <1>2, <1>3 DEF Injection, IsInjective
<1>6. Cardinality(1 .. Cardinality(K)) = Cardinality(K)
  BY <1>4, FS_Interval
<1>7. f \in Surjection(1 .. Cardinality(K), K)
  BY <1>5, <1>6, FS_Injection
<1>8. \A k \in K : \E i \in 1 .. Cardinality(K) : f[i] = k
  BY <1>7 DEF Surjection
<1>9. QED
  BY <1>1, <1>2, <1>3, <1>8 DEF Picks

\* What is in l comes from s, and what is chosen of s is in l.
LEMMA PickedMembers ==
  ASSUME NEW s, NEW K, IsFiniteSet(K), NEW l \in Kept(s, K) \cup Sorted(s, K)
  PROVE  /\ \A i \in DOMAIN l : \E k \in K : l[i] = s[k]
         /\ \A k \in K : \E i \in DOMAIN l : l[i] = s[k]
<1>1. PICK f : Picks(l, s, K, f)
  BY Picked
<1>2. QED
  BY <1>1 DEF Picks

\* A list of entries stays one.
LEMMA PickedType ==
  ASSUME NEW s, NEW K, IsFiniteSet(K), NEW l \in Kept(s, K) \cup Sorted(s, K),
         NEW T, \A k \in K : s[k] \in T
  PROVE  l \in Seq(T)
<1>1. PICK f : Picks(l, s, K, f)
  BY Picked
<1>2. Cardinality(K) \in Nat
  BY FS_CardinalityType
<1>3. l \in [1 .. Cardinality(K) -> T]
  BY <1>1 DEF Picks
<1>4. QED
  BY <1>2, <1>3

\* The places of l that hold an entry of company c.
Of(l, c) == {i \in DOMAIN l : l[i].id = c}

\* k is the only choice that is an entry of company c.
Only(s, K, c, k) == k \in K /\ s[k].id = c /\ \A j \in K : s[j].id = c => j = k

\* A company of which one entry was chosen has one.
LEMMA PickedOnce ==
  ASSUME NEW s, NEW K, IsFiniteSet(K), NEW l \in Kept(s, K) \cup Sorted(s, K),
         NEW c, NEW k, Only(s, K, c, k)
  PROVE  \E i \in DOMAIN l : Of(l, c) = {i} /\ l[i] = s[k]
<1>1. PICK f : Picks(l, s, K, f)
  BY Picked
<1>2. PICK i \in DOMAIN l : f[i] = k
  BY <1>1 DEF Picks, Only
<1>3. l[i] = s[k]
  BY <1>1, <1>2 DEF Picks
<1>4. ASSUME NEW j \in DOMAIN l, l[j].id = c PROVE j = i
  <2>1. f[j] \in K /\ l[j] = s[f[j]]
    BY <1>1 DEF Picks
  <2>2. f[j] = k
    BY <2>1, <1>4 DEF Only
  <2>3. QED
    BY <2>2, <1>1, <1>2 DEF Picks
<1>5. QED
  BY <1>3, <1>4 DEF Of, Only

\* A company of which none was chosen has none.
LEMMA PickedNone ==
  ASSUME NEW s, NEW K, IsFiniteSet(K), NEW l \in Kept(s, K) \cup Sorted(s, K),
         NEW c, \A j \in K : s[j].id # c
  PROVE  Of(l, c) = {}
<1>1. \A i \in DOMAIN l : \E k \in K : l[i] = s[k]
  BY PickedMembers
<1>2. QED
  BY <1>1 DEF Of
-----------------------------------------------------------------------------
\* The list says of company c what the document d does.
Shows(l, c, d) ==
  IF d = NoDoc THEN Of(l, c) = {}
  ELSE \E i \in DOMAIN l : Of(l, c) = {i} /\ l[i].name = d

\* The tags of the entries that do not belong to the page's objects suffice.
LEMMA TagLeft ==
  ASSUME NEW S, IsFiniteSet(S), Cardinality(S) <= Cardinality(Pages) + 1, NEW c,
         NEW E, \A e \in E : e.id = c => e.tag \in S
  PROVE  FreshTag(c, E) \in Tags
<1>1. S \cap Tags # Tags
  <2>1. IsFiniteSet(S \cap Tags) /\ Cardinality(S \cap Tags) <= Cardinality(S)
    BY FS_Subset
  <2>2. Cardinality(S \cap Tags) \in Nat /\ Cardinality(S) \in Nat
        /\ Cardinality(Pages) \in Nat
    BY <2>1, FS_CardinalityType, TagsAssumption
  <2>3. Cardinality(S \cap Tags) <= Cardinality(Pages) + 1
    BY <2>1, <2>2
  <2>4. QED
    BY <2>1, <2>3, TagsAssumption
<1>2. PICK t \in Tags : t \notin S
  BY <1>1
<1>3. \A e \in E : e.id = c => e.tag # t
  BY <1>2
<1>4. QED
  BY <1>3 DEF FreshTag

\* The pages hold at most as many tags as there are pages.
LEMMA PagesTags ==
  ASSUME shown \in [Pages -> Entries \cup {NoEntry}]
  PROVE  LET S == {shown[p].tag : p \in Pages}
         IN  IsFiniteSet(S) /\ Cardinality(S) <= Cardinality(Pages)
<1> DEFINE S == {shown[p].tag : p \in Pages}
           g == [p \in Pages |-> shown[p].tag]
<1>1. g \in Surjection(Pages, S)
  BY DEF Surjection
<1>2. QED
  BY <1>1, FS_Surjection, TagsAssumption

\* There is a tag for the object of an entry not yet listed.
LEMMA TagOfDecode ==
  ASSUME shown \in [Pages -> Entries \cup {NoEntry}], NEW c
  PROVE  FreshTag(c, OnPages) \in Tags
<1> DEFINE S == {shown[p].tag : p \in Pages}
<1>1. IsFiniteSet(S) /\ Cardinality(S) <= Cardinality(Pages)
  BY PagesTags
<1>2. Cardinality(S) \in Nat /\ Cardinality(Pages) \in Nat
  BY <1>1, FS_CardinalityType, TagsAssumption
<1>3. Cardinality(S) <= Cardinality(Pages) + 1
  BY <1>1, <1>2
<1>4. \A e \in OnPages : e.id = c => e.tag \in S
  BY DEF OnPages
<1> HIDE DEF S
<1>5. QED
  BY <1>1, <1>3, <1>4, TagLeft

\* There is one also when the company is listed once already.
LEMMA TagOfAdded ==
  ASSUME shown \in [Pages -> Entries \cup {NoEntry}], NEW c,
         \A i, j \in Listed(c) : i = j
  PROVE  FreshTag(c, OnPages \cup Range(list)) \in Tags
<1> DEFINE S == {shown[p].tag : p \in Pages}
<1>1. IsFiniteSet(S) /\ Cardinality(S) <= Cardinality(Pages)
  BY PagesTags
<1>2. Cardinality(S) \in Nat /\ Cardinality(Pages) \in Nat
  BY <1>1, FS_CardinalityType, TagsAssumption
<1>3. \A e \in OnPages : e.tag \in S
  BY DEF OnPages
<1>4. \E x : \A e \in Range(list) : e.id = c => e.tag = x
  BY DEF Range, Listed
<1>5. PICK x : \A e \in Range(list) : e.id = c => e.tag = x
  BY <1>4
<1> HIDE DEF S
<1>6. IsFiniteSet(S \cup {x}) /\ Cardinality(S \cup {x}) <= Cardinality(S) + 1
  <2>1. IsFiniteSet(S)
    BY <1>1
  <2>2. /\ IsFiniteSet(S \cup {x})
        /\ Cardinality(S \cup {x}) = IF x \in S THEN Cardinality(S) ELSE Cardinality(S) + 1
    BY <2>1, FS_AddElement
  <2>3. QED
    BY <2>2, <1>2
<1>7. Cardinality(S \cup {x}) \in Nat
  BY <1>6, FS_CardinalityType
<1>8. Cardinality(S \cup {x}) <= Cardinality(Pages) + 1
  BY <1>1, <1>2, <1>6, <1>7
<1>9. \A e \in OnPages \cup Range(list) : e.id = c => e.tag \in S \cup {x}
  BY <1>3, <1>5
<1>10. QED
  BY <1>6, <1>8, <1>9, TagLeft

\* A decoded answer is a list of entries that shows every document of it once.
LEMMA Decoded ==
  ASSUME shown \in [Pages -> Entries \cup {NoEntry}],
         NEW d \in [Companies -> Names \cup {NoDoc}], NEW l \in Decode(d)
  PROVE  l \in Seq(Entries) /\ \A c \in Companies : Shows(l, c, d[c])
<1> DEFINE s == [c \in Companies |-> [id |-> c, tag |-> FreshTag(c, OnPages),
                                      name |-> d[c]]]
           K == {c \in Companies : d[c] # NoDoc}
<1>1. l \in Kept(s, K) \cup Sorted(s, K)
  BY DEF Decode
<1>2. IsFiniteSet(K)
  BY CompaniesAssumption, FS_Subset
<1>3. \A k \in K : s[k] \in Entries
  BY TagOfDecode DEF Entries
<1>4. l \in Seq(Entries)
  <2> HIDE DEF s, K
  <2>1. QED
    BY <1>1, <1>2, <1>3, PickedType
<1>5. ASSUME NEW c \in Companies PROVE Shows(l, c, d[c])
  <2>1. \A k \in K : s[k].id = k /\ s[k].name = d[k]
    OBVIOUS
  <2>2. CASE d[c] = NoDoc
    <3>1. \A j \in K : s[j].id # c
      BY <2>1, <2>2
    <3> HIDE DEF s, K
    <3>2. Of(l, c) = {}
      BY <1>1, <1>2, <3>1, PickedNone
    <3>3. QED
      BY <3>2, <2>2 DEF Shows
  <2>3. CASE d[c] # NoDoc
    <3>1. c \in K
      BY <2>3
    <3> HIDE DEF s, K
    <3>2. Only(s, K, c, c)
      BY <2>1, <3>1 DEF Only
    <3>3. \E i \in DOMAIN l : Of(l, c) = {i} /\ l[i] = s[c]
      BY <1>1, <1>2, <3>2, PickedOnce
    <3>4. QED
      BY <3>3, <2>1, <2>3, <3>1 DEF Shows
  <2>4. QED
    BY <2>2, <2>3
<1>6. QED
  BY <1>4, <1>5
-----------------------------------------------------------------------------
\* What the list says of company c is also what l says.
Stays(l, c) ==
  /\ \A d : Shows(list, c, d) => Shows(l, c, d)
  /\ Of(list, c) # {} => Of(l, c) # {}

\* The choice K of s leaves the entries of company c in the list as they are.
Untouched(s, K, c) ==
  /\ \A i \in DOMAIN list : list[i].id = c => i \in K /\ s[i] = list[i]
  /\ \A k \in K : s[k].id = c => k \in DOMAIN list /\ s[k] = list[k]

\* What the list says of such a company stays.
LEMMA StaysShown ==
  ASSUME NEW s, NEW K, IsFiniteSet(K), NEW l \in Kept(s, K) \cup Sorted(s, K),
         NEW c, Untouched(s, K, c)
  PROVE  Stays(l, c)
<1>1. CASE Of(list, c) = {}
  <2>1. \A j \in K : s[j].id # c
    BY <1>1 DEF Untouched, Of
  <2>2. Of(l, c) = {}
    BY <2>1, PickedNone
  <2>3. QED
    BY <1>1, <2>2 DEF Shows, Stays
<1>2. CASE Of(list, c) # {}
  <2>1. PICK k \in DOMAIN list : list[k].id = c
    BY <1>2 DEF Of
  <2>2. k \in K /\ s[k] = list[k]
    BY <2>1 DEF Untouched
  <2>3. \E i \in DOMAIN l : l[i] = s[k]
    BY <2>2, PickedMembers
  <2>4. Of(l, c) # {}
    BY <2>1, <2>2, <2>3 DEF Of
  <2>5. ASSUME NEW d, Shows(list, c, d) PROVE Shows(l, c, d)
    <3>1. d # NoDoc
      BY <1>2, <2>5 DEF Shows
    <3>2. PICK i \in DOMAIN list : Of(list, c) = {i} /\ list[i].name = d
      BY <3>1, <2>5 DEF Shows
    <3>3. Only(s, K, c, i) /\ s[i] = list[i]
      BY <3>2 DEF Untouched, Of, Only
    <3>4. \E j \in DOMAIN l : Of(l, c) = {j} /\ l[j] = s[i]
      BY <3>3, PickedOnce
    <3>5. QED
      BY <3>1, <3>2, <3>3, <3>4 DEF Shows
  <2>6. QED
    BY <2>4, <2>5 DEF Stays
<1>3. QED
  BY <1>1, <1>2

\* The places of a list are finitely many.
LEMMA PlacesFinite ==
  ASSUME NEW T, NEW q \in Seq(T), NEW K, K \subseteq DOMAIN q
  PROVE  IsFiniteSet(K)
<1>1. Len(q) \in Nat /\ DOMAIN q = 1 .. Len(q)
  OBVIOUS
<1>2. IsFiniteSet(1 .. Len(q))
  BY <1>1, FS_Interval
<1>3. QED
  BY <1>1, <1>2, FS_Subset

\* An object added: the other companies are as they were, its company is listed,
\* and correctly if it was not listed before.
LEMMA Adding ==
  ASSUME list \in Seq(Entries), NEW o \in Entries,
         NEW l \in Sorted(Append(list, o), DOMAIN Append(list, o))
  PROVE  /\ l \in Seq(Entries)
         /\ \A c : c # o.id => Stays(l, c)
         /\ Of(l, o.id) # {}
         /\ Of(list, o.id) = {} /\ o.name # NoDoc => Shows(l, o.id, o.name)
<1> DEFINE s == Append(list, o)
           K == DOMAIN s
           n == Len(list) + 1
<1>1. s \in Seq(Entries) /\ K = 1 .. n /\ n \in Nat /\ s[n] = o /\ n \in K
  OBVIOUS
<1>2. /\ DOMAIN list = 1 .. Len(list)
      /\ Len(list) \in Nat
      /\ \A i \in DOMAIN list : i \in K /\ s[i] = list[i]
      /\ \A k \in K : k = n \/ k \in DOMAIN list
  OBVIOUS
<1>3. IsFiniteSet(K)
  BY <1>1, PlacesFinite
<1>4. l \in Kept(s, K) \cup Sorted(s, K)
  OBVIOUS
<1>5. \A k \in K : s[k] \in Entries
  BY <1>1
<1> HIDE DEF s, K, n
<1>6. l \in Seq(Entries)
  BY <1>3, <1>4, <1>5, PickedType
<1>7. ASSUME NEW c, c # o.id
      PROVE  Stays(l, c)
  <2>1. Untouched(s, K, c)
    BY <1>1, <1>2, <1>7 DEF Untouched
  <2>2. QED
    BY <1>3, <1>4, <2>1, StaysShown
<1>8. \E i \in DOMAIN l : l[i] = s[n]
  BY <1>1, <1>3, <1>4, PickedMembers
<1>9. Of(l, o.id) # {}
  BY <1>1, <1>8 DEF Of
<1>10. ASSUME Of(list, o.id) = {}, o.name # NoDoc PROVE Shows(l, o.id, o.name)
  <2>1. Only(s, K, o.id, n)
    BY <1>1, <1>2, <1>10 DEF Only, Of
  <2>2. \E i \in DOMAIN l : Of(l, o.id) = {i} /\ l[i] = s[n]
    BY <1>3, <1>4, <2>1, PickedOnce
  <2>3. QED
    BY <1>1, <1>10, <2>2 DEF Shows
<1>11. QED
  BY <1>6, <1>7, <1>9, <1>10

\* An object put in the place of every entry of its company.
LEMMA Replacing ==
  ASSUME list \in Seq(Entries), NEW o \in Entries, o.name # NoDoc,
         NEW l \in Sorted(Append(list, o),
                          {i \in DOMAIN Append(list, o) :
                             i > Len(list) \/ Append(list, o)[i].id # o.id})
  PROVE  /\ l \in Seq(Entries)
         /\ \A c : c # o.id => Stays(l, c)
         /\ Shows(l, o.id, o.name)
<1> DEFINE s == Append(list, o)
           n == Len(list) + 1
           K == {i \in DOMAIN s : i > Len(list) \/ s[i].id # o.id}
<1>1. s \in Seq(Entries) /\ n \in Nat /\ s[n] = o /\ n \in K /\ K \subseteq DOMAIN s
  OBVIOUS
<1>2. /\ \A i \in DOMAIN list : s[i] = list[i] /\ (list[i].id # o.id => i \in K)
      /\ \A k \in K : k = n \/ (k \in DOMAIN list /\ s[k].id # o.id)
  OBVIOUS
<1>3. IsFiniteSet(K)
  BY <1>1, PlacesFinite
<1>4. l \in Kept(s, K) \cup Sorted(s, K)
  OBVIOUS
<1>5. \A k \in K : s[k] \in Entries
  BY <1>1
<1> HIDE DEF s, n, K
<1>6. l \in Seq(Entries)
  BY <1>3, <1>4, <1>5, PickedType
<1>7. ASSUME NEW c, c # o.id
      PROVE  Stays(l, c)
  <2>1. Untouched(s, K, c)
    BY <1>1, <1>2, <1>7 DEF Untouched
  <2>2. QED
    BY <1>3, <1>4, <2>1, StaysShown
<1>8. Shows(l, o.id, o.name)
  <2>1. Only(s, K, o.id, n)
    BY <1>1, <1>2 DEF Only
  <2>2. \E i \in DOMAIN l : Of(l, o.id) = {i} /\ l[i] = s[n]
    BY <1>3, <1>4, <2>1, PickedOnce
  <2>3. QED
    BY <1>1, <2>2 DEF Shows
<1>9. QED
  BY <1>6, <1>7, <1>8

\* An object removed: the other companies are as they were, and its own is not
\* listed any more unless an entry of it was another object.
LEMMA Removing ==
  ASSUME list \in Seq(Entries), NEW o,
         NEW K, K = {i \in DOMAIN list : ~Same(list[i], o)}, NEW l \in Kept(list, K)
  PROVE  /\ l \in Seq(Entries)
         /\ \A c : c # o.id => Stays(l, c)
         /\ o.id \notin {list[i].id : i \in K} => Of(l, o.id) = {}
<1>1. IsFiniteSet(K)
  BY PlacesFinite
<1>2. l \in Kept(list, K) \cup Sorted(list, K)
  OBVIOUS
<1>3. \A k \in K : list[k] \in Entries
  OBVIOUS
<1>4. l \in Seq(Entries)
  BY <1>1, <1>2, <1>3, PickedType
<1>5. ASSUME NEW c, c # o.id
      PROVE  Stays(l, c)
  <2>1. Untouched(list, K, c)
    BY <1>5 DEF Untouched, Same
  <2>2. QED
    BY <1>1, <1>2, <2>1, StaysShown
<1>6. ASSUME o.id \notin {list[i].id : i \in K} PROVE Of(l, o.id) = {}
  <2>1. \A j \in K : list[j].id # o.id
    BY <1>6
  <2>2. QED
    BY <1>1, <1>2, <2>1, PickedNone
<1>7. QED
  BY <1>4, <1>5, <1>6

\* A field of an object assigned: ids and places stay, and the other companies.
LEMMA Renaming ==
  ASSUME list \in Seq(Entries), NEW p \in Pages, NEW n \in Names,
         NEW l, l = [i \in DOMAIN list |-> Renamed(list[i], p, n)]
  PROVE  /\ l \in Seq(Entries)
         /\ \A c : Of(l, c) = Of(list, c)
         /\ \A c : c # shown[p].id => \A d : Shows(list, c, d) => Shows(l, c, d)
<1>1. \A i \in DOMAIN list :
        /\ Renamed(list[i], p, n) \in Entries
        /\ Renamed(list[i], p, n).id = list[i].id
        /\ list[i].id # shown[p].id => Renamed(list[i], p, n) = list[i]
  <2>1. ASSUME NEW e \in Entries
        PROVE  /\ Renamed(e, p, n) \in Entries
               /\ Renamed(e, p, n).id = e.id
               /\ e.id # shown[p].id => Renamed(e, p, n) = e
    BY DEF Renamed, Same, Entries
  <2>2. QED
    BY <2>1
<1>2. l \in Seq(Entries)
  BY <1>1
<1>3. \A i \in DOMAIN list : l[i] = Renamed(list[i], p, n)
  OBVIOUS
<1>4. DOMAIN l = DOMAIN list
  OBVIOUS
<1>5. \A c : Of(l, c) = Of(list, c)
  BY <1>1, <1>3, <1>4 DEF Of
<1>6. ASSUME NEW c, c # shown[p].id, NEW d, Shows(list, c, d) PROVE Shows(l, c, d)
  <2>1. CASE d = NoDoc
    BY <2>1, <1>5, <1>6 DEF Shows
  <2>2. CASE d # NoDoc
    <3>1. PICK i \in DOMAIN list : Of(list, c) = {i} /\ list[i].name = d
      BY <2>2, <1>6 DEF Shows
    <3>2. list[i].id = c
      BY <3>1 DEF Of
    <3>3. l[i].name = d
      BY <3>1, <3>2, <1>1, <1>3, <1>6
    <3>4. QED
      BY <3>1, <3>3, <2>2, <1>4, <1>5 DEF Shows
  <2>3. QED
    BY <2>1, <2>2
<1>7. QED
  BY <1>2, <1>5, <1>6
-----------------------------------------------------------------------------
\* The inductive invariant.

\* A call for company c whose page was left is under way.
Left(c) == \E p \in Pages : ~mounted[p] /\ op[p].at # "none" /\ shown[p].id = c

\* One page is open at a time, none beside the form that adds a company, and the
\* company being added is listed at most once.
OpenPages ==
  /\ \A p, q \in Pages : mounted[p] /\ mounted[q] => p = q
  /\ adder # NoAdder => OnHome
  /\ \A p \in Pages : mounted[p] \/ op[p].at # "none" => shown[p] # NoEntry
  /\ adder # NoAdder => \A i, j \in Of(list, adder.id) : i = j

\* What an applied call has done to the document is still so when it returns,
\* unless another call for the company may have undone it.
CallsMean ==
  /\ \A p \in Pages : mounted[p] =>
       /\ op[p].at \in {"update", "updated"} => shown[p].name = op[p].name
       /\ op[p].at = "deleted" => docs[shown[p].id] = NoDoc
       /\ op[p].at = "updated" /\ shown[p].id \notin suspect /\ ~Left(shown[p].id)
            => docs[shown[p].id] = op[p].name
  /\ adder.at = "applied" /\ adder.id \notin suspect /\ ~Left(adder.id)
       => docs[adder.id] = adder.name

\* ListTrusted and ContactFound, in terms of the list as a value.
Trusted == \A c \in Companies : Idle(c) /\ c \notin suspect => Shows(list, c, docs[c])
Found ==
  \A c \in Companies :
    docs[c] # NoDoc /\ c \notin suspect /\ (adder.at # "none" => adder.id # c)
      => Of(list, c) # {}

IInv == TypeOK /\ OpenPages /\ CallsMean /\ Trusted /\ Found

\* A set of numbers has a least.
LEMMA HasMin ==
  ASSUME NEW S \in SUBSET Nat, S # {}
  PROVE  \E m \in S : \A x \in S : m <= x
<1>1. IsWellFoundedOn(OpToRel(<, Nat), Nat)
  BY NatLessThanWellFounded
<1>2. PICK m \in S : \A x \in S : <<x, m>> \notin OpToRel(<, Nat)
  BY <1>1, WFMin
<1>3. \A x \in S : x \in Nat /\ m \in Nat
  OBVIOUS
<1>4. \A x \in S : ~(x < m)
  BY <1>2, <1>3 DEF OpToRel
<1>5. \A x \in S : m <= x
  BY <1>3, <1>4
<1>6. QED
  BY <1>5

\* The invariant implies what the run checks.
LEMMA Enough == ASSUME IInv PROVE ListTrusted /\ ContactFound
<1>1. \A c : Listed(c) = Of(list, c)
  BY DEF Listed, Of
<1>2. ListTrusted
  BY <1>1 DEF IInv, ListTrusted, Trusted, Agrees, Shows
<1>3. ASSUME NEW c \in Companies, docs[c] # NoDoc, c \notin suspect,
             adder.at # "none" => adder.id # c
      PROVE  CompanyOf(c) # NoEntry
  <2>1. Listed(c) # {}
    BY <1>1, <1>3 DEF IInv, Found
  <2>2. Listed(c) \in SUBSET Nat
    BY DEF Listed, IInv, TypeOK
  <2>3. \E m \in Listed(c) : \A x \in Listed(c) : m <= x
    BY <2>1, <2>2, HasMin
  <2>4. Min(Listed(c)) \in Listed(c)
    BY <2>3 DEF Min
  <2>5. list[Min(Listed(c))].id = c
    BY <2>4 DEF Listed
  <2>6. c # 0
    BY CompaniesAssumption
  <2>7. QED
    BY <2>1, <2>5, <2>6 DEF CompanyOf, NoEntry
<1>4. QED
  BY <1>2, <1>3 DEF ContactFound

\* Splash fetches before anything is open.
LEMMA InitHolds == ASSUME Init PROVE IInv
<1>1. shown \in [Pages -> Entries \cup {NoEntry}]
  BY DEF Init
<1>2. list \in Seq(Entries) /\ \A c \in Companies : Shows(list, c, docs[c])
  BY <1>1, Decoded DEF Init
<1>3. TypeOK
  BY <1>1, <1>2 DEF Init, TypeOK, NoOp, NoFetch, NoAdder
<1>4. OpenPages /\ CallsMean
  BY DEF Init, OpenPages, CallsMean, NoOp, NoAdder
<1>5. Trusted
  BY <1>2 DEF Trusted
<1>6. Found
  BY <1>2 DEF Found, Shows
<1>7. QED
  BY <1>3, <1>4, <1>5, <1>6 DEF IInv
-----------------------------------------------------------------------------
\* One lemma per action: it keeps the invariant.

\* A refresh begins.
LEMMA RefreshKeeps == ASSUME IInv, Refresh PROVE IInv'
<1>1. TypeOK'
  BY DEF IInv, Refresh, TypeOK, NoFetch, Waiting, Answered, Nothing, NoAdder, NoOp, NoEntry, Done
<1>2. OpenPages'
  BY DEF IInv, Refresh, TypeOK, OpenPages, OnHome, NoAdder, NoOp, NoEntry, Done
<1>3. CallsMean'
  BY DEF IInv, Refresh, TypeOK, OpenPages, OnHome, NoAdder, NoOp, NoEntry, CallsMean, Left, Done
<1>4. Trusted'
  BY CompaniesAssumption DEF IInv, Refresh, TypeOK, OpenPages, OnHome, NoAdder, NoOp, NoEntry, CallsMean, Left, Trusted, Idle, Done
<1>5. Found'
  BY DEF IInv, Refresh, TypeOK, OpenPages, OnHome, NoAdder, NoOp, NoEntry, CallsMean, Found, Done
<1>6. QED
  BY <1>1, <1>2, <1>3, <1>4, <1>5 DEF IInv

\* Firestore answers it.
LEMMA AnswerKeeps == ASSUME IInv, Answer PROVE IInv'
<1>1. TypeOK'
  BY DEF IInv, Answer, TypeOK, NoFetch, Waiting, Answered, Nothing, NoAdder, NoOp, NoEntry, Done
<1>2. OpenPages'
  BY DEF IInv, Answer, TypeOK, OpenPages, OnHome, NoAdder, NoOp, NoEntry, Done
<1>3. CallsMean'
  BY DEF IInv, Answer, TypeOK, OpenPages, OnHome, NoAdder, NoOp, NoEntry, CallsMean, Left, Done
<1>4. Trusted'
  BY CompaniesAssumption DEF IInv, Answer, TypeOK, OpenPages, OnHome, NoAdder, NoOp, NoEntry, CallsMean, Left, Trusted, Idle, Done
<1>5. Found'
  BY DEF IInv, Answer, TypeOK, OpenPages, OnHome, NoAdder, NoOp, NoEntry, CallsMean, Found, Done
<1>6. QED
  BY <1>1, <1>2, <1>3, <1>4, <1>5 DEF IInv

\* A company is being added.
LEMMA StartAddKeeps == ASSUME IInv, NEW c \in Companies, NEW n \in Names, StartAdd(c, n) PROVE IInv'
<1>1. TypeOK'
  BY DEF IInv, StartAdd, TypeOK, NoFetch, Waiting, Answered, Nothing, NoAdder, NoOp, NoEntry, Done
<1>2. OpenPages'
  <2>1. Of(list, c) = {}
    BY DEF StartAdd, Listed, Of
  <2>2. QED
    BY <2>1 DEF IInv, StartAdd, TypeOK, OpenPages, OnHome, NoAdder
<1>3. CallsMean'
  BY DEF IInv, StartAdd, TypeOK, OpenPages, OnHome, NoAdder, NoOp, NoEntry, CallsMean, Left, Done
<1>4. Trusted'
  BY CompaniesAssumption DEF IInv, StartAdd, TypeOK, OpenPages, OnHome, NoAdder, NoOp, NoEntry, CallsMean, Left, Trusted, Idle, Done
<1>5. Found'
  BY DEF IInv, StartAdd, TypeOK, OpenPages, OnHome, NoAdder, NoOp, NoEntry, CallsMean, Found, Done
<1>6. QED
  BY <1>1, <1>2, <1>3, <1>4, <1>5 DEF IInv

\* Firestore writes it or refuses.
LEMMA AddAnswerKeeps == ASSUME IInv, AddAnswer PROVE IInv'
<1>1. TypeOK'
  BY DEF IInv, AddAnswer, TypeOK, NoFetch, Waiting, Answered, Nothing, NoAdder, NoOp, NoEntry, Done
<1>2. OpenPages'
  BY DEF IInv, AddAnswer, TypeOK, OpenPages, OnHome, NoAdder, NoOp, NoEntry, Done
<1>3. CallsMean'
  BY DEF IInv, AddAnswer, TypeOK, OpenPages, OnHome, NoAdder, NoOp, NoEntry, CallsMean, Left, Done
<1>4. Trusted'
  BY CompaniesAssumption DEF IInv, AddAnswer, TypeOK, OpenPages, OnHome, NoAdder, NoOp, NoEntry, CallsMean, Left, Trusted, Idle, Done
<1>5. Found'
  BY DEF IInv, AddAnswer, TypeOK, OpenPages, OnHome, NoAdder, NoOp, NoEntry, CallsMean, Found, Done
<1>6. QED
  BY <1>1, <1>2, <1>3, <1>4, <1>5 DEF IInv

\* The form is left.
LEMMA AddDiesKeeps == ASSUME IInv, AddDies PROVE IInv'
<1>1. TypeOK'
  BY DEF IInv, AddDies, TypeOK, NoFetch, Waiting, Answered, Nothing, NoAdder, NoOp, NoEntry, Done
<1>2. OpenPages'
  BY DEF IInv, AddDies, TypeOK, OpenPages, OnHome, NoAdder, NoOp, NoEntry, Done
<1>3. CallsMean'
  BY DEF IInv, AddDies, TypeOK, OpenPages, OnHome, NoAdder, NoOp, NoEntry, CallsMean, Left, Done
<1>4. Trusted'
  BY CompaniesAssumption DEF IInv, AddDies, TypeOK, OpenPages, OnHome, NoAdder, NoOp, NoEntry, CallsMean, Left, Trusted, Idle, Done
<1>5. Found'
  BY DEF IInv, AddDies, TypeOK, OpenPages, OnHome, NoAdder, NoOp, NoEntry, CallsMean, Found, Done
<1>6. QED
  BY <1>1, <1>2, <1>3, <1>4, <1>5 DEF IInv

\* A page opens.
LEMMA OpenDetailKeeps == ASSUME IInv, NEW p \in Pages, NEW i \in DOMAIN list, OpenDetail(p, i) PROVE IInv'
<1>1. TypeOK'
  BY DEF IInv, OpenDetail, TypeOK, NoFetch, Waiting, Answered, Nothing, NoAdder, NoOp, NoEntry, Done
<1>2. OpenPages'
  <2>1. list[i] # NoEntry
    BY CompaniesAssumption DEF IInv, TypeOK, Entries, NoEntry
  <2>2. QED
    BY <2>1 DEF IInv, OpenDetail, TypeOK, OpenPages, OnHome, NoAdder, NoOp, NoEntry, Done
<1>3. CallsMean'
  BY DEF IInv, OpenDetail, TypeOK, OpenPages, OnHome, NoAdder, NoOp, NoEntry, CallsMean, Left, Done
<1>4. Trusted'
  BY CompaniesAssumption DEF IInv, OpenDetail, TypeOK, OpenPages, OnHome, NoAdder, NoOp, NoEntry, CallsMean, Left, Trusted, Idle, Done
<1>5. Found'
  BY DEF IInv, OpenDetail, TypeOK, OpenPages, OnHome, NoAdder, NoOp, NoEntry, CallsMean, Found, Done
<1>6. QED
  BY <1>1, <1>2, <1>3, <1>4, <1>5 DEF IInv

\* A page is left.
LEMMA LeaveDetailKeeps == ASSUME IInv, NEW p \in Pages, LeaveDetail(p) PROVE IInv'
<1>1. TypeOK'
  BY DEF IInv, LeaveDetail, TypeOK, NoFetch, Waiting, Answered, Nothing, NoAdder, NoOp, NoEntry, Done
<1>2. OpenPages'
  BY DEF IInv, LeaveDetail, TypeOK, OpenPages, OnHome, NoAdder, NoOp, NoEntry, Done
<1>3. CallsMean'
  BY DEF IInv, LeaveDetail, TypeOK, OpenPages, OnHome, NoAdder, NoOp, NoEntry, CallsMean, Left, Done
<1>4. Trusted'
  BY CompaniesAssumption DEF IInv, LeaveDetail, TypeOK, OpenPages, OnHome, NoAdder, NoOp, NoEntry, CallsMean, Left, Trusted, Idle, Done
<1>5. Found'
  BY DEF IInv, LeaveDetail, TypeOK, OpenPages, OnHome, NoAdder, NoOp, NoEntry, CallsMean, Found, Done
<1>6. QED
  BY <1>1, <1>2, <1>3, <1>4, <1>5 DEF IInv

\* A deletion begins.
LEMMA StartDeleteKeeps == ASSUME IInv, NEW p \in Pages, StartDelete(p) PROVE IInv'
<1>1. TypeOK'
  BY DEF IInv, StartDelete, TypeOK, NoFetch, Waiting, Answered, Nothing, NoAdder, NoOp, NoEntry, Done
<1>2. OpenPages'
  BY DEF IInv, StartDelete, TypeOK, OpenPages, OnHome, NoAdder, NoOp, NoEntry, Done
<1>3. CallsMean'
  BY DEF IInv, StartDelete, TypeOK, OpenPages, OnHome, NoAdder, NoOp, NoEntry, CallsMean, Left, Done
<1>4. Trusted'
  BY CompaniesAssumption DEF IInv, StartDelete, TypeOK, OpenPages, OnHome, NoAdder, NoOp, NoEntry, CallsMean, Left, Trusted, Idle, Done
<1>5. Found'
  BY DEF IInv, StartDelete, TypeOK, OpenPages, OnHome, NoAdder, NoOp, NoEntry, CallsMean, Found, Done
<1>6. QED
  BY <1>1, <1>2, <1>3, <1>4, <1>5 DEF IInv

\* Firestore answers the call of a page.
LEMMA OpAnswerKeeps == ASSUME IInv, NEW p \in Pages, OpAnswer(p) PROVE IInv'
<1>1. TypeOK'
  BY DEF IInv, OpAnswer, TypeOK, NoFetch, Waiting, Answered, Nothing, NoAdder, NoOp, NoEntry, Done
<1>2. OpenPages'
  BY DEF IInv, OpAnswer, TypeOK, OpenPages, OnHome, NoAdder, NoOp, NoEntry, Done
<1>0. /\ op[p].at \in {"update", "delete"} /\ op'[p].at # "none"
      /\ \A q \in Pages : q # p => op'[q] = op[q]
      /\ \A c \in Companies : c # shown[p].id => docs'[c] = docs[c]
      /\ UNCHANGED <<list, fetch, adder, shown, mounted, suspect>>
  <2>1. op[p].at \in {"update", "delete"} /\ op'[p].at # "none"
    BY DEF OpAnswer, IInv, TypeOK
  <2>2. \A q \in Pages : q # p => op'[q] = op[q]
    BY DEF OpAnswer, IInv, TypeOK
  <2>3. \A c \in Companies : c # shown[p].id => docs'[c] = docs[c]
    BY DEF OpAnswer, IInv, TypeOK
  <2>4. UNCHANGED <<list, fetch, adder, shown, mounted, suspect>>
    BY DEF OpAnswer
  <2>5. QED
    BY <2>1, <2>2, <2>3, <2>4
<1>3. CallsMean'
  <2>1. \A c : Left(c)' <=> Left(c)
    BY <1>0 DEF Left
  <2>2. ASSUME NEW q \in Pages, mounted[q]
        PROVE  /\ op'[q].at \in {"update", "updated"} => shown[q].name = op'[q].name
               /\ op'[q].at = "deleted" => docs'[shown[q].id] = NoDoc
               /\ op'[q].at = "updated" /\ shown[q].id \notin suspect /\ ~Left(shown[q].id)
                    => docs'[shown[q].id] = op'[q].name
    <3>1. CASE q = p
      BY <2>2, <3>1 DEF IInv, OpAnswer, TypeOK, CallsMean, OpenPages, Entries
    <3>2. CASE q # p
      <4>1. ~mounted[p]
        BY <2>2, <3>2 DEF IInv, OpenPages
      <4>2. shown[q].id = shown[p].id => Left(shown[q].id)
        BY <1>0, <4>1 DEF Left
      <4>0. shown[q].id \in Companies
        BY <2>2 DEF IInv, OpenPages, TypeOK, Entries
      <4>3. op'[q].at = "deleted" => docs'[shown[q].id] = NoDoc
        <5>1. ASSUME op[q].at = "deleted" PROVE docs'[shown[q].id] = NoDoc
          <6>1. docs[shown[q].id] = NoDoc
            BY <2>2, <5>1 DEF IInv, CallsMean
          <6>2. docs' = docs \/ docs' = [docs EXCEPT ![shown[p].id] = NoDoc]
                 \/ docs[shown[p].id] # NoDoc
            BY DEF OpAnswer
          <6>3. CASE shown[q].id = shown[p].id
            BY <6>1, <6>2, <6>3, <4>0 DEF IInv, TypeOK
          <6>4. CASE shown[q].id # shown[p].id
            BY <6>1, <6>4, <4>0, <1>0
          <6>5. QED
            BY <6>3, <6>4
        <5>2. QED
          BY <5>1, <1>0, <3>2
      <4>4. QED
        BY <1>0, <2>2, <3>2, <4>0, <4>2, <4>3 DEF IInv, CallsMean
    <3>3. QED
      BY <3>1, <3>2
  <2>3. adder.at = "applied" /\ adder.id \notin suspect /\ ~Left(adder.id)
          => docs'[adder.id] = adder.name
    <3>1. adder.at = "applied" => ~mounted[p]
      BY DEF IInv, OpenPages, NoAdder, OnHome
    <3>2. ~mounted[p] /\ adder.id = shown[p].id => Left(adder.id)
      BY <1>0 DEF Left
    <3>0. adder.at = "applied" => adder.id \in Companies
      BY DEF IInv, TypeOK, NoAdder
    <3>3. QED
      BY <1>0, <3>0, <3>1, <3>2 DEF IInv, CallsMean
  <2>4. QED
    BY <1>0, <2>1, <2>2, <2>3 DEF CallsMean
<1>4. Trusted'
  <2>1. ASSUME NEW c \in Companies, Idle(c)', c \notin suspect
        PROVE  Shows(list, c, docs'[c])
    <3>1. shown[p].id # c
      BY <1>0, <2>1 DEF Idle
    <3>2. Idle(c)
      BY <1>0, <2>1, <3>1 DEF Idle
    <3>3. QED
      BY <1>0, <2>1, <3>1, <3>2 DEF IInv, Trusted
  <2>2. QED
    BY <1>0, <2>1 DEF Trusted
<1>5. Found'
  BY DEF IInv, OpAnswer, TypeOK, OpenPages, OnHome, NoAdder, NoOp, NoEntry, CallsMean, Found, Done
<1>6. QED
  BY <1>1, <1>2, <1>3, <1>4, <1>5 DEF IInv

\* The call of a page that was left is over.
LEMMA ReturnsTooLateKeeps == ASSUME IInv, NEW p \in Pages, ReturnsTooLate(p) PROVE IInv'
<1>1. TypeOK'
  BY CompaniesAssumption DEF IInv, OpenPages, Entries, ReturnsTooLate, TypeOK, NoFetch, Waiting, Answered, Nothing, NoAdder, NoOp, NoEntry, Done
<1>2. OpenPages'
  BY DEF IInv, ReturnsTooLate, TypeOK, OpenPages, OnHome, NoAdder, NoOp, NoEntry, Done
<1>3. CallsMean'
  BY DEF IInv, ReturnsTooLate, TypeOK, OpenPages, OnHome, NoAdder, NoOp, NoEntry, CallsMean, Left, Done
<1>4. Trusted'
  BY CompaniesAssumption DEF IInv, ReturnsTooLate, TypeOK, OpenPages, OnHome, NoAdder, NoOp, NoEntry, CallsMean, Left, Trusted, Idle, Done
<1>5. Found'
  BY DEF IInv, ReturnsTooLate, TypeOK, OpenPages, OnHome, NoAdder, NoOp, NoEntry, CallsMean, Found, Done
<1>6. QED
  BY <1>1, <1>2, <1>3, <1>4, <1>5 DEF IInv

\* A call fails.
LEMMA OpFailsKeeps == ASSUME IInv, NEW p \in Pages, OpFails(p) PROVE IInv'
<1>1. TypeOK'
  BY CompaniesAssumption DEF IInv, OpenPages, Entries, OpFails, TypeOK, NoFetch, Waiting, Answered, Nothing, NoAdder, NoOp, NoEntry, Done
<1>2. OpenPages'
  BY DEF IInv, OpFails, TypeOK, OpenPages, OnHome, NoAdder, NoOp, NoEntry, Done
<1>3. CallsMean'
  BY DEF IInv, OpFails, TypeOK, OpenPages, OnHome, NoAdder, NoOp, NoEntry, CallsMean, Left, Done
<1>4. Trusted'
  BY CompaniesAssumption DEF IInv, OpFails, TypeOK, OpenPages, OnHome, NoAdder, NoOp, NoEntry, CallsMean, Left, Trusted, Idle, Done
<1>5. Found'
  BY DEF IInv, OpFails, TypeOK, OpenPages, OnHome, NoAdder, NoOp, NoEntry, CallsMean, Found, Done
<1>6. QED
  BY <1>1, <1>2, <1>3, <1>4, <1>5 DEF IInv

\* The answer becomes the list.
LEMMA FetchReturnsKeeps == ASSUME IInv, FetchReturns PROVE IInv'
<1>1. fetch.docs \in [Companies -> Names \cup {NoDoc}]
  BY DEF IInv, TypeOK, FetchReturns, NoFetch, Waiting
<1>2. list' \in Seq(Entries) /\ \A c \in Companies : Shows(list', c, fetch.docs[c])
  <2>1. shown \in [Pages -> Entries \cup {NoEntry}] /\ list' \in Decode(fetch.docs)
    BY DEF IInv, TypeOK, FetchReturns
  <2>2. QED
    BY <1>1, <2>1, Decoded
<1>3. /\ UNCHANGED <<docs, adder, shown, mounted, op>>
      /\ fetch' = NoFetch
      /\ suspect' = {c \in Companies : docs[c] # fetch.docs[c] \/ ~Idle(c)}
  BY DEF FetchReturns
<1>4. TypeOK'
  BY <1>2, <1>3 DEF IInv, TypeOK
<1>5. OpenPages'
  <2>1. \A c \in Companies : \A i, j \in Of(list', c) : i = j
    BY <1>2 DEF Shows
  <2>2. adder # NoAdder => adder.id \in Companies
    BY DEF IInv, TypeOK
  <2>3. QED
    BY <1>3, <2>1, <2>2 DEF IInv, OpenPages, OnHome
<1>6. CallsMean'
  <2>1. ASSUME NEW p \in Pages, mounted[p], op[p].at = "updated"
        PROVE  shown[p].id \in suspect'
    <3>1. shown[p].id \in Companies
      BY <2>1 DEF IInv, OpenPages, TypeOK, Entries
    <3>2. ~Idle(shown[p].id)
      BY <2>1 DEF Idle
    <3>3. QED
      BY <1>3, <3>1, <3>2
  <2>2. ASSUME adder.at = "applied" PROVE adder.id \in suspect'
    <3>1. adder.id \in Companies
      BY <2>2 DEF IInv, TypeOK, NoAdder
    <3>2. ~Idle(adder.id)
      BY <2>2 DEF Idle
    <3>3. QED
      BY <1>3, <3>1, <3>2
  <2>3. QED
    BY <1>3, <2>1, <2>2 DEF IInv, CallsMean
<1>7. ASSUME NEW c \in Companies, c \notin suspect' PROVE Shows(list', c, docs'[c])
  BY <1>2, <1>3, <1>7
<1>8. Trusted'
  BY <1>7 DEF Trusted
<1>9. Found'
  BY <1>7 DEF Found, Shows
<1>10. QED
  BY <1>4, <1>5, <1>6, <1>8, <1>9 DEF IInv

\* The company is put into the list.
LEMMA AddReturnsKeeps == ASSUME IInv, AddReturns PROVE IInv'
<1> DEFINE o == [id |-> adder.id, name |-> adder.name,
                 tag |-> FreshTag(adder.id, OnPages \cup Range(list))]
<1>1. /\ adder.id \in Companies /\ adder.name \in Names
      /\ adder # NoAdder /\ adder.at # "none"
  BY DEF IInv, TypeOK, AddReturns, NoAdder
<1>2. o \in Entries
  <2>1. \A i, j \in Listed(adder.id) : i = j
    BY <1>1 DEF IInv, OpenPages, Of, Listed
  <2>2. FreshTag(adder.id, OnPages \cup Range(list)) \in Tags
    BY <2>1, TagOfAdded DEF IInv, TypeOK
  <2>3. QED
    BY <1>1, <2>2 DEF Entries
<1>3. list' \in Sorted(Append(list, o), DOMAIN Append(list, o))
  BY DEF AddReturns
<1>4. o.id = adder.id /\ o.name = adder.name /\ o.name # NoDoc
  BY <1>1, NamesAssumption
<1>5. list \in Seq(Entries)
  BY DEF IInv, TypeOK
<1> HIDE DEF o
<1>6. /\ list' \in Seq(Entries)
      /\ \A c : c # o.id => Stays(list', c)
      /\ Of(list', o.id) # {}
      /\ Of(list, o.id) = {} /\ o.name # NoDoc => Shows(list', o.id, o.name)
  BY <1>2, <1>3, <1>5, Adding
<1>7. /\ UNCHANGED <<docs, fetch, shown, mounted, op>>
      /\ adder' = NoAdder
      /\ suspect \subseteq suspect' /\ suspect' \subseteq suspect \cup {adder.id}
      /\ adder.at = "refused" \/ Of(list, adder.id) # {} => adder.id \in suspect'
      /\ adder.at \in {"applied", "refused"}
  BY DEF AddReturns, Listed, Of
<1>8. \A p \in Pages : ~mounted[p]
  BY <1>1 DEF IInv, OpenPages, OnHome
<1>9. TypeOK'
  BY <1>1, <1>6, <1>7 DEF IInv, TypeOK
<1>10. OpenPages'
  BY <1>7, <1>8 DEF IInv, OpenPages
<1>11. CallsMean'
  BY <1>7, <1>8 DEF CallsMean, NoAdder
<1>12. Trusted'
  <2>1. ASSUME NEW c \in Companies, Idle(c)', c \notin suspect'
        PROVE  Shows(list', c, docs[c])
    <3>1. CASE c = adder.id
      <4>1. ~Left(c)
        BY <1>7, <2>1 DEF Idle, Left
      <4>2. docs[c] = adder.name
        BY <1>7, <2>1, <3>1, <4>1 DEF IInv, CallsMean
      <4>3. QED
        BY <1>4, <1>6, <1>7, <2>1, <3>1, <4>2
    <3>2. CASE c # adder.id
      <4>1. Idle(c)
        BY <1>7, <2>1, <3>2 DEF Idle
      <4>2. Shows(list, c, docs[c])
        BY <1>7, <2>1, <4>1 DEF IInv, Trusted
      <4>3. Stays(list', c)
        BY <1>4, <1>6, <3>2
      <4>4. QED
        BY <4>2, <4>3 DEF Stays
    <3>3. QED
      BY <3>1, <3>2
  <2>2. QED
    BY <1>7, <2>1 DEF Trusted
<1>13. Found'
  <2>1. ASSUME NEW c \in Companies, docs[c] # NoDoc, c \notin suspect'
        PROVE  Of(list', c) # {}
    <3>1. CASE c = adder.id
      BY <1>4, <1>6, <3>1
    <3>2. CASE c # adder.id
      <4>1. Of(list, c) # {}
        BY <1>7, <2>1, <3>2 DEF IInv, Found
      <4>2. Stays(list', c)
        BY <1>4, <1>6, <3>2
      <4>3. QED
        BY <4>1, <4>2 DEF Stays
    <3>3. QED
      BY <3>1, <3>2
  <2>2. QED
    BY <1>7, <2>1 DEF Found
<1>14. QED
  BY <1>9, <1>10, <1>11, <1>12, <1>13 DEF IInv

\* An update begins: the object is edited.
LEMMA StartUpdateKeeps ==
  ASSUME IInv, NEW p \in Pages, NEW n \in Names, StartUpdate(p, n) PROVE IInv'
<1>1. list \in Seq(Entries) /\ shown[p] \in Entries /\ shown[p].id \in Companies
  BY DEF IInv, TypeOK, OpenPages, StartUpdate, Entries
<1>2. /\ list' \in Seq(Entries)
      /\ \A c : Of(list', c) = Of(list, c)
      /\ \A c : c # shown[p].id => \A d : Shows(list, c, d) => Shows(list', c, d)
  <2>1. list' = [i \in DOMAIN list |-> Renamed(list[i], p, n)]
    BY DEF StartUpdate
  <2>2. QED
    BY <1>1, <2>1, Renaming
<1>3. \A q \in Pages :
        /\ shown'[q] \in Entries \cup {NoEntry}
        /\ shown'[q].id = shown[q].id
        /\ shown'[q] = NoEntry <=> shown[q] = NoEntry
  <2>1. ASSUME NEW q \in Pages
        PROVE  /\ shown'[q] \in Entries \cup {NoEntry}
               /\ shown'[q].id = shown[q].id
               /\ shown'[q] = NoEntry <=> shown[q] = NoEntry
    <3>1. CASE shown[q] = NoEntry
      BY <3>1 DEF StartUpdate
    <3>2. CASE shown[q] # NoEntry
      <4>1. shown[q] \in Entries
        BY <3>2 DEF IInv, TypeOK
      <4>2. shown'[q] = Renamed(shown[q], p, n)
        BY <3>2 DEF StartUpdate
      <4>3. shown'[q] \in Entries /\ shown'[q].id = shown[q].id
        BY <4>1, <4>2 DEF Renamed, Entries
      <4>4. shown'[q] # NoEntry
        BY <4>3, CompaniesAssumption DEF Entries, NoEntry
      <4>5. QED
        BY <3>2, <4>3, <4>4
    <3>3. QED
      BY <3>1, <3>2
  <2>2. QED
    BY <2>1
<1>4. shown'[p].name = n
  <2>1. shown[p] # NoEntry
    BY <1>1, CompaniesAssumption DEF Entries, NoEntry
  <2>2. shown'[p] = Renamed(shown[p], p, n)
    BY <2>1 DEF StartUpdate
  <2>3. QED
    BY <1>1, <2>2 DEF Renamed, Same, Entries
<1>5. /\ UNCHANGED <<docs, fetch, adder, mounted, suspect>>
      /\ op' = [op EXCEPT ![p] = [at |-> "update", name |-> n]]
      /\ mounted[p] /\ op[p].at = "none"
  BY DEF StartUpdate
<1>6. /\ op'[p] = [at |-> "update", name |-> n]
      /\ \A q \in Pages : q # p => op'[q] = op[q] /\ ~mounted[q]
  BY <1>5 DEF IInv, TypeOK, OpenPages
<1>7. TypeOK'
  <2>1. shown' \in [Pages -> Entries \cup {NoEntry}]
    BY <1>3 DEF StartUpdate
  <2>2. op' \in [Pages -> [at : {"none", "update", "updated", "delete", "deleted",
                               "failed"}, name : Names \cup {NoDoc}]]
    BY <1>5 DEF IInv, TypeOK
  <2>3. QED
    BY <1>2, <1>5, <2>1, <2>2 DEF IInv, TypeOK
<1>8. OpenPages'
  BY <1>2, <1>3, <1>5, <1>6 DEF IInv, OpenPages, OnHome
<1>9. CallsMean'
  <2>1. adder = NoAdder
    BY <1>5 DEF IInv, OpenPages, OnHome
  <2>2. QED
    BY <1>4, <1>5, <1>6, <2>1 DEF CallsMean, NoAdder
<1>10. Trusted'
  <2>1. ASSUME NEW c \in Companies, Idle(c)', c \notin suspect
        PROVE  Shows(list', c, docs[c])
    <3>1. c # shown[p].id
      BY <1>3, <1>6, <2>1 DEF Idle
    <3>2. Idle(c)
      BY <1>3, <1>5, <1>6, <2>1, <3>1 DEF Idle
    <3>3. QED
      BY <1>2, <2>1, <3>1, <3>2 DEF IInv, Trusted
  <2>2. QED
    BY <1>5, <2>1 DEF Trusted
<1>11. Found'
  BY <1>2, <1>5 DEF IInv, Found
<1>12. QED
  BY <1>7, <1>8, <1>9, <1>10, <1>11 DEF IInv

\* The update took effect: what becomes of the list.
LEMMA UpdateShown ==
  ASSUME IInv, NEW p \in Pages, UpdateReturns(p)
  PROVE  /\ shown[p].id \in Companies
         /\ list' \in Seq(Entries)
         /\ \A c : c # shown[p].id => Stays(list', c)
         /\ op[p].name # NoDoc
         /\ Shows(list', shown[p].id, op[p].name)
<1> DEFINE o == shown[p]
<1>1. list \in Seq(Entries) /\ o \in Entries
  BY DEF IInv, TypeOK, OpenPages, UpdateReturns
<1>2. o.name # NoDoc /\ o.id \in Companies
  BY <1>1, NamesAssumption DEF Entries
<1>3. o.name = op[p].name
  BY DEF IInv, CallsMean, UpdateReturns
<1>4. list' \in Sorted(Append(list, o),
                      {i \in DOMAIN Append(list, o) :
                         i > Len(list) \/ Append(list, o)[i].id # o.id})
  BY DEF UpdateReturns
<1> HIDE DEF o
<1>5. /\ list' \in Seq(Entries)
      /\ \A c : c # o.id => Stays(list', c)
      /\ Shows(list', o.id, o.name)
  BY <1>1, <1>2, <1>4, Replacing
<1>6. \A c : c # shown[p].id => Stays(list', c)
  BY <1>5 DEF o
<1>7. shown[p].id \in Companies /\ list' \in Seq(Entries) /\ op[p].name # NoDoc
      /\ Shows(list', shown[p].id, op[p].name)
  BY <1>2, <1>3, <1>5 DEF o
<1>8. QED
  BY <1>6, <1>7

\* The object takes the place of every entry of its company.
LEMMA UpdateReturnsKeeps == ASSUME IInv, NEW p \in Pages, UpdateReturns(p) PROVE IInv'
<1> DEFINE k == shown[p].id
<1>1. /\ k \in Companies
      /\ list' \in Seq(Entries)
      /\ \A c : c # k => Stays(list', c)
      /\ op[p].name # NoDoc
      /\ Shows(list', k, op[p].name)
  BY UpdateShown
<1>2. /\ UNCHANGED <<docs, fetch, adder, mounted, suspect>>
      /\ mounted[p] /\ op[p].at = "updated"
      /\ op' = [op EXCEPT ![p] = NoOp]
      /\ shown' = shown
  BY DEF IInv, TypeOK, UpdateReturns, Done
<1>3. /\ op'[p] = NoOp
      /\ \A q \in Pages : q # p => op'[q] = op[q] /\ ~mounted[q]
  BY <1>2 DEF IInv, TypeOK, OpenPages
<1>4. adder = NoAdder
  BY <1>2 DEF IInv, OpenPages, OnHome
<1>5. TypeOK'
  BY <1>1, <1>2 DEF IInv, TypeOK, NoOp
<1>6. OpenPages'
  BY <1>2, <1>3, <1>4 DEF IInv, OpenPages, NoOp
<1>7. CallsMean'
  BY <1>2, <1>3, <1>4 DEF CallsMean, NoOp, NoAdder
<1>8. Trusted'
  <2>1. ASSUME NEW c \in Companies, Idle(c)', c \notin suspect
        PROVE  Shows(list', c, docs[c])
    <3>1. CASE c = k
      <4>1. ~Left(c)
        BY <1>2, <1>3, <2>1 DEF Idle, Left
      <4>2. docs[c] = op[p].name
        BY <1>2, <2>1, <3>1, <4>1 DEF IInv, CallsMean
      <4>3. QED
        BY <1>1, <3>1, <4>2
    <3>2. CASE c # k
      <4>1. Idle(c)
        BY <1>2, <1>3, <2>1, <3>2 DEF Idle
      <4>2. Stays(list', c)
        BY <1>1, <3>2
      <4>3. QED
        BY <2>1, <4>1, <4>2 DEF IInv, Trusted, Stays
    <3>3. QED
      BY <3>1, <3>2
  <2>2. QED
    BY <1>2, <2>1 DEF Trusted
<1>9. Found'
  <2>1. Of(list', k) # {}
    BY <1>1 DEF Shows
  <2>2. ASSUME NEW c \in Companies, docs[c] # NoDoc, c \notin suspect
        PROVE  Of(list', c) # {}
    <3>1. CASE c = k
      BY <2>1, <3>1
    <3>2. CASE c # k
      <4>1. Of(list, c) # {}
        BY <1>4, <2>2 DEF IInv, Found, NoAdder
      <4>2. Stays(list', c)
        BY <1>1, <3>2
      <4>3. QED
        BY <4>1, <4>2 DEF Stays
    <3>3. QED
      BY <3>1, <3>2
  <2>3. QED
    BY <1>2, <2>2 DEF Found
<1>10. QED
  BY <1>5, <1>6, <1>7, <1>8, <1>9 DEF IInv

\* The object leaves the list.
LEMMA DeleteReturnsKeeps == ASSUME IInv, NEW p \in Pages, DeleteReturns(p) PROVE IInv'
<1> DEFINE o == shown[p]
           K == {i \in DOMAIN list : ~Same(list[i], o)}
<1>1. list \in Seq(Entries) /\ o \in Entries /\ o.id \in Companies
  BY DEF IInv, TypeOK, OpenPages, DeleteReturns, Entries
<1>2. /\ UNCHANGED <<docs, fetch, adder>>
      /\ mounted[p] /\ op[p].at = "deleted"
      /\ mounted' = [mounted EXCEPT ![p] = FALSE]
      /\ shown' = [shown EXCEPT ![p] = NoEntry]
      /\ op' = [op EXCEPT ![p] = NoOp]
      /\ suspect' = suspect \cup ({o.id} \cap {list[i].id : i \in K})
      /\ list' \in Kept(list, K)
  BY DEF DeleteReturns
<1>3. /\ list' \in Seq(Entries)
      /\ \A c : c # o.id => Stays(list', c)
      /\ o.id \notin {list[i].id : i \in K} => Of(list', o.id) = {}
  <2> HIDE DEF o
  <2>1. QED
    BY <1>1, <1>2, Removing
<1>4. /\ ~mounted'[p] /\ shown'[p] = NoEntry /\ op'[p] = NoOp
      /\ \A q \in Pages : q # p => /\ op'[q] = op[q] /\ shown'[q] = shown[q]
                                  /\ ~mounted[q] /\ ~mounted'[q]
  BY <1>2 DEF IInv, TypeOK, OpenPages
<1>5. adder = NoAdder
  BY <1>2 DEF IInv, OpenPages, OnHome
<1>6. docs[o.id] = NoDoc
  BY <1>2 DEF IInv, CallsMean
<1>7. suspect \subseteq suspect' /\ (o.id \notin suspect' => Of(list', o.id) = {})
  BY <1>2, <1>3
<1>8. TypeOK'
  <2>1. suspect' \subseteq Companies
    BY <1>1, <1>2 DEF IInv, TypeOK
  <2> HIDE DEF o, K
  <2>2. QED
    BY <1>2, <1>3, <2>1 DEF IInv, TypeOK, NoOp
<1> HIDE DEF o, K
<1>9. OpenPages'
  BY <1>2, <1>4, <1>5 DEF IInv, OpenPages, NoOp
<1>10. CallsMean'
  BY <1>2, <1>4, <1>5 DEF CallsMean, NoAdder
<1>11. Trusted'
  <2>1. ASSUME NEW c \in Companies, Idle(c)', c \notin suspect'
        PROVE  Shows(list', c, docs[c])
    <3>1. CASE c = o.id
      BY <1>6, <1>7, <2>1, <3>1 DEF Shows
    <3>2. CASE c # o.id
      <4>1. Idle(c)
        BY <1>2, <1>4, <2>1, <3>2 DEF Idle, o
      <4>2. Stays(list', c)
        BY <1>3, <3>2
      <4>3. QED
        BY <1>7, <2>1, <4>1, <4>2 DEF IInv, Trusted, Stays
    <3>3. QED
      BY <3>1, <3>2
  <2>2. QED
    BY <1>2, <2>1 DEF Trusted
<1>12. Found'
  <2>1. ASSUME NEW c \in Companies, docs[c] # NoDoc, c \notin suspect'
        PROVE  Of(list', c) # {}
    <3>1. c # o.id
      BY <1>6, <2>1
    <3>2. Of(list, c) # {}
      BY <1>5, <1>7, <2>1 DEF IInv, Found, NoAdder
    <3>3. Stays(list', c)
      BY <1>3, <3>1
    <3>4. QED
      BY <3>2, <3>3 DEF Stays
  <2>2. QED
    BY <1>2, <2>1 DEF Found
<1>13. QED
  BY <1>8, <1>9, <1>10, <1>11, <1>12 DEF IInv
-----------------------------------------------------------------------------
\* Every step keeps the invariant.
LEMMA StepKeeps == ASSUME IInv, [Next]_vars PROVE IInv'
<1>1. CASE UNCHANGED vars
  <2>1. UNCHANGED <<docs, list, fetch, adder, shown, mounted, op, suspect>>
    BY <1>1 DEF vars
  <2>2. QED
    BY <2>1 DEF IInv, TypeOK, OpenPages, OnHome, CallsMean, Left, Trusted, Found, Idle
<1>2. CASE Refresh \/ Answer \/ FetchReturns
  BY <1>2, RefreshKeeps, AnswerKeeps, FetchReturnsKeeps
<1>3. CASE \E c \in Companies, n \in Names : StartAdd(c, n)
  BY <1>3, StartAddKeeps
<1>4. CASE AddAnswer \/ AddReturns \/ AddDies
  BY <1>4, AddAnswerKeeps, AddReturnsKeeps, AddDiesKeeps
<1>5. CASE \E p \in Pages : \E i \in DOMAIN list : OpenDetail(p, i)
  BY <1>5, OpenDetailKeeps
<1>6. CASE \E p \in Pages, n \in Names : StartUpdate(p, n)
  BY <1>6, StartUpdateKeeps
<1>7. CASE \E p \in Pages : LeaveDetail(p) \/ StartDelete(p) \/ OpAnswer(p)
  BY <1>7, LeaveDetailKeeps, StartDeleteKeeps, OpAnswerKeeps
<1>8. CASE \E p \in Pages : \/ ReturnsTooLate(p) \/ UpdateReturns(p) \/ OpFails(p)
                           \/ DeleteReturns(p)
  BY <1>8, ReturnsTooLateKeeps, UpdateReturnsKeeps, OpFailsKeeps, DeleteReturnsKeeps
<1>9. QED
  BY <1>1, <1>2, <1>3, <1>4, <1>5, <1>6, <1>7, <1>8 DEF Next

\* The invariant always holds.
THEOREM Inductive == Spec => []IInv
<1>1. Init => IInv
  BY InitHolds
<1>2. IInv /\ [Next]_vars => IInv'
  BY StepKeeps
<1>3. QED
  BY <1>1, <1>2, PTL DEF Spec

\* Every variable stays what it is declared to be: there is always a name left
\* for a new object.
THEOREM TypeCorrect == Spec => []TypeOK
<1>1. IInv => TypeOK
  BY DEF IInv
<1>2. QED
  BY <1>1, Inductive, PTL

\* The list says of a company what Firestore does, except for the known causes.
THEOREM ListIsTrusted == Spec => []ListTrusted
<1>1. IInv => ListTrusted
  BY Enough
<1>2. QED
  BY <1>1, Inductive, PTL

\* The lookup of ContactInfo finds the company of an intern.
THEOREM ContactAlwaysFound == Spec => []ContactFound
<1>1. IInv => ContactFound
  BY Enough
<1>2. QED
  BY <1>1, Inductive, PTL

\* Only the return of a refresh ends it.
LEMMA RefreshEnds ==
  ASSUME TypeOK, [Next]_vars, fetch.at = "answered", fetch' = NoFetch
  PROVE  FetchReturns
<1>1. fetch' # fetch
  BY DEF NoFetch
<1>2. ~Refresh /\ ~Answer
  BY <1>1 DEF Refresh, Answer, NoFetch, Waiting
<1>3. ~(AddAnswer \/ AddReturns \/ AddDies)
  BY <1>1 DEF AddAnswer, AddReturns, AddDies
<1>4. ~ \E p \in Pages : \/ LeaveDetail(p) \/ StartDelete(p) \/ OpAnswer(p)
                         \/ ReturnsTooLate(p) \/ UpdateReturns(p) \/ OpFails(p)
                         \/ DeleteReturns(p)
  BY <1>1 DEF LeaveDetail, StartDelete, OpAnswer, ReturnsTooLate, UpdateReturns, OpFails,
    DeleteReturns
<1>5. /\ ~ \E c \in Companies, n \in Names : StartAdd(c, n)
      /\ ~ \E p \in Pages : \E i \in DOMAIN list : OpenDetail(p, i)
      /\ ~ \E p \in Pages, n \in Names : StartUpdate(p, n)
  BY <1>1 DEF StartAdd, OpenDetail, StartUpdate
<1>6. QED
  BY <1>1, <1>2, <1>3, <1>4, <1>5 DEF Next, vars

\* A refresh whose answer is still true leaves every company right.
THEOREM RefreshAlwaysRepairs == Spec => RefreshRepairs
<1>1. ASSUME IInv, [Next]_vars, fetch.at = "answered", fetch' = NoFetch,
             fetch.docs = docs, NEW c \in Companies
      PROVE  Agrees(c)'
  <2>1. FetchReturns
    BY <1>1, RefreshEnds DEF IInv
  <2>2. docs \in [Companies -> Names \cup {NoDoc}] /\ list' \in Decode(docs)
        /\ shown \in [Pages -> Entries \cup {NoEntry}] /\ docs' = docs
    BY <1>1, <2>1 DEF IInv, TypeOK, FetchReturns
  <2>3. Shows(list', c, docs'[c])
    BY <2>2, Decoded
  <2>4. Listed(c)' = Of(list', c)
    BY DEF Listed, Of
  <2>5. QED
    BY <2>3, <2>4 DEF Agrees, Shows
<1>2. IInv /\ [Next]_vars =>
        [fetch.at = "answered" /\ fetch' = NoFetch /\ fetch.docs = docs
           => \A c \in Companies : Agrees(c)']_vars
  BY <1>1
<1>3. QED
  BY <1>2, Inductive, PTL DEF Spec, RefreshRepairs

\* Only the return of a successful update ends it on a page that is open.
LEMMA UpdateEnds ==
  ASSUME IInv, [Next]_vars, NEW p \in Pages, op[p].at = "updated", mounted[p],
         op'[p] = NoOp
  PROVE  UpdateReturns(p)
<1>1. op'[p] # op[p]
  BY DEF NoOp
<1>2. CASE \E q \in Pages : ReturnsTooLate(q) \/ UpdateReturns(q) \/ OpFails(q)
                           \/ DeleteReturns(q)
  <2>1. PICK q \in Pages : \/ ReturnsTooLate(q) \/ UpdateReturns(q) \/ OpFails(q)
                           \/ DeleteReturns(q)
    BY <1>2
  <2>2. op' = [op EXCEPT ![q] = NoOp]
    BY <2>1 DEF ReturnsTooLate, UpdateReturns, OpFails, DeleteReturns, Done
  <2>3. q = p
    BY <1>1, <2>2 DEF IInv, TypeOK
  <2>4. ~ReturnsTooLate(p) /\ ~OpFails(p) /\ ~DeleteReturns(p)
    BY DEF ReturnsTooLate, OpFails, DeleteReturns
  <2>5. QED
    BY <2>1, <2>3, <2>4
<1>3. CASE \E q \in Pages : LeaveDetail(q) \/ StartDelete(q) \/ OpAnswer(q)
  BY <1>1, <1>3 DEF IInv, TypeOK, LeaveDetail, StartDelete, OpAnswer, NoOp
<1>4. CASE \E q \in Pages, n \in Names : StartUpdate(q, n)
  BY <1>1, <1>4 DEF IInv, TypeOK, StartUpdate, NoOp
<1>5. QED
  BY <1>1, <1>2, <1>3, <1>4 DEF Next, vars, Refresh, Answer, FetchReturns, StartAdd,
    AddAnswer, AddReturns, AddDies, OpenDetail

\* A successful update leaves one entry of its company, with what was saved.
THEOREM UpdateAlwaysLeavesOne == Spec => UpdateLeavesOne
<1>1. ASSUME IInv, [Next]_vars, NEW p \in Pages, NEW c \in Companies,
             op[p].at = "updated", mounted[p], shown[p].id = c, op'[p] = NoOp
      PROVE  \E i \in DOMAIN list' : Listed(c)' = {i} /\ list'[i].name = op[p].name
  <2>1. UpdateReturns(p)
    BY <1>1, UpdateEnds
  <2>2. op[p].name # NoDoc /\ Shows(list', c, op[p].name)
    BY <1>1, <2>1, UpdateShown
  <2>3. Listed(c)' = Of(list', c)
    BY DEF Listed, Of
  <2>4. QED
    BY <2>2, <2>3 DEF Shows
<1>2. IInv /\ [Next]_vars =>
        [\A p \in Pages, c \in Companies :
           op[p].at = "updated" /\ mounted[p] /\ shown[p].id = c /\ op'[p] = NoOp
           => \E i \in DOMAIN list' :
                Listed(c)' = {i} /\ list'[i].name = op[p].name]_vars
  BY <1>1
<1>3. QED
  BY <1>2, Inductive, PTL DEF Spec, UpdateLeavesOne
=============================================================================
