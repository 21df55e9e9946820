---------------------------- MODULE InternProofs ----------------------------
(***************************************************************************)
(* Theorems about what is kept and shown of an intern: the list of a       *)
(* company (Interns), the object of that list and the document behind it   *)
(* (Records), and the colour on Home (Attendance).                         *)
(***************************************************************************)
EXTENDS Interns, Records, Attendance, FiniteSetTheorems, SequenceTheorems,
        WellFoundedInduction, TLAPS

-----------------------------------------------------------------------------
(***************************************************************************)
(* Interns: the list of a company, for every set of interns, companies and *)
(* queries that overlap.                                                   *)
(***************************************************************************)
IsObject(o) == o = [who |-> o.who, tag |-> o.tag, firm |-> o.firm]

\* A query that the page will draw asks for the company of the page that is
\* open; a page that is left disowns its queries.
OwnQueries ==
  \A f \in Fetches :
    fetch[f] # NoFetch /\ fetch[f].mine => page # None /\ fetch[f].firm = page

FetchStates == {NoFetch} \cup Queries \cup Answers

TInv ==
  /\ page \in Companies \cup {None}
  /\ fetch \in [Fetches -> FetchStates]
  /\ \A o \in list \cup drawn : IsObject(o)
  /\ mounted => IsObject(person)

IInv == TInv /\ OwnQueries /\ OneEntry

\* What an answer is made of.
LEMMA Decoded ==
  ASSUME NEW ws, NEW c
  PROVE  /\ \A o \in Decode(ws, c) : IsObject(o) /\ o.firm = c
         /\ \A o1, o2 \in Decode(ws, c) : o1.who = o2.who => o1 = o2
BY DEF Decode, IsObject

\* Assigning to an object keeps its uid and its tag.
LEMMA MovedKeeps ==
  ASSUME NEW os, NEW c, \A o \in os : IsObject(o)
  PROVE  /\ \A o \in os : /\ IsObject(Moved(o, c))
                          /\ Moved(o, c).who = o.who /\ Moved(o, c).tag = o.tag
         /\ \A o \in MovedAll(os, c) : IsObject(o)
         /\ (\A o1, o2 \in os : o1.who = o2.who => o1 = o2)
            => \A o1, o2 \in MovedAll(os, c) : o1.who = o2.who => o1 = o2
<1>1. ASSUME NEW o \in os
      PROVE  /\ IsObject(Moved(o, c))
             /\ Moved(o, c).who = o.who /\ Moved(o, c).tag = o.tag
  <2>1. o = [who |-> o.who, tag |-> o.tag, firm |-> o.firm]
    BY DEF IsObject
  <2>2. [o EXCEPT !.firm = c] = [who |-> o.who, tag |-> o.tag, firm |-> c]
    BY <2>1
  <2>3. QED
    BY <2>1, <2>2 DEF Moved, IsObject
<1>2. QED
  BY <1>1 DEF MovedAll

\* The invariant holds at first.
LEMMA Initially == Init => IInv
BY DEF Init, IInv, TInv, FetchStates, OwnQueries, OneEntry

\* What a query asks for.
LEMMA Asks ==
  ASSUME IInv, NEW f \in Fetches, NEW c \in Companies, Ask(f, c), page' = c,
         \A g \in Fetches : fetch[g] # NoFetch /\ fetch[g].mine => fetch[g].firm = c
  PROVE  OwnQueries' /\ fetch' \in [Fetches -> FetchStates]
<1> DEFINE q == [at |-> "sent", firm |-> c, mine |-> TRUE]
<1>1. q \in Queries /\ q.firm = c
  BY DEF Queries
<1>2. fetch' = [fetch EXCEPT ![f] = q]
  BY DEF Ask
<1> HIDE DEF q
<1>3. fetch' \in [Fetches -> FetchStates]
  BY <1>1, <1>2 DEF IInv, TInv, FetchStates
<1>4. OwnQueries'
  BY <1>1, <1>2, NoneAssumption DEF IInv, TInv, OwnQueries
<1>5. QED
  BY <1>3, <1>4

\* Firestore answers a query for whoever asked it.
LEMMA AnswerStep == ASSUME IInv, NEW f \in Fetches, Answer(f) PROVE IInv'
<1>1. fetch[f] \in Queries /\ fetch[f] # NoFetch
  BY DEF Answer, IInv, TInv, FetchStates, NoFetch, Answers
<1>2. PICK got \in SUBSET People :
        fetch' = [fetch EXCEPT ![f] =
          [at |-> "answered", mine |-> @.mine, firm |-> @.firm, got |-> got]]
  BY DEF Answer
<1> DEFINE a == [at |-> "answered", mine |-> fetch[f].mine, firm |-> fetch[f].firm,
                 got |-> got]
<1>3. a \in Answers /\ a.mine = fetch[f].mine /\ a.firm = fetch[f].firm
  BY <1>1 DEF Answers, Queries
<1>4. fetch' = [fetch EXCEPT ![f] = a]
  BY <1>2
<1> HIDE DEF a
<1>5. fetch' \in [Fetches -> FetchStates] /\ OwnQueries'
  BY <1>1, <1>3, <1>4 DEF Answer, IInv, TInv, FetchStates, OwnQueries
<1>6. QED
  BY <1>5 DEF Answer, IInv, TInv, OneEntry

\* An answer makes the list anew.
LEMMA FetchReturnsStep == ASSUME IInv, NEW f \in Fetches, FetchReturns(f) PROVE IInv'
<1>1. fetch' \in [Fetches -> FetchStates] /\ OwnQueries'
  BY DEF FetchReturns, IInv, TInv, FetchStates, OwnQueries
<1>2. (\A o \in list' : IsObject(o)) /\ OneEntry'
  BY Decoded DEF FetchReturns, IInv, TInv, OneEntry
<1>3. \A o \in drawn' : IsObject(o)
  BY <1>2 DEF FetchReturns, IInv, TInv
<1>4. QED
  BY <1>1, <1>2, <1>3 DEF FetchReturns, IInv, TInv

\* The page is opened, read again, and left.
LEMMA PageSteps ==
  ASSUME IInv,
         \/ \E f \in Fetches : Refresh(f) \/ \E c \in Companies : OpenDetail(f, c)
         \/ LeaveDetail \/ Rebuild
  PROVE  IInv'
<1>1. ASSUME NEW f \in Fetches, NEW c \in Companies, OpenDetail(f, c) PROVE IInv'
  <2>1. OwnQueries' /\ fetch' \in [Fetches -> FetchStates]
    BY <1>1, Asks DEF OpenDetail, IInv, OwnQueries
  <2>2. QED
    BY <1>1, <2>1 DEF OpenDetail, IInv, TInv, OneEntry
<1>2. ASSUME NEW f \in Fetches, Refresh(f) PROVE IInv'
  <2>1. OwnQueries' /\ fetch' \in [Fetches -> FetchStates]
    BY <1>2, Asks DEF Refresh, IInv, TInv, OwnQueries
  <2>2. QED
    BY <1>2, <2>1 DEF Refresh, IInv, TInv, OneEntry
<1>3. CASE LeaveDetail
  <2> DEFINE left(q) == [q EXCEPT !.mine = FALSE]
  <2>1. \A f \in Fetches : fetch[f] # NoFetch =>
          left(fetch[f]) \in Queries \cup Answers /\ left(fetch[f]).mine = FALSE
    BY DEF IInv, TInv, FetchStates, Queries, Answers
  <2>2. fetch' = [f \in Fetches |-> IF fetch[f] = NoFetch THEN NoFetch
                                    ELSE left(fetch[f])]
    BY <1>3 DEF LeaveDetail
  <2> HIDE DEF left
  <2>3. fetch' \in [Fetches -> FetchStates] /\ OwnQueries'
    BY <2>1, <2>2 DEF FetchStates, OwnQueries
  <2>4. QED
    BY <1>3, <2>3 DEF LeaveDetail, IInv, TInv, OneEntry
<1>4. CASE Rebuild
  BY <1>4 DEF Rebuild, IInv, TInv, OwnQueries, OneEntry
<1>5. QED
  BY <1>1, <1>2, <1>3, <1>4
-----------------------------------------------------------------------------
\* The view of an intern, opened from a tile or from Home, and left.
LEMMA ViewSteps ==
  ASSUME IInv,
         \/ \E o \in drawn : OpenTile(o)
         \/ \E w \in People : OpenLive(w)
         \/ LeavePerson \/ StartDelete \/ OpAnswer \/ OpFails \/ ReturnsTooLate
  PROVE  IInv'
<1>1. /\ UNCHANGED <<list, page, drawn, fetch>>
      /\ mounted' => IsObject(person')
  <2>1. ASSUME NEW o \in drawn, OpenTile(o) PROVE <1>1!1 /\ <1>1!2
    BY <2>1 DEF OpenTile, Open, IInv, TInv
  <2>2. ASSUME NEW w \in People, OpenLive(w) PROVE <1>1!1 /\ <1>1!2
    BY <2>2 DEF OpenLive, Open, IsObject
  <2>3. CASE LeavePerson \/ StartDelete \/ OpAnswer \/ OpFails \/ ReturnsTooLate
    BY <2>3 DEF LeavePerson, StartDelete, OpAnswer, OpFails, ReturnsTooLate, IInv, TInv
  <2>4. QED
    BY <2>1, <2>2, <2>3
<1>2. QED
  BY <1>1 DEF IInv, TInv, OwnQueries, OneEntry

\* An edit is written into the objects at once.
LEMMA StartUpdateStep ==
  ASSUME IInv, NEW c \in Targets, StartUpdate(c) PROVE IInv'
<1>1. /\ list' = MovedAll(list, c) /\ drawn' = MovedAll(drawn, c)
      /\ mounted /\ person' = [person EXCEPT !.firm = c]
      /\ UNCHANGED <<page, fetch, mounted>>
  BY DEF StartUpdate
<1>2. /\ \A o \in list' : IsObject(o)
      /\ \A o1, o2 \in list' : o1.who = o2.who => o1 = o2
  BY <1>1, MovedKeeps DEF IInv, TInv, OneEntry
<1>3. \A o \in drawn' : IsObject(o)
  BY <1>1, MovedKeeps DEF IInv, TInv
<1>4. IsObject(person')
  BY <1>1 DEF IInv, TInv, IsObject
<1>5. QED
  BY <1>1, <1>2, <1>3, <1>4 DEF IInv, TInv, OwnQueries, OneEntry

\* A call that returns puts the object into the list or takes it out.
LEMMA ReturnSteps ==
  ASSUME IInv, UpdateReturns \/ DeleteReturns \/ DeleteReturnsHome PROVE IInv'
<1>1. CASE UpdateReturns
  BY <1>1 DEF UpdateReturns, IInv, TInv, OwnQueries, OneEntry
<1>2. CASE DeleteReturns
  BY <1>2 DEF DeleteReturns, IInv, TInv, OwnQueries, OneEntry
<1>3. CASE DeleteReturnsHome
  BY <1>3 DEF DeleteReturnsHome, IInv, TInv, OwnQueries, OneEntry
<1>4. QED
  BY <1>1, <1>2, <1>3

\* The application starts with nothing in memory.
LEMMA RestartStep == IInv /\ Restart => IInv'
BY DEF Restart, IInv, TInv, FetchStates, OwnQueries, OneEntry
-----------------------------------------------------------------------------
\* IInv holds in every behaviour.
THEOREM Inductive == Spec => []IInv
<1>1. IInv /\ [Next]_vars => IInv'
  <2> SUFFICES ASSUME IInv, [Next]_vars PROVE IInv'
    OBVIOUS
  <2>1. CASE UNCHANGED vars
    BY <2>1 DEF vars, IInv, TInv, OwnQueries, OneEntry
  <2>2. ASSUME NEW f \in Fetches, Answer(f) \/ FetchReturns(f) PROVE IInv'
    BY <2>2, AnswerStep, FetchReturnsStep
  <2>3. ASSUME NEW c \in Targets, StartUpdate(c) PROVE IInv'
    BY <2>3, StartUpdateStep
  <2>4. QED
    BY <2>1, <2>2, <2>3, PageSteps, ViewSteps, ReturnSteps, RestartStep DEF Next
<1>2. QED
  BY <1>1, Initially, PTL DEF Spec

\* An intern is in the list once, whatever queries and edits overlap.
THEOREM ListedOnce == Spec => []OneEntry
<1>1. IInv => OneEntry
  BY DEF IInv
<1>2. QED
  BY <1>1, Inductive, PTL

\* The intern of another company gets into the list of a page that is open
\* only with a late answer, or by being moved there.
THEOREM ForeignExplained == Spec => ForeignOnlyLate
<1> DEFINE Explained(o) == \/ o.firm = page'
                           \/ o \in list /\ page = page'
                           \/ \E f \in Fetches : fetch[f].at = "answered"
                                /\ ~fetch[f].mine /\ fetch'[f] = NoFetch
                           \/ op # op'
<1>1. IInv /\ [Next]_vars => (page' # None => \A o \in list' : Explained(o))
  <2> SUFFICES ASSUME IInv, [Next]_vars, page' # None, NEW o \in list'
               PROVE  Explained(o)
    OBVIOUS
  <2>1. ASSUME NEW f \in Fetches, FetchReturns(f) PROVE Explained(o)
    <3>1. CASE fetch[f].got = {}
      BY <2>1, <3>1 DEF FetchReturns
    <3>2. CASE ~fetch[f].mine
      BY <2>1, <3>2 DEF FetchReturns, IInv, TInv
    <3>3. CASE fetch[f].got # {} /\ fetch[f].mine
      <4>1. fetch[f].firm = page
        BY <2>1, <3>3 DEF FetchReturns, NoFetch, IInv, OwnQueries
      <4>2. QED
        BY <2>1, <3>3, <4>1, Decoded DEF FetchReturns
    <3>4. QED
      BY <3>1, <3>2, <3>3
  <2>2. ASSUME NEW f \in Fetches,
               Refresh(f) \/ Answer(f) \/ \E c \in Companies : OpenDetail(f, c)
        PROVE  Explained(o)
    BY <2>2 DEF Refresh, Answer, OpenDetail
  <2>3. CASE \/ \E p \in drawn : OpenTile(p)
             \/ \E w \in People : OpenLive(w)
             \/ Rebuild \/ LeavePerson \/ StartDelete \/ OpAnswer \/ OpFails
             \/ ReturnsTooLate \/ UNCHANGED vars
    BY <2>3 DEF OpenTile, OpenLive, Open, Rebuild, LeavePerson, StartDelete,
                OpAnswer, OpFails, ReturnsTooLate, vars
  <2>4. CASE LeaveDetail \/ Restart
    BY <2>4 DEF LeaveDetail, Restart
  <2>5. ASSUME NEW c \in Targets, StartUpdate(c) PROVE Explained(o)
    BY <2>5 DEF StartUpdate, NoOp
  <2>6. CASE UpdateReturns
    BY <2>6 DEF UpdateReturns, NoOp
  <2>7. CASE DeleteReturns \/ DeleteReturnsHome
    BY <2>7 DEF DeleteReturns, DeleteReturnsHome
  <2>8. QED
    BY <2>1, <2>2, <2>3, <2>4, <2>5, <2>6, <2>7 DEF Next
<1>2. QED
  BY <1>1, Inductive, PTL DEF Spec, ForeignOnlyLate

\* A deletion takes the tile away if the list holds the object it began with:
\* by OneEntry there is no other of that uid.
THEOREM DeletedGone == Spec => DeletedIsUndrawn
<1>1. IInv /\ [Next]_vars =>
        (/\ mounted /\ op.at = "deleted" /\ op' = NoOp /\ page' # None
         /\ ~loading /\ \E o \in list : Same(o, person)
         => \A o \in drawn' : o.who # person.who)
  <2> SUFFICES ASSUME IInv, [Next]_vars,
                      mounted, op.at = "deleted", op' = NoOp, page' # None,
                      ~loading, NEW p \in list, Same(p, person)
               PROVE  \A o \in drawn' : o.who # person.who
    OBVIOUS
  <2>1. op # NoOp
    BY DEF NoOp
  <2>2. DeleteReturns
    BY <2>1 DEF Next, vars, NoOp, OpenDetail, Refresh, Answer, FetchReturns, Rebuild,
       LeaveDetail, OpenTile, OpenLive, Open, LeavePerson, StartUpdate, StartDelete,
       OpAnswer, UpdateReturns, OpFails, DeleteReturnsHome, ReturnsTooLate, Restart
  <2>3. drawn' = {o \in list : ~Same(o, person)}
    BY <2>2 DEF DeleteReturns
  <2>4. QED
    BY <2>3 DEF IInv, OneEntry, Same
<1>2. QED
  BY <1>1, Inductive, PTL DEF Spec, DeletedIsUndrawn
-----------------------------------------------------------------------------
\* The types need more than TInv: that a free name is left for a new object, for
\* which the tiles, too, have an intern once, and that a call is about someone.
TilesOnce == \A o1, o2 \in drawn : o1.who = o2.who => o1 = o2
SInv ==
  /\ TypeOK
  /\ OneEntry
  /\ TilesOnce
  /\ mounted \/ op # NoOp => person \in Objects

\* A set of numbers has a least.
LEMMA LeastTag ==
  ASSUME NEW S \in SUBSET Nat, S # {}
  PROVE  Min(S) \in S
<1>1. IsWellFoundedOn(OpToRel(<, Nat), Nat)
  BY NatLessThanWellFounded
<1>2. PICK m \in S : \A x \in S : <<x, m>> \notin OpToRel(<, Nat)
  BY <1>1, WFMin
<1>3. \A x \in S : x \in Nat /\ m \in Nat
  OBVIOUS
<1>4. \A x \in S : ~(x < m)
  BY <1>2, <1>3 DEF OpToRel
<1>5. \A x \in S : m <= x
  BY <1>3, <1>4
<1>6. QED
  BY <1>5 DEF Min

\* One name more.
With(T, x) == T \cup {x}
AtMost(T, n) == IsFiniteSet(T) /\ Cardinality(T) <= n

\* It makes the set larger by one at most.
LEMMA OneMore ==
  ASSUME NEW T, NEW x, NEW n \in Nat, AtMost(T, n)
  PROVE  AtMost(With(T, x), n + 1)
<1>1. Cardinality(T) \in Nat /\ IsFiniteSet(T) /\ Cardinality(T) <= n
  BY FS_CardinalityType DEF AtMost
<1>2. /\ IsFiniteSet(T \cup {x})
      /\ Cardinality(T \cup {x}) = IF x \in T THEN Cardinality(T) ELSE Cardinality(T) + 1
  BY <1>1, FS_AddElement
<1>3. Cardinality(T \cup {x}) <= n + 1
  BY <1>1, <1>2
<1>4. QED
  BY <1>2, <1>3 DEF AtMost, With

\* Three names are never all there are.
LEMMA AnotherTag ==
  ASSUME NEW a, NEW b, NEW c
  PROVE  \E t \in Tags : t \notin {a, b, c}
<1> DEFINE S == With(With(With({}, a), b), c)
<1>1. AtMost({}, 0)
  BY FS_EmptySet DEF AtMost
<1>2. AtMost(With({}, a), 0 + 1)
  BY <1>1, OneMore
<1>3. AtMost(With(With({}, a), b), 1 + 1)
  BY <1>2, OneMore
<1>4. AtMost(S, 2 + 1)
  BY <1>3, OneMore
<1> HIDE DEF S
<1>5. IsFiniteSet(S) /\ Cardinality(S) <= 3
  BY <1>4 DEF AtMost
<1> DEFINE R == S \cap Tags
<1>6. /\ IsFiniteSet(R) /\ Cardinality(R) <= Cardinality(S)
      /\ Cardinality(R) \in Nat /\ Cardinality(S) \in Nat
  BY <1>5, FS_Subset, FS_CardinalityType
<1>7. R # Tags
  BY <1>5, <1>6, TagsAssumption
<1>8. \E t \in Tags : t \notin S
  BY <1>7
<1>9. QED
  BY <1>8 DEF S, With

\* So there is one for a new object.
LEMMA FreshTagType ==
  ASSUME OneEntry, TilesOnce, NEW w
  PROVE  FreshTag(w) \in Tags
<1> DEFINE F == {t \in Tags : \A o \in list \cup drawn \cup {person} : o.who = w => o.tag # t}
<1>1. \E a : \A o \in list : o.who = w => o.tag = a
  BY DEF OneEntry
<1>2. \E b : \A o \in drawn : o.who = w => o.tag = b
  BY DEF TilesOnce
<1>3. PICK a : \A o \in list : o.who = w => o.tag = a
  BY <1>1
<1>4. PICK b : \A o \in drawn : o.who = w => o.tag = b
  BY <1>2
<1>5. PICK t \in Tags : t \notin {a, b, person.tag}
  BY AnotherTag
<1>6. t \in F
  BY <1>3, <1>4, <1>5
<1>7. F \in SUBSET Nat /\ F # {}
  BY <1>6, TagsAssumption
<1>8. Min(F) \in F
  BY <1>7, LeastTag
<1>9. QED
  BY <1>8 DEF FreshTag

\* An answer is made of objects, one for each intern.
LEMMA DecodedType ==
  ASSUME SInv, NEW ws \in SUBSET People, NEW c \in Companies
  PROVE  /\ Decode(ws, c) \subseteq Objects
         /\ \A o1, o2 \in Decode(ws, c) : o1.who = o2.who => o1 = o2
<1>1. \A w \in ws : FreshTag(w) \in Tags
  BY FreshTagType DEF SInv
<1>2. QED
  BY <1>1 DEF Decode, Objects

\* An edit keeps an object one.
LEMMA MovedType ==
  ASSUME NEW os \in SUBSET Objects, NEW c \in Companies
  PROVE  MovedAll(os, c) \subseteq Objects
<1>1. ASSUME NEW o \in os PROVE Moved(o, c) \in Objects
  BY DEF Moved, Objects
<1>2. QED
  BY <1>1 DEF MovedAll

\* The states of a call.
LEMMA CallTypes ==
  /\ NoOp.at = "none"
  /\ \A o \in [at : Calls, to : Companies \cup {None}] :
       /\ o # NoOp /\ o.at \in Calls /\ o.to \in Companies \cup {None}
       /\ o = [at |-> o.at, to |-> o.to]
       /\ \A k \in Calls : [o EXCEPT !.at = k] \in [at : Calls, to : Companies \cup {None}]
<1>1. \A o \in [at : Calls, to : Companies \cup {None}] : o.at # "none"
  BY DEF Calls
<1>2. QED
  BY <1>1 DEF NoOp

\* The invariant holds at first.
LEMMA TypesInitially == Init => SInv
BY DEF Init, SInv, TypeOK, OneEntry, TilesOnce

\* The page, its queries and their answers.
LEMMA TypesOfPage ==
  ASSUME SInv,
         \/ \E f \in Fetches :
              \/ \E c \in Companies : OpenDetail(f, c)
              \/ Refresh(f) \/ Answer(f) \/ FetchReturns(f)
         \/ Rebuild \/ LeaveDetail
  PROVE  SInv'
<1> DEFINE States == {NoFetch} \cup Queries \cup Answers
<1>1. TypeOK /\ OneEntry /\ TilesOnce /\ fetch \in [Fetches -> States]
  BY DEF SInv, TypeOK
<1>2. ASSUME UNCHANGED <<docs, person, mounted, op>>,
             page' \in Companies \cup {None}, loading' \in BOOLEAN,
             list' \subseteq Objects, drawn' \subseteq Objects, OneEntry', TilesOnce',
             fetch' \in [Fetches -> States]
      PROVE  SInv'
  BY <1>2 DEF SInv, TypeOK
<1>3. ASSUME NEW f \in Fetches, NEW c \in Companies, Ask(f, c)
      PROVE  fetch' \in [Fetches -> States]
  <2>1. [at |-> "sent", firm |-> c, mine |-> TRUE] \in Queries
    BY DEF Queries
  <2>2. QED
    BY <1>1, <1>3, <2>1 DEF Ask
<1>4. ASSUME NEW f \in Fetches, NEW c \in Companies, OpenDetail(f, c) PROVE SInv'
  <2>1. list' = {} /\ OneEntry' /\ TilesOnce'
    BY <1>1, <1>4 DEF OpenDetail, OneEntry, TilesOnce
  <2>2. fetch' \in [Fetches -> States]
    BY <1>3, <1>4 DEF OpenDetail
  <2> HIDE DEF States
  <2>3. QED
    BY <1>1, <1>2, <1>4, <2>1, <2>2 DEF OpenDetail, TypeOK
<1>5. ASSUME NEW f \in Fetches, Refresh(f) PROVE SInv'
  <2>1. list' = {} /\ OneEntry' /\ TilesOnce'
    BY <1>1, <1>5 DEF Refresh, OneEntry, TilesOnce
  <2>2. page \in Companies
    BY <1>1, <1>5 DEF Refresh, TypeOK
  <2>3. fetch' \in [Fetches -> States]
    BY <1>3, <1>5, <2>2 DEF Refresh
  <2> HIDE DEF States
  <2>4. QED
    BY <1>1, <1>2, <1>5, <2>1, <2>3 DEF Refresh, TypeOK
<1>6. ASSUME NEW f \in Fetches, Answer(f) PROVE SInv'
  <2>1. PICK got \in SUBSET People :
          fetch' = [fetch EXCEPT ![f] =
            [at |-> "answered", mine |-> @.mine, firm |-> @.firm, got |-> got]]
    BY <1>6 DEF Answer
  <2>2. fetch[f] \in Queries
    BY <1>1, <1>6 DEF Answer, NoFetch, Queries, Answers
  <2>3. [at |-> "answered", mine |-> fetch[f].mine, firm |-> fetch[f].firm, got |-> got]
          \in Answers
    BY <2>2 DEF Queries, Answers
  <2>4. fetch' \in [Fetches -> States]
    BY <1>1, <2>1, <2>3
  <2> HIDE DEF States
  <2>5. QED
    BY <1>1, <1>2, <1>6, <2>4 DEF Answer, TypeOK, OneEntry, TilesOnce
<1>7. ASSUME NEW f \in Fetches, FetchReturns(f) PROVE SInv'
  <2>1. fetch[f] \in Answers
    BY <1>1, <1>7 DEF FetchReturns, NoFetch, Queries, Answers
  <2>2. fetch[f].got \in SUBSET People /\ fetch[f].firm \in Companies
    BY <2>1 DEF Answers
  <2>3. list' \subseteq Objects /\ OneEntry'
    BY <1>1, <1>7, <2>2, DecodedType DEF FetchReturns, TypeOK, OneEntry
  <2>4. drawn' \subseteq Objects /\ TilesOnce'
    BY <1>1, <1>7, <2>3 DEF FetchReturns, TypeOK, OneEntry, TilesOnce
  <2>5. fetch' \in [Fetches -> States]
    BY <1>1, <1>7 DEF FetchReturns
  <2> HIDE DEF States
  <2>6. QED
    BY <1>1, <1>2, <1>7, <2>3, <2>4, <2>5 DEF FetchReturns, TypeOK
<1>8. CASE Rebuild
  <2>1. TilesOnce' /\ OneEntry'
    BY <1>1, <1>8 DEF Rebuild, OneEntry, TilesOnce
  <2> HIDE DEF States
  <2>2. QED
    BY <1>1, <1>2, <1>8, <2>1 DEF Rebuild, TypeOK
<1>9. CASE LeaveDetail
  <2> DEFINE left(q) == [q EXCEPT !.mine = FALSE]
  <2>1. \A f \in Fetches : fetch[f] # NoFetch => left(fetch[f]) \in Queries \cup Answers
    BY <1>1 DEF Queries, Answers
  <2>2. fetch' = [f \in Fetches |-> IF fetch[f] = NoFetch THEN NoFetch ELSE left(fetch[f])]
    BY <1>9 DEF LeaveDetail
  <2> HIDE DEF left
  <2>3. fetch' \in [Fetches -> States]
    BY <2>1, <2>2
  <2>4. TilesOnce' /\ OneEntry'
    BY <1>1, <1>9 DEF LeaveDetail, OneEntry, TilesOnce
  <2> HIDE DEF States
  <2>5. QED
    BY <1>1, <1>2, <1>9, <2>3, <2>4 DEF LeaveDetail, TypeOK
<1>10. QED
  BY <1>4, <1>5, <1>6, <1>7, <1>8, <1>9

\* The view of an intern and its calls.
LEMMA TypesOfView ==
  ASSUME SInv,
         \/ \E o \in drawn : OpenTile(o)
         \/ \E w \in People : OpenLive(w)
         \/ \E c \in Targets : StartUpdate(c)
         \/ LeavePerson \/ StartDelete \/ OpAnswer
         \/ UpdateReturns \/ OpFails \/ DeleteReturns \/ DeleteReturnsHome
         \/ ReturnsTooLate
  PROVE  SInv'
<1> DEFINE Call == [at : Calls, to : Companies \cup {None}]
<1>1. TypeOK /\ OneEntry /\ TilesOnce /\ (mounted \/ op # NoOp => person \in Objects)
  BY DEF SInv
<1>2. ASSUME UNCHANGED <<page, loading, fetch>>,
             docs' \in [People -> Companies \cup {None}],
             list' \subseteq Objects, drawn' \subseteq Objects, OneEntry', TilesOnce',
             person' \in Objects \cup {NoPerson}, mounted' \in BOOLEAN,
             op' = NoOp \/ op' \in Call, mounted' \/ op' # NoOp => person' \in Objects
      PROVE  SInv'
  BY <1>1, <1>2 DEF SInv, TypeOK
<1>3. ASSUME UNCHANGED <<page, loading, fetch, docs, list, drawn>>,
             person' \in Objects \cup {NoPerson}, mounted' \in BOOLEAN,
             op' = NoOp \/ op' \in Call, mounted' \/ op' # NoOp => person' \in Objects
      PROVE  SInv'
  BY <1>1, <1>2, <1>3 DEF TypeOK, OneEntry, TilesOnce
<1>4. ASSUME NEW o \in drawn, OpenTile(o) PROVE SInv'
  BY <1>1, <1>3, <1>4 DEF OpenTile, Open, TypeOK
<1>5. ASSUME NEW w \in People, OpenLive(w) PROVE SInv'
  <2>1. FreshTag(w) \in Tags /\ docs[w] \in Companies
    BY <1>1, <1>5, FreshTagType DEF OpenLive, TypeOK
  <2>2. [who |-> w, tag |-> FreshTag(w), firm |-> docs[w]] \in Objects
    BY <2>1 DEF Objects
  <2>3. QED
    BY <1>3, <1>5, <2>2 DEF OpenLive, Open
<1>6. ASSUME NEW c \in Targets, StartUpdate(c) PROVE SInv'
  <2>1. c \in Companies /\ person \in Objects
    BY <1>1, <1>6, NoneAssumption DEF StartUpdate
  <2>2. person' \in Objects
    BY <1>6, <2>1 DEF StartUpdate, Objects
  <2>3. list' \subseteq Objects /\ drawn' \subseteq Objects
    BY <1>1, <1>6, <2>1, MovedType DEF StartUpdate, TypeOK
  <2>4. \A o \in list \cup drawn : IsObject(o)
    BY <1>1 DEF TypeOK, Objects, IsObject
  <2>5. OneEntry' /\ TilesOnce'
    BY <1>1, <1>6, <2>4, MovedKeeps DEF StartUpdate, OneEntry, TilesOnce
  <2>6. op' \in Call
    BY <1>6, <2>1 DEF StartUpdate, Calls
  <2> HIDE DEF Call
  <2>7. QED
    BY <1>1, <1>2, <1>6, <2>2, <2>3, <2>5, <2>6 DEF StartUpdate, TypeOK
<1>7. CASE LeavePerson
  BY <1>1, <1>3, <1>7 DEF LeavePerson, TypeOK
<1>8. CASE StartDelete
  <2>1. op' \in Call
    BY <1>8 DEF StartDelete, Calls
  <2>2. QED
    BY <1>1, <1>3, <1>8, <2>1 DEF StartDelete, TypeOK
<1>9. CASE OpAnswer
  <2>1. op \in Call /\ op # NoOp /\ op.at \in Calls /\ op.to \in Companies \cup {None}
    <3>1. op # NoOp
      BY <1>9, CallTypes DEF OpAnswer
    <3>2. op \in Call
      BY <1>1, <3>1 DEF TypeOK
    <3>3. QED
      BY <3>1, <3>2, CallTypes
  <2>2. op' \in Call
    <3>1. \A k \in Calls : [op EXCEPT !.at = k] \in Call
      BY <2>1, CallTypes
    <3>2. \E k \in {"updated", "deleted", "failed"} : op' = [op EXCEPT !.at = k]
      BY <1>9 DEF OpAnswer
    <3>3. QED
      BY <3>1, <3>2 DEF Calls
  <2>3. docs' \in [People -> Companies \cup {None}]
    <3>1. docs' = docs \/ docs' = Effect
      BY <1>9 DEF OpAnswer
    <3>2. Effect \in [People -> Companies \cup {None}]
      BY <1>1, <2>1 DEF Effect, TypeOK
    <3>3. QED
      BY <1>1, <3>1, <3>2 DEF TypeOK
  <2> HIDE DEF Call
  <2>4. QED
    BY <1>1, <1>2, <1>9, <2>1, <2>2, <2>3 DEF OpAnswer, TypeOK, OneEntry, TilesOnce
<1>10. CASE UpdateReturns
  <2>1. list' \subseteq Objects /\ OneEntry' /\ TilesOnce'
    BY <1>1, <1>10 DEF UpdateReturns, TypeOK, OneEntry, TilesOnce
  <2>2. QED
    BY <1>1, <1>2, <1>10, <2>1 DEF UpdateReturns, TypeOK
<1>11. CASE OpFails
  BY <1>1, <1>3, <1>11 DEF OpFails, TypeOK
<1>12. CASE DeleteReturns
  <2>1. list' \subseteq Objects /\ OneEntry'
    BY <1>1, <1>12 DEF DeleteReturns, TypeOK, OneEntry
  <2>2. drawn' \subseteq Objects /\ TilesOnce'
    BY <1>1, <1>12, <2>1 DEF DeleteReturns, TypeOK, OneEntry, TilesOnce
  <2>3. QED
    BY <1>1, <1>2, <1>12, <2>1, <2>2 DEF DeleteReturns, TypeOK
<1>13. CASE DeleteReturnsHome
  <2>1. op # NoOp
    BY <1>13, CallTypes DEF DeleteReturnsHome
  <2>2. op' \in Call
    BY <1>1, <1>13, <2>1, CallTypes DEF DeleteReturnsHome, TypeOK, Calls
  <2>3. list' \subseteq Objects /\ OneEntry' /\ TilesOnce'
    BY <1>1, <1>13 DEF DeleteReturnsHome, TypeOK, OneEntry, TilesOnce
  <2> HIDE DEF Call
  <2>4. QED
    BY <1>1, <1>2, <1>13, <2>2, <2>3 DEF DeleteReturnsHome, TypeOK
<1>14. CASE ReturnsTooLate
  BY <1>1, <1>3, <1>14 DEF ReturnsTooLate, TypeOK
<1>15. QED
  BY <1>4, <1>5, <1>6, <1>7, <1>8, <1>9, <1>10, <1>11, <1>12, <1>13, <1>14

\* The application starts again.
LEMMA TypesRestart == ASSUME SInv, Restart PROVE SInv'
<1>1. docs' \in [People -> Companies \cup {None}]
  <2>1. docs \in [People -> Companies \cup {None}]
    BY DEF SInv, TypeOK
  <2>2. op.at \in {"update", "delete"} => op \in [at : Calls, to : Companies \cup {None}]
    BY CallTypes DEF SInv, TypeOK
  <2>3. op.at \in {"update", "delete"} => Effect \in [People -> Companies \cup {None}]
    BY <2>1, <2>2 DEF Effect
  <2>4. QED
    BY <2>1, <2>3 DEF Restart
<1>2. QED
  BY <1>1 DEF Restart, SInv, TypeOK, OneEntry, TilesOnce

\* The variables of Interns keep their types: there is always a name for a new
\* object, and every call is about an intern.
THEOREM TypeCorrect == Spec => []TypeOK
<1>1. SInv /\ [Next]_vars => SInv'
  <2> SUFFICES ASSUME SInv, [Next]_vars PROVE SInv'
    OBVIOUS
  <2>1. CASE UNCHANGED vars
    BY <2>1 DEF vars, SInv, TypeOK, OneEntry, TilesOnce
  <2>2. QED
    BY <2>1, TypesOfPage, TypesOfView, TypesRestart DEF Next
<1>2. SInv => TypeOK
  BY DEF SInv
<1>3. QED
  BY <1>1, <1>2, TypesInitially, PTL DEF Spec
-----------------------------------------------------------------------------
(***************************************************************************)
(* Records: the object of the list, for every set of fields and values and *)
(* any number of writes under way.                                         *)
(***************************************************************************)
\* U is a part of T and not all of it.
Within(U, T) == U \subseteq T /\ U # T

\* A family of subsets of a finite set has one that no other is within.  This
\* is what the inductions over finite sets below rest on.
LEMMA SmallestSet ==
  ASSUME NEW S, IsFiniteSet(S), NEW F, F \subseteq SUBSET S, F # {}
  PROVE  \E T \in F : \A U \in F : ~Within(U, T)
<1>1. IsWellFoundedOn(StrictSubsetOrdering(S), FiniteSubsetsOf(S))
  BY FS_StrictSubsetOrderingWellFounded
<1>2. FiniteSubsetsOf(S) = SUBSET S
  BY FS_FiniteSubsetsOfFinite
<1>3. PICK T \in F : \A U \in F : <<U, T>> \notin StrictSubsetOrdering(S)
  BY <1>1, <1>2, WFMin
<1>4. QED
  BY <1>3 DEF StrictSubsetOrdering, Within

\* A finite set of numbers has a greatest.
LEMMA HasMax ==
  ASSUME NEW S \in SUBSET Int, IsFiniteSet(S), S # {}
  PROVE  \E m \in S : \A x \in S : x <= m
<1> DEFINE F == {T \in SUBSET S : T # {} /\ ~ \E m \in T : \A x \in T : x <= m}
<1> SUFFICES ASSUME F # {} PROVE FALSE
  OBVIOUS
<1>1. F \subseteq SUBSET S
  OBVIOUS
<1>2. PICK T \in F : \A U \in F : ~Within(U, T)
  <2> HIDE DEF F
  <2>1. QED
    BY <1>1, SmallestSet
<1>3. PICK y \in T : TRUE
  BY <1>2
<1>4. T \ {y} # {} => \E m \in T \ {y} : \A x \in T \ {y} : x <= m
  <2>1. T \ {y} \notin F
    BY <1>2, <1>3 DEF Within
  <2>2. QED
    BY <1>2, <2>1
<1>5. \E m \in T : \A x \in T : x <= m
  <2>1. CASE T \ {y} = {}
    BY <2>1, <1>3
  <2>2. CASE T \ {y} # {}
    <3>1. PICK m \in T \ {y} : \A x \in T \ {y} : x <= m
      BY <2>2, <1>4
    <3>2. \A x \in T : x \in Int
      BY <1>2
    <3>3. CASE y <= m
      BY <3>1, <3>3, <1>3
    <3>4. CASE ~(y <= m)
      BY <3>1, <3>2, <3>4, <1>3
    <3>5. QED
      BY <3>3, <3>4
  <2>3. QED
    BY <2>1, <2>2
<1>6. QED
  BY <1>2, <1>5
-----------------------------------------------------------------------------
Writes == Updates \cup {Deletion}

\* Write m is the last of the first n that writes f; none of them deletes.
IsLast(q, f, n, m) == m \in Writers(q, f, n) /\ \A i \in Writers(q, f, n) : i <= m
Undeleted(q, n) == \A i \in 1 .. n : q[i] # Deletion
Draft(q, m) == q[m].draft

\* The last of the writes of a field, if there is one.
LEMMA LastWriter ==
  ASSUME NEW q \in Seq(Writes), NEW f, NEW n \in Nat, Writers(q, f, n) # {}
  PROVE  IsLast(q, f, n, Max(Writers(q, f, n)))
<1>1. Writers(q, f, n) \subseteq 1 .. n
  BY DEF Writers
<1>2. IsFiniteSet(Writers(q, f, n))
  BY <1>1, FS_Interval, FS_Subset
<1>3. \E m \in Writers(q, f, n) : \A i \in Writers(q, f, n) : i <= m
  BY <1>1, <1>2, HasMax
<1>4. \A i \in Writers(q, f, n) : i \in Int
  BY <1>1
<1>5. QED
  BY <1>3, <1>4 DEF Max, IsLast

\* A field that is written is what the last write says.
LEMMA FieldWritten ==
  ASSUME NEW d, d # NoDoc, NEW q \in Seq(Writes), NEW n \in Nat, Undeleted(q, n),
         NEW f \in Fields, NEW m, IsLast(q, f, n, m)
  PROVE  Overlay(d, q, n)[f] = Draft(q, m)[f]
<1>1. IsLast(q, f, n, Max(Writers(q, f, n)))
  BY LastWriter DEF IsLast
<1>2. m \in 1 .. n /\ Max(Writers(q, f, n)) \in 1 .. n
  BY <1>1 DEF IsLast, Writers
<1>3. m <= Max(Writers(q, f, n)) /\ Max(Writers(q, f, n)) <= m
  BY <1>1 DEF IsLast
<1>4. Max(Writers(q, f, n)) = m
  BY <1>2, <1>3
<1>5. QED
  BY <1>4 DEF Overlay, Undeleted, IsLast, Draft

\* A field that is not written is that of the document.
LEMMA FieldKept ==
  ASSUME NEW d, d # NoDoc, NEW q \in Seq(Writes), NEW n \in Nat, Undeleted(q, n),
         NEW f \in Fields, Writers(q, f, n) = {}
  PROVE  Overlay(d, q, n)[f] = d[f]
BY DEF Overlay, Undeleted

\* Where nothing is deleted a record is shown.
LEMMA OverlayIsRecord ==
  ASSUME NEW d, d # NoDoc, NEW q \in Seq(Writes), NEW n \in Nat, Undeleted(q, n)
  PROVE  Overlay(d, q, n) = [f \in Fields |-> Overlay(d, q, n)[f]]
BY DEF Overlay, Undeleted

\* Two records of what is shown that agree on every field are the same.
LEMMA OverlayEqual ==
  ASSUME NEW d, d # NoDoc, NEW q \in Seq(Writes), NEW n \in Nat, Undeleted(q, n),
         NEW e, e # NoDoc, NEW r \in Seq(Writes), NEW k \in Nat, Undeleted(r, k),
         \A f \in Fields : Overlay(d, q, n)[f] = Overlay(e, r, k)[f]
  PROVE  Overlay(d, q, n) = Overlay(e, r, k)
<1>1. [f \in Fields |-> Overlay(d, q, n)[f]] = [f \in Fields |-> Overlay(e, r, k)[f]]
  OBVIOUS
<1>2. Overlay(d, q, n) = [f \in Fields |-> Overlay(d, q, n)[f]]
  BY OverlayIsRecord
<1>3. Overlay(e, r, k) = [f \in Fields |-> Overlay(e, r, k)[f]]
  BY OverlayIsRecord
<1>4. QED
  BY <1>1, <1>2, <1>3

\* Without writes the client shows the document.
LEMMA OverlayNone ==
  ASSUME NEW d \in Records \cup {NoDoc}, NEW q \in Seq(Writes)
  PROVE  Overlay(d, q, 0) = d
BY DEF Overlay, Writers, Records

\* What is shown is a record or no document.
LEMMA OverlayType ==
  ASSUME NEW d \in Records \cup {NoDoc}, NEW q \in Seq(Writes), NEW n \in 0 .. Len(q)
  PROVE  /\ Overlay(d, q, n) \in Records \cup {NoDoc}
         /\ Overlay(d, q, n) = NoDoc <=> d = NoDoc \/ \E i \in 1 .. n : q[i] = Deletion
<1>1. CASE d = NoDoc \/ \E i \in 1 .. n : q[i] = Deletion
  BY <1>1 DEF Overlay
<1>2. CASE d # NoDoc /\ Undeleted(q, n)
  <2>0. n \in Nat /\ Len(q) \in Nat
    OBVIOUS
  <2>1. ASSUME NEW f \in Fields PROVE Overlay(d, q, n)[f] \in Values
    <3>1. CASE Writers(q, f, n) = {}
      BY <1>2, <2>0, <3>1, FieldKept DEF Records
    <3>2. CASE Writers(q, f, n) # {}
      <4>1. PICK m : IsLast(q, f, n, m)
        BY <2>0, <3>2, LastWriter
      <4>2. Overlay(d, q, n)[f] = Draft(q, m)[f]
        BY <1>2, <2>0, <4>1, FieldWritten
      <4>3. q[m] \in Updates
        BY <1>2, <4>1 DEF IsLast, Writers, Writes, Undeleted
      <4>4. QED
        BY <4>2, <4>3 DEF Updates, Records, Draft
    <3>3. QED
      BY <3>1, <3>2
  <2>2. Overlay(d, q, n) = [f \in Fields |-> Overlay(d, q, n)[f]]
    BY <1>2, <2>0, OverlayIsRecord
  <2>3. Overlay(d, q, n) \in Records
    BY <2>1, <2>2 DEF Records
  <2>4. QED
    BY <1>2, <2>3, NoDocAssumption DEF Records, Fields, Undeleted
<1>3. QED
  BY <1>1, <1>2 DEF Undeleted

\* One write more: the client applies it to what it showed.
LEMMA OverlayStep ==
  ASSUME NEW d \in Records \cup {NoDoc}, NEW q \in Seq(Writes), NEW n \in 1 .. Len(q)
  PROVE  Overlay(d, q, n) = Applied(Overlay(d, q, n - 1), q[n])
<1>1. q[n] \in Writes /\ n \in Nat /\ n - 1 \in Nat /\ 1 .. n = (1 .. n - 1) \cup {n}
  OBVIOUS
<1>2. CASE d = NoDoc \/ \E i \in 1 .. n - 1 : q[i] = Deletion
  BY <1>1, <1>2 DEF Overlay, Applied
<1>3. CASE q[n] = Deletion
  BY <1>1, <1>3 DEF Overlay, Applied
<1>4. CASE d # NoDoc /\ Undeleted(q, n)
  <2> DEFINE old == Overlay(d, q, n - 1)
             new == Overlay(d, q, n)
  <2>1. old # NoDoc /\ Undeleted(q, n - 1)
    BY <1>1, <1>4, OverlayType DEF Undeleted
  <2>2. ASSUME NEW f \in Fields
        PROVE  new[f] = IF f \in Written(q[n].kind) THEN q[n].draft[f] ELSE old[f]
    <3>1. CASE f \in Written(q[n].kind)
      <4>1. IsLast(q, f, n, n)
        BY <3>1 DEF Writers, IsLast
      <4>2. n \in Nat
        OBVIOUS
      <4>3. new[f] = Draft(q, n)[f]
        BY <1>4, <4>1, <4>2, FieldWritten
      <4>4. QED
        BY <3>1, <4>3 DEF Draft
    <3>2. CASE f \notin Written(q[n].kind)
      <4>1. Writers(q, f, n) = Writers(q, f, n - 1)
        BY <1>1, <3>2 DEF Writers
      <4>2. new[f] = old[f]
        BY <1>4, <2>1, <4>1 DEF Overlay, Undeleted
      <4>3. QED
        BY <3>2, <4>2
    <3>3. QED
      BY <3>1, <3>2
  <2>3. new = [f \in Fields |-> new[f]]
    BY <1>4, OverlayIsRecord
  <2>4. Applied(old, q[n]) = Merged(old, q[n].kind, q[n].draft)
    BY <1>4, <2>1 DEF Applied, Undeleted
  <2> HIDE DEF old, new
  <2>5. new = Merged(old, q[n].kind, q[n].draft)
    BY <2>2, <2>3 DEF Merged
  <2>6. QED
    BY <2>4, <2>5 DEF old, new
<1>5. QED
  BY <1>1, <1>2, <1>3, <1>4 DEF Undeleted

\* Two writes make the same of a document.
SameWrite(w, v) ==
  /\ w = Deletion <=> v = Deletion
  /\ w # Deletion => w.kind = v.kind /\ w.draft = v.draft

\* What is shown depends on nothing else of the writes, and not on later ones.
LEMMA OverlaySame ==
  ASSUME NEW d \in Records \cup {NoDoc}, NEW q \in Seq(Writes), NEW r \in Seq(Writes), NEW n \in Nat,
         \A i \in 1 .. n : SameWrite(q[i], r[i])
  PROVE  Overlay(d, q, n) = Overlay(d, r, n)
<1>1. CASE d = NoDoc \/ \E i \in 1 .. n : q[i] = Deletion
  BY <1>1 DEF Overlay, SameWrite
<1>2. CASE d # NoDoc /\ Undeleted(q, n)
  <2>1. \A i \in 1 .. n : r[i] # Deletion /\ q[i].kind = r[i].kind /\ q[i].draft = r[i].draft
    BY <1>2 DEF SameWrite, Undeleted
  <2>2. Undeleted(r, n) /\ \A f : Writers(q, f, n) = Writers(r, f, n)
    BY <2>1 DEF Writers, Undeleted
  <2>3. ASSUME NEW f \in Fields PROVE Overlay(d, q, n)[f] = Overlay(d, r, n)[f]
    <3>1. CASE Writers(q, f, n) = {}
      <4>1. Overlay(d, q, n)[f] = d[f]
        BY <1>2, <3>1, FieldKept
      <4>2. Writers(r, f, n) = {}
        BY <2>2, <3>1
      <4>3. Overlay(d, r, n)[f] = d[f]
        BY <1>2, <2>2, <4>2, FieldKept
      <4>4. QED
        BY <4>1, <4>3
    <3>2. CASE Writers(q, f, n) # {}
      <4>1. PICK m : IsLast(q, f, n, m)
        BY <3>2, LastWriter
      <4>2. IsLast(r, f, n, m)
        BY <2>2, <4>1 DEF IsLast
      <4>3. Draft(q, m) = Draft(r, m)
        BY <2>1, <4>1 DEF Writers, IsLast, Draft
      <4>4. d # NoDoc /\ Undeleted(q, n) /\ Undeleted(r, n)
        BY <1>2, <2>2
      <4>5. Overlay(d, q, n)[f] = Draft(q, m)[f]
        BY ONLY <4>1, <4>4, FieldWritten, q \in Seq(Writes), n \in Nat, f \in Fields, SMTT(60)
      <4>6. Overlay(d, r, n)[f] = Draft(r, m)[f]
        BY ONLY <4>2, <4>4, FieldWritten, r \in Seq(Writes), n \in Nat, f \in Fields, SMTT(60)
      <4>7. QED
        BY <4>3, <4>5, <4>6
    <3>3. QED
      BY <3>1, <3>2
  <2>4. QED
    BY <1>2, <2>2, <2>3, OverlayEqual
<1>3. QED
  BY <1>1, <1>2 DEF Undeleted

\* When the server has applied the first write, the client shows what it showed.
LEMMA OverlayTail ==
  ASSUME NEW d \in Records \cup {NoDoc}, NEW q \in Seq(Writes), q # <<>>,
         NEW n \in 0 .. Len(q) - 1
  PROVE  Overlay(Applied(d, q[1]), Tail(q), n) = Overlay(d, q, n + 1)
<1> DEFINE e == Applied(d, q[1])
           r == Tail(q)
<1> SUFFICES Overlay(e, r, n) = Overlay(d, q, n + 1)
  OBVIOUS
<1>1. /\ q[1] \in Writes /\ Len(q) \in Nat /\ r \in Seq(Writes)
      /\ n \in Nat /\ n + 1 \in Nat
      /\ \A i \in 1 .. n : i + 1 \in 1 .. n + 1 /\ r[i] = q[i + 1]
      /\ \A i \in 1 .. n + 1 : i # 1 => i - 1 \in 1 .. n /\ r[i - 1] = q[i]
  OBVIOUS
<1>2. CASE d = NoDoc \/ q[1] = Deletion
  BY <1>1, <1>2 DEF Overlay, Applied
<1>3. CASE d # NoDoc /\ q[1] # Deletion
  <2>1. e = Merged(d, q[1].kind, q[1].draft) /\ q[1] \in Updates
    BY <1>1, <1>3 DEF Applied, Writes
  <2>2. e # NoDoc
    <3>1. e \in Records
      BY <1>3, <2>1 DEF Merged, Updates, Records
    <3>2. QED
      BY <3>1, NoDocAssumption DEF Records, Fields
  <2> HIDE DEF e, r
  <2>3. Undeleted(r, n) <=> Undeleted(q, n + 1)
    BY <1>1, <1>3 DEF Undeleted
  <2>4. CASE ~Undeleted(r, n)
    BY <2>3, <2>4 DEF Overlay, Undeleted
  <2>5. CASE Undeleted(r, n)
    <3>0. d # NoDoc /\ n + 1 \in Nat /\ Undeleted(q, n + 1)
      BY <1>1, <1>3, <2>3, <2>5
    <3>1. ASSUME NEW f \in Fields PROVE Overlay(e, r, n)[f] = Overlay(d, q, n + 1)[f]
      <4>1. \A i \in 1 .. n : i \in Writers(r, f, n) <=> i + 1 \in Writers(q, f, n + 1)
        BY <1>1 DEF Writers
      <4>2. \A i \in Writers(q, f, n + 1) :
              i \in 1 .. n + 1 /\ (i # 1 => i - 1 \in Writers(r, f, n))
        <5>1. SUFFICES ASSUME NEW i \in Writers(q, f, n + 1)
                       PROVE  i \in 1 .. n + 1 /\ (i # 1 => i - 1 \in Writers(r, f, n))
          OBVIOUS
        <5>2. i \in 1 .. n + 1 /\ f \in Written(q[i].kind)
          BY DEF Writers
        <5>3. QED
          BY <1>1, <5>2 DEF Writers
      <4>3. CASE Writers(r, f, n) # {}
        <5>1. PICK m : IsLast(r, f, n, m)
          BY <1>1, <4>3, LastWriter
        <5>2. m \in 1 .. n /\ m + 1 \in Writers(q, f, n + 1)
          BY <4>1, <5>1 DEF Writers, IsLast
        <5>3. ASSUME NEW i \in Writers(q, f, n + 1) PROVE i <= m + 1
          <6>1. CASE i = 1
            BY <1>1, <5>2, <6>1
          <6>2. CASE i # 1
            <7>1. i \in 1 .. n + 1 /\ i - 1 <= m
              BY <4>2, <5>1, <6>2 DEF IsLast
            <7>2. QED
              BY <1>1, <5>2, <7>1
          <6>3. QED
            BY <6>1, <6>2
        <5>4. IsLast(q, f, n + 1, m + 1)
          BY <5>2, <5>3 DEF IsLast
        <5>5. Overlay(e, r, n)[f] = Draft(r, m)[f]
          BY <1>1, <2>2, <2>5, <5>1, FieldWritten
        <5>6. Overlay(d, q, n + 1)[f] = Draft(q, m + 1)[f]
          BY <3>0, <5>4, FieldWritten
        <5>7. QED
          BY <1>1, <5>2, <5>5, <5>6 DEF Draft
      <4>4. CASE Writers(r, f, n) = {}
        <5>1. Overlay(e, r, n)[f] = e[f]
          BY <1>1, <2>2, <2>5, <4>4, FieldKept
        <5>2. CASE f \in Written(q[1].kind)
          <6>1. IsLast(q, f, n + 1, 1)
            BY <1>1, <4>2, <4>4, <5>2 DEF Writers, IsLast
          <6>2. \A m : IsLast(q, f, n + 1, m) => Overlay(d, q, n + 1)[f] = Draft(q, m)[f]
            BY <3>0, FieldWritten
          <6>3. Overlay(d, q, n + 1)[f] = Draft(q, 1)[f]
            BY <6>1, <6>2
          <6>4. QED
            BY <5>1, <5>2, <6>3, <2>1 DEF Merged, Draft
        <5>3. CASE f \notin Written(q[1].kind)
          <6>1. Writers(q, f, n + 1) = {}
            BY <4>2, <4>4, <5>3 DEF Writers
          <6>2. Overlay(d, q, n + 1)[f] = d[f]
            BY <3>0, <6>1, FieldKept
          <6>3. QED
            BY <5>1, <5>3, <6>2, <2>1 DEF Merged
        <5>4. QED
          BY <5>2, <5>3
      <4>5. QED
        BY <4>3, <4>4
    <3>2. QED
      BY <1>1, <2>2, <2>5, <3>0, <3>1, OverlayEqual
  <2>6. QED
    BY <2>4, <2>5
<1>4. QED
  BY <1>2, <1>3
-----------------------------------------------------------------------------
\* What a form or a write leaves untouched is what r shows.
Untouched(k, draft, touched, r) ==
  r # NoDoc /\ \A f \in Written(k) \ touched : draft[f] = r[f]

\* A form that waits has written the last of the queue; a form or a write that
\* is sound agrees, where it is untouched, with what was shown before it.
RecordsInv ==
  /\ RecordsTypeOK
  /\ ObjectCurrent
  /\ form.at = "saving" => queue # <<>> /\ queue[Len(queue)] = Write
  /\ form # NoForm /\ form.sound => Untouched(form.kind, form.draft, form.touched, Seen)
  /\ \A i \in DOMAIN queue : queue[i] # Deletion /\ queue[i].sound =>
       Untouched(queue[i].kind, queue[i].draft, queue[i].touched,
                 Overlay(doc, queue, i - 1))

\* The kinds and the groups of fields.
LEMMA WriteTypes ==
  /\ Deletion \notin Updates
  /\ \A k \in Kinds : Written(k) \subseteq Fields
  /\ \A fm \in Forms : fm.kind \in Kinds /\ fm.draft \in Records /\ fm # NoForm
                       /\ fm.touched \in SUBSET Fields /\ fm.sound \in BOOLEAN
  /\ \A u \in Updates : u.kind \in Kinds /\ u.draft \in Records
                       /\ u.touched \in SUBSET Fields /\ u.sound \in BOOLEAN
<1>1. \A u \in Updates : u.kind # "delete"
  BY DEF Updates, Kinds
<1>2. Deletion \notin Updates
  BY <1>1 DEF Deletion
<1>3. \A k \in Kinds : Written(k) \subseteq Fields
  BY DEF Kinds, Written, Fields
<1>4. \A fm \in Forms : fm.at # "none"
  BY DEF Forms
<1>5. \A fm \in Forms : fm # NoForm
  BY <1>4 DEF NoForm
<1>6. QED
  BY <1>2, <1>3, <1>5 DEF Forms, Updates

\* A form that is open can save what it holds.
LEMMA WriteIsUpdate ==
  ASSUME RecordsTypeOK, form # NoForm
  PROVE  form \in Forms /\ Write \in Updates
BY DEF RecordsTypeOK, Write, Forms, Updates

\* The invariant holds at the start.
LEMMA InvInit == RecordsInit => RecordsInv
<1> SUFFICES ASSUME RecordsInit PROVE RecordsInv
  OBVIOUS
<1>1. queue \in Seq(Writes) /\ Len(queue) = 0 /\ DOMAIN queue = {}
  BY DEF RecordsInit
<1>2. RecordsTypeOK
  BY <1>1 DEF RecordsInit, RecordsTypeOK, Writes
<1>3. Seen = doc
  BY <1>1, OverlayNone DEF RecordsInit, Seen
<1>4. QED
  BY <1>1, <1>2, <1>3 DEF RecordsInit, RecordsInv, ObjectCurrent, NoForm

\* Opening a form reads the object.
LEMMA StepOpen ==
  ASSUME RecordsInv, NEW k \in Kinds, OpenForm(k)
  PROVE  RecordsInv'
<1>1. form' = [at |-> "editing", kind |-> k, draft |-> object, touched |-> {}, sound |-> ~drift]
      /\ UNCHANGED <<doc, object, queue, drift>>
  BY DEF OpenForm
<1>2. RecordsTypeOK' /\ form' \in Forms
  BY <1>1 DEF RecordsInv, RecordsTypeOK, Forms
<1>3. Seen' = Seen
  BY <1>1 DEF Seen, Overlay, Writers
<1>4. \A i \in DOMAIN queue : Overlay(doc', queue', i - 1) = Overlay(doc, queue, i - 1)
  BY <1>1
<1>5. ~drift => Untouched(k, object, {}, Seen)
  <2>1. ~drift => object = Seen /\ object \in Records /\ object # NoDoc
    BY NoDocAssumption DEF RecordsInv, ObjectCurrent, RecordsTypeOK, Records, Fields
  <2>2. QED
    BY <2>1 DEF Untouched
<1>6. QED
  BY <1>1, <1>2, <1>3, <1>4, <1>5 DEF RecordsInv, ObjectCurrent

\* Typing makes the form agree with fewer fields.
LEMMA StepEdit ==
  ASSUME RecordsInv, NEW f \in Fields, NEW v \in Values, Edit(f, v)
  PROVE  RecordsInv'
<1>1. form \in Forms /\ form.at = "editing" /\ f \in Written(form.kind)
  BY DEF Edit, RecordsInv, RecordsTypeOK, NoForm
<1>2. /\ form' = [form EXCEPT !.draft[f] = v, !.touched = @ \cup {f}]
      /\ UNCHANGED <<doc, object, queue, drift>>
  BY DEF Edit
<1>3. /\ form' \in Forms /\ form'.at = "editing"
      /\ form'.kind = form.kind /\ form'.sound = form.sound
      /\ form'.touched = form.touched \cup {f}
      /\ \A g \in Fields : g # f => form'.draft[g] = form.draft[g]
  BY <1>1, <1>2 DEF Forms, Records
<1>4. RecordsTypeOK'
  BY <1>2, <1>3 DEF RecordsInv, RecordsTypeOK
<1>5. Seen' = Seen
  BY <1>2 DEF Seen
<1>6. form.sound => Untouched(form'.kind, form'.draft, form'.touched, Seen)
  <2>1. form # NoForm /\ Written(form.kind) \subseteq Fields
    BY <1>1, WriteTypes
  <2>2. QED
    BY <1>3, <2>1 DEF RecordsInv, Untouched
<1>7. QED
  BY <1>2, <1>3, <1>4, <1>5, <1>6 DEF RecordsInv, ObjectCurrent

\* Leaving a form, or getting it back.
LEMMA StepClose ==
  ASSUME RecordsInv, SaveReturns \/ Leave \/ UNCHANGED recordsVars
  PROVE  RecordsInv'
<1>1. UNCHANGED <<doc, object, queue, drift>>
  BY DEF SaveReturns, Leave, recordsVars
<1>2. \/ form' = NoForm
      \/ form.at = "refused" /\ form' = [form EXCEPT !.at = "editing"]
      \/ form' = form
  BY DEF SaveReturns, Leave, recordsVars
<1>3. Seen' = Seen
  BY <1>1 DEF Seen
<1>4. CASE form' = NoForm
  BY <1>1, <1>3, <1>4 DEF RecordsInv, RecordsTypeOK, ObjectCurrent, NoForm
<1>5. CASE form.at = "refused" /\ form' = [form EXCEPT !.at = "editing"]
  <2>1. form \in Forms /\ form # NoForm
    BY <1>5 DEF RecordsInv, RecordsTypeOK, NoForm
  <2>2. /\ form' \in Forms /\ form'.at = "editing" /\ form'.kind = form.kind
        /\ form'.draft = form.draft /\ form'.touched = form.touched
        /\ form'.sound = form.sound
    BY <1>5, <2>1 DEF Forms
  <2>3. QED
    BY <1>1, <1>3, <2>1, <2>2 DEF RecordsInv, RecordsTypeOK, ObjectCurrent
<1>6. CASE form' = form
  BY <1>1, <1>3, <1>6 DEF RecordsInv, RecordsTypeOK, ObjectCurrent, Write
<1>7. QED
  BY <1>2, <1>4, <1>5, <1>6

\* One write more leaves what the writes before it show.
LEMMA Appended ==
  ASSUME RecordsTypeOK, NEW w \in Writes, queue' = Append(queue, w), doc' = doc
  PROVE  /\ queue' \in Seq(Writes) /\ Len(queue) \in Nat
         /\ Len(queue') = Len(queue) + 1 /\ queue' # <<>>
         /\ queue'[Len(queue) + 1] = w
         /\ \A i \in DOMAIN queue' : i # Len(queue) + 1 => i \in DOMAIN queue /\ queue'[i] = queue[i]
         /\ \A i \in DOMAIN queue' :
              Overlay(doc', queue', i - 1) = Overlay(doc, queue, i - 1)
         /\ Seen' = Applied(Seen, w)
<1>1. /\ queue \in Seq(Writes) /\ doc \in Records \cup {NoDoc}
      /\ queue' \in Seq(Writes) /\ Len(queue') = Len(queue) + 1 /\ Len(queue) \in Nat
      /\ queue' # <<>> /\ queue'[Len(queue) + 1] = w
      /\ \A i \in DOMAIN queue' : i # Len(queue) + 1 => i \in DOMAIN queue /\ queue'[i] = queue[i]
  BY DEF RecordsTypeOK, Writes
<1>2. ASSUME NEW n \in 0 .. Len(queue)
      PROVE  Overlay(doc, queue', n) = Overlay(doc, queue, n)
  <2>1. n \in Nat /\ \A i \in 1 .. n : SameWrite(queue'[i], queue[i])
    BY <1>1 DEF SameWrite
  <2>2. QED
    BY <1>1, <2>1, OverlaySame
<1>3. \A i \in DOMAIN queue' : i - 1 \in 0 .. Len(queue)
  BY <1>1
<1>4. Overlay(doc, queue', Len(queue) + 1) = Applied(Overlay(doc, queue', Len(queue)), w)
  <2>1. Len(queue) + 1 \in 1 .. Len(queue') /\ (Len(queue) + 1) - 1 = Len(queue)
    BY <1>1
  <2>2. QED
    BY <1>1, <2>1, OverlayStep
<1>5. Seen' = Applied(Seen, w)
  BY <1>1, <1>2, <1>4 DEF Seen
<1>6. QED
  BY <1>1, <1>2, <1>3, <1>5

\* A save writes into the object what it writes into the document.
LEMMA StepSave ==
  ASSUME RecordsInv, Save
  PROVE  RecordsInv'
<1>1. form \in Forms /\ form # NoForm /\ Write \in Updates /\ Write \in Writes
  BY WriteIsUpdate DEF Save, RecordsInv, RecordsTypeOK, NoForm, Writes
<1>2. /\ object' = Merged(object, form.kind, form.draft)
      /\ queue' = Append(queue, Write)
      /\ form' = [form EXCEPT !.at = "saving"]
      /\ doc' = doc /\ drift' = drift
  BY DEF Save
<1>3. /\ form' \in Forms /\ form'.kind = form.kind /\ form'.draft = form.draft
      /\ form'.touched = form.touched /\ form'.sound = form.sound
      /\ form' # NoForm /\ Write' = Write
  BY <1>1, <1>2 DEF Forms, Write, NoForm
<1>4. RecordsTypeOK
  BY DEF RecordsInv
<1>5. /\ queue' \in Seq(Writes) /\ Len(queue) \in Nat
      /\ Len(queue') = Len(queue) + 1 /\ queue' # <<>>
      /\ queue'[Len(queue) + 1] = Write
      /\ \A i \in DOMAIN queue' : i # Len(queue) + 1 => i \in DOMAIN queue /\ queue'[i] = queue[i]
      /\ \A i \in DOMAIN queue' :
           Overlay(doc', queue', i - 1) = Overlay(doc, queue, i - 1)
      /\ Seen' = Applied(Seen, Write)
  BY <1>1, <1>2, <1>4, Appended
<1>6. form.kind \in Kinds /\ form.draft \in Records /\ Written(form.kind) \subseteq Fields
  BY <1>1, WriteTypes
<1>7. RecordsTypeOK'
  BY <1>2, <1>3, <1>5, <1>6 DEF RecordsInv, RecordsTypeOK, Writes, Merged, Records
<1>8. Seen # NoDoc => Seen' = Merged(Seen, form.kind, form.draft)
  BY <1>1, <1>5, WriteTypes DEF Applied, Write
<1>9. ObjectCurrent'
  <2>1. ~drift => object = Seen /\ Seen # NoDoc
    BY NoDocAssumption DEF RecordsInv, ObjectCurrent, RecordsTypeOK, Records, Fields
  <2>2. QED
    BY <1>2, <1>8, <2>1 DEF ObjectCurrent
<1>10. form.sound => Untouched(form.kind, form.draft, form.touched, Seen')
  <2> SUFFICES ASSUME form.sound PROVE Untouched(form.kind, form.draft, form.touched, Seen')
    OBVIOUS
  <2>1. Seen # NoDoc
    BY <1>1 DEF RecordsInv, Untouched
  <2>2. Seen \in Records
    <3>1. /\ doc \in Records \cup {NoDoc} /\ queue \in Seq(Writes)
          /\ Len(queue) \in 0 .. Len(queue)
      BY <1>4 DEF RecordsTypeOK, Writes
    <3>2. QED
      BY <2>1, <3>1, OverlayType DEF Seen
  <2>3. Seen' \in Records /\ \A f \in Written(form.kind) : Seen'[f] = form.draft[f]
    BY <1>6, <1>8, <2>1, <2>2 DEF Merged, Records
  <2>4. QED
    BY <2>3, NoDocAssumption DEF Untouched, Records, Fields
<1>11. ASSUME NEW i \in DOMAIN queue', queue'[i] # Deletion, queue'[i].sound
       PROVE  Untouched(queue'[i].kind, queue'[i].draft, queue'[i].touched,
                        Overlay(doc', queue', i - 1))
  <2>1. CASE i = Len(queue) + 1
    <3>1. Overlay(doc', queue', i - 1) = Seen
      BY <1>5, <2>1 DEF Seen
    <3>2. queue'[i] = Write
      BY <1>5, <2>1
    <3>3. QED
      BY <1>1, <1>11, <3>1, <3>2 DEF RecordsInv, Write
  <2>2. CASE i # Len(queue) + 1
    BY <1>5, <1>11, <2>2 DEF RecordsInv
  <2>3. QED
    BY <2>1, <2>2
<1>12. QED
  BY <1>3, <1>5, <1>7, <1>9, <1>10, <1>11 DEF RecordsInv

\* A deletion under way is no write of a form.
LEMMA StepDelete ==
  ASSUME RecordsInv, Delete
  PROVE  RecordsInv'
<1>1. /\ form = NoForm /\ form' = form /\ queue' = Append(queue, Deletion)
      /\ drift' = TRUE /\ doc' = doc /\ object' = object
  BY DEF Delete
<1>2. RecordsTypeOK /\ Deletion \in Writes
  BY DEF RecordsInv, Writes
<1>3. /\ queue' \in Seq(Writes) /\ queue'[Len(queue) + 1] = Deletion
      /\ \A i \in DOMAIN queue' : i # Len(queue) + 1 => i \in DOMAIN queue /\ queue'[i] = queue[i]
      /\ \A i \in DOMAIN queue' :
           Overlay(doc', queue', i - 1) = Overlay(doc, queue, i - 1)
  BY <1>1, <1>2, Appended
<1>4. RecordsTypeOK'
  BY <1>1, <1>3 DEF RecordsInv, RecordsTypeOK, Writes
<1>5. QED
  BY <1>1, <1>3, <1>4 DEF RecordsInv, ObjectCurrent, NoForm

\* What is fetched is what the client shows.
LEMMA StepReload ==
  ASSUME RecordsInv, Reload
  PROVE  RecordsInv'
<1>1. Seen \in Records /\ object' = Seen /\ form' = NoForm /\ drift' = FALSE
      /\ doc' = doc /\ queue' = queue
  BY OverlayType DEF Reload, RecordsInv, RecordsTypeOK, Seen, Writes
<1>2. Seen' = Seen
  BY <1>1 DEF Seen
<1>3. QED
  BY <1>1, <1>2 DEF RecordsInv, RecordsTypeOK, ObjectCurrent, NoForm

\* The first write is applied: the client goes on showing what it showed.
LEMMA StepApplies ==
  ASSUME RecordsInv, ServerApplies
  PROVE  RecordsInv'
<1>1. /\ queue # <<>> /\ doc' = Applied(doc, queue[1]) /\ queue' = Tail(queue)
      /\ form' = Answered("applied") /\ object' = object /\ drift' = drift
  BY DEF ServerApplies
<1>2. queue \in Seq(Writes) /\ doc \in Records \cup {NoDoc} /\ object \in Records
  BY DEF RecordsInv, RecordsTypeOK, Writes
<1>3. /\ Len(queue) \in Nat /\ Len(queue) # 0 /\ queue[1] \in Writes
      /\ queue' \in Seq(Writes) /\ Len(queue') = Len(queue) - 1
      /\ \A i \in DOMAIN queue' : /\ i + 1 \in DOMAIN queue /\ queue'[i] = queue[i + 1]
                                  /\ i - 1 \in 0 .. Len(queue) - 1
                                  /\ (i - 1) + 1 = (i + 1) - 1
  BY <1>1, <1>2
<1>4. \A n \in 0 .. Len(queue) - 1 : Overlay(doc', queue', n) = Overlay(doc, queue, n + 1)
  BY <1>1, <1>2, OverlayTail
<1>5. Seen' = Seen
  <2>1. Len(queue) - 1 \in 0 .. Len(queue) - 1 /\ (Len(queue) - 1) + 1 = Len(queue)
    BY <1>3
  <2>2. QED
    BY <1>3, <1>4, <2>1 DEF Seen
<1>6. doc' \in Records \cup {NoDoc}
  BY <1>1, <1>2, <1>3 DEF Applied, Writes, Updates, Merged, Records
<1>7. \/ form' = form /\ (form.at = "saving" => Len(queue) # 1)
      \/ form.at = "saving" /\ form' = [form EXCEPT !.at = "applied"]
  BY <1>1 DEF Answered
<1>8. form # NoForm => form \in Forms
  BY DEF RecordsInv, RecordsTypeOK
<1>9. /\ form' \in Forms \cup {NoForm} /\ (form' # NoForm => form # NoForm)
      /\ form' # NoForm => /\ form'.kind = form.kind /\ form'.draft = form.draft
                           /\ form'.touched = form.touched /\ form'.sound = form.sound
      /\ form'.at = "saving" => form' = form /\ form.at = "saving" /\ Len(queue) # 1
  <2>1. CASE form' = form /\ (form.at = "saving" => Len(queue) # 1)
    BY <1>8, <2>1
  <2>2. CASE form.at = "saving" /\ form' = [form EXCEPT !.at = "applied"]
    <3>1. form \in Forms /\ form # NoForm
      BY <1>8, <2>2 DEF NoForm
    <3>2. QED
      BY <2>2, <3>1 DEF Forms
  <2>3. QED
    BY <1>7, <2>1, <2>2
<1>10. RecordsTypeOK'
  BY <1>1, <1>2, <1>3, <1>6, <1>9 DEF RecordsInv, RecordsTypeOK, Writes
<1>11. form'.at = "saving" => queue' # <<>> /\ queue'[Len(queue')] = Write'
  <2> SUFFICES ASSUME form'.at = "saving" PROVE queue' # <<>> /\ queue'[Len(queue')] = Write'
    OBVIOUS
  <2>1. form' = form /\ form.at = "saving" /\ Len(queue) # 1
    BY <1>9
  <2>2. queue[Len(queue)] = Write /\ Write' = Write
    BY <2>1 DEF RecordsInv, Write
  <2>3. Len(queue') \in DOMAIN queue' /\ Len(queue') + 1 = Len(queue)
    BY <1>3, <2>1
  <2>4. QED
    BY <1>3, <2>2, <2>3
<1>12. ASSUME NEW i \in DOMAIN queue', queue'[i] # Deletion, queue'[i].sound
       PROVE  Untouched(queue'[i].kind, queue'[i].draft, queue'[i].touched,
                        Overlay(doc', queue', i - 1))
  <2>1. i + 1 \in DOMAIN queue /\ queue'[i] = queue[i + 1]
    BY <1>3
  <2>2. Overlay(doc', queue', i - 1) = Overlay(doc, queue, (i + 1) - 1)
    <3>1. i - 1 \in 0 .. Len(queue) - 1 /\ (i - 1) + 1 = (i + 1) - 1
      BY <1>3
    <3>2. QED
      BY <1>4, <3>1
  <2>3. QED
    BY <1>12, <2>1, <2>2 DEF RecordsInv
<1>13. QED
  BY <1>1, <1>5, <1>9, <1>10, <1>11, <1>12 DEF RecordsInv, ObjectCurrent

\* No write of Unsound(q) is sound.
LEMMA UnsoundQueue ==
  ASSUME NEW q \in Seq(Writes)
  PROVE  /\ Unsound(q) \in Seq(Writes) /\ Len(Unsound(q)) = Len(q)
         /\ DOMAIN Unsound(q) = DOMAIN q
         /\ \A i \in DOMAIN q : Unsound(q)[i] # Deletion => ~Unsound(q)[i].sound
<1> DEFINE w(i) == IF q[i] = Deletion THEN Deletion ELSE [q[i] EXCEPT !.sound = FALSE]
<1>1. ASSUME NEW i \in DOMAIN q PROVE w(i) \in Writes /\ (w(i) # Deletion => ~w(i).sound)
  <2>1. CASE q[i] = Deletion
    BY <2>1 DEF Writes
  <2>2. CASE q[i] # Deletion
    <3>1. q[i] \in Updates
      BY <2>2 DEF Writes
    <3>2. QED
      BY <2>2, <3>1 DEF Updates, Writes
  <2>3. QED
    BY <2>1, <2>2
<1>2. Unsound(q) = [i \in 1 .. Len(q) |-> w(i)] /\ DOMAIN q = 1 .. Len(q)
      /\ Len(q) \in Nat
  BY DEF Unsound
<1> HIDE DEF w
<1>3. QED
  BY <1>1, <1>2

\* When something happens elsewhere the object may be old, and nothing that is
\* open or under way is sound any more.
LEMMA AgedKeeps ==
  ASSUME RecordsTypeOK, doc' \in Records \cup {NoDoc}, object' = object, drift' = TRUE,
         NEW q \in Seq(Writes), queue' = Unsound(q), form' = Aged(form),
         form.at = "saving" => q # <<>> /\ q[Len(q)] = Write
  PROVE  RecordsInv'
<1>1. /\ queue' \in Seq(Writes) /\ Len(queue') = Len(q) /\ DOMAIN queue' = DOMAIN q
      /\ \A i \in DOMAIN queue' : queue'[i] # Deletion => ~queue'[i].sound
  BY UnsoundQueue
<1>2. CASE form = NoForm
  BY <1>1, <1>2 DEF RecordsTypeOK, RecordsInv, Aged, NoForm, ObjectCurrent, Writes
<1>3. CASE form # NoForm
  <2>1. form \in Forms /\ form' = [form EXCEPT !.sound = FALSE]
    BY <1>3 DEF RecordsTypeOK, Aged
  <2>2. form' \in Forms /\ ~form'.sound /\ form'.at = form.at
    BY <2>1 DEF Forms
  <2>3. form.at = "saving" => queue' # <<>> /\ queue'[Len(queue')] = Write'
    <3> SUFFICES ASSUME form.at = "saving" PROVE queue' # <<>> /\ queue'[Len(queue')] = Write'
      OBVIOUS
    <3>1. q # <<>> /\ q[Len(q)] = Write /\ Write # Deletion
      BY <1>3, WriteIsUpdate, WriteTypes
    <3>2. Len(q) \in DOMAIN q
      BY <3>1
    <3>3. queue'[Len(q)] = [q[Len(q)] EXCEPT !.sound = FALSE]
      BY <3>1, <3>2 DEF Unsound
    <3>4. Write' = [Write EXCEPT !.sound = FALSE]
      <4>1. /\ form'.kind = form.kind /\ form'.draft = form.draft
            /\ form'.touched = form.touched /\ form'.sound = FALSE
        BY <2>1 DEF Forms
      <4>2. Write \in Updates /\ Write' \in Updates
        BY <1>3, <2>1, <2>2, WriteIsUpdate DEF Write, Forms, Updates
      <4>3. /\ Write'.kind = Write.kind /\ Write'.draft = Write.draft
            /\ Write'.touched = Write.touched /\ Write'.sound = FALSE
        BY <4>1 DEF Write
      <4>4. QED
        BY <4>2, <4>3 DEF Updates
    <3>5. QED
      BY <1>1, <3>1, <3>3, <3>4
  <2>4. QED
    BY <1>1, <2>2, <2>3 DEF RecordsTypeOK, RecordsInv, ObjectCurrent, Writes
<1>4. QED
  BY <1>2, <1>3

\* Another device writes or deletes.
LEMMA StepElsewhere ==
  ASSUME RecordsInv, DeletedElsewhere \/ \E k \in Kinds, r \in Records : Elsewhere(k, r)
  PROVE  RecordsInv'
<1>1. /\ form' = Aged(form) /\ queue' = Unsound(queue) /\ drift' = TRUE
      /\ object' = object
  BY DEF DeletedElsewhere, Elsewhere
<1>2. doc' \in Records \cup {NoDoc}
  BY DEF DeletedElsewhere, Elsewhere, RecordsInv, RecordsTypeOK, Merged, Records
<1>3. queue \in Seq(Writes)
  BY DEF RecordsInv, RecordsTypeOK, Writes
<1>4. QED
  BY <1>1, <1>2, <1>3, AgedKeeps DEF RecordsInv

\* The first write is refused.
LEMMA StepRefuses ==
  ASSUME RecordsInv, ServerRefuses
  PROVE  RecordsInv'
<1>1. /\ queue # <<>> /\ queue' = Unsound(Tail(queue)) /\ drift' = TRUE
      /\ doc' = doc /\ object' = object
  BY DEF ServerRefuses
<1>2. queue \in Seq(Writes) /\ RecordsTypeOK
  BY DEF RecordsInv, RecordsTypeOK, Writes
<1>3. /\ Tail(queue) \in Seq(Writes) /\ Len(queue) \in Nat
      /\ Len(Tail(queue)) = Len(queue) - 1
      /\ Len(queue) # 1 => Tail(queue) # <<>> /\ Tail(queue)[Len(queue) - 1] = queue[Len(queue)]
  <2>1. /\ Tail(queue) \in Seq(Writes) /\ Len(queue) \in Nat /\ Len(queue) # 0
        /\ Len(Tail(queue)) = Len(queue) - 1
        /\ \A i \in 1 .. Len(queue) - 1 : Tail(queue)[i] = queue[i + 1]
    BY <1>1, <1>2
  <2>2. CASE Len(queue) # 1
    <3>1. Len(queue) - 1 \in 1 .. Len(queue) - 1 /\ (Len(queue) - 1) + 1 = Len(queue)
      BY <2>1, <2>2
    <3>2. Tail(queue)[Len(queue) - 1] = queue[Len(queue)]
      BY <2>1, <3>1
    <3>3. Tail(queue) # <<>>
      <4>1. Len(Tail(queue)) # 0
        BY <2>1, <2>2
      <4>2. QED
        BY <4>1, EmptySeq
    <3>4. QED
      BY <2>1, <3>2, <3>3
  <2>3. QED
    BY <2>1, <2>2
<1>4. CASE form.at = "saving" /\ Len(queue) = 1
  <2>1. form \in Forms /\ form # NoForm /\ form' = [form EXCEPT !.at = "refused"]
    BY <1>2, <1>4 DEF ServerRefuses, Answered, RecordsTypeOK, NoForm
  <2>2. /\ form' \in Forms /\ form'.at = "refused" /\ form'.kind = form.kind
        /\ form'.draft = form.draft /\ form'.touched = form.touched
        /\ form'.sound = form.sound
    BY <2>1 DEF Forms
  <2>3. queue[1] = Write /\ 1 \in DOMAIN queue /\ Write # Deletion
    BY <1>2, <1>4, <2>1, WriteIsUpdate, WriteTypes DEF RecordsInv
  <2>4. Overlay(doc, queue, 1 - 1) = doc
    BY <1>2, OverlayNone DEF RecordsTypeOK
  <2>5. form.sound => Untouched(form.kind, form.draft, form.touched, doc)
    BY <2>3, <2>4 DEF RecordsInv, Write
  <2>6. queue' \in Seq(Writes) /\ Len(queue') = 0 /\ DOMAIN queue' = {}
    <3>1. queue' \in Seq(Writes) /\ Len(queue') = Len(Tail(queue))
      BY <1>1, <1>3, UnsoundQueue
    <3>2. Len(queue') = 0 /\ DOMAIN queue' = 1 .. Len(queue')
      BY <1>3, <1>4, <3>1
    <3>3. QED
      BY <3>1, <3>2
  <2>7. Seen' = doc
    BY <1>1, <1>2, <2>6, OverlayNone DEF RecordsTypeOK, Seen
  <2>8. QED
    BY <1>1, <1>2, <2>2, <2>5, <2>6, <2>7 DEF RecordsInv, RecordsTypeOK, ObjectCurrent, Writes
<1>5. CASE ~(form.at = "saving" /\ Len(queue) = 1)
  <2>1. form' = Aged(form)
    BY <1>5 DEF ServerRefuses
  <2>2. form.at = "saving" => Tail(queue) # <<>> /\ Tail(queue)[Len(Tail(queue))] = Write
    BY <1>3, <1>5 DEF RecordsInv
  <2>3. doc' \in Records \cup {NoDoc}
    BY <1>1, <1>2 DEF RecordsTypeOK
  <2>4. QED
    BY <1>1, <1>2, <1>3, <2>1, <2>2, <2>3, AgedKeeps
<1>6. QED
  BY <1>4, <1>5
-----------------------------------------------------------------------------
\* Forms, writes and what is shown belong together as IInv says, for any fields
\* and values and any number of writes under way.
THEOREM RecordsInductive == RecordsSpec => []RecordsInv
<1>1. RecordsInv /\ [RecordsNext]_recordsVars => RecordsInv'
  BY StepOpen, StepEdit, StepSave, StepClose, StepDelete, StepReload,
     StepApplies, StepRefuses, StepElsewhere DEF RecordsNext
<1>2. QED
  BY InvInit, <1>1, PTL DEF RecordsSpec

\* The document, the object, the form and the writes keep their types.
THEOREM RecordsTypeCorrect == RecordsSpec => []RecordsTypeOK
<1>1. RecordsInv => RecordsTypeOK
  BY DEF RecordsInv
<1>2. QED
  BY <1>1, RecordsInductive, PTL

\* The object of the list is what the document is or will be, until something
\* happens elsewhere.
THEOREM ObjectShown == RecordsSpec => []ObjectCurrent
<1>1. RecordsInv => ObjectCurrent
  BY DEF RecordsInv
<1>2. QED
  BY <1>1, RecordsInductive, PTL

\* A sound save changes in the document what its administrator changed.
THEOREM OthersKept == RecordsSpec => UntouchedKept
<1> DEFINE Kept(f) ==
      /\ doc # NoDoc /\ doc' # NoDoc /\ Len(queue') < Len(queue)
      /\ Head(queue) # Deletion /\ Head(queue).sound
      /\ f \notin Head(queue).touched
      => doc'[f] = doc[f]
<1>1. RecordsInv /\ [RecordsNext]_recordsVars => [\A f \in Fields : Kept(f)]_recordsVars
  <2> SUFFICES ASSUME RecordsInv, RecordsNext, NEW f \in Fields,
                      doc # NoDoc, doc' # NoDoc, Len(queue') < Len(queue),
                      Head(queue) # Deletion, Head(queue).sound,
                      f \notin Head(queue).touched
               PROVE  doc'[f] = doc[f]
    BY Zenon
  <2>1. queue \in Seq(Writes) /\ Len(queue) \in Nat
    BY DEF RecordsInv, RecordsTypeOK, Writes
  <2>2. CASE ServerApplies
    <3>1. queue # <<>> /\ doc' = Applied(doc, Head(queue)) /\ Head(queue) = queue[1]
      BY <2>2 DEF ServerApplies
    <3>2. queue[1] \in Updates /\ 1 \in DOMAIN queue
      BY <2>1, <3>1 DEF Writes
    <3>3. doc' = Merged(doc, queue[1].kind, queue[1].draft)
      BY <3>1 DEF Applied
    <3>4. Overlay(doc, queue, 1 - 1) = doc
      BY <2>1, OverlayNone DEF RecordsInv, RecordsTypeOK
    <3>5. Untouched(queue[1].kind, queue[1].draft, queue[1].touched, doc)
      BY <3>1, <3>2, <3>4 DEF RecordsInv
    <3>6. QED
      BY <3>1, <3>3, <3>5 DEF Untouched, Merged
  <2>3. CASE ServerRefuses
    BY <2>3 DEF ServerRefuses
  <2>4. CASE Save \/ Delete
    <3>1. \E w \in Writes : queue' = Append(queue, w)
      BY <2>4, WriteIsUpdate DEF Save, Delete, RecordsInv, Writes, NoForm
    <3>2. Len(queue') = Len(queue) + 1
      BY <2>1, <3>1
    <3>3. QED
      BY <2>1, <3>2
  <2>5. CASE DeletedElsewhere \/ \E k \in Kinds, r \in Records : Elsewhere(k, r)
    <3>1. Len(queue') = Len(queue)
      BY <2>1, <2>5, UnsoundQueue DEF DeletedElsewhere, Elsewhere
    <3>2. QED
      BY <2>1, <3>1
  <2>6. CASE \/ \E k \in Kinds : OpenForm(k)
             \/ \E g \in Fields, v \in Values : Edit(g, v)
             \/ SaveReturns \/ Leave \/ Reload
    BY <2>1, <2>6 DEF OpenForm, Edit, SaveReturns, Leave, Reload
  <2>7. QED
    BY <2>2, <2>3, <2>4, <2>5, <2>6 DEF RecordsNext
<1>2. QED
  BY <1>1, RecordsInductive, PTL DEF RecordsSpec, UntouchedKept
-----------------------------------------------------------------------------
(***************************************************************************)
(* Attendance: the colour on Home, for every set of hours and dates and    *)
(* every schedule.                                                         *)
(***************************************************************************)
\* The last clock-in is not of a date to come: a clock-out that is kept beside
\* it is of an earlier date, or of its own.
AttendanceInv ==
  /\ AttendanceTypeOK
  /\ clockIn # Blank => clockIn.day <= today

\* Clocks and time go on as IInv says.
THEOREM AttendanceInductive == AttendanceSpec => []AttendanceInv
<1>1. AttendanceInit => AttendanceInv
  <2> SUFFICES ASSUME AttendanceInit PROVE AttendanceInv
    OBVIOUS
  <2>1. schedule \in Seq(Row)
    BY DEF AttendanceInit, BoundedSeq, SeqOf
  <2>2. QED
    BY <2>1 DEF AttendanceInit, AttendanceInv, AttendanceTypeOK
<1>2. AttendanceInv /\ [AttendanceNext]_attendanceVars => AttendanceInv'
  <2> SUFFICES ASSUME AttendanceInv, [AttendanceNext]_attendanceVars PROVE AttendanceInv'
    OBVIOUS
  <2>1. CASE Passes
    BY <2>1 DEF AttendanceInv, AttendanceTypeOK, Passes
  <2>2. CASE NextDay
    BY <2>2, LooksAssumption DEF AttendanceInv, AttendanceTypeOK, NextDay, Stamp
  <2>3. CASE ClockIn
    <3>1. clockIn' \in Stamp /\ clockIn' # Blank /\ clockIn'.day = today
      BY <2>3, StampAssumption DEF AttendanceInv, AttendanceTypeOK, ClockIn, Stamp
    <3>2. clockOut' # Blank => clockOut' = clockOut /\ clockOut.day <= today
      BY <2>3, LooksAssumption DEF AttendanceInv, AttendanceTypeOK, ClockIn, Stamp
    <3>3. QED
      BY <2>3, <3>1, <3>2, LooksAssumption DEF AttendanceInv, AttendanceTypeOK, ClockIn
  <2>4. CASE ClockOut
    BY <2>4, LooksAssumption DEF AttendanceInv, AttendanceTypeOK, ClockOut, Stamp
  <2>5. CASE UNCHANGED attendanceVars
    BY <2>5 DEF AttendanceInv, AttendanceTypeOK, attendanceVars
  <2>6. QED
    BY <2>1, <2>2, <2>3, <2>4, <2>5 DEF AttendanceNext
<1>3. QED
  BY <1>1, <1>2, PTL DEF AttendanceSpec

\* The document and the clock have the shapes of TypeOK, and no clock-out is
\* left of a date after the last clock-in.
THEOREM AttendanceTypeCorrect == AttendanceSpec => []AttendanceTypeOK
<1>1. AttendanceInv => AttendanceTypeOK
  BY DEF AttendanceInv
<1>2. QED
  BY <1>1, AttendanceInductive, PTL

\* A clock of today is taken for one of today.
LEMMA OnIsToday == \A t : On(t) => IsToday(t)
BY DEF On, IsToday

\* Who is at work is green under every schedule.
THEOREM PresentShown == AttendanceSpec => []PresentIsGreen
<1>1. PresentIsGreen
  BY OnIsToday DEF PresentIsGreen, Status, ByClocks, ByRow
<1>2. QED
  BY <1>1, PTL
-----------------------------------------------------------------------------
\* On one half of the dial the hours keep their order.
LEMMA DialKeepsOrder ==
  ASSUME NEW S \in {1 .. 12, 13 .. 23}, NEW g \in S, NEW h \in S
  PROVE  Dial(g) < Dial(h) <=> g < h
<1>1. ASSUME NEW k \in 1 .. 12 PROVE Dial(k) = k
  <2>1. CASE k = 12
    BY <2>1 DEF Dial
  <2>2. CASE k \in 1 .. 11
    BY <2>2 DEF Dial
  <2>3. QED
    BY <2>1, <2>2
<1>2. ASSUME NEW k \in 13 .. 23 PROVE Dial(k) = k - 12
  <2>1. k % 12 = k - 12
    OBVIOUS
  <2>2. QED
    BY <2>1 DEF Dial
<1>3. QED
  BY <1>1, <1>2

\* With one complete half-day, that is the last one.
LEMMA OneHalfDay ==
  ASSUME AttendanceTypeOK, Cardinality(Complete) = 1
  PROVE  /\ Complete = {Max(Complete)}
         /\ schedule[Max(Complete)] \in Row
         /\ schedule[Max(Complete)].in # Blank /\ schedule[Max(Complete)].out # Blank
<1>1. DOMAIN schedule = 1 .. Len(schedule) /\ Len(schedule) \in Nat
  BY DEF AttendanceTypeOK
<1>2. IsFiniteSet(Complete)
  <2>1. IsFiniteSet(1 .. Len(schedule))
    BY <1>1, FS_Interval
  <2>2. Complete \subseteq 1 .. Len(schedule)
    BY <1>1 DEF Complete
  <2>3. QED
    BY <2>1, <2>2, FS_Subset
<1>3. PICK i : Complete = {i}
  BY <1>2, FS_Singleton
<1>4. i \in DOMAIN schedule
  BY <1>3 DEF Complete
<1>5. Max(Complete) = i
  BY <1>1, <1>3, <1>4 DEF Max
<1>6. schedule[i] \in Row /\ schedule[i].in # Blank /\ schedule[i].out # Blank
  <2>1. i \in Complete
    BY <1>3
  <2>2. QED
    BY <1>4, <2>1 DEF Complete, AttendanceTypeOK
<1>7. QED
  BY <1>3, <1>5, <1>6

\* Within the conditions it names, the colour is what a clock of 24 hours and
\* whole dates would give.
THEOREM PlainShown == AttendanceSpec => []PlainIsRight
<1>1. AttendanceTypeOK => PlainIsRight
  <2> DEFINE row == schedule[Max(Complete)]
  <2> SUFFICES ASSUME AttendanceTypeOK, Cardinality(Complete) = 1,
                      NEW S \in {1 .. 12, 13 .. 23}, Used \subseteq S,
                      \A t \in {clockIn, clockOut} \ {Blank} : IsToday(t) => On(t)
               PROVE  Status = Expected(row)
    BY DEF PlainIsRight
  <2>1. Complete = {Max(Complete)} /\ Status = ByRow(row)
    BY OneHalfDay DEF Status
  <2>2. row.in \in S /\ row.out \in S /\ now \in S
    BY <2>1 DEF Used
  <2>3. \A t \in {clockIn, clockOut} : On(t) <=> IsToday(t)
    BY OnIsToday DEF IsToday
  <2>4. On(clockOut) => clockOut.hour \in S
    BY DEF Used, On
  <2> HIDE DEF row
  <2>5. ByRow(row) = Expected(row)
    <3>1. /\ Dial(row.in) < Dial(now) <=> row.in < now
          /\ Dial(now) < Dial(row.out) <=> now < row.out
          /\ On(clockOut) => (Dial(clockOut.hour) < Dial(row.out)
                              <=> clockOut.hour < row.out)
      BY <2>2, <2>4, DialKeepsOrder
    <3>2. QED
      BY <2>3, <3>1 DEF ByRow, Expected
  <2>6. QED
    BY <2>1, <2>5
<1>2. QED
  BY <1>1, AttendanceTypeCorrect, PTL
=============================================================================
