---------------------------- MODULE NavigatorProofs ----------------------------
(***************************************************************************)
(* Facts about the routes of Navigator, for every set of dialogs.          *)
(***************************************************************************)
EXTENDS Navigator, FiniteSetTheorems, SequenceTheorems, TLAPS

Routes == {"under", "page", "child", "loading"} \cup Dialogs

\* What the steps of the routes need to know about them.
RoutesInv ==
  /\ pageSt \in {"open", "closing", "closed"}
  /\ stack \in Seq(Routes)
  /\ dialog \in [Dialogs -> {"none", "due", "up", "leaving"}]
  /\ astray \in BOOLEAN
  /\ \A i \in DOMAIN stack : stack[i] = "under" => i = 1
  /\ \A i \in DOMAIN stack : stack[i] = "page" => i = 2 /\ pageSt = "open"
  /\ pageSt = "open" => 2 \in DOMAIN stack /\ stack[2] = "page"

\* The type invariant of Navigator follows.
LEMMA RoutesTyped == RoutesInv => NavigatorTypeOK
<1> SUFFICES ASSUME RoutesInv PROVE NavigatorTypeOK
  OBVIOUS
<1>1. (pageSt = "open") = ("page" \in Range(stack))
  <2>1. pageSt = "open" => "page" \in Range(stack)
    BY DEF RoutesInv, Range
  <2>2. "page" \in Range(stack) => pageSt = "open"
    BY DEF RoutesInv, Range
  <2>3. QED
    BY <2>1, <2>2
<1>2. QED
  BY <1>1 DEF RoutesInv, NavigatorTypeOK, Routes

\* The ends of short stacks.
LEMMA ShortStacks ==
  ASSUME NEW a, NEW b, NEW c
  PROVE  /\ Front(<<a, b, c>>) = <<a, b>> /\ Last(<<a, b, c>>) = c
         /\ Front(<<a, b>>) = <<a>> /\ Last(<<a, b>>) = b
         /\ Last(<<a>>) = a
         /\ Append(<<a>>, b) = <<a, b>>
<1>1. Last(<<a, b, c>>) = c /\ Last(<<a, b>>) = b /\ Last(<<a>>) = a
  BY DEF Last
<1>2. Front(<<a, b, c>>) = <<a, b>>
  <2>1. \A i \in 1 .. 2 : <<a, b, c>>[i] \in {a, b}
    OBVIOUS
  <2>2. /\ Front(<<a, b, c>>) \in Seq({a, b}) /\ Len(Front(<<a, b, c>>)) = 2
        /\ \A i \in 1 .. 2 : Front(<<a, b, c>>)[i] = <<a, b, c>>[i]
    BY <2>1, SubSeqProperties DEF Front
  <2>3. <<a, b>> \in Seq({a, b}) /\ Len(<<a, b>>) = 2
        /\ \A i \in 1 .. 2 : <<a, b>>[i] = <<a, b, c>>[i]
    OBVIOUS
  <2>4. QED
    BY <2>2, <2>3, SeqEqual
<1>3. Front(<<a, b>>) = <<a>>
  <2>1. \A i \in 1 .. 1 : <<a, b>>[i] \in {a}
    OBVIOUS
  <2>2. /\ Front(<<a, b>>) \in Seq({a}) /\ Len(Front(<<a, b>>)) = 1
        /\ Front(<<a, b>>)[1] = a
    BY <2>1, SubSeqProperties DEF Front
  <2>3. <<a>> \in Seq({a}) /\ Len(<<a>>) = 1 /\ <<a>>[1] = a
    OBVIOUS
  <2>4. QED
    BY <2>2, <2>3, SeqEqual
<1>4. Append(<<a>>, b) = <<a, b>>
  <2>1. /\ <<a>> \in Seq({a, b}) /\ Len(<<a>>) = 1 /\ <<a>>[1] = a
        /\ <<a, b>> \in Seq({a, b}) /\ Len(<<a, b>>) = 2
        /\ <<a, b>>[1] = a /\ <<a, b>>[2] = b
    OBVIOUS
  <2>2. /\ Append(<<a>>, b) \in Seq({a, b}) /\ Len(Append(<<a>>, b)) = 2
        /\ Append(<<a>>, b)[1] = a /\ Append(<<a>>, b)[2] = b
    BY <2>1, AppendProperties
  <2>3. \A i \in 1 .. 2 : Append(<<a>>, b)[i] = <<a, b>>[i]
    BY <2>1, <2>2
  <2>4. QED
    BY <2>1, <2>2, <2>3, SeqEqual
<1>5. QED
  BY <1>1, <1>2, <1>3, <1>4

\* A route is pushed on the page.
LEMMA PushThird ==
  ASSUME NEW a, NEW b, NEW c
  PROVE  Append(<<a, b>>, c) = <<a, b, c>>
<1> DEFINE S == {a, b, c}
<1>1. /\ <<a, b>> \in Seq(S) /\ Len(<<a, b>>) = 2
      /\ <<a, b>>[1] = a /\ <<a, b>>[2] = b
      /\ <<a, b, c>> \in Seq(S) /\ Len(<<a, b, c>>) = 3
      /\ <<a, b, c>>[1] = a /\ <<a, b, c>>[2] = b /\ <<a, b, c>>[3] = c
  OBVIOUS
<1>2. c \in S
  OBVIOUS
<1> HIDE DEF S
<1>3. /\ Append(<<a, b>>, c) \in Seq(S) /\ Len(Append(<<a, b>>, c)) = 3
      /\ Append(<<a, b>>, c)[1] = a /\ Append(<<a, b>>, c)[2] = b
      /\ Append(<<a, b>>, c)[3] = c
  BY <1>1, <1>2, AppendProperties
<1>4. \A i \in 1 .. 3 : Append(<<a, b>>, c)[i] = <<a, b, c>>[i]
  BY <1>1, <1>3
<1>5. QED
  BY <1>1, <1>3, <1>4, SeqEqual

\* A page that has been opened has them.
LEMMA OpenedRoutes == Opened => RoutesInv /\ Loadings = {}
<1> SUFFICES ASSUME Opened PROVE RoutesInv /\ Loadings = {}
  OBVIOUS
<1>1. stack = <<"under", "page">>
  BY DEF Opened
<1>2. stack \in Seq(Routes) /\ DOMAIN stack = 1 .. 2
  BY <1>1 DEF Routes
<1>3. stack[1] = "under" /\ stack[2] = "page"
  BY <1>1
<1>4. \A i \in DOMAIN stack : i = 1 \/ i = 2
  BY <1>2
<1>5. Loadings = {}
  BY <1>3, <1>4 DEF Loadings
<1>6. /\ \A i \in DOMAIN stack : stack[i] = "under" => i = 1
      /\ \A i \in DOMAIN stack : stack[i] = "page" => i = 2
      /\ 2 \in DOMAIN stack
  BY <1>2, <1>3, <1>4
<1>7. QED
  BY <1>2, <1>3, <1>5, <1>6 DEF Opened, RoutesInv

\* The loading dialogs are finitely many.
LEMMA LoadingsFinite == RoutesInv => IsFiniteSet(Loadings)
<1> SUFFICES ASSUME RoutesInv PROVE IsFiniteSet(Loadings)
  OBVIOUS
<1>1. Loadings \subseteq 1 .. Len(stack) /\ Len(stack) \in Nat
  BY DEF Loadings, RoutesInv
<1>2. IsFiniteSet(1 .. Len(stack))
  BY <1>1, FS_Interval
<1>3. QED
  BY <1>1, <1>2, FS_Subset

\* A pop takes the last route.
LEMMA PopStack ==
  ASSUME RoutesInv, Pop, stack # <<>>
  PROVE  /\ Len(stack) \in Nat \ {0} /\ stack' \in Seq(Routes)
         /\ DOMAIN stack = 1 .. Len(stack)
         /\ DOMAIN stack' = 1 .. Len(stack) - 1
         /\ \A i \in DOMAIN stack' : stack'[i] = stack[i]
         /\ Top = stack[Len(stack)]
<1>1. stack \in Seq(Routes)
  BY DEF RoutesInv
<1>2. /\ stack' = SubSeq(stack, 1, Len(stack) - 1)
      /\ Top = stack[Len(stack)]
  BY DEF Pop, Front, Top, Last
<1>3. Len(stack) \in Nat \ {0} /\ DOMAIN stack = 1 .. Len(stack)
  BY <1>1, EmptySeq, LenProperties
<1>4. \A i \in 1 .. Len(stack) - 1 : stack[i] \in Routes
  BY <1>1, <1>3, ElementOfSeq
<1>5. /\ stack' \in Seq(Routes) /\ Len(stack') = Len(stack) - 1
      /\ \A i \in 1 .. Len(stack) - 1 : stack'[i] = stack[i]
  BY <1>2, <1>3, <1>4, SubSeqProperties
<1>6. DOMAIN stack' = 1 .. Len(stack) - 1
  BY <1>5, LenProperties
<1>7. QED
  BY <1>2, <1>3, <1>5, <1>6

\* There is nothing to pop on no route.
LEMMA PopNothing == ASSUME Pop, stack = <<>> PROVE stack' = <<>> /\ Top = None
BY DEF Pop, Top

\* What a pop does to the loading dialogs.
LEMMA PopLoadings ==
  ASSUME RoutesInv, Pop
  PROVE  /\ Top # "loading" => Loadings' = Loadings
         /\ Top = "loading" => Cardinality(Loadings') = Cardinality(Loadings) - 1
<1>1. CASE stack = <<>>
  BY <1>1, PopNothing, DialogsAssumption DEF Loadings
<1>2. CASE stack # <<>>
  <2>1. /\ Len(stack) \in Nat \ {0} /\ DOMAIN stack = 1 .. Len(stack)
        /\ DOMAIN stack' = 1 .. Len(stack) - 1
        /\ \A i \in DOMAIN stack' : stack'[i] = stack[i]
        /\ Top = stack[Len(stack)]
    BY <1>2, PopStack
  <2>2. Loadings' = {i \in 1 .. Len(stack) - 1 : stack[i] = "loading"}
    BY <2>1 DEF Loadings
  <2>3. Loadings = {i \in 1 .. Len(stack) : stack[i] = "loading"}
    BY <2>1 DEF Loadings
  <2>4. Loadings' = Loadings \ {Len(stack)}
    BY <2>1, <2>2, <2>3
  <2>5. Len(stack) \in Loadings <=> Top = "loading"
    BY <2>1, <2>3
  <2>6. CASE Top # "loading"
    BY <2>4, <2>5, <2>6
  <2>7. CASE Top = "loading"
    BY <2>4, <2>5, <2>7, LoadingsFinite, FS_RemoveElement
  <2>8. QED
    BY <2>6, <2>7
<1>3. QED
  BY <1>1, <1>2

\* What a push does to the routes and the loading dialogs.
LEMMA Push ==
  ASSUME RoutesInv, NEW r \in Routes, stack' = Append(stack, r)
  PROVE  /\ stack' \in Seq(Routes)
         /\ DOMAIN stack = 1 .. Len(stack) /\ Len(stack) \in Nat
         /\ DOMAIN stack' = 1 .. Len(stack) + 1
         /\ \A i \in DOMAIN stack : stack'[i] = stack[i]
         /\ stack'[Len(stack) + 1] = r
         /\ r # "loading" => Loadings' = Loadings
         /\ r = "loading" => Cardinality(Loadings') = Cardinality(Loadings) + 1
<1>1. stack \in Seq(Routes)
  BY DEF RoutesInv
<1>2. /\ stack' \in Seq(Routes)
      /\ DOMAIN stack = 1 .. Len(stack) /\ Len(stack) \in Nat
      /\ DOMAIN stack' = 1 .. Len(stack) + 1
      /\ \A i \in DOMAIN stack : stack'[i] = stack[i]
      /\ stack'[Len(stack) + 1] = r
  BY <1>1, LenProperties, AppendProperties
<1>3. Loadings' = {i \in 1 .. Len(stack) + 1 : stack'[i] = "loading"}
  BY <1>2 DEF Loadings
<1>4. Loadings = {i \in 1 .. Len(stack) : stack'[i] = "loading"}
  BY <1>2 DEF Loadings
<1>5. CASE r # "loading"
  BY <1>2, <1>3, <1>4, <1>5
<1>6. CASE r = "loading"
  <2>1. Loadings' = Loadings \cup {Len(stack) + 1} /\ Len(stack) + 1 \notin Loadings
    BY <1>2, <1>3, <1>4, <1>6
  <2>2. Cardinality(Loadings') = Cardinality(Loadings) + 1
    BY <2>1, LoadingsFinite, FS_AddElement
  <2>3. QED
    BY <1>2, <1>6, <2>2
<1>7. QED
  BY <1>2, <1>5, <1>6
\* The same on the stacks of a page with at most one route above it.
LEMMA TopOfShort ==
  /\ stack = <<"under">> => Top = "under"
  /\ stack = <<"under", "page">> => Top = "page"
  /\ \A r : stack = <<"under", "page", r>> => Top = r
<1>1. CASE stack = <<"under">>
  <2>1. Last(<<"under">>) = "under" /\ <<"under">> # <<>> /\ Len(stack) = 1
    BY <1>1, ShortStacks
  <2>2. QED
    BY <1>1, <2>1 DEF Top
<1>2. CASE stack = <<"under", "page">>
  <2>1. Last(<<"under", "page">>) = "page" /\ stack # <<>> /\ Len(stack) = 2
    BY <1>2, ShortStacks
  <2>2. QED
    BY <1>2, <2>1 DEF Top
<1>3. ASSUME NEW r, stack = <<"under", "page", r>> PROVE Top = r /\ Len(stack) = 3
  <2>1. stack # <<>> /\ Len(stack) = 3 /\ stack[3] = r
    BY <1>3
  <2>2. QED
    BY <2>1 DEF Top, Last
<1>4. QED
  BY <1>1, <1>2, <1>3

\* What a pop takes when at most one route is above the page.
LEMMA PopOfShort ==
  ASSUME RoutesInv, Pop
  PROVE  /\ stack = <<"under", "page">> => stack' = <<"under">>
         /\ \A r : stack = <<"under", "page", r>> => stack' = <<"under", "page">>
         /\ Top \notin Dialogs => dialog' = dialog
<1>1. ASSUME stack = <<"under", "page">> PROVE stack' = <<"under">>
  <2>1. Front(<<"under", "page">>) = <<"under">>
    BY ShortStacks
  <2>2. stack # <<>>
    BY <1>1
  <2>3. QED
    BY <1>1, <2>1, <2>2 DEF Pop
<1>2. ASSUME NEW r, stack = <<"under", "page", r>> PROVE stack' = <<"under", "page">>
  <2>1. Front(<<"under", "page", r>>) = <<"under", "page">>
    BY ShortStacks
  <2>2. stack # <<>>
    BY <1>2
  <2>3. QED
    BY <1>2, <2>1, <2>2 DEF Pop
<1>3. Top \notin Dialogs => dialog' = dialog
  BY DEF RoutesInv, Pop
<1>4. QED
  BY <1>1, <1>2, <1>3
-----------------------------------------------------------------------------
\* A pop keeps the routes, and opens no page.
LEMMA PopKeeps ==
  ASSUME RoutesInv, Pop, astray' \in BOOLEAN
  PROVE  /\ RoutesInv'
         /\ pageSt' = "open" => pageSt = "open" /\ Top # "page"
         /\ pageSt = "closed" => pageSt' = "closed"
<1>1. /\ pageSt' \in {"open", "closing", "closed"}
      /\ dialog' \in [Dialogs -> {"none", "due", "up", "leaving"}]
      /\ pageSt' = "open" <=> pageSt = "open" /\ Top # "page"
      /\ pageSt' = IF Top = "page" THEN "closing" ELSE pageSt
  BY DEF RoutesInv, Pop
<1>2. CASE stack = <<>>
  BY <1>1, <1>2, DialogsAssumption DEF RoutesInv, Pop, Top
<1>3. CASE stack # <<>>
  <2>1. /\ Len(stack) \in Nat \ {0} /\ stack' \in Seq(Routes)
        /\ DOMAIN stack = 1 .. Len(stack)
        /\ DOMAIN stack' = 1 .. Len(stack) - 1
        /\ \A i \in DOMAIN stack' : stack'[i] = stack[i]
        /\ Top = stack[Len(stack)]
    BY <1>3, PopStack
  <2>2. \A i \in DOMAIN stack' : stack'[i] = "under" => i = 1
    BY <2>1 DEF RoutesInv
  <2>3. \A i \in DOMAIN stack' : stack'[i] = "page" => i = 2 /\ pageSt' = "open"
    BY <1>1, <2>1 DEF RoutesInv
  <2>4. pageSt' = "open" => 2 \in DOMAIN stack' /\ stack'[2] = "page"
    BY <1>1, <2>1 DEF RoutesInv
  <2>5. Top = "page" => pageSt = "open"
    <3>1. Len(stack) \in DOMAIN stack
      BY <2>1
    <3>2. QED
      BY <2>1, <3>1 DEF RoutesInv
  <2>6. QED
    BY <1>1, <2>1, <2>2, <2>3, <2>4, <2>5 DEF RoutesInv
<1>4. QED
  BY <1>2, <1>3

\* A push of anything above the page keeps the routes.
LEMMA PushKeeps ==
  ASSUME RoutesInv, NEW r \in Routes \ {"under", "page"},
         stack' = Append(stack, r), pageSt' = pageSt,
         dialog' \in [Dialogs -> {"none", "due", "up", "leaving"}],
         astray' \in BOOLEAN
  PROVE  RoutesInv'
<1>1. /\ stack' \in Seq(Routes)
      /\ DOMAIN stack = 1 .. Len(stack) /\ Len(stack) \in Nat
      /\ DOMAIN stack' = 1 .. Len(stack) + 1
      /\ \A i \in DOMAIN stack : stack'[i] = stack[i]
      /\ stack'[Len(stack) + 1] = r
  BY Push
<1>2. \A i \in DOMAIN stack' : stack'[i] = "under" => i = 1
  BY <1>1 DEF RoutesInv
<1>3. \A i \in DOMAIN stack' : stack'[i] = "page" => i = 2 /\ pageSt' = "open"
  BY <1>1 DEF RoutesInv
<1>4. pageSt' = "open" => 2 \in DOMAIN stack' /\ stack'[2] = "page"
  BY <1>1 DEF RoutesInv
<1>5. QED
  BY <1>1, <1>2, <1>3, <1>4 DEF RoutesInv

\* The operations of Navigator keep the routes.
LEMMA PopForKeeps ==
  ASSUME RoutesInv, NEW r, PopFor(r)
  PROVE  /\ RoutesInv'
         /\ pageSt' = "open" => pageSt = "open" /\ Top # "page"
         /\ pageSt = "closed" => pageSt' = "closed"
BY PopKeeps DEF PopFor, RoutesInv

\* A pop that throws changes no route.
LEMMA NoPopKeeps == RoutesInv /\ NoPop => RoutesInv'
BY DEF RoutesInv, NoPop, routes

\* A LoadingDialog that the page shows keeps the routes in order.
LEMMA PageShowsLoadingKeeps == RoutesInv /\ PageShowsLoading => RoutesInv'
<1> SUFFICES ASSUME RoutesInv, PageShowsLoading PROVE RoutesInv'
  OBVIOUS
<1>1. CASE Mounted
  <2>1. stack' = Append(stack, "loading") /\ UNCHANGED <<pageSt, dialog, astray>>
    BY <1>1 DEF PageShowsLoading
  <2>2. "loading" \in Routes \ {"under", "page"}
    BY DEF Routes
  <2>3. QED
    BY <2>1, <2>2, PushKeeps DEF RoutesInv
<1>2. CASE ~Mounted
  BY <1>2 DEF PageShowsLoading, RoutesInv
<1>3. QED
  BY <1>1, <1>2

\* A dialog that is asked for keeps the routes in order.
LEMMA AskForKeeps == ASSUME NEW d \in Dialogs PROVE RoutesInv /\ AskFor(d) => RoutesInv'
BY DEF RoutesInv, AskFor

\* A dialog that is shown keeps the routes in order.
LEMMA ShowKeeps == ASSUME NEW d \in Dialogs PROVE RoutesInv /\ Show(d) => RoutesInv'
<1> SUFFICES ASSUME RoutesInv, Show(d) PROVE RoutesInv'
  OBVIOUS
<1>1. dialog' \in [Dialogs -> {"none", "due", "up", "leaving"}]
  BY DEF RoutesInv, Show
<1>2. CASE Mounted
  <2>1. stack' = Append(stack, d) /\ UNCHANGED <<pageSt, astray>>
    BY <1>2 DEF Show
  <2>2. d \in Routes \ {"under", "page"}
    BY DialogsAssumption DEF Routes
  <2>3. QED
    BY <1>1, <2>1, <2>2, PushKeeps DEF RoutesInv
<1>3. CASE ~Mounted
  BY <1>1, <1>3 DEF Show, RoutesInv
<1>4. QED
  BY <1>2, <1>3

\* The back button takes no LoadingDialog and opens no page.
LEMMA GoBackKeeps ==
  ASSUME RoutesInv, GoBack
  PROVE  /\ RoutesInv' /\ Loadings' = Loadings
         /\ pageSt' = "open" => pageSt = "open"
         /\ pageSt = "closed" => pageSt' = "closed"
<1>1. Pop /\ astray' \in BOOLEAN
  BY DEF GoBack, RoutesInv
<1>2. Top # "loading"
  BY DialogsAssumption DEF GoBack
<1>3. QED
  BY <1>1, <1>2, PopKeeps, PopLoadings

\* A dialog whose transition ends keeps the routes in order.
LEMMA DialogLeavesKeeps ==
  ASSUME NEW d \in Dialogs PROVE RoutesInv /\ DialogLeaves(d) => RoutesInv'
BY DEF RoutesInv, DialogLeaves

\* A page whose transition ends keeps the routes in order.
LEMMA PageLeavesKeeps == RoutesInv /\ PageLeaves => RoutesInv'
BY DEF RoutesInv, PageLeaves

\* The page is opened on nothing but what is under it.
LEMMA ReopenKeeps ==
  ASSUME RoutesInv, Top = "under", stack' = Append(stack, "page"),
         pageSt' = "open", UNCHANGED dialog, astray' \in BOOLEAN
  PROVE  RoutesInv' /\ Loadings = {} /\ Loadings' = {}
<1>1. stack # <<>>
  BY DialogsAssumption DEF Top
<1>2. stack \in Seq(Routes)
  BY DEF RoutesInv
<1>3. /\ Len(stack) \in Nat \ {0} /\ DOMAIN stack = 1 .. Len(stack)
      /\ Top = stack[Len(stack)]
  BY <1>1, <1>2, EmptySeq, LenProperties DEF Top, Last
<1>4. Len(stack) = 1
  BY <1>3 DEF RoutesInv
<1>5. "page" \in Routes
  BY DEF Routes
<1>6. /\ stack' \in Seq(Routes) /\ DOMAIN stack' = 1 .. 2
      /\ stack'[1] = "under" /\ stack'[2] = "page"
  BY <1>3, <1>4, <1>5, Push
<1>7. Loadings = {} /\ Loadings' = {}
  BY <1>3, <1>4, <1>6 DEF Loadings
<1>8. /\ \A i \in DOMAIN stack' : stack'[i] = "under" => i = 1
      /\ \A i \in DOMAIN stack' : stack'[i] = "page" => i = 2
  BY <1>6
<1>9. QED
  BY <1>6, <1>7, <1>8 DEF RoutesInv
=============================================================================
