----------------------------- MODULE SessionProofs -----------------------------
(***************************************************************************)
(* Theorems about Session, for every set of accounts and of pages: what    *)
(* Home finds in the view models, whichever chains of pages that were left *)
(* go on beside it.                                                        *)
(***************************************************************************)
EXTENDS Session, FiniteSetTheorems, TLAPS

ViewRec == [page : Pages, shown : {"top", "leaving", "gone"}, arg : Flags,
            enabled : BOOLEAN, at : Steps, who : Accounts \cup {NoOne}]

\* There is one page on top.
OneTop == \E v \in Views : \A u \in Views : IsTop(u) <=> u = v

\* The types of what is not a page.
Types ==
  /\ accounts \subseteq Accounts
  /\ users \in [Accounts -> Docs]
  /\ signedIn \in Accounts \cup {NoOne}
  /\ known \in BOOLEAN
  /\ flag \in Flags
  /\ user \in Accounts \cup {NoOne}
  /\ companies \in Accounts \cup {NoOne}
  /\ stray \subseteq {"signin", "fetch", "verify"}

\* TypeOK, with OneTop for its cardinality.
TInv == Types /\ view \in [Views -> ViewRec] /\ OneTop

\* A step that is not of the page's own waiting.
Rests == {"idle", "refresh"}

\* What holds of each page: its steps are those of its kind, a chain is about
\* an account, only the Splash on top is under way, and a form that waits for
\* nothing takes input.
RowOK(r) ==
  /\ r.at \in {"net", "wait", "dead"} => r.page = "splash"
  /\ r.at \in {"data", "fetch"} => r.page \in {"splash", "login"}
  /\ r.at = "signin" => r.page = "login"
  /\ r.at \in {"create", "profile", "profiled", "mails"} => r.page = "register"
  /\ r.at \in {"check", "verify", "written"} => r.page \in {"code", "success"}
  /\ r.at = "refresh" => r.page = "home"
  /\ r.at \notin Rests \cup {"net", "wait", "dead"} => r.who \in Accounts
  /\ r.page = "splash" /\ r.at # "idle" => r.shown = "top"
  /\ r.shown = "top" /\ r.page \in {"login", "code"} =>
       r.enabled \/ r.at # "idle"

\* A chain whose page is still mounted.
Works(r) == r.shown # "gone" /\ r.at \notin Rests
Busy(v) == Works(view[v])

\* Forms are submitted on a page that has the screen to itself, so two chains
\* never have their pages mounted at once ...
OneBusy == \A u, v \in Views : Busy(u) /\ Busy(v) => u = v

\* ... and beside Splash and the error page there is none.
SplashAlone ==
  \A u, v \in Views :
    IsTop(u) /\ view[u].page \in {"splash", "error"} /\ Busy(v) => u = v

VInv == TInv /\ (\A v \in Views : RowOK(view[v])) /\ OneBusy /\ SplashAlone

\* Until a verification goes astray: no chain of a mounted page is under way on
\* Home, the model is the one that a login or Splash has set and Verify shows,
\* Home has one, and refreshes the companies of its account.
HomeIsQuiet ==
  "verify" \notin stray =>
    \A u, v \in Views :
      IsTop(u) /\ view[u].page \in {"home", "success"} => ~Busy(v)
ModelKept ==
  "verify" \notin stray =>
    \A v \in Views : Mounted(v) =>
      /\ view[v].at = "fetch" => user = view[v].who
      /\ view[v].at \in {"verify", "written"} => user # NoOne
HomeModel ==
  "verify" \notin stray =>
    \A u \in Views :
      IsTop(u) /\ view[u].page \in {"home", "success"} => user # NoOne
RefreshOwn ==
  "verify" \notin stray =>
    \A u \in Views : IsTop(u) /\ view[u].at = "refresh" => view[u].who = user

\* Companies are there on Home only, and its own.
HomeLists ==
  stray \cap {"fetch", "verify"} = {} =>
    \A u \in Views : IsTop(u) =>
      companies = NoOne \/ (view[u].page = "home" /\ companies = user)

\* Until a sign-in goes astray a chain is about the account it has signed in.
SignedInFor ==
  "signin" \notin stray =>
    \A v \in Views : Mounted(v) =>
      /\ view[v].at = "data" => signedIn \in {view[v].who, NoOne}
      /\ view[v].at = "fetch" =>
           signedIn = NoOne \/ (signedIn = view[v].who /\ user = view[v].who)

GInv == /\ HomeIsQuiet /\ ModelKept /\ HomeModel /\ RefreshOwn
        /\ HomeLists /\ SignedInFor

IInv == VInv /\ GInv
-----------------------------------------------------------------------------
\* Pages and their chains.

\* What is kept of a page.
LEMMA KeptIs ==
  ASSUME NEW r \in ViewRec
  PROVE  /\ Kept(r) \in ViewRec
         /\ Kept(r).shown = r.shown /\ Kept(r).at = r.at
         /\ r.shown = "top" => Kept(r) = r
         /\ r.at # "idle" => Kept(r).page = r.page /\ Kept(r).who = r.who
         /\ r.shown # "top" /\ r.at = "idle" => Kept(r).page = "welcome"
BY AccountsAssumption DEF Kept, Blank, ViewRec, Pages, Flags, Steps

\* A page that is kept is one that may be: of a Splash that is not on top
\* nothing is under way.
LEMMA KeptRow ==
  ASSUME NEW r \in ViewRec,
         RowOK(r) \/ (r.at = "idle" /\ r.shown # "top")
  PROVE  RowOK(Kept(r))
<1>1. CASE r.shown = "top"
  BY <1>1, KeptIs
<1>2. CASE r.shown # "top" /\ r.at = "idle"
  BY <1>2, KeptIs DEF RowOK, Rests
<1>3. CASE r.shown # "top" /\ r.at # "idle"
  BY <1>3, KeptIs DEF RowOK, Rests
<1>4. QED
  BY <1>1, <1>2, <1>3

\* A new page waits for nothing, or is a Splash that starts.
LEMMA FreshRow ==
  ASSUME NEW p \in Pages, NEW a \in Flags
  PROVE  /\ Fresh(p, a) \in ViewRec /\ RowOK(Fresh(p, a))
         /\ Fresh(p, a).shown = "top" /\ Fresh(p, a).page = p
         /\ p # "splash" => Fresh(p, a).at = "idle"
         /\ p = "splash" => Fresh(p, a).at = "net"
BY AccountsAssumption DEF Fresh, Blank, ViewRec, RowOK, Rests, Pages, Flags, Steps

\* The step of one page that is not replaced.
Moves(v, r) ==
  /\ r \in ViewRec /\ RowOK(r)
  /\ view' = [view EXCEPT ![v] = r]
  /\ r.shown = view[v].shown
  /\ IsTop(v) => r.page = view[v].page
  /\ Works(r) => Busy(v) \/ (IsTop(v) /\ \A u \in Views : Busy(u) => u = v)

\* It keeps the pages in order.
LEMMA MovesKeep ==
  ASSUME VInv, NEW v \in Views, NEW r, Moves(v, r)
  PROVE  /\ view' \in [Views -> ViewRec] /\ OneTop'
         /\ \A u \in Views : RowOK(view[u])'
         /\ OneBusy' /\ SplashAlone'
         /\ view'[v] = r /\ \A u \in Views \ {v} : view'[u] = view[u]
         /\ \A u \in Views : IsTop(u)' = IsTop(u)
<1>1. /\ view' \in [Views -> ViewRec]
      /\ view'[v] = r /\ \A u \in Views \ {v} : view'[u] = view[u]
  BY DEF VInv, TInv, Moves
<1>2. \A u \in Views : view'[u].shown = view[u].shown
  BY <1>1 DEF Moves
<1>3. \A u \in Views : IsTop(u)' = IsTop(u)
  BY <1>2 DEF IsTop
<1>4. OneTop'
  BY <1>3 DEF OneTop, VInv, TInv
<1>5. \A u \in Views : RowOK(view[u])'
  BY <1>1 DEF VInv, Moves, RowOK, Rests
<1>6. \A u \in Views : Busy(u)' => Busy(u) \/ u = v
  BY <1>1 DEF Busy
<1>7. Busy(v)' => Busy(v) \/ (IsTop(v) /\ \A u \in Views : Busy(u) => u = v)
  BY <1>1 DEF Moves, Busy
<1>8. OneBusy'
  BY <1>6, <1>7 DEF OneBusy, VInv
<1>9. SplashAlone'
  <2> SUFFICES ASSUME NEW u \in Views, NEW x \in Views, IsTop(u)',
                      view'[u].page \in {"splash", "error"}, Busy(x)'
               PROVE  u = x
    BY DEF SplashAlone
  <2>1. IsTop(u) /\ view[u].page \in {"splash", "error"}
    BY <1>1, <1>3 DEF Moves
  <2>2. QED
    BY <1>3, <1>6, <1>7, <2>1 DEF SplashAlone, VInv, OneTop, TInv
<1>10. QED
  BY <1>1, <1>3, <1>4, <1>5, <1>8, <1>9

\* A page is put on top of views, of which at most v has just come to rest.
Opens(v, views, new) ==
  /\ new \in ViewRec /\ RowOK(new) /\ new.shown = "top"
  /\ view[v].shown # "gone"
  /\ views \in {view, After(v, "idle")}
  /\ Replace(views, new)
  /\ IF views = view
     THEN /\ IsTop(v)
          /\ view[v].at \in Rests \/ view[v].page \notin {"splash", "error"}
     ELSE Busy(v)
  /\ new.at # "idle" => new.at = "net" /\ view[v].page = "error"
  /\ new.page \in {"splash", "error"} => view[v].page \in {"splash", "error"} /\ IsTop(v)

\* The page on top is the new one; who was under way still is, but for v.
LEMMA OpensKeep ==
  ASSUME VInv, NEW v \in Views, NEW views, NEW new, Opens(v, views, new)
  PROVE  /\ view' \in [Views -> ViewRec] /\ OneTop'
         /\ \A u \in Views : RowOK(view[u])'
         /\ OneBusy' /\ SplashAlone'
         /\ \A u \in Views : IsTop(u)' => view'[u] = new
         /\ \A u \in Views : Busy(u)' /\ ~IsTop(u)' =>
              /\ views = view /\ Busy(u)
              /\ view'[u].at = view[u].at /\ view'[u].who = view[u].who
         /\ \A u \in Views : Mounted(u)' /\ ~IsTop(u)' => Mounted(u)
<1>0. /\ view \in [Views -> ViewRec]
      /\ \A u \in Views : RowOK(view[u])
  BY DEF VInv, TInv
<1>1. /\ views \in [Views -> ViewRec]
      /\ \A u \in Views : views[u].shown = view[u].shown
      /\ \A u \in Views : views[u].at # "idle" => views[u] = view[u]
      /\ views # view => views[v].at = "idle"
      /\ \A u \in Views : views[u].shown # "top" => RowOK(views[u])
  <2>1. CASE views = view
    BY <1>0, <2>1 DEF Opens, Busy, Works
  <2>2. CASE views # view
    <3> DEFINE r == [view[v] EXCEPT !.at = "idle"]
    <3>1. /\ r \in ViewRec /\ r.shown = view[v].shown /\ r.at = "idle"
      BY <1>0 DEF ViewRec, Steps
    <3>2. views = [view EXCEPT ![v] = Kept(r)]
      BY <2>2 DEF Opens, After
    <3>3. /\ Kept(r) \in ViewRec /\ Kept(r).shown = view[v].shown
          /\ Kept(r).at = "idle"
          /\ r.shown # "top" => RowOK(Kept(r))
      BY <3>1, KeptIs, KeptRow
    <3> HIDE DEF r
    <3>4. QED
      BY <1>0, <3>1, <3>2, <3>3
  <2>3. QED
    BY <2>1, <2>2
<1>2. PICK w \in Views :
        /\ views[w] = Blank
        /\ view' = [x \in Views |->
                     IF x = w THEN new
                     ELSE IF views[x].shown = "top"
                          THEN Kept([views[x] EXCEPT !.shown = "leaving"])
                          ELSE views[x]]
  BY DEF Opens, Replace
<1>3. view'[w] = new /\ view[w].shown = "gone" /\ w # v
  BY <1>1, <1>2 DEF Blank, Opens
<1>4. ASSUME NEW u \in Views \ {w}
      PROVE  /\ view'[u] \in ViewRec /\ RowOK(view'[u])
             /\ view'[u].shown # "top"
             /\ view'[u].shown = "gone" <=> view[u].shown = "gone"
             /\ view'[u].at = views[u].at
             /\ view'[u].at # "idle" => view'[u].who = view[u].who
  <2>1. CASE views[u].shown # "top"
    <3>1. view'[u] = views[u]
      BY <1>2, <2>1
    <3>2. RowOK(views[u])
      BY <1>1, <2>1
    <3>3. QED
      BY <1>1, <2>1, <3>1, <3>2
  <2>2. CASE views[u].shown = "top"
    <3> DEFINE r == [views[u] EXCEPT !.shown = "leaving"]
    <3>1. /\ r \in ViewRec /\ r.shown = "leaving" /\ r.at = views[u].at
          /\ r.page = views[u].page /\ r.who = views[u].who
      BY <1>1 DEF ViewRec
    <3>2. view'[u] = Kept(r)
      BY <1>2, <2>2
    <3>3. view[u].shown = "top"
      BY <1>1, <2>2
    <3>4. views[u].at # "idle" => RowOK(r)
      <4> SUFFICES ASSUME views[u].at # "idle" PROVE RowOK(r)
        OBVIOUS
      <4>1. views[u] = view[u] /\ RowOK(view[u])
        BY <1>0, <1>1
      <4>2. view[u].page # "splash"
        <5> SUFFICES ASSUME view[u].page = "splash" PROVE FALSE
          OBVIOUS
        <5>1. Busy(v) => u = v
          BY <3>3 DEF SplashAlone, VInv, IsTop
        <5>2. /\ views = view /\ IsTop(v)
              /\ view[v].at \in Rests \/ view[v].page # "splash"
          BY <5>1, <1>1 DEF Opens
        <5>3. u = v
          BY <5>2, <3>3 DEF VInv, TInv, OneTop, IsTop
        <5>4. QED
          BY <5>2, <5>3, <4>1 DEF RowOK, Rests
      <4>3. QED
        BY <3>1, <4>1, <4>2 DEF RowOK
    <3> HIDE DEF r
    <3>5. RowOK(Kept(r))
      BY <3>1, <3>4, KeptRow
    <3>6. QED
      BY <1>1, <3>1, <3>2, <3>3, <3>5, KeptIs
  <2>3. QED
    BY <2>1, <2>2
<1>5. view' \in [Views -> ViewRec]
  BY <1>2, <1>3, <1>4 DEF Opens
<1>6. \A u \in Views : IsTop(u)' <=> u = w
  BY <1>3, <1>4 DEF IsTop, Opens
<1>7. \A u \in Views : Busy(u)' /\ u # w =>
        /\ views = view /\ Busy(u)
        /\ view'[u].at = view[u].at /\ view'[u].who = view[u].who
  <2> SUFFICES ASSUME NEW u \in Views, Busy(u)', u # w
               PROVE  /\ views = view /\ Busy(u)
                      /\ view'[u].at = view[u].at /\ view'[u].who = view[u].who
    OBVIOUS
  <2>1. view'[u].at = views[u].at /\ views[u].at \notin Rests
    BY <1>4 DEF Busy, Works
  <2>2. views[u] = view[u] /\ Busy(u)
    BY <1>1, <1>4, <2>1 DEF Busy, Works, Rests
  <2>3. ~Busy(v) \/ u = v
    BY <2>2 DEF VInv, OneBusy
  <2>4. views = view
    BY <1>1, <2>1, <2>3 DEF Opens, Rests
  <2>5. QED
    BY <1>4, <2>1, <2>2, <2>4 DEF Rests
<1>8. Busy(w)' \/ new.page \in {"splash", "error"} =>
        \A u \in Views : ~(Busy(u)' /\ u # w)
  <2> SUFFICES ASSUME Busy(w)' \/ new.page \in {"splash", "error"},
                      NEW u \in Views, Busy(u)', u # w
               PROVE  FALSE
    OBVIOUS
  <2>1. views = view /\ Busy(u)
    BY <1>7
  <2>2. IsTop(v) /\ view[v].page \in {"splash", "error"} /\ view[v].at \in Rests
    <3>1. CASE Busy(w)'
      BY <1>3, <2>1, <3>1 DEF Busy, Works, Opens, Rests
    <3>2. QED
      BY <2>1, <3>1 DEF Opens
  <2>3. u = v
    BY <2>1, <2>2 DEF VInv, SplashAlone
  <2>4. QED
    BY <2>1, <2>2, <2>3 DEF Busy, Works
<1>9. QED
  <2>1. \A u \in Views : RowOK(view[u])'
    BY <1>3, <1>4 DEF Opens, RowOK, Rests
  <2>2. OneTop'
    BY <1>6 DEF OneTop
  <2>3. OneBusy'
    BY <1>7, <1>8 DEF OneBusy, VInv
  <2>4. SplashAlone'
    BY <1>3, <1>6, <1>8 DEF SplashAlone
  <2>5. QED
    BY <1>3, <1>4, <1>5, <1>6, <1>7, <2>1, <2>2, <2>3, <2>4 DEF Mounted
-----------------------------------------------------------------------------
\* What the steps do to the records that Home reads.

\* A chain that ends, or goes on with its page where it was.
LEMMA GoesMoves ==
  ASSUME VInv, NEW v \in Views, NEW l \in Steps, Goes(v, l),
         RowOK([view[v] EXCEPT !.at = l]) \/ (l = "idle" /\ ~IsTop(v)),
         l \notin Rests => view[v].at \notin Rests
  PROVE  \E r \in ViewRec : /\ Moves(v, r) /\ r.at = l
                            /\ l # "idle" => r.who = view[v].who
<1> DEFINE s == [view[v] EXCEPT !.at = l]
<1>1. /\ s \in ViewRec /\ s.at = l /\ s.shown = view[v].shown
      /\ s.page = view[v].page /\ s.who = view[v].who
  BY DEF VInv, TInv, ViewRec
<1>2. RowOK(s) \/ (s.at = "idle" /\ s.shown # "top")
  BY <1>1 DEF IsTop
<1>3. view' = [view EXCEPT ![v] = Kept(s)]
  BY DEF Goes, After
<1> HIDE DEF s
<1>4. /\ Kept(s) \in ViewRec /\ RowOK(Kept(s)) /\ Kept(s).at = l
      /\ Kept(s).shown = view[v].shown
      /\ IsTop(v) => Kept(s).page = view[v].page
      /\ l # "idle" => Kept(s).who = view[v].who
  BY <1>1, <1>2, KeptIs, KeptRow DEF IsTop
<1>5. Moves(v, Kept(s))
  BY <1>3, <1>4 DEF Moves, Works, Busy
<1>6. QED
  BY <1>4, <1>5

\* A chain that ends and gives its form back.
LEMMA GivesBackMoves ==
  ASSUME VInv, NEW v \in Views, GivesBack(v), view[v].page # "splash"
  PROVE  \E r \in ViewRec : Moves(v, r) /\ r.at = "idle"
<1> DEFINE s == [view[v] EXCEPT !.at = "idle", !.enabled = TRUE]
<1>1. /\ s \in ViewRec /\ s.at = "idle" /\ s.shown = view[v].shown
      /\ s.page = view[v].page /\ s.enabled = TRUE
  BY DEF VInv, TInv, ViewRec, Steps
<1>2. RowOK(s)
  BY <1>1 DEF RowOK, Rests
<1>3. view' = [view EXCEPT ![v] = Kept(s)]
  BY DEF GivesBack, Free
<1> HIDE DEF s
<1>4. /\ Kept(s) \in ViewRec /\ RowOK(Kept(s)) /\ Kept(s).at = "idle"
      /\ Kept(s).shown = view[v].shown
      /\ IsTop(v) => Kept(s).page = view[v].page
  BY <1>1, <1>2, KeptIs, KeptRow DEF IsTop
<1>5. Moves(v, Kept(s))
  BY <1>3, <1>4 DEF Moves, Works, Rests
<1>6. QED
  BY <1>4, <1>5

\* While the chain of a mounted page is under way Home is not there, unless a
\* verification has gone astray; and there is no other such chain.
LEMMA BusyAway ==
  ASSUME IInv, NEW v \in Views, Busy(v)
  PROVE  /\ \A u \in Views : Busy(u) => u = v
         /\ "verify" \notin stray =>
              \A u \in Views : IsTop(u) =>
                view[u].page \notin {"home", "success"} /\ view[u].at # "refresh"
         /\ stray \cap {"fetch", "verify"} = {} => companies = NoOne
<1>1. "verify" \notin stray =>
        \A u \in Views : IsTop(u) => view[u].page \notin {"home", "success"}
  BY DEF IInv, GInv, HomeIsQuiet
<1>2. \A u \in Views : view[u].at = "refresh" => view[u].page = "home"
  BY DEF IInv, VInv, RowOK
<1>3. stray \cap {"fetch", "verify"} = {} => companies = NoOne
  BY <1>1 DEF IInv, GInv, HomeLists, VInv, TInv, OneTop
<1>4. QED
  BY <1>1, <1>2, <1>3 DEF IInv, VInv, OneBusy

\* A mounted page's chain goes on: it may set the model, since Home is away.
LEMMA BusyMove ==
  ASSUME IInv, NEW v \in Views, NEW r, Busy(v), Moves(v, r),
         companies' = companies,
         stray' \cap {"fetch", "verify"} = stray \cap {"fetch", "verify"},
         "verify" \notin stray =>
           /\ r.at = "fetch" => user' = r.who
           /\ r.at \in {"verify", "written"} => user' # NoOne,
         "signin" \notin stray' =>
           /\ r.at = "data" => signedIn' \in {r.who, NoOne}
           /\ r.at = "fetch" =>
                signedIn' = NoOne \/ (signedIn' = r.who /\ user' = r.who)
  PROVE  GInv'
<1>1. /\ view'[v] = r /\ \A u \in Views \ {v} : view'[u] = view[u]
      /\ \A u \in Views : IsTop(u)' = IsTop(u)
  BY MovesKeep DEF IInv
<1>2. \A u \in Views : IsTop(u) => view'[u].page = view[u].page
  BY <1>1 DEF Moves
<1>3. "verify" \in stray' <=> "verify" \in stray
  OBVIOUS
<1>4. \A u \in Views \ {v} : Mounted(u)' => view'[u].at \in Rests
  BY <1>1, BusyAway DEF Busy, Works, Mounted
<1>5. HomeIsQuiet' /\ HomeModel'
  BY <1>1, <1>2, <1>3, BusyAway DEF HomeIsQuiet, HomeModel
<1>6. RefreshOwn'
  <2> SUFFICES ASSUME "verify" \notin stray, NEW u \in Views, IsTop(u),
                      view'[u].at = "refresh"
               PROVE  FALSE
    BY <1>1, <1>3 DEF RefreshOwn
  <2>1. u = v
    BY <1>1, BusyAway
  <2>2. view'[v].page = "home"
    BY <1>1, <2>1 DEF Moves, RowOK
  <2>3. QED
    BY <1>2, <2>1, <2>2, BusyAway
<1>7. ModelKept'
  BY <1>1, <1>3, <1>4 DEF ModelKept, Rests
<1>8. HomeLists'
  BY <1>1, <1>2, BusyAway DEF HomeLists
<1>9. SignedInFor'
  BY <1>1, <1>4 DEF SignedInFor, Rests
<1>10. QED
  BY <1>5, <1>6, <1>7, <1>8, <1>9 DEF GInv

\* A chain whose page is gone changes what it changes as a stray one.
LEMMA GoneMove ==
  ASSUME IInv, NEW v \in Views, NEW r, ~Mounted(v), Moves(v, r),
         user' = user, "verify" \in stray' <=> "verify" \in stray,
         "fetch" \notin stray' => "fetch" \notin stray /\ companies' = companies,
         "signin" \notin stray' => "signin" \notin stray /\ signedIn' = signedIn
  PROVE  GInv'
<1>1. /\ view'[v] = r /\ \A u \in Views \ {v} : view'[u] = view[u]
      /\ \A u \in Views : IsTop(u)' = IsTop(u)
  BY MovesKeep DEF IInv
<1>2. \A u \in Views : Mounted(u)' => Mounted(u) /\ u # v /\ view'[u] = view[u]
  BY <1>1 DEF Mounted, Moves
<1>3. \A u \in Views : Busy(u)' => Busy(u) /\ u # v
  BY <1>2 DEF Busy, Works, Mounted
<1>4. \A u \in Views : IsTop(u) => view'[u] = view[u]
  BY <1>1 DEF IsTop, Mounted
<1>5. HomeIsQuiet' /\ HomeModel' /\ RefreshOwn'
  BY <1>1, <1>3, <1>4
  DEF IInv, GInv, HomeIsQuiet, HomeModel, RefreshOwn
<1>6. ModelKept' /\ SignedInFor'
  BY <1>2 DEF IInv, GInv, ModelKept, SignedInFor
<1>7. HomeLists'
  <2>1. stray' \cap {"fetch", "verify"} = {} =>
          companies' = companies /\ stray \cap {"fetch", "verify"} = {}
    OBVIOUS
  <2>2. QED
    BY <1>1, <1>4, <2>1 DEF IInv, GInv, HomeLists
<1>8. QED
  BY <1>5, <1>6, <1>7 DEF GInv

\* The chain of a mounted page ends by putting another page, not Home, on top.
LEMMA BusyOpens ==
  ASSUME IInv, NEW v \in Views, NEW views, NEW new, Opens(v, views, new),
         Busy(v), views # view,
         new.page \notin {"home", "success"}, new.at = "idle",
         companies' = companies,
         stray' \cap {"fetch", "verify"} = stray \cap {"fetch", "verify"}
  PROVE  GInv'
<1>1. \A u \in Views : IsTop(u)' => view'[u] = new
  BY OpensKeep DEF IInv
<1>2. \A u \in Views : ~Busy(u)'
  BY <1>1, OpensKeep DEF IInv, Busy, Works, Rests
<1>3. \A u \in Views : Mounted(u)' => view'[u].at \in Rests
  BY <1>2 DEF Busy, Works, Mounted
<1>4. HomeIsQuiet' /\ ModelKept' /\ HomeModel' /\ RefreshOwn' /\ SignedInFor'
  BY <1>1, <1>2, <1>3
  DEF HomeIsQuiet, ModelKept, HomeModel, RefreshOwn, SignedInFor, Rests
<1>5. HomeLists'
  BY BusyAway DEF HomeLists
<1>6. QED
  BY <1>4, <1>5 DEF GInv

\* A login, or Splash, puts Home on top.
LEMMA OpensHome ==
  ASSUME IInv, NEW v \in Views, NEW views, NEW new, Opens(v, views, new),
         Busy(v), views # view, view[v].at = "fetch", new.page = "home", new.at = "idle",
         user' = user,
         \/ companies' = view[v].who /\ Wrote(v, "fetch")
         \/ UNCHANGED <<companies, stray>>
  PROVE  GInv'
<1>1. \A u \in Views : IsTop(u)' => view'[u] = new
  BY OpensKeep DEF IInv
<1>2. \A u \in Views : ~Busy(u)'
  BY <1>1, OpensKeep DEF IInv, Busy, Works, Rests
<1>3. \A u \in Views : Mounted(u)' => view'[u].at \in Rests
  BY <1>2 DEF Busy, Works, Mounted
<1>4. "verify" \in stray' <=> "verify" \in stray
  BY DEF Wrote
<1>5. "verify" \notin stray => user = view[v].who /\ user # NoOne
  <2>1. Mounted(v) /\ view[v].who \in Accounts
    BY DEF Busy, Works, Mounted, IInv, VInv, RowOK, Rests
  <2>2. QED
    BY <2>1, AccountsAssumption DEF IInv, GInv, ModelKept
<1>6. HomeIsQuiet' /\ ModelKept' /\ RefreshOwn' /\ SignedInFor'
  BY <1>1, <1>2, <1>3
  DEF HomeIsQuiet, ModelKept, RefreshOwn, SignedInFor, Rests
<1>7. HomeModel'
  BY <1>4, <1>5 DEF HomeModel
<1>8. HomeLists'
  <2> SUFFICES ASSUME stray' \cap {"fetch", "verify"} = {}
               PROVE  companies' \in {NoOne, user'}
    BY <1>1 DEF HomeLists
  <2>1. CASE companies' = view[v].who /\ Wrote(v, "fetch")
    BY <1>4, <1>5, <2>1
  <2>2. CASE UNCHANGED <<companies, stray>>
    BY <2>2, BusyAway
  <2>3. QED
    BY <2>1, <2>2
<1>9. QED
  BY <1>6, <1>7, <1>8 DEF GInv

\* The administrator goes from a page, not Home, to another, to Home only from
\* the last page of Verify.
LEMMA UserOpens ==
  ASSUME IInv, NEW v \in Views, NEW new, Opens(v, view, new),
         UNCHANGED <<user, companies, signedIn, stray>>,
         view[v].page # "home", new.page # "success",
         new.page = "home" => view[v].page = "success"
  PROVE  GInv'
<1>1. \A u \in Views : IsTop(u)' => view'[u] = new
  BY OpensKeep DEF IInv
<1>2. IsTop(v) /\ new.at \in {"idle", "net"}
  BY DEF Opens
<1>3. \A u \in Views : Busy(u)' /\ ~IsTop(u)' =>
        /\ Busy(u) /\ view'[u].at = view[u].at /\ view'[u].who = view[u].who
  BY OpensKeep DEF IInv
<1>4. \A u \in Views : Mounted(u)' /\ view'[u].at \notin {"idle", "refresh", "net"} =>
        /\ Mounted(u) /\ view'[u].at = view[u].at /\ view'[u].who = view[u].who
  BY <1>1, <1>2, <1>3 DEF Busy, Works, Mounted, Rests
<1>5. ModelKept' /\ SignedInFor'
  BY <1>4 DEF IInv, GInv, ModelKept, SignedInFor
<1>6. HomeIsQuiet'
  <2> SUFFICES ASSUME "verify" \notin stray, NEW u \in Views, NEW x \in Views,
                      IsTop(u)', view'[u].page \in {"home", "success"}, Busy(x)'
               PROVE  FALSE
    BY DEF HomeIsQuiet
  <2>1. view[v].page = "success" /\ new.page = "home"
    BY <1>1
  <2>2. ~Busy(x)
    BY <1>2, <2>1 DEF IInv, GInv, HomeIsQuiet
  <2>3. view'[x] = new
    BY <1>1, <1>3, <2>2
  <2>4. QED
    BY <2>1, <2>3 DEF Opens, Busy, Works, Rests
<1>7. HomeModel' /\ RefreshOwn'
  BY <1>1, <1>2 DEF IInv, GInv, HomeModel, RefreshOwn
<1>8. HomeLists'
  BY <1>2 DEF IInv, GInv, HomeLists
<1>9. QED
  BY <1>5, <1>6, <1>7, <1>8 DEF GInv
-----------------------------------------------------------------------------
\* What each step needs: the page moves or another one is opened, and the
\* records keep their types.

\* The page moves.
LEMMA KeepMoves ==
  ASSUME VInv, NEW v \in Views, NEW r, Moves(v, r), Types'
  PROVE  VInv'
BY MovesKeep DEF VInv, TInv

\* Another page is opened.
LEMMA KeepOpens ==
  ASSUME VInv, NEW v \in Views, NEW views, NEW new, Opens(v, views, new), Types'
  PROVE  VInv'
BY OpensKeep DEF VInv, TInv

\* What is known of a page.
LEMMA Row ==
  ASSUME VInv, NEW v \in Views
  PROVE  /\ view[v] \in ViewRec /\ RowOK(view[v]) /\ Types
         /\ view \in [Views -> ViewRec]
BY DEF VInv, TInv

\* A step that keeps the page and sets only what its chain waits for, and whom
\* it is about.
LEMMA SetsMoves ==
  ASSUME VInv, NEW v \in Views, NEW r \in ViewRec, RowOK(r),
         r.shown = view[v].shown, r.page = view[v].page,
         view' = [view EXCEPT ![v] = r], Busy(v) \/ ~Mounted(v)
  PROVE  Moves(v, r)
BY DEF Moves, Works, Busy, Mounted

\* A chain of a mounted page ends with a page of its own.
LEMMA EndsOpening ==
  ASSUME VInv, NEW v \in Views, Busy(v), NEW new \in ViewRec, RowOK(new),
         new.shown = "top", new.at = "idle", Replace(After(v, "idle"), new),
         new.page # "splash",
         new.page = "error" => view[v].page = "splash"
  PROVE  Opens(v, After(v, "idle"), new) /\ After(v, "idle") # view
<1>1. view[v] \in ViewRec /\ RowOK(view[v]) /\ view \in [Views -> ViewRec]
  BY Row
<1> DEFINE s == [view[v] EXCEPT !.at = "idle"]
<1>2. s \in ViewRec /\ s.at = "idle"
  BY <1>1 DEF ViewRec, Steps
<1>3. After(v, "idle")[v] = Kept(s)
  BY <1>1 DEF After
<1> HIDE DEF s
<1>4. After(v, "idle")[v].at = "idle" /\ view[v].at # "idle"
  BY <1>2, <1>3, KeptIs DEF Busy, Works, Rests
<1>5. After(v, "idle") # view
  BY <1>4
<1>6. view[v].page = "splash" => IsTop(v)
  BY <1>1, <1>4 DEF RowOK, IsTop
<1>7. QED
  BY <1>5, <1>6 DEF Opens, Busy, Works

\* The administrator opens another page.
LEMMA GoesOpening ==
  ASSUME VInv, NEW v \in Views, IsTop(v), NEW new \in ViewRec, RowOK(new),
         new.shown = "top", Replace(view, new),
         view[v].page # "splash",
         new.at = "idle" \/ (new.at = "net" /\ view[v].page = "error"),
         new.page \in {"splash", "error"} => view[v].page = "error"
  PROVE  Opens(v, view, new)
<1>1. view[v] \in ViewRec /\ RowOK(view[v])
  BY Row
<1>2. view[v].page = "error" => view[v].at \in Rests
  BY <1>1 DEF RowOK, Rests, ViewRec, Steps
<1>3. QED
  BY <1>2 DEF Opens, IsTop

\* The page of Verify for the model u.
LEMMA CodeRow ==
  ASSUME NEW u \in Accounts \cup {NoOne}
  PROVE  LET c == [Fresh("code", "no") EXCEPT !.who = u]
         IN  /\ c \in ViewRec /\ RowOK(c) /\ c.shown = "top"
             /\ c.page = "code" /\ c.at = "idle"
BY AccountsAssumption DEF Fresh, Blank, ViewRec, RowOK, Rests, Pages, Flags, Steps
-----------------------------------------------------------------------------
\* Every step keeps the invariant.  First Splash and the error page.

\* Splash has looked for the network, or its chain has thrown.
LEMMA SplashNetKeeps ==
  ASSUME IInv, NEW v \in Views, SplashNet(v) \/ SplashThrows(v)
  PROVE  IInv'
<1>1. view[v] \in ViewRec /\ RowOK(view[v]) /\ Types
  BY Row DEF IInv
<1>2. PICK l \in {"wait", "dead"} : Goes(v, l)
  BY DEF SplashNet, SplashThrows
<1>3. /\ view[v].page = "splash" /\ view[v].shown = "top"
      /\ view[v].at \in {"net", "wait", "data"}
      /\ UNCHANGED <<remote, device, memory, stray>>
  BY <1>1 DEF SplashNet, SplashThrows, RowOK
<1>4. Busy(v)
  BY <1>3 DEF Busy, Works, Rests
<1>5. RowOK([view[v] EXCEPT !.at = l]) /\ l \in Steps
  BY <1>1, <1>2, <1>3 DEF RowOK, ViewRec, Rests, Steps
<1>6. PICK r \in ViewRec : Moves(v, r) /\ r.at = l
  BY <1>2, <1>3, <1>5, GoesMoves DEF IInv, Rests
<1>7. GInv'
  BY <1>2, <1>3, <1>4, <1>6, BusyMove DEF memory
<1>8. Types'
  BY <1>1, <1>3 DEF Types, remote, device, memory
<1>9. QED
  BY <1>6, <1>7, <1>8, KeepMoves DEF IInv

\* Three seconds later Splash reads who is signed in.
LEMMA SplashReadKeeps ==
  ASSUME IInv, NEW v \in Views, SplashRead(v)
  PROVE  IInv'
<1>1. view[v] \in ViewRec /\ RowOK(view[v]) /\ Types
  BY Row DEF IInv
<1>2. /\ view[v].page = "splash" /\ view[v].shown = "top" /\ view[v].at = "wait"
      /\ UNCHANGED <<remote, device, memory, stray>>
  BY <1>1 DEF SplashRead, RowOK
<1>3. Busy(v)
  BY <1>2 DEF Busy, Works, Rests
<1>4. Types'
  BY <1>1, <1>2 DEF Types, remote, device, memory
<1>5. CASE Goes(v, "idle")
  <2>1. RowOK([view[v] EXCEPT !.at = "idle"]) /\ "idle" \in Steps
    BY <1>1, <1>2 DEF RowOK, ViewRec, Rests, Steps
  <2>2. PICK r \in ViewRec : Moves(v, r) /\ r.at = "idle"
    BY <1>5, <2>1, GoesMoves DEF IInv, Rests
  <2>3. GInv'
    BY <1>2, <1>3, <2>2, BusyMove DEF memory
  <2>4. QED
    BY <1>4, <2>2, <2>3, KeepMoves DEF IInv
<1>6. CASE Open(After(v, "idle"), "welcome", flag)
  <2>1. "welcome" \in Pages /\ flag \in Flags
    BY <1>1 DEF Pages, Types
  <2>2. /\ Opens(v, After(v, "idle"), Fresh("welcome", flag))
        /\ After(v, "idle") # view
    BY <1>3, <1>6, <2>1, FreshRow, EndsOpening DEF Open, IInv
  <2>3. GInv'
    BY <1>2, <1>3, <2>1, <2>2, FreshRow, BusyOpens DEF memory
  <2>4. QED
    BY <1>4, <2>2, <2>3, KeepOpens DEF IInv
<1>7. CASE /\ signedIn # NoOne
           /\ view' = [view EXCEPT ![v].at = "data", ![v].who = signedIn]
  <2>1. signedIn \in Accounts /\ "data" \in Steps
    BY <1>1, <1>7 DEF Types, Steps
  <2> DEFINE r == [view[v] EXCEPT !.at = "data", !.who = signedIn]
  <2>2. /\ r \in ViewRec /\ r.at = "data" /\ r.who = signedIn
        /\ r.page = "splash" /\ r.shown = "top"
    BY <1>1, <1>2, <2>1 DEF ViewRec
  <2>3. view' = [view EXCEPT ![v] = r]
    BY <1>7, Row DEF IInv
  <2> HIDE DEF r
  <2>4. RowOK(r)
    BY <2>1, <2>2 DEF RowOK, Rests
  <2>5. Moves(v, r)
    BY <1>2, <1>3, <2>2, <2>3, <2>4, SetsMoves DEF IInv
  <2>6. GInv'
    BY <1>2, <1>3, <2>2, <2>5, BusyMove DEF memory, device
  <2>7. QED
    BY <1>4, <2>5, <2>6, KeepMoves DEF IInv
<1>8. QED
  BY <1>5, <1>6, <1>7 DEF SplashRead

\* The answer about the user, to Splash or to Login.
LEMMA DataKeeps ==
  ASSUME IInv, NEW v \in Views, SplashData(v) \/ LoginData(v)
  PROVE  IInv'
<1>1. view[v] \in ViewRec /\ RowOK(view[v]) /\ Types
  BY Row DEF IInv
<1>2. /\ view[v].at = "data" /\ view[v].page \in {"splash", "login"}
      /\ Mounted(v) /\ view[v].who \in Accounts /\ UNCHANGED remote
  BY <1>1 DEF SplashData, LoginData, RowOK, Mounted, Rests
<1>3. Busy(v)
  BY <1>2 DEF Busy, Works, Mounted, Rests
<1>4. "welcome" \in Pages /\ "unset" \in Flags /\ "idle" \in Steps
      /\ "fetch" \in Steps
  BY DEF Pages, Flags, Steps
<1>5. \/ UNCHANGED <<device, memory, stray>>
      \/ SignedOut /\ UNCHANGED <<known, companies>>
      \/ user' = view[v].who /\ UNCHANGED <<device, companies, stray>>
  BY DEF SplashData, LoginData
<1>6. Types'
  <2>1. CASE UNCHANGED <<device, memory, stray>>
    BY <1>1, <1>2, <2>1 DEF Types, remote, device, memory
  <2>2. CASE SignedOut /\ UNCHANGED <<known, companies>>
    BY <1>1, <1>2, <2>2 DEF Types, remote, SignedOut, Flags
  <2>3. CASE user' = view[v].who /\ UNCHANGED <<device, companies, stray>>
    BY <1>1, <1>2, <2>3 DEF Types, remote, device
  <2>4. QED
    BY <1>5, <2>1, <2>2, <2>3
<1>7. /\ companies' = companies
      /\ stray' \cap {"fetch", "verify"} = stray \cap {"fetch", "verify"}
  BY <1>5 DEF memory, SignedOut
<1>8. CASE Open(After(v, "idle"), "welcome", "unset")
  <2>1. /\ Opens(v, After(v, "idle"), Fresh("welcome", "unset"))
        /\ After(v, "idle") # view
    BY <1>3, <1>4, <1>8, FreshRow, EndsOpening DEF Open, IInv
  <2>2. GInv'
    BY <1>3, <1>4, <1>7, <2>1, FreshRow, BusyOpens
  <2>3. QED
    BY <1>6, <2>1, <2>2, KeepOpens DEF IInv
<1>9. CASE OpenCode(After(v, "idle"), view[v].who)
  <2> DEFINE c == [Fresh("code", "no") EXCEPT !.who = view[v].who]
  <2>1. /\ c \in ViewRec /\ RowOK(c) /\ c.shown = "top"
        /\ c.page = "code" /\ c.at = "idle"
    BY <1>2, CodeRow
  <2>2. Replace(After(v, "idle"), c)
    BY <1>9 DEF OpenCode
  <2> HIDE DEF c
  <2>3. Opens(v, After(v, "idle"), c) /\ After(v, "idle") # view
    BY <1>3, <2>1, <2>2, EndsOpening DEF IInv
  <2>4. GInv'
    BY <1>3, <1>7, <2>1, <2>3, BusyOpens
  <2>5. QED
    BY <1>6, <2>3, <2>4, KeepOpens DEF IInv
<1>10. CASE GivesBack(v) /\ LoginData(v)
  <2>1. view[v].page # "splash"
    BY <1>10 DEF LoginData
  <2>2. PICK r \in ViewRec : Moves(v, r) /\ r.at = "idle"
    BY <1>10, <2>1, GivesBackMoves DEF IInv
  <2>3. GInv'
    BY <1>3, <1>7, <2>2, BusyMove
  <2>4. QED
    BY <1>6, <2>2, <2>3, KeepMoves DEF IInv
<1>11. CASE /\ user' = view[v].who /\ Goes(v, "fetch")
            /\ UNCHANGED <<device, companies, stray>>
  <2>1. RowOK([view[v] EXCEPT !.at = "fetch"])
    BY <1>1, <1>2 DEF RowOK, ViewRec, Rests
  <2>2. PICK r \in ViewRec : Moves(v, r) /\ r.at = "fetch" /\ r.who = view[v].who
    BY <1>2, <1>4, <1>11, <2>1, GoesMoves DEF IInv, Rests
  <2>3. "signin" \notin stray => signedIn \in {view[v].who, NoOne}
    BY <1>2 DEF IInv, GInv, SignedInFor
  <2>4. GInv'
    BY <1>3, <1>7, <1>11, <2>2, <2>3, BusyMove DEF device
  <2>5. QED
    BY <1>6, <2>2, <2>4, KeepMoves DEF IInv
<1>12. QED
  BY <1>8, <1>9, <1>10, <1>11 DEF SplashData, LoginData

\* The companies are there, or not: Home opens, or the login that was left ends.
LEMMA FetchKeeps ==
  ASSUME IInv, NEW v \in Views, SplashFetch(v) \/ LoginFetch(v)
  PROVE  IInv'
<1>1. view[v] \in ViewRec /\ RowOK(view[v]) /\ Types
  BY Row DEF IInv
<1>2. /\ view[v].at = "fetch" /\ view[v].who \in Accounts
      /\ UNCHANGED <<remote, device, user>>
      /\ \/ companies' = view[v].who /\ Wrote(v, "fetch")
         \/ UNCHANGED <<companies, stray>>
  BY <1>1 DEF SplashFetch, LoginFetch, RowOK, Rests
<1>3. Types'
  BY <1>1, <1>2 DEF Types, remote, device, Wrote
<1>4. CASE Mounted(v)
  <2>1. Busy(v)
    BY <1>2, <1>4 DEF Busy, Works, Mounted, Rests
  <2>2. "home" \in Pages /\ "unset" \in Flags
    BY DEF Pages, Flags
  <2>3. Open(After(v, "idle"), "home", "unset")
    BY <1>4 DEF SplashFetch, LoginFetch
  <2>4. /\ Opens(v, After(v, "idle"), Fresh("home", "unset"))
        /\ After(v, "idle") # view
    BY <2>1, <2>2, <2>3, FreshRow, EndsOpening DEF Open, IInv
  <2>5. GInv'
    BY <1>2, <2>1, <2>2, <2>4, FreshRow, OpensHome
  <2>6. QED
    BY <1>3, <2>4, <2>5, KeepOpens DEF IInv
<1>5. CASE ~Mounted(v)
  <2>1. ~IsTop(v)
    BY <1>5 DEF Mounted, IsTop
  <2>2. Goes(v, "idle")
    BY <1>1, <1>5, <2>1 DEF SplashFetch, LoginFetch, RowOK, IsTop
  <2>3. PICK r \in ViewRec : Moves(v, r) /\ r.at = "idle"
    <3>1. "idle" \in Steps /\ "idle" \in Rests
      BY DEF Steps, Rests
    <3>2. QED
      BY <2>1, <2>2, <3>1, GoesMoves DEF IInv
  <2>4. GInv'
    BY <1>2, <1>5, <2>1, <2>3, GoneMove DEF Wrote, device
  <2>5. QED
    BY <1>3, <2>3, <2>4, KeepMoves DEF IInv
<1>6. QED
  BY <1>4, <1>5

\* After the dialog Splash gives way to the error page.
LEMMA SplashGivesUpKeeps ==
  ASSUME IInv, NEW v \in Views, SplashGivesUp(v)
  PROVE  IInv'
<1>1. view[v] \in ViewRec /\ RowOK(view[v]) /\ Types
  BY Row DEF IInv
<1>2. /\ view[v].page = "splash" /\ view[v].shown = "top" /\ view[v].at = "dead"
      /\ UNCHANGED <<remote, device, memory, stray>>
      /\ Open(After(v, "idle"), "error", "unset")
      /\ "error" \in Pages /\ "unset" \in Flags
  BY <1>1 DEF SplashGivesUp, RowOK, Pages, Flags
<1>3. Busy(v)
  BY <1>2 DEF Busy, Works, Rests
<1>4. Types'
  BY <1>1, <1>2 DEF Types, remote, device, memory
<1>5. /\ Opens(v, After(v, "idle"), Fresh("error", "unset"))
      /\ After(v, "idle") # view
  BY <1>2, <1>3, FreshRow, EndsOpening DEF Open, IInv
<1>6. GInv'
  BY <1>2, <1>3, <1>5, FreshRow, BusyOpens DEF memory
<1>7. QED
  BY <1>4, <1>5, <1>6, KeepOpens DEF IInv
-----------------------------------------------------------------------------
\* The forms.

\* A form is submitted on a page that has the screen to itself.
LEMMA SubmitKeeps ==
  ASSUME IInv, NEW v \in Views, NEW p, NEW l, NEW a \in Accounts,
         Submit(v, p, l, a),
         \/ p = "login" /\ l = "signin"
         \/ p = "register" /\ l = "create"
         \/ p = "code" /\ l = "check"
  PROVE  IInv'
<1>1. /\ view[v] \in ViewRec /\ RowOK(view[v]) /\ Types
      /\ view \in [Views -> ViewRec]
  BY Row DEF IInv
<1>2. /\ IsTop(v) /\ view[v].page = p /\ Settled
      /\ UNCHANGED <<remote, device, memory, stray>>
  BY DEF Submit, On
<1> DEFINE r == [view[v] EXCEPT !.enabled = FALSE, !.at = l, !.who = a]
<1>3. /\ r \in ViewRec /\ r.shown = view[v].shown /\ r.page = p
      /\ r.at = l /\ r.who = a
  BY <1>1, <1>2 DEF ViewRec, Steps
<1>4. view' = [view EXCEPT ![v] = r]
  BY <1>1 DEF Submit
<1> HIDE DEF r
<1>5. RowOK(r)
  BY <1>3 DEF RowOK, Rests
<1>6. \A u \in Views : IsTop(u) <=> u = v
  BY <1>2 DEF IInv, VInv, TInv, OneTop
<1>7. \A u \in Views : Mounted(u) => u = v
  BY <1>1, <1>2, <1>6 DEF Settled, Mounted, IsTop, ViewRec
<1>8. Moves(v, r)
  BY <1>2, <1>3, <1>4, <1>5, <1>7 DEF Moves, Busy, Works, Mounted
<1>9. Types'
  BY <1>1, <1>2 DEF Types, remote, device, memory
<1>10. /\ view'[v] = r
       /\ \A u \in Views : IsTop(u)' => u = v
       /\ \A u \in Views : Mounted(u)' => u = v
  BY <1>1, <1>3, <1>4, <1>6, <1>7 DEF IsTop, Mounted
<1>11. r.page \notin {"home", "success"}
       /\ r.at \notin {"data", "fetch", "verify", "written", "refresh"}
  BY <1>3
<1>12. HomeIsQuiet' /\ ModelKept' /\ HomeModel' /\ RefreshOwn' /\ SignedInFor'
  BY <1>10, <1>11
  DEF HomeIsQuiet, ModelKept, HomeModel, RefreshOwn, SignedInFor
<1>13. companies = NoOne \/ stray \cap {"fetch", "verify"} # {}
  BY <1>2, <1>3 DEF IInv, GInv, HomeLists
<1>14. HomeLists'
  BY <1>2, <1>13 DEF HomeLists, memory
<1>15. QED
  BY <1>8, <1>9, <1>12, <1>14, KeepMoves DEF IInv, GInv

\* A call for the form on v ends, with no more than the accounts, the documents
\* and the sign-in changed.
LEMMA CallKeeps ==
  ASSUME IInv, NEW v \in Views, NEW r \in ViewRec, Moves(v, r), Types',
         r.at \notin {"data", "fetch", "verify", "written"},
         UNCHANGED memory,
         \/ UNCHANGED <<signedIn, stray>>
         \/ Wrote(v, "signin"),
         Busy(v) \/ ~Mounted(v)
  PROVE  IInv'
<1>1. CASE Busy(v)
  BY <1>1, BusyMove, KeepMoves DEF IInv, memory, Wrote
<1>2. CASE ~Mounted(v)
  <2>1. ~IsTop(v)
    BY <1>2 DEF Mounted, IsTop
  <2>2. GInv'
    BY <1>2, <2>1, GoneMove DEF memory, Wrote
  <2>3. QED
    BY <2>2, KeepMoves DEF IInv
<1>3. QED
  BY <1>1, <1>2

\* What a page waits for, if for more than a refresh.
LEMMA AtWork ==
  ASSUME VInv, NEW v \in Views, view[v].at \notin Rests
  PROVE  Busy(v) \/ ~Mounted(v)
BY DEF Busy, Works, Mounted

\* A form that is given back.
LEMMA GiveBackKeeps ==
  ASSUME IInv, NEW v \in Views,
         SignInRefused(v) \/ CreateThrows(v) \/ (CodeWrong(v) /\ Fragment(v))
  PROVE  IInv'
<1>1. view[v] \in ViewRec /\ RowOK(view[v]) /\ Types
  BY Row DEF IInv
<1>2. /\ GivesBack(v) /\ view[v].at \in {"signin", "create", "check"}
      /\ UNCHANGED <<remote, device, memory, stray>>
  BY DEF SignInRefused, CreateThrows, CodeWrong
<1>3. view[v].page # "splash"
  BY <1>1, <1>2 DEF RowOK
<1>4. PICK r \in ViewRec : Moves(v, r) /\ r.at = "idle"
  BY <1>2, <1>3, GivesBackMoves DEF IInv
<1>5. Types'
  BY <1>1, <1>2 DEF Types, remote, device, memory
<1>6. Busy(v) \/ ~Mounted(v)
  BY <1>2, AtWork DEF IInv, Rests
<1>7. QED
  BY <1>2, <1>4, <1>5, <1>6, CallKeeps DEF device

\* A chain that simply ends.
LEMMA EndKeeps ==
  ASSUME IInv, NEW v \in Views,
         LoginDies(v) \/ CreateRefused(v) \/ (CodeWrong(v) /\ ~Fragment(v))
  PROVE  IInv'
<1>1. view[v] \in ViewRec /\ RowOK(view[v]) /\ Types
  BY Row DEF IInv
<1>2. /\ Goes(v, "idle") /\ view[v].at \in {"data", "create", "check"}
      /\ UNCHANGED <<remote, device, memory, stray>>
  BY DEF LoginDies, CreateRefused, CodeWrong
<1>3. \/ ~IsTop(v)
      \/ view[v].page \in {"register", "success"}
  BY <1>1 DEF LoginDies, CreateRefused, CodeWrong, RowOK, Fragment, IsTop, Mounted
<1>4. RowOK([view[v] EXCEPT !.at = "idle"]) \/ ~IsTop(v)
  BY <1>1, <1>3 DEF RowOK, ViewRec, Rests
<1>5. "idle" \in Steps /\ "idle" \in Rests
  BY DEF Steps, Rests
<1>6. PICK r \in ViewRec : Moves(v, r) /\ r.at = "idle"
  BY <1>2, <1>4, <1>5, GoesMoves DEF IInv
<1>7. Types'
  BY <1>1, <1>2 DEF Types, remote, device, memory
<1>8. Busy(v) \/ ~Mounted(v)
  BY <1>2, AtWork DEF IInv, Rests
<1>9. QED
  BY <1>2, <1>6, <1>7, <1>8, CallKeeps DEF device

\* A sign-in or a registration succeeds.
LEMMA SignInKeeps ==
  ASSUME IInv, NEW v \in Views, SignInReturns(v) \/ CreateReturns(v)
  PROVE  IInv'
<1>1. view[v] \in ViewRec /\ RowOK(view[v]) /\ Types
  BY Row DEF IInv
<1>2. /\ view[v].at \in {"signin", "create"} /\ view[v].who \in Accounts
      /\ signedIn' = view[v].who /\ Wrote(v, "signin")
      /\ accounts' \in {accounts, accounts \cup {view[v].who}}
      /\ flag' \in {flag, "no"}
      /\ UNCHANGED <<users, known, memory>>
  BY <1>1 DEF SignInReturns, CreateReturns, RowOK, Rests, remote
<1>3. Types'
  BY <1>1, <1>2 DEF Types, memory, Wrote, Flags
<1>4. Busy(v) \/ ~Mounted(v)
  BY <1>2, AtWork DEF IInv, Rests
<1>5. {"idle", "data", "profile"} \subseteq Steps /\ "idle" \in Rests
  BY DEF Steps, Rests
<1>6. CASE ~Mounted(v)
  <2>1. ~IsTop(v) /\ Goes(v, "idle")
    BY <1>6 DEF Mounted, IsTop, SignInReturns, CreateReturns
  <2>2. PICK r \in ViewRec : Moves(v, r) /\ r.at = "idle"
    BY <1>5, <2>1, GoesMoves DEF IInv
  <2>3. QED
    BY <1>2, <1>3, <1>4, <2>2, CallKeeps
<1>7. CASE Mounted(v) /\ SignInReturns(v)
  <2>1. Goes(v, "data") /\ view[v].at = "signin"
    BY <1>7 DEF SignInReturns
  <2>2. RowOK([view[v] EXCEPT !.at = "data"]) /\ view[v].at \notin Rests
    BY <1>1, <2>1 DEF RowOK, ViewRec, Rests
  <2>3. PICK r \in ViewRec : Moves(v, r) /\ r.at = "data" /\ r.who = view[v].who
    BY <1>5, <2>1, <2>2, GoesMoves DEF IInv
  <2>4. GInv'
    BY <1>2, <1>4, <1>7, <2>3, BusyMove DEF memory, Wrote
  <2>5. QED
    BY <1>3, <2>3, <2>4, KeepMoves DEF IInv
<1>8. CASE Mounted(v) /\ CreateReturns(v)
  <2>1. Goes(v, "profile") /\ view[v].at = "create"
    BY <1>8 DEF CreateReturns
  <2>2. RowOK([view[v] EXCEPT !.at = "profile"]) /\ view[v].at \notin Rests
    BY <1>1, <2>1 DEF RowOK, ViewRec, Rests
  <2>3. PICK r \in ViewRec : Moves(v, r) /\ r.at = "profile"
    BY <1>5, <2>1, <2>2, GoesMoves DEF IInv
  <2>4. QED
    BY <1>2, <1>3, <1>4, <2>3, CallKeeps
<1>9. QED
  BY <1>6, <1>7, <1>8

\* The profile is written.
LEMMA ProfileKeeps ==
  ASSUME IInv, NEW v \in Views, ProfileWritten(v)
  PROVE  IInv'
<1>1. /\ view[v] \in ViewRec /\ RowOK(view[v]) /\ Types
      /\ view \in [Views -> ViewRec]
  BY Row DEF IInv
<1>2. /\ view[v].at = "profile"
      /\ users' = [users EXCEPT ![view[v].who] = "new"]
      /\ UNCHANGED <<accounts, device, memory, stray>>
  BY DEF ProfileWritten
<1> DEFINE r == [view[v] EXCEPT !.at = "profiled"]
<1>3. /\ r \in ViewRec /\ r.shown = view[v].shown /\ r.page = view[v].page
      /\ r.at = "profiled" /\ r.who = view[v].who
  BY <1>1 DEF ViewRec, Steps
<1>4. view' = [view EXCEPT ![v] = r]
  BY <1>1 DEF ProfileWritten
<1> HIDE DEF r
<1>5. RowOK(r)
  BY <1>1, <1>2, <1>3 DEF RowOK, Rests
<1>6. Busy(v) \/ ~Mounted(v)
  BY <1>2, AtWork DEF IInv, Rests
<1>7. Moves(v, r)
  BY <1>3, <1>4, <1>5, <1>6, SetsMoves DEF IInv
<1>8. Types'
  BY <1>1, <1>2 DEF Types, device, memory, Docs
<1>9. QED
  BY <1>2, <1>3, <1>6, <1>7, <1>8, CallKeeps DEF device

\* createProfile returns, and the mails after it.
LEMMA RegisterKeeps ==
  ASSUME IInv, NEW v \in Views, ProfileReturns(v) \/ MailsReturn(v)
  PROVE  IInv'
<1>1. view[v] \in ViewRec /\ RowOK(view[v]) /\ Types
  BY Row DEF IInv
<1>2. /\ view[v].at \in {"profile", "profiled", "mails"} /\ view[v].who \in Accounts
      /\ user' \in {user, view[v].who}
      /\ ~Mounted(v) => user' = user
      /\ UNCHANGED <<remote, device, companies, stray>>
  BY <1>1 DEF ProfileReturns, MailsReturn, memory, RowOK, Rests
<1>3. Types'
  BY <1>1, <1>2 DEF Types, remote, device
<1>4. Busy(v) \/ ~Mounted(v)
  BY <1>2, AtWork DEF IInv, Rests
<1>5. {"idle", "mails"} \subseteq Steps /\ "idle" \in Rests
  BY DEF Steps, Rests
<1>6. CASE ~Mounted(v)
  <2>1. ~IsTop(v) /\ Goes(v, "idle")
    BY <1>6 DEF Mounted, IsTop, ProfileReturns, MailsReturn
  <2>2. PICK r \in ViewRec : Moves(v, r) /\ r.at = "idle"
    BY <1>5, <2>1, GoesMoves DEF IInv
  <2>3. QED
    BY <1>2, <1>3, <1>4, <1>6, <2>2, CallKeeps DEF device, memory
<1>7. CASE Mounted(v) /\ ProfileReturns(v)
  <2>1. Goes(v, "mails") /\ view[v].at \in {"profile", "profiled"}
    BY <1>7 DEF ProfileReturns
  <2>2. RowOK([view[v] EXCEPT !.at = "mails"]) /\ view[v].at \notin Rests
    BY <1>1, <2>1 DEF RowOK, ViewRec, Rests
  <2>3. PICK r \in ViewRec : Moves(v, r) /\ r.at = "mails"
    BY <1>5, <2>1, <2>2, GoesMoves DEF IInv
  <2>4. GInv'
    BY <1>2, <1>4, <1>7, <2>3, BusyMove
  <2>5. QED
    BY <1>3, <2>3, <2>4, KeepMoves DEF IInv
<1>8. CASE Mounted(v) /\ MailsReturn(v)
  <2> DEFINE c == [Fresh("code", "no") EXCEPT !.who = user]
  <2>1. /\ c \in ViewRec /\ RowOK(c) /\ c.shown = "top"
        /\ c.page = "code" /\ c.at = "idle"
    BY <1>1, CodeRow DEF Types
  <2>2. Replace(After(v, "idle"), c)
    BY <1>8 DEF MailsReturn, OpenCode
  <2> HIDE DEF c
  <2>3. Opens(v, After(v, "idle"), c) /\ After(v, "idle") # view
    BY <1>4, <1>8, <2>1, <2>2, EndsOpening DEF IInv
  <2>4. GInv'
    BY <1>2, <1>4, <1>8, <2>1, <2>3, BusyOpens
  <2>5. QED
    BY <1>3, <2>3, <2>4, KeepOpens DEF IInv
<1>9. QED
  BY <1>6, <1>7, <1>8

\* The code is right, and the verification written.
LEMMA CodeKeeps ==
  ASSUME IInv, NEW v \in Views, CodeRight(v) \/ VerifyWritten(v)
  PROVE  IInv'
<1>1. /\ view[v] \in ViewRec /\ RowOK(view[v]) /\ Types
      /\ view \in [Views -> ViewRec]
  BY Row DEF IInv
<1>2. /\ view[v].at \in {"check", "verify"} /\ view[v].who \in Accounts
      /\ view[v].page \in {"code", "success"}
      /\ UNCHANGED <<accounts, device, memory, stray>>
  BY <1>1 DEF CodeRight, VerifyWritten, RowOK, Rests, remote
<1>3. Types'
  BY <1>1, <1>2 DEF Types, device, memory, Docs, CodeRight, VerifyWritten, remote
<1>4. Busy(v) \/ ~Mounted(v)
  BY <1>2, AtWork DEF IInv, Rests
<1>5. CASE CodeRight(v)
  <2> DEFINE r == [view[v] EXCEPT !.at = "verify", !.who = user]
  <2>1. /\ r \in ViewRec /\ r.shown = view[v].shown /\ r.page = view[v].page
        /\ r.at = "verify" /\ r.who = user
    BY <1>1 DEF ViewRec, Steps, Types
  <2>2. view' = [view EXCEPT ![v] = r]
    BY <1>1, <1>5 DEF CodeRight
  <2> HIDE DEF r
  <2>3. user \in Accounts /\ Mounted(v)
    BY <1>1, <1>5 DEF CodeRight, Types, Fragment
  <2>4. RowOK(r)
    BY <1>1, <1>2, <2>1, <2>3 DEF RowOK, Rests
  <2>5. Moves(v, r)
    BY <1>4, <2>1, <2>2, <2>4, SetsMoves DEF IInv
  <2>6. GInv'
    BY <1>2, <1>4, <2>1, <2>3, <2>5, BusyMove, AccountsAssumption DEF memory
  <2>7. QED
    BY <1>3, <2>5, <2>6, KeepMoves DEF IInv
<1>6. CASE VerifyWritten(v)
  <2> DEFINE r == [view[v] EXCEPT !.at = "written"]
  <2>1. /\ r \in ViewRec /\ r.shown = view[v].shown /\ r.page = view[v].page
        /\ r.at = "written" /\ r.who = view[v].who
    BY <1>1 DEF ViewRec, Steps
  <2>2. view' = [view EXCEPT ![v] = r]
    BY <1>1, <1>6 DEF VerifyWritten
  <2> HIDE DEF r
  <2>3. RowOK(r)
    BY <1>1, <1>2, <2>1 DEF RowOK, Rests
  <2>4. Moves(v, r)
    BY <1>4, <2>1, <2>2, <2>3, SetsMoves DEF IInv
  <2>5. CASE Busy(v)
    <3>1. "verify" \notin stray => user # NoOne
      <4>1. Mounted(v) /\ view[v].at = "verify"
        BY <1>6, <2>5 DEF Busy, Works, Mounted, VerifyWritten
      <4>2. QED
        BY <4>1 DEF IInv, GInv, ModelKept
    <3>2. GInv'
      BY <1>2, <2>1, <2>4, <2>5, <3>1, BusyMove DEF memory
    <3>3. QED
      BY <1>3, <2>4, <3>2, KeepMoves DEF IInv
  <2>6. CASE ~Mounted(v)
    <3>1. GInv'
      BY <1>2, <2>4, <2>6, GoneMove DEF memory, device
    <3>2. QED
      BY <1>3, <2>4, <3>1, KeepMoves DEF IInv
  <2>7. QED
    BY <1>4, <2>5, <2>6
<1>7. QED
  BY <1>5, <1>6
-----------------------------------------------------------------------------
\* Verify, Home and what happens around the application.

\* Every Verify page moves to its second part, whoever was verified.
LEMMA VerifyReturnsKeeps ==
  ASSUME IInv, NEW v \in Views, VerifyReturns(v)
  PROVE  IInv'
<1>1. /\ Types /\ view \in [Views -> ViewRec]
      /\ \A x \in Views : view[x] \in ViewRec /\ RowOK(view[x])
  BY Row DEF IInv, VInv, TInv
<1>2. /\ view[v].at \in {"verify", "written"}
      /\ view[v].page \in {"code", "success"}
      /\ flag' = "yes" /\ UNCHANGED <<remote, signedIn, known, memory>>
      /\ stray' = IF Fragment(v) THEN stray ELSE stray \cup {"verify"}
  BY <1>1 DEF VerifyReturns, RowOK
<1>3. Types'
  BY <1>1, <1>2 DEF Types, remote, memory, Flags
<1>4. Busy(v) \/ ~Mounted(v)
  BY <1>2, AtWork DEF IInv, Rests
<1> DEFINE r(x) == IF x = v THEN [view[x] EXCEPT !.at = "idle"] ELSE view[x]
<1>5. ASSUME NEW x \in Views
      PROVE  /\ r(x) \in ViewRec /\ r(x).shown = view[x].shown
             /\ r(x).page = view[x].page /\ r(x).who = view[x].who
             /\ r(x).at = IF x = v THEN "idle" ELSE view[x].at
             /\ x # v => r(x) = view[x]
             /\ view'[x] = IF Fragment(x) THEN [r(x) EXCEPT !.page = "success"]
                           ELSE Kept(r(x))
  <2>1. /\ r(x) \in ViewRec /\ r(x).shown = view[x].shown
        /\ r(x).page = view[x].page /\ r(x).who = view[x].who
        /\ r(x).at = IF x = v THEN "idle" ELSE view[x].at
        /\ x # v => r(x) = view[x]
    BY <1>1 DEF ViewRec, Steps
  <2>2. view'[x] = IF Fragment(x) THEN [r(x) EXCEPT !.page = "success"]
                   ELSE Kept(r(x))
    BY DEF VerifyReturns
  <2>3. QED
    BY <2>1, <2>2
<1> HIDE DEF r
<1>6. ASSUME NEW x \in Views
      PROVE  RowOK(r(x)) \/ (r(x).at = "idle" /\ r(x).shown # "top")
                         \/ Fragment(x)
  <2>1. CASE x # v
    BY <1>1, <1>5, <2>1
  <2>2. CASE x = v
    <3>1. /\ r(x).at = "idle" /\ r(x).page \in {"code", "success"}
          /\ r(x).shown = view[x].shown /\ r(x).page = view[x].page
      BY <1>2, <1>5, <2>2
    <3>2. r(x).page = "success" => RowOK(r(x))
      BY <3>1 DEF RowOK, Rests
    <3>3. QED
      BY <3>1, <3>2 DEF Fragment, Mounted
  <2>3. QED
    BY <2>1, <2>2
<1>7. ASSUME NEW x \in Views
      PROVE  /\ view'[x] \in ViewRec /\ RowOK(view'[x])
             /\ view'[x].shown = view[x].shown
             /\ view'[x].at = IF x = v THEN "idle" ELSE view[x].at
             /\ view'[x].at # "idle" => view'[x].who = view[x].who
             /\ IsTop(x) => view'[x].page = IF Fragment(x) THEN "success"
                                            ELSE view[x].page
  <2>1. CASE Fragment(x)
    <3>1. view[x].page = "code"
      BY <2>1 DEF Fragment
    <3>2. view'[x] = [r(x) EXCEPT !.page = "success"]
      BY <1>5, <2>1
    <3>3. /\ view'[x] \in ViewRec /\ view'[x].page = "success"
          /\ view'[x].shown = view[x].shown /\ view'[x].who = view[x].who
          /\ view'[x].at = IF x = v THEN "idle" ELSE view[x].at
      BY <1>5, <3>2 DEF ViewRec, Pages
    <3>4. RowOK(view'[x])
      BY <1>1, <3>1, <3>3 DEF RowOK, Rests
    <3>5. QED
      BY <2>1, <3>3, <3>4
  <2>2. CASE ~Fragment(x)
    <3>1. view'[x] = Kept(r(x))
      BY <1>5, <2>2
    <3>2. RowOK(Kept(r(x)))
      BY <1>5, <1>6, <2>2, KeptRow
    <3>3. QED
      <4>1. r(x) \in ViewRec
        BY <1>5
      <4>2. /\ Kept(r(x)) \in ViewRec
            /\ Kept(r(x)).shown = r(x).shown /\ Kept(r(x)).at = r(x).at
            /\ r(x).shown = "top" => Kept(r(x)) = r(x)
            /\ r(x).at # "idle" => Kept(r(x)).who = r(x).who
        BY <4>1, KeptIs
      <4>3. QED
        BY <1>5, <2>2, <3>1, <3>2, <4>2 DEF IsTop
  <2>3. QED
    BY <2>1, <2>2
<1>8. view' \in [Views -> ViewRec]
  <2>1. view' = [x \in Views |-> view'[x]]
    BY DEF VerifyReturns
  <2>2. QED
    BY <1>7, <2>1
<1>9. /\ \A u \in Views : IsTop(u)' <=> IsTop(u)
      /\ \A u \in Views : Busy(u)' => Busy(u) /\ u # v
      /\ \A u \in Views : Mounted(u)' => Mounted(u)
  BY <1>7 DEF IsTop, Busy, Works, Mounted, Rests
<1>10. VInv'
  <2>1. OneTop'
    BY <1>9 DEF OneTop, IInv, VInv, TInv
  <2>2. OneBusy'
    BY <1>9 DEF OneBusy, IInv, VInv
  <2>3. SplashAlone'
    BY <1>7, <1>9 DEF SplashAlone, IInv, VInv
  <2>4. QED
    BY <1>3, <1>7, <1>8, <2>1, <2>2, <2>3 DEF VInv, TInv
<1>11. CASE Fragment(v)
  <2>1. Busy(v) /\ Mounted(v)
    BY <1>4, <1>11 DEF Fragment
  <2>2. /\ \A u \in Views : ~Busy(u)'
        /\ stray \cap {"fetch", "verify"} = {} => companies = NoOne
        /\ "verify" \notin stray => user # NoOne
        /\ stray' = stray
    <3>1. "verify" \notin stray => user # NoOne
      BY <1>2, <2>1 DEF IInv, GInv, ModelKept
    <3>2. QED
      BY <1>2, <1>9, <1>11, <2>1, <3>1, BusyAway
  <2>3. HomeIsQuiet' /\ HomeModel' /\ HomeLists'
    BY <1>2, <2>2 DEF HomeIsQuiet, HomeModel, HomeLists, memory
  <2>4. ModelKept' /\ SignedInFor'
    BY <2>2 DEF ModelKept, SignedInFor, Busy, Works, Mounted, Rests
  <2>5. RefreshOwn'
    BY <1>7, <1>9, <2>1, <2>2, BusyAway DEF RefreshOwn
  <2>6. QED
    BY <1>10, <2>3, <2>4, <2>5 DEF IInv, GInv
<1>12. CASE ~Fragment(v)
  <2>1. "verify" \in stray'
    BY <1>2, <1>12
  <2>2. SignedInFor'
    BY <1>2, <1>7, <1>9 DEF IInv, GInv, SignedInFor, memory
  <2>3. HomeIsQuiet' /\ ModelKept' /\ HomeModel' /\ RefreshOwn' /\ HomeLists'
    BY <2>1 DEF HomeIsQuiet, ModelKept, HomeModel, RefreshOwn, HomeLists
  <2>4. QED
    BY <1>10, <2>2, <2>3 DEF IInv, GInv
<1>13. QED
  BY <1>11, <1>12

\* The administrator turns to another page.
LEMMA TurnsKeeps ==
  ASSUME IInv, NEW v \in Views, Retry(v) \/ Choose(v) \/ Back(v) \/ Continue(v)
  PROVE  IInv'
<1>1. view[v] \in ViewRec /\ RowOK(view[v]) /\ Types
  BY Row DEF IInv
<1>2. IsTop(v) /\ UNCHANGED <<remote, device, memory, stray>>
  BY DEF Retry, Choose, Back, Continue, On
<1>3. Types'
  BY <1>1, <1>2 DEF Types, remote, device, memory
<1>4. ASSUME NEW new \in ViewRec, RowOK(new), new.shown = "top",
             Replace(view, new),
             view[v].page \notin {"splash", "home"},
             new.at = "idle" \/ (new.at = "net" /\ view[v].page = "error"),
             new.page \in {"splash", "error"} => view[v].page = "error",
             new.page # "success",
             new.page = "home" => view[v].page = "success"
      PROVE  IInv'
  <2>1. Opens(v, view, new)
    BY <1>2, <1>4, GoesOpening DEF IInv
  <2>2. GInv'
    BY <1>2, <1>4, <2>1, UserOpens DEF memory, device
  <2>3. QED
    BY <1>3, <2>1, <2>2, KeepOpens DEF IInv
<1>5. {"splash", "welcome", "login", "register", "home"} \subseteq Pages
      /\ {"unset", "no"} \subseteq Flags /\ view[v].arg \in Flags
  BY <1>1 DEF Pages, Flags, ViewRec
<1>6. CASE Retry(v)
  BY <1>4, <1>5, <1>6, FreshRow DEF Retry, On, Open
<1>7. CASE Choose(v)
  <2>1. CASE Open(view, "login", view[v].arg)
    BY <1>4, <1>5, <1>7, <2>1, FreshRow DEF Choose, On, Open
  <2>2. CASE Open(view, "register", view[v].arg)
    BY <1>4, <1>5, <1>7, <2>2, FreshRow DEF Choose, On, Open
  <2>3. CASE OpenCode(view, user)
    <3> DEFINE c == [Fresh("code", "no") EXCEPT !.who = user]
    <3>1. /\ c \in ViewRec /\ RowOK(c) /\ c.shown = "top"
          /\ c.page = "code" /\ c.at = "idle"
      BY <1>1, CodeRow DEF Types
    <3>2. Replace(view, c) /\ view[v].page = "welcome"
      BY <1>7, <2>3 DEF OpenCode, Choose, On
    <3> HIDE DEF c
    <3>3. QED
      BY <1>4, <3>1, <3>2
  <2>4. QED
    BY <1>7, <2>1, <2>2, <2>3 DEF Choose
<1>8. CASE Back(v)
  <2>1. /\ view[v].page \in {"login", "register", "code", "success"}
        /\ \E a \in Flags : Open(view, "welcome", a)
    BY <1>5, <1>8 DEF Back, On
  <2>2. PICK a \in Flags : Replace(view, Fresh("welcome", a))
    BY <2>1 DEF Open
  <2>3. QED
    BY <1>4, <1>5, <2>1, <2>2, FreshRow
<1>9. CASE Continue(v)
  BY <1>4, <1>5, <1>9, FreshRow DEF Continue, On, Open
<1>10. QED
  BY <1>6, <1>7, <1>8, <1>9

\* The administrator logs out.
LEMMA LogoutKeepsAll ==
  ASSUME IInv, NEW v \in Views, Logout(v)
  PROVE  IInv'
<1>1. view[v] \in ViewRec /\ RowOK(view[v]) /\ Types
  BY Row DEF IInv
<1>2. /\ IsTop(v) /\ view[v].page = "home" /\ SignedOut /\ companies' = NoOne
      /\ UNCHANGED <<remote, known>>
      /\ Replace(view, Fresh("welcome", "unset"))
      /\ "welcome" \in Pages /\ "unset" \in Flags
  BY DEF Logout, On, Open, Pages, Flags
<1>3. Types'
  BY <1>1, <1>2 DEF Types, remote, SignedOut
<1>4. /\ Fresh("welcome", "unset") \in ViewRec /\ RowOK(Fresh("welcome", "unset"))
      /\ Fresh("welcome", "unset").shown = "top"
      /\ Fresh("welcome", "unset").page = "welcome"
      /\ Fresh("welcome", "unset").at = "idle"
  BY <1>2, FreshRow
<1>5. Opens(v, view, Fresh("welcome", "unset"))
  BY <1>2, <1>4, GoesOpening DEF IInv
<1>6. /\ \A u \in Views : IsTop(u)' =>
           view'[u].page = "welcome" /\ view'[u].at = "idle"
      /\ \A u \in Views : Busy(u)' => Busy(u)
      /\ \A u \in Views : Mounted(u)' /\ view'[u].at \notin Rests => Busy(u)
  <2>1. \A u \in Views : IsTop(u)' =>
           view'[u].page = "welcome" /\ view'[u].at = "idle"
    BY <1>4, <1>5, OpensKeep DEF IInv
  <2>2. \A u \in Views : Busy(u)' => Busy(u)
    BY <1>5, <2>1, OpensKeep DEF IInv, Busy, Works, Rests
  <2>3. QED
    BY <2>1, <2>2 DEF Busy, Works, Mounted
<1>7. HomeIsQuiet' /\ HomeModel' /\ RefreshOwn' /\ HomeLists'
  BY <1>2, <1>6 DEF HomeIsQuiet, HomeModel, RefreshOwn, HomeLists
<1>8. "verify" \in stray' <=> "verify" \in stray
  BY <1>2 DEF SignedOut
<1>9. "verify" \notin stray => \A u \in Views : ~Busy(u)
  BY <1>2 DEF IInv, GInv, HomeIsQuiet
<1>10. ModelKept'
  BY <1>6, <1>8, <1>9 DEF ModelKept, Rests
<1>11. SignedInFor'
  BY <1>2 DEF SignedInFor, SignedOut
<1>12. QED
  BY <1>3, <1>5, <1>7, <1>10, <1>11, KeepOpens DEF IInv, GInv

\* Home is pulled down to refresh its list.
LEMMA RefreshKeeps ==
  ASSUME IInv, NEW v \in Views, Refresh(v)
  PROVE  IInv'
<1>1. /\ view[v] \in ViewRec /\ RowOK(view[v]) /\ Types
      /\ view \in [Views -> ViewRec]
  BY Row DEF IInv
<1>2. /\ IsTop(v) /\ view[v].page = "home" /\ user \in Accounts
      /\ UNCHANGED <<remote, device, memory, stray>>
  BY <1>1 DEF Refresh, On, Types
<1> DEFINE r == [view[v] EXCEPT !.at = "refresh", !.who = user]
<1>3. /\ r \in ViewRec /\ r.shown = view[v].shown /\ r.page = "home"
      /\ r.at = "refresh" /\ r.who = user
  BY <1>1, <1>2 DEF ViewRec, Steps
<1>4. view' = [view EXCEPT ![v] = r]
  BY <1>1 DEF Refresh
<1> HIDE DEF r
<1>5. RowOK(r)
  BY <1>3 DEF RowOK, Rests
<1>6. Moves(v, r)
  BY <1>2, <1>3, <1>4, <1>5 DEF Moves, Works, Rests
<1>7. Types'
  BY <1>1, <1>2 DEF Types, remote, device, memory
<1>8. /\ view'[v] = r /\ \A u \in Views \ {v} : view'[u] = view[u]
      /\ \A u \in Views : IsTop(u)' = IsTop(u)
  BY <1>6, MovesKeep DEF IInv
<1>9. \A u \in Views : Busy(u)' => Busy(u) /\ u # v
  BY <1>3, <1>8 DEF Busy, Works, Rests
<1>10. HomeIsQuiet' /\ HomeModel' /\ HomeLists'
  BY <1>2, <1>3, <1>8, <1>9
  DEF IInv, GInv, HomeIsQuiet, HomeModel, HomeLists, memory
<1>11. RefreshOwn'
  BY <1>2, <1>3, <1>8 DEF IInv, GInv, RefreshOwn, memory
<1>12. ModelKept' /\ SignedInFor'
  BY <1>2, <1>3, <1>8 DEF IInv, GInv, ModelKept, SignedInFor, Mounted, memory, device
<1>13. QED
  BY <1>6, <1>7, <1>10, <1>11, <1>12, KeepMoves DEF IInv, GInv

\* The answer to a refresh sets the companies, on Home or astray.
LEMMA RefreshReturnsKeeps ==
  ASSUME IInv, NEW v \in Views, RefreshReturns(v)
  PROVE  IInv'
<1>1. view[v] \in ViewRec /\ RowOK(view[v]) /\ Types
  BY Row DEF IInv
<1>2. /\ view[v].at = "refresh" /\ view[v].page = "home"
      /\ companies' \in {view[v].who, NoOne} /\ Wrote(v, "fetch")
      /\ Goes(v, "idle") /\ UNCHANGED <<remote, device, user>>
  BY <1>1 DEF RefreshReturns, RowOK
<1>3. Types'
  BY <1>1, <1>2 DEF Types, remote, device, Wrote, ViewRec
<1>4. RowOK([view[v] EXCEPT !.at = "idle"])
  BY <1>1, <1>2 DEF RowOK, ViewRec, Rests
<1>5. "idle" \in Steps /\ "idle" \in Rests
  BY DEF Steps, Rests
<1>6. PICK r \in ViewRec : Moves(v, r) /\ r.at = "idle"
  BY <1>2, <1>4, <1>5, GoesMoves DEF IInv
<1>7. /\ view'[v] = r /\ \A u \in Views \ {v} : view'[u] = view[u]
      /\ \A u \in Views : IsTop(u)' = IsTop(u)
  BY <1>6, MovesKeep DEF IInv
<1>8. /\ \A u \in Views : Busy(u)' => Busy(u) /\ u # v
      /\ \A u \in Views : IsTop(u) => view'[u].page = view[u].page
  BY <1>5, <1>6, <1>7 DEF Busy, Works, Moves
<1>9. "verify" \in stray' <=> "verify" \in stray
  BY <1>2 DEF Wrote
<1>10. "signin" \in stray' <=> "signin" \in stray
  BY <1>2 DEF Wrote
<1>11. HomeIsQuiet' /\ HomeModel'
  BY <1>2, <1>7, <1>8, <1>9 DEF IInv, GInv, HomeIsQuiet, HomeModel
<1>12. RefreshOwn'
  BY <1>2, <1>6, <1>7, <1>9 DEF IInv, GInv, RefreshOwn
<1>13. ModelKept' /\ SignedInFor'
  BY <1>2, <1>6, <1>7, <1>9, <1>10
  DEF IInv, GInv, ModelKept, SignedInFor, Mounted, device
<1>14. HomeLists'
  <2> SUFFICES ASSUME stray' \cap {"fetch", "verify"} = {}
               PROVE  /\ IsTop(v) /\ companies' \in {NoOne, user'}
                      /\ view'[v].page = "home"
    BY <1>7 DEF HomeLists, IInv, VInv, TInv, OneTop
  <2>1. IsTop(v)
    BY <1>2 DEF Wrote
  <2>2. view[v].who = user
    BY <1>2, <1>9, <2>1 DEF IInv, GInv, RefreshOwn
  <2>3. QED
    BY <1>2, <1>8, <2>1, <2>2
<1>15. QED
  BY <1>3, <1>6, <1>11, <1>12, <1>13, <1>14, KeepMoves DEF IInv, GInv

\* The transition away from a page ends.
LEMMA DisposeKeeps ==
  ASSUME IInv, NEW v \in Views, Dispose(v)
  PROVE  IInv'
<1>1. /\ view[v] \in ViewRec /\ RowOK(view[v]) /\ Types
      /\ view \in [Views -> ViewRec]
  BY Row DEF IInv
<1> DEFINE s == [view[v] EXCEPT !.shown = "gone"]
<1>2. /\ s \in ViewRec /\ s.shown = "gone" /\ s.at = view[v].at
      /\ s.page = view[v].page /\ s.who = view[v].who
  BY <1>1 DEF ViewRec
<1>3. /\ view[v].shown = "leaving" /\ view' = [view EXCEPT ![v] = Kept(s)]
      /\ UNCHANGED <<remote, device, memory, stray>>
  BY DEF Dispose
<1> HIDE DEF s
<1>4. RowOK(s) \/ (s.at = "idle" /\ s.shown # "top")
  BY <1>1, <1>2, <1>3 DEF RowOK, Rests
<1>5. /\ view' \in [Views -> ViewRec] /\ \A u \in Views : RowOK(view'[u])
      /\ view'[v].shown = "gone"
      /\ \A u \in Views \ {v} : view'[u] = view[u]
  BY <1>1, <1>2, <1>3, <1>4, KeptIs, KeptRow DEF IInv, VInv
<1>6. /\ \A u \in Views : IsTop(u)' <=> IsTop(u)
      /\ \A u \in Views : IsTop(u) => view'[u] = view[u]
      /\ \A u \in Views : Busy(u)' => Busy(u)
      /\ \A u \in Views : Mounted(u)' => Mounted(u) /\ view'[u] = view[u]
  BY <1>3, <1>5 DEF IsTop, Busy, Works, Mounted
<1>7. VInv'
  <2>1. Types'
    BY <1>1, <1>3 DEF Types, remote, device, memory
  <2>2. OneTop' /\ OneBusy' /\ SplashAlone'
    BY <1>6 DEF IInv, VInv, TInv, OneTop, OneBusy, SplashAlone
  <2>3. QED
    BY <1>5, <2>1, <2>2 DEF VInv, TInv
<1>8. GInv'
  BY <1>3, <1>6
  DEF IInv, GInv, HomeIsQuiet, ModelKept, HomeModel, RefreshOwn, HomeLists,
      SignedInFor, memory, device
<1>9. QED
  BY <1>7, <1>8 DEF IInv

\* The process starts.
Started ==
  /\ \E v \in Views :
       view = [w \in Views |-> IF w = v THEN Fresh("splash", "unset") ELSE Blank]
  /\ Types /\ user = NoOne /\ companies = NoOne /\ stray = {}

\* Splash is the only page, and nothing is waited for but the network.
LEMMA StartIs == Started => IInv
<1> SUFFICES ASSUME Started PROVE IInv
  OBVIOUS
<1>0. PICK v \in Views :
        view = [w \in Views |-> IF w = v THEN Fresh("splash", "unset") ELSE Blank]
  BY DEF Started
<1>1. "splash" \in Pages /\ "unset" \in Flags
  BY DEF Pages, Flags
<1>2. Blank \in ViewRec /\ RowOK(Blank) /\ Blank.shown = "gone"
  BY AccountsAssumption
  DEF Blank, ViewRec, RowOK, Rests, Pages, Flags, Steps
<1>3. /\ view \in [Views -> ViewRec]
      /\ \A u \in Views : RowOK(view[u])
      /\ view[v].page = "splash" /\ view[v].at = "net" /\ IsTop(v)
      /\ \A u \in Views \ {v} : view[u].shown = "gone"
  BY <1>0, <1>1, <1>2, FreshRow DEF IsTop
<1>4. VInv
  BY <1>3
  DEF Started, VInv, TInv, OneTop, OneBusy, SplashAlone, IsTop, Busy, Works
<1>5. GInv
  BY <1>3
  DEF Started, GInv, HomeIsQuiet, ModelKept, HomeModel, RefreshOwn, HomeLists,
      SignedInFor, IsTop, Mounted
<1>6. QED
  BY <1>4, <1>5 DEF IInv

\* The process starts again.
LEMMA StartAgain == Started' => IInv'
BY StartIs, PTL

\* What happens around the application: the process is started again, somebody
\* else changes a user, Firebase ends the session.
LEMMA AroundKeeps ==
  ASSUME IInv,
         \/ Restart \/ AuthKnown \/ Revoked \/ UNCHANGED vars
         \/ \E a \in Accounts : Elsewhere(a)
  PROVE  IInv'
<1>1. Types
  BY DEF IInv, VInv, TInv
<1>2. CASE Restart
  <2>1. /\ users' \in [Accounts -> Docs]
        /\ known' = FALSE /\ user' = NoOne /\ companies' = NoOne /\ stray' = {}
        /\ UNCHANGED <<accounts, signedIn, flag>>
    BY <1>1, <1>2 DEF Restart, Types, Docs
  <2>2. Types'
    BY <1>1, <2>1 DEF Types
  <2>3. QED
    BY <1>2, <2>1, <2>2, StartAgain DEF Restart, Started
<1>3. ASSUME UNCHANGED <<view, memory, stray>>, signedIn' \in {signedIn, NoOne},
             Types'
      PROVE  IInv'
  <2>1. VInv'
    BY <1>3
    DEF IInv, VInv, TInv, OneTop, OneBusy, SplashAlone, IsTop, Busy, Works, RowOK
  <2>2. GInv'
    BY <1>3
    DEF IInv, GInv, HomeIsQuiet, ModelKept, HomeModel, RefreshOwn, HomeLists,
        SignedInFor, IsTop, Busy, Works, Mounted, memory
  <2>3. QED
    BY <2>1, <2>2 DEF IInv
<1>4. CASE AuthKnown
  BY <1>1, <1>3, <1>4 DEF AuthKnown, Types, remote, memory
<1>5. CASE Revoked
  BY <1>1, <1>3, <1>5 DEF Revoked, Types, remote, memory
<1>6. CASE UNCHANGED vars
  BY <1>1, <1>3, <1>6 DEF vars, Types, remote, memory, device
<1>7. CASE \E a \in Accounts : Elsewhere(a)
  <2>1. PICK a \in Accounts : Elsewhere(a)
    BY <1>7
  <2>2. /\ users' \in [Accounts -> Docs]
        /\ UNCHANGED <<accounts, device, memory, stray, view>>
    BY <1>1, <2>1 DEF Elsewhere, Types, Docs
  <2>3. Types'
    BY <1>1, <2>2 DEF Types, device, memory
  <2>4. QED
    BY <1>3, <2>2, <2>3 DEF device
<1>8. QED
  BY <1>2, <1>4, <1>5, <1>6, <1>7
-----------------------------------------------------------------------------
\* The theorems.

\* Every step of the specification keeps the invariant.
LEMMA StepKeeps == IInv /\ [Next]_vars => IInv'
<1> SUFFICES ASSUME IInv, [Next]_vars PROVE IInv'
  OBVIOUS
<1>1. ASSUME NEW v \in Views, User(v) PROVE IInv'
  <2>1. CASE Retry(v) \/ Choose(v) \/ Back(v) \/ Continue(v)
    BY <2>1, TurnsKeeps
  <2>2. CASE Refresh(v)
    BY <2>2, RefreshKeeps
  <2>3. CASE Logout(v)
    BY <2>3, LogoutKeepsAll
  <2>4. CASE SubmitCode(v)
    <3>1. view[v].who \in Accounts
      BY <2>4, Row DEF SubmitCode, IInv, ViewRec
    <3>2. QED
      BY <2>4, <3>1, SubmitKeeps DEF SubmitCode
  <2>5. CASE \E a \in Accounts : SubmitLogin(v, a) \/ SubmitRegister(v, a)
    BY <2>5, SubmitKeeps DEF SubmitLogin, SubmitRegister
  <2>6. QED
    BY <1>1, <2>1, <2>2, <2>3, <2>4, <2>5 DEF User
<1>2. ASSUME NEW v \in Views, Chain(v) PROVE IInv'
  <2>1. CASE \/ SplashNet(v) \/ SplashRead(v) \/ SplashData(v)
             \/ SplashFetch(v) \/ SplashThrows(v) \/ SplashGivesUp(v)
    BY <2>1, SplashNetKeeps, SplashReadKeeps, DataKeeps, FetchKeeps,
       SplashGivesUpKeeps
  <2>2. CASE \/ SignInRefused(v) \/ SignInReturns(v)
             \/ LoginDies(v) \/ LoginData(v) \/ LoginFetch(v)
    BY <2>2, GiveBackKeeps, SignInKeeps, EndKeeps, DataKeeps, FetchKeeps
  <2>3. CASE \/ CreateRefused(v) \/ CreateThrows(v) \/ CreateReturns(v)
             \/ ProfileWritten(v) \/ ProfileReturns(v) \/ MailsReturn(v)
    BY <2>3, EndKeeps, GiveBackKeeps, SignInKeeps, ProfileKeeps, RegisterKeeps
  <2>4. CASE \/ CodeWrong(v) \/ CodeRight(v) \/ VerifyWritten(v)
             \/ VerifyReturns(v) \/ RefreshReturns(v)
    BY <2>4, GiveBackKeeps, EndKeeps, CodeKeeps, VerifyReturnsKeeps,
       RefreshReturnsKeeps
  <2>5. QED
    BY <1>2, <2>1, <2>2, <2>3, <2>4 DEF Chain
<1>3. QED
  BY <1>1, <1>2, DisposeKeeps, AroundKeeps DEF Next

\* The process starts with Splash alone, before any model is set.
LEMMA InitStarts == Init => IInv
<1> SUFFICES ASSUME Init PROVE IInv
  OBVIOUS
<1>1. Types
  BY DEF Init, Types
<1>2. QED
  BY <1>1, StartIs DEF Init, Started

\* The invariant holds throughout: the pages and their chains, and what the
\* view models hold for them (views/splash, login, register, verify, home).
THEOREM Inductive == Spec => []IInv
BY InitStarts, StepKeeps, PTL DEF Spec

\* Every variable keeps its type, and one page is on top.
THEOREM TypeCorrect == Spec => []TypeOK
<1>1. IInv => TypeOK
  <2> SUFFICES ASSUME IInv PROVE TypeOK
    OBVIOUS
  <2>1. Types /\ view \in [Views -> ViewRec] /\ OneTop
    BY DEF IInv, VInv, TInv
  <2>2. PICK v \in Views : \A u \in Views : IsTop(u) <=> u = v
    BY <2>1 DEF OneTop
  <2>3. {u \in Views : IsTop(u)} = {v}
    BY <2>2
  <2>4. Cardinality({u \in Views : IsTop(u)}) = 1
    BY <2>3, FS_Singleton
  <2>5. QED
    BY <2>1, <2>4 DEF TypeOK, Types, ViewRec
<1>2. QED
  BY <1>1, Inductive, PTL

\* Home and the last page of Verify have a model to work with, whatever fails,
\* is left or comes late, until a verification goes astray (UserViewModel and
\* home.dart's use of it).
THEOREM ModelForHome == Spec => []HomeHasUser
<1>1. IInv => HomeHasUser
  <2> SUFFICES ASSUME IInv, TopPage \subseteq {"home", "success"},
                      "verify" \notin stray
               PROVE  user # NoOne
    BY DEF HomeHasUser
  <2>1. PICK v \in Views : IsTop(v)
    BY DEF IInv, VInv, TInv, OneTop
  <2>2. view[v].page \in TopPage
    BY <2>1 DEF TopPage
  <2>3. QED
    BY <2>1, <2>2 DEF IInv, GInv, HomeModel
<1>2. QED
  BY <1>1, Inductive, PTL

\* Home lists its own administrator's companies, until an answer comes for a
\* page that was left (companies_view_model.dart's fetchData).
THEOREM OwnLists == Spec => []OwnCompanies
<1>1. IInv => OwnCompanies
  <2> SUFFICES ASSUME IInv, TopPage = {"home"},
                      stray \cap {"fetch", "verify"} = {}
               PROVE  companies \in {NoOne, user}
    BY DEF OwnCompanies
  <2>1. PICK v \in Views : IsTop(v)
    BY DEF IInv, VInv, TInv, OneTop
  <2>2. QED
    BY <2>1 DEF IInv, GInv, HomeLists
<1>2. QED
  BY <1>1, Inductive, PTL

\* A login or Splash opens Home with the model of the account that is signed
\* in, until a sign-in goes astray (login.dart's and splash.dart's chains).
THEOREM SignedInAtHome == Spec => HomeIsSignedIn
<1>1. IInv /\ [Next]_vars =>
        [\A v \in Views :
           /\ view[v].at = "fetch" /\ view'[v].at = "idle" /\ Mounted(v)
           /\ "signin" \notin stray
           => signedIn \in {user, NoOne}]_vars
  BY DEF IInv, GInv, SignedInFor
<1>2. QED
  BY <1>1, Inductive, PTL DEF Spec, HomeIsSignedIn

\* Login and the code form take input when nothing is under way for them
\* (submitSt in login.dart and reg_code_fragment.dart).
THEOREM FormsGiveBack == Spec => []InputBack
<1>1. IInv => InputBack
  BY DEF IInv, VInv, RowOK, InputBack, On, IsTop
<1>2. QED
  BY <1>1, Inductive, PTL
==============================================================================
