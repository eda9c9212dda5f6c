------------------------ MODULE BrowserSessionProofs ------------------------
(***************************************************************************)
(* Proofs about BrowserSession: for any number of tabs, accounts, sign-ins *)
(* and routes under way, what a tab shows and what it knows of the account *)
(* belong to one session, the tabs agree on it once nothing is under way,  *)
(* a late 401 spares the session that replaced its own, and a switch of    *)
(* accounts is announced unless it was itself cut off.  A handler is taken *)
(* apart into what it makes of one tab (constants b and c below) and what  *)
(* it stores for the others.                                               *)
(***************************************************************************)
EXTENDS BrowserSession, SequenceTheorems, TLAPS
------------------------------------------------------------------------------
(***************************************************************************)
(* The inductive invariant.                                                *)
(***************************************************************************)

\* A route that is under way has a request; one that is not awaits nothing.
RouteWell(p) ==
    /\ p.pc = "free" => ~p.mine
    /\ p.pc # "free" => p.token \in Tokens

\* Every token a tab knows of was issued, and `me' is the account its token was issued to.
Known(b, issued) ==
    /\ \A k \in {b.held, b.meToken, b.drawn} \ {None} : issued[k] # None
    /\ \A r \in Slots : b.route[r].pc # "free" => issued[b.route[r].token] # None
    /\ b.me # None => issued[b.meToken] = b.me

\* What holds of a tab in the middle of a handler too.
Sane(b, issued) ==
    /\ b \in Tab
    /\ \A r \in Slots : RouteWell(b.route[r])
    /\ b.me = None <=> b.meToken = None
    /\ b.view \in {"app", "powerless"} => b.drawn # None
    /\ Known(b, issued)

\* A route that may still draw.
Mine(b, r) == b.route[r].pc # "free" /\ b.route[r].mine
Drawing(b) == \E r \in Slots : Mine(b, r)

\* The latest route is the only one that may draw; its answers are about the token
\* the tab holds, and between them `me' is of that token.
RoutesInStep(b) ==
    /\ \A r \in Slots : Mine(b, r) =>
         /\ b.route[r].token = b.held
         /\ b.route[r].pc = "caps" => b.meToken = b.held
    /\ \A r, q \in Slots : Mine(b, r) /\ Mine(b, q) => r = q

\* What each view waits for or stands on.
ViewInStep(b) ==
    /\ b.view \in {"app", "powerless"} => b.drawn = b.held \/ Drawing(b)
    /\ b.view = "placeholder" => Drawing(b)
    /\ b.view = "signing in" => b.asked \/ Drawing(b)
    /\ b.held = None => b.view \in {"login", "signing in"}

\* What holds of a tab between two handlers.
InStep(b, issued) == Sane(b, issued) /\ RoutesInStep(b) /\ ViewInStep(b)

\* A tab that holds another token than the one stored will yet hear of that one, last.
Hears(held, pending, stored) ==
    held \in {None, stored} \/ (pending # <<>> /\ pending[Len(pending)] = stored)

\* The account last shown, or last missed, is the one the notice will be decided by;
\* another one is only `me' as long as the route that took it over may still draw.
Remembers(b, last, issued) ==
    last # None =>
       /\ b.drawn # None => b.me = last /\ issued[b.drawn] = last
       /\ b.me = None => b.previous = last
       /\ b.me # None => b.held = b.meToken
       /\ b.me \notin {None, last} => \E r \in Slots : Mine(b, r) /\ b.route[r].pc = "caps"
       /\ \A r \in Slots : Mine(b, r) /\ b.route[r].pc = "me" => b.me = None
       /\ \A r \in Slots : Mine(b, r) /\ b.route[r].pc = "caps" =>
            b.route[r].notice \/ issued[b.meToken] = last

IInv ==
    /\ TypeOK
    /\ storage # None => subject[storage] # None
    /\ \A t \in Tabs : /\ InStep(tab[t], subject)
                       /\ Hears(tab[t].held, events[t], storage)
                       /\ Remembers(tab[t], LastOf(t), subject)
------------------------------------------------------------------------------
(***************************************************************************)
(* What a handler makes of a tab.                                          *)
(***************************************************************************)

\* The same route, no longer the latest.
Outdated(p, q) ==
    q.pc = p.pc /\ q.token = p.token /\ q.good = p.good /\ q.notice = p.notice /\ ~q.mine

SameAccount(b, c) == c.held = b.held /\ c.me = b.me /\ c.meToken = b.meToken

LEMMA NoRouteIs ==
    NoRoute \in Route /\ NoRoute.pc = "free" /\ ~NoRoute.mine
  BY DEF NoRoute, Route

LEMMA OutdatedRoute ==
    ASSUME NEW p \in Route, NEW q, q = [p EXCEPT !.mine = FALSE]
    PROVE  q \in Route /\ Outdated(p, q)
  BY DEF Route, Outdated

OtherRoutes(b, c, f) ==
    /\ c \in Tab /\ c.route = f /\ SameAccount(b, c) /\ c.previous = b.previous
    /\ c.view = b.view /\ c.drawn = b.drawn /\ c.notice = b.notice /\ c.asked = b.asked

LEMMA RoutesSet ==
    ASSUME NEW b \in Tab, NEW f \in [Slots -> Route], NEW c, c = [b EXCEPT !.route = f]
    PROVE  OtherRoutes(b, c, f)
  BY DEF Tab, SameAccount, OtherRoutes

LEMMA BumpIs ==
    ASSUME NEW b \in Tab, NEW c, c = Bump(b)
    PROVE  /\ c \in Tab /\ SameAccount(b, c) /\ c.previous = b.previous
           /\ c.view = b.view /\ c.drawn = b.drawn /\ c.notice = b.notice /\ c.asked = b.asked
           /\ \A r \in Slots : Outdated(b.route[r], c.route[r])
<1>1. PICK f : f = [r \in Slots |-> [b.route[r] EXCEPT !.mine = FALSE]]
  OBVIOUS
<1>2. \A r \in Slots : b.route[r] \in Route
  BY DEF Tab
<1>3. \A r \in Slots : f[r] \in Route /\ Outdated(b.route[r], f[r])
  BY <1>1, <1>2, OutdatedRoute
<1>4. f \in [Slots -> Route]
  BY <1>1, <1>3
<1>5. c = [b EXCEPT !.route = f]
  BY <1>1 DEF Bump
<1>6. QED
  BY <1>3, <1>4, <1>5, RoutesSet DEF OtherRoutes

LEMMA FreeIs ==
    ASSUME NEW b \in Tab, NEW r \in Slots, NEW c, c = Free(b, r)
    PROVE  /\ c \in Tab /\ SameAccount(b, c) /\ c.previous = b.previous
           /\ c.view = b.view /\ c.drawn = b.drawn /\ c.notice = b.notice /\ c.asked = b.asked
           /\ c.route[r] = NoRoute /\ \A q \in Slots \ {r} : c.route[q] = b.route[q]
<1>1. PICK p \in Route : p = NoRoute
  BY NoRouteIs
<1>2. PICK f : f = [b.route EXCEPT ![r] = p]
  OBVIOUS
<1>3. b.route \in [Slots -> Route]
  BY DEF Tab
<1>4. f \in [Slots -> Route] /\ f[r] = NoRoute /\ \A q \in Slots \ {r} : f[q] = b.route[q]
  BY <1>1, <1>2, <1>3
<1>5. c = [b EXCEPT !.route = f]
  BY <1>1, <1>2 DEF Free
<1>6. /\ c \in Tab /\ c.route = f /\ SameAccount(b, c) /\ c.previous = b.previous
      /\ c.view = b.view /\ c.drawn = b.drawn /\ c.notice = b.notice /\ c.asked = b.asked
  BY <1>4, <1>5, RoutesSet DEF OtherRoutes
<1>7. QED
  BY <1>4, <1>6

LEMMA DrawIs ==
    ASSUME NEW b \in Tab, NEW view \in Views, NEW notice \in BOOLEAN,
           NEW c, c = Draw(b, view, notice)
    PROVE  /\ c \in Tab /\ SameAccount(b, c) /\ c.previous = b.previous
           /\ c.view = view /\ c.drawn = b.meToken /\ c.notice = notice /\ c.asked = b.asked
           /\ c.route = b.route
  BY DEF Draw, Tab, SameAccount

LEMMA ForgetIs ==
    ASSUME NEW b \in Tab, NEW c, c = Forget(b)
    PROVE  /\ c \in Tab /\ c.held = None /\ c.me = None /\ c.meToken = None
           /\ c.previous = b.previous /\ c.view = b.view /\ c.drawn = b.drawn
           /\ c.notice = b.notice /\ c.asked = b.asked /\ c.route = b.route
  BY DEF Forget, Tab

LEMMA HeldSet ==
    ASSUME NEW b \in Tab, NEW k \in Tokens \cup {None}, NEW c, c = [b EXCEPT !.held = k]
    PROVE  /\ c \in Tab /\ c.held = k /\ c.me = b.me /\ c.meToken = b.meToken
           /\ c.previous = b.previous /\ c.view = b.view /\ c.drawn = b.drawn
           /\ c.notice = b.notice /\ c.asked = b.asked /\ c.route = b.route
  BY DEF Tab

LEMMA ShowLoginIs ==
    ASSUME NEW b \in Tab, NEW c, c = ShowLogin(b)
    PROVE  /\ c \in Tab /\ SameAccount(b, c) /\ c.previous = None
           /\ c.view = "login" /\ c.drawn = None /\ c.asked = b.asked
           /\ \A r \in Slots : Outdated(b.route[r], c.route[r])
<1>1. PICK bumped : bumped = Bump(b)
  OBVIOUS
<1>2. /\ bumped \in Tab /\ SameAccount(b, bumped) /\ bumped.asked = b.asked
      /\ \A r \in Slots : Outdated(b.route[r], bumped.route[r])
  BY <1>1, BumpIs
<1>3. PICK no \in BOOLEAN : no = FALSE
  OBVIOUS
<1>4. PICK d : d = Draw(bumped, "login", no)
  OBVIOUS
<1>5. /\ d \in Tab /\ SameAccount(bumped, d) /\ d.asked = bumped.asked /\ d.view = "login"
      /\ d.route = bumped.route
  <2>1. "login" \in Views
    BY DEF Views
  <2>2. QED
    BY <1>2, <1>4, <2>1, DrawIs
<1>6. c = [d EXCEPT !.previous = None, !.drawn = None]
  BY <1>1, <1>3, <1>4 DEF ShowLogin
<1>7. PICK e : e = [d EXCEPT !.previous = None]
  OBVIOUS
<1>8. /\ e \in Tab /\ SameAccount(d, e) /\ e.asked = d.asked /\ e.view = d.view
      /\ e.route = d.route /\ e.previous = None
  BY <1>5, <1>7 DEF Tab, SameAccount
<1>9. c = [e EXCEPT !.drawn = None]
  BY <1>6, <1>7
<1>10. /\ c \in Tab /\ SameAccount(e, c) /\ c.asked = e.asked /\ c.view = e.view
       /\ c.route = e.route /\ c.previous = None /\ c.drawn = None
  BY <1>8, <1>9 DEF Tab, SameAccount
<1>11. QED
  BY <1>2, <1>5, <1>8, <1>10 DEF SameAccount

LEMMA DrawAccountIs ==
    ASSUME NEW b \in Tab, NEW view \in Views, NEW notice \in BOOLEAN,
           NEW c, c = DrawAccount(b, view, notice)
    PROVE  /\ c \in Tab /\ SameAccount(b, c) /\ c.previous = None
           /\ c.view = view /\ c.drawn = b.meToken /\ c.notice = notice /\ c.asked = b.asked
           /\ c.route = b.route
<1>1. PICK d : d = Draw(b, view, notice)
  OBVIOUS
<1>2. /\ d \in Tab /\ SameAccount(b, d)
      /\ d.view = view /\ d.drawn = b.meToken /\ d.notice = notice /\ d.asked = b.asked
      /\ d.route = b.route
  BY <1>1, DrawIs
<1>3. c = [d EXCEPT !.previous = None]
  BY <1>1 DEF DrawAccount
<1>4. /\ c \in Tab /\ SameAccount(d, c) /\ c.previous = None
      /\ c.view = d.view /\ c.drawn = d.drawn /\ c.notice = d.notice /\ c.asked = d.asked
      /\ c.route = d.route
  BY <1>2, <1>3 DEF Tab, SameAccount
<1>5. QED
  BY <1>2, <1>4 DEF SameAccount

Proceeds(b, c, r, k, notice) ==
    /\ c \in Tab /\ SameAccount(b, c) /\ c.asked = b.asked
    /\ \A q \in Slots \ {r} : c.route[q] = b.route[q]
    /\ \/ /\ c.view = "powerless" /\ c.drawn = b.meToken /\ c.previous = None
          /\ c.route[r] = NoRoute
       \/ /\ c.view = b.view /\ c.drawn = b.drawn /\ c.previous = b.previous
          /\ c.route[r].pc = "caps" /\ c.route[r].token = k /\ c.route[r].mine
          /\ c.route[r].notice = notice

\* The part of route() after auth/me: the account is refused, or its capabilities asked.
LEMMA AfterMeIs ==
    ASSUME NEW b \in Tab, NEW r \in Slots, NEW k \in Tokens, NEW notice \in BOOLEAN,
           NEW c, c = AfterMe(b, r, k, notice)
    PROVE  Proceeds(b, c, r, k, notice)
<1>1. CASE b.me \in Powerless
  <2>1. PICK d : d = Free(b, r)
    OBVIOUS
  <2>2. /\ d \in Tab /\ SameAccount(b, d) /\ d.asked = b.asked
        /\ d.route[r] = NoRoute /\ \A q \in Slots \ {r} : d.route[q] = b.route[q]
    BY <2>1, FreeIs
  <2>3. PICK no \in BOOLEAN : no = FALSE
    OBVIOUS
  <2>4. c = DrawAccount(d, "powerless", no)
    BY <1>1, <2>1, <2>3 DEF AfterMe
  <2>5. /\ c \in Tab /\ SameAccount(d, c) /\ c.previous = None
        /\ c.view = "powerless" /\ c.drawn = d.meToken /\ c.asked = d.asked
        /\ c.route = d.route
    <3>1. "powerless" \in Views
      BY DEF Views
    <3>2. QED
      BY <2>2, <2>4, <3>1, DrawAccountIs
  <2>6. QED
    BY <2>2, <2>5 DEF SameAccount, Proceeds
<1>2. CASE b.me \notin Powerless
  <2>1. PICK yes \in BOOLEAN, good \in BOOLEAN : yes = TRUE /\ good = (k \notin ranOut)
    OBVIOUS
  <2>2. PICK p : p = [pc |-> "caps", token |-> k, good |-> good, mine |-> yes,
                      notice |-> notice]
    OBVIOUS
  <2>3. /\ p \in Route /\ p.pc = "caps" /\ p.token = k /\ p.mine = yes
        /\ p.notice = notice
    BY <2>2 DEF Route
  <2>4. PICK f : f = [b.route EXCEPT ![r] = p]
    OBVIOUS
  <2>5. c = [b EXCEPT !.route = f]
    BY <1>2, <2>1, <2>2, <2>4 DEF AfterMe, Sent
  <2>6. /\ c \in Tab /\ SameAccount(b, c) /\ c.previous = b.previous
        /\ c.view = b.view /\ c.drawn = b.drawn /\ c.asked = b.asked
        /\ c.route[r] = p /\ \A q \in Slots \ {r} : c.route[q] = b.route[q]
    <3>1. b.route \in [Slots -> Route]
      BY DEF Tab
    <3>2. f \in [Slots -> Route] /\ f[r] = p /\ \A q \in Slots \ {r} : f[q] = b.route[q]
      BY <2>3, <2>4, <3>1
    <3>3. /\ c \in Tab /\ c.route = f /\ SameAccount(b, c) /\ c.previous = b.previous
          /\ c.view = b.view /\ c.drawn = b.drawn /\ c.asked = b.asked
      BY <2>5, <3>2, RoutesSet DEF OtherRoutes
    <3>4. QED
      BY <3>2, <3>3
  <2>7. QED
    BY <2>1, <2>3, <2>6 DEF Proceeds
<1>3. QED
  BY <1>1, <1>2

Sets(b, c, r, k) ==
    /\ c \in Tab /\ c.held = k /\ c.me = b.me /\ c.meToken = b.meToken /\ c.asked = b.asked
    /\ \A q \in Slots \ {r} : Outdated(b.route[q], c.route[q])
    /\ \/ /\ k = None /\ c.view = "login" /\ c.drawn = None /\ c.previous = None
          /\ Outdated(b.route[r], c.route[r])
       \/ /\ k # None /\ k = b.meToken
          /\ c.view = "powerless" /\ c.drawn = k /\ c.previous = None
          /\ c.route[r] = NoRoute
       \/ /\ k # None /\ k = b.meToken
          /\ c.view = b.view /\ c.drawn = b.drawn /\ c.previous = b.previous
          /\ c.route[r].pc = "caps" /\ c.route[r].token = k /\ c.route[r].mine
       \/ /\ k # None /\ k # b.meToken
          /\ c.view = b.view /\ c.drawn = b.drawn /\ c.previous = b.previous
          /\ c.route[r].pc = "me" /\ c.route[r].token = k /\ c.route[r].mine

\* route(), up to its first await, by what session.token() gives.
LEMMA RoutedIs ==
    ASSUME NEW b \in Tab, NEW r \in Slots, NEW k \in Tokens \cup {None}, k = Read(b),
           NEW c, c = Routed(b, r)
    PROVE  Sets(b, c, r, k)
<1>1. PICK d : d = Bump(b)
  OBVIOUS
<1>2. /\ d \in Tab /\ SameAccount(b, d) /\ d.previous = b.previous
      /\ d.view = b.view /\ d.drawn = b.drawn /\ d.asked = b.asked
      /\ \A q \in Slots : Outdated(b.route[q], d.route[q])
  BY <1>1, BumpIs
<1>3. PICK e : e = [d EXCEPT !.held = k]
  OBVIOUS
<1>4. /\ e \in Tab /\ e.held = k /\ e.me = b.me /\ e.meToken = b.meToken
      /\ e.previous = b.previous /\ e.view = b.view /\ e.drawn = b.drawn /\ e.asked = b.asked
      /\ \A q \in Slots : Outdated(b.route[q], e.route[q])
  BY <1>2, <1>3, HeldSet DEF SameAccount
<1>5. CASE k = None
  <2>1. c = ShowLogin(e)
    BY <1>1, <1>3, <1>5 DEF Routed
  <2>2. /\ c \in Tab /\ SameAccount(e, c) /\ c.previous = None
        /\ c.view = "login" /\ c.drawn = None /\ c.asked = e.asked
        /\ \A q \in Slots : Outdated(e.route[q], c.route[q])
    BY <1>4, <2>1, ShowLoginIs
  <2>3. \A q \in Slots : Outdated(b.route[q], c.route[q])
    BY <1>4, <2>2 DEF Outdated
  <2>4. c.held = k /\ c.me = b.me /\ c.meToken = b.meToken /\ c.asked = b.asked
    BY <1>4, <1>5, <2>2 DEF SameAccount
  <2>5. QED
    BY <1>5, <2>2, <2>3, <2>4 DEF Sets
<1>6. CASE k # None /\ k = b.meToken
  <2>1. PICK no \in BOOLEAN : no = FALSE
    OBVIOUS
  <2>2. PICK j \in Tokens : j = k
    BY <1>6
  <2>3. c = AfterMe(e, r, j, no)
    BY <1>1, <1>3, <1>6, <2>1, <2>2 DEF Routed
  <2>4. Proceeds(e, c, r, j, no)
    BY <1>4, <2>3, AfterMeIs
  <2>5. \A q \in Slots \ {r} : Outdated(b.route[q], c.route[q])
    BY <1>4, <2>4 DEF Proceeds
  <2>6. QED
    BY <1>4, <1>6, <2>2, <2>4, <2>5 DEF SameAccount, Proceeds, Sets
<1>7. CASE k # None /\ k # b.meToken
  <2>1. PICK yes \in BOOLEAN, no \in BOOLEAN, good \in BOOLEAN :
          yes = TRUE /\ no = FALSE /\ good = (k \notin ranOut)
    OBVIOUS
  <2>2. PICK p : p = [pc |-> "me", token |-> k, good |-> good, mine |-> yes, notice |-> no]
    OBVIOUS
  <2>3. p \in Route /\ p.pc = "me" /\ p.token = k /\ p.mine = yes
    BY <2>2 DEF Route
  <2>4. PICK f : f = [e.route EXCEPT ![r] = p]
    OBVIOUS
  <2>5. c = [e EXCEPT !.route = f]
    BY <1>1, <1>3, <1>7, <2>1, <2>2, <2>4 DEF Routed, Sent
  <2>6. /\ c \in Tab /\ SameAccount(e, c) /\ c.previous = e.previous
        /\ c.view = e.view /\ c.drawn = e.drawn /\ c.asked = e.asked
        /\ c.route[r] = p /\ \A q \in Slots \ {r} : c.route[q] = e.route[q]
    <3>1. e.route \in [Slots -> Route]
      BY <1>4 DEF Tab
    <3>2. f \in [Slots -> Route] /\ f[r] = p /\ \A q \in Slots \ {r} : f[q] = e.route[q]
      BY <2>3, <2>4, <3>1
    <3>3. /\ c \in Tab /\ c.route = f /\ SameAccount(e, c) /\ c.previous = e.previous
          /\ c.view = e.view /\ c.drawn = e.drawn /\ c.asked = e.asked
      BY <1>4, <2>5, <3>2, RoutesSet DEF OtherRoutes
    <3>4. QED
      BY <3>2, <3>3
  <2>7. QED
    BY <1>4, <1>7, <2>1, <2>3, <2>6 DEF SameAccount, Sets
<1>8. QED
  BY <1>5, <1>6, <1>7
------------------------------------------------------------------------------
(***************************************************************************)
(* A tab stays sane within a handler.                                      *)
(***************************************************************************)

LEMMA RouteOutdated ==
    ASSUME NEW p, NEW q, Outdated(p, q), RouteWell(p)
    PROVE  RouteWell(q)
  BY DEF Outdated, RouteWell

LEMMA FreeSane ==
    ASSUME NEW issued, NEW b, Sane(b, issued), NEW r \in Slots,
           NEW c, c = Free(b, r)
    PROVE  Sane(c, issued)
<1>1. /\ c \in Tab /\ SameAccount(b, c)
      /\ c.view = b.view /\ c.drawn = b.drawn
      /\ c.route[r] = NoRoute /\ \A q \in Slots \ {r} : c.route[q] = b.route[q]
  BY FreeIs DEF Sane
<1>2. \A q \in Slots : RouteWell(c.route[q])
  BY <1>1, NoRouteIs DEF Sane, RouteWell
<1>3. Known(c, issued)
  <2>1. Known(b, issued)
    BY DEF Sane
  <2>2. \A q \in Slots : c.route[q].pc # "free" => c.route[q] = b.route[q]
    BY <1>1, NoRouteIs
  <2>3. QED
    BY <1>1, <2>1, <2>2 DEF Known, SameAccount
<1>4. QED
  BY <1>1, <1>2, <1>3 DEF Sane, SameAccount

LEMMA OutdatedSane ==
    ASSUME NEW issued, NEW b, Sane(b, issued),
           NEW c \in Tab, c.held = None, c.me = None, c.meToken = None,
           c.view \notin {"app", "powerless"}, c.drawn = None,
           \A r \in Slots : Outdated(b.route[r], c.route[r])
    PROVE  Sane(c, issued)
<1>1. \A r \in Slots : RouteWell(c.route[r])
  BY RouteOutdated DEF Sane
<1>2. Known(c, issued)
  BY DEF Sane, Known, Outdated
<1>3. QED
  BY <1>1, <1>2 DEF Sane

LEMMA NothingMine ==
    ASSUME NEW b, NEW c, \A r \in Slots : Outdated(b.route[r], c.route[r])
    PROVE  \A r \in Slots : ~Mine(c, r)
  BY DEF Outdated, Mine

\* Signed out: the form stands, and no route may draw over it.
LEMMA LoginKeeps ==
    ASSUME NEW issued, NEW b, Sane(b, issued),
           NEW c, c = ShowLogin(Forget(b))
    PROVE  InStep(c, issued) /\ c.held = None /\ c.view = "login"
<1>1. PICK d : d = Forget(b)
  OBVIOUS
<1>2. d \in Tab /\ d.held = None /\ d.me = None /\ d.meToken = None /\ d.route = b.route
  BY <1>1, ForgetIs DEF Sane
<1>3. /\ c \in Tab /\ SameAccount(d, c) /\ c.view = "login" /\ c.drawn = None
      /\ \A r \in Slots : Outdated(d.route[r], c.route[r])
  BY <1>1, <1>2, ShowLoginIs
<1>4. c.held = None /\ c.me = None /\ c.meToken = None
  BY <1>2, <1>3 DEF SameAccount
<1>5. \A r \in Slots : Outdated(b.route[r], c.route[r])
  BY <1>2, <1>3
<1>6. Sane(c, issued)
  BY <1>3, <1>4, <1>5, OutdatedSane
<1>7. \A r \in Slots : ~Mine(c, r)
  BY <1>5, NothingMine
<1>8. QED
  BY <1>3, <1>4, <1>6, <1>7 DEF InStep, RoutesInStep, ViewInStep

\* After route() the one it began is the latest, whatever the handler did before.
LEMMA RoutedKeeps ==
    ASSUME NEW issued, NEW b, Sane(b, issued),
           NEW r \in Slots, b.route[r].pc = "free",
           NEW k \in Tokens \cup {None}, k # None => issued[k] # None,
           NEW c, Sets(b, c, r, k)
    PROVE  InStep(c, issued)
<1>1. \A q \in Slots \ {r} : RouteWell(c.route[q])
  BY RouteOutdated DEF Sane, Sets
<1>2. RouteWell(c.route[r])
  BY NoRouteIs DEF Sane, Sets, RouteWell, Outdated
<1>3. Known(c, issued)
  <2>1. \A j \in {c.held, c.meToken, c.drawn} \ {None} : issued[j] # None
    BY DEF Sane, Sets, Known
  <2>2. \A q \in Slots \ {r} : c.route[q].pc # "free" => issued[c.route[q].token] # None
    <3>1. \A q \in Slots \ {r} : Outdated(b.route[q], c.route[q])
      BY DEF Sets
    <3>2. \A q \in Slots : b.route[q].pc # "free" => issued[b.route[q].token] # None
      BY DEF Sane, Known
    <3>3. QED
      BY <3>1, <3>2 DEF Outdated
  <2>3. c.route[r].pc # "free" => issued[c.route[r].token] # None
    <3>1. \/ c.route[r] = NoRoute
          \/ Outdated(b.route[r], c.route[r])
          \/ c.route[r].token = k /\ k # None
      BY DEF Sets
    <3>2. b.route[r].pc # "free" => issued[b.route[r].token] # None
      BY DEF Sane, Known
    <3>3. CASE c.route[r] = NoRoute
      BY <3>3, NoRouteIs
    <3>4. CASE Outdated(b.route[r], c.route[r])
      <4>1. PICK u : u = c.route[r]
        OBVIOUS
      <4>2. Outdated(b.route[r], u)
        BY <3>4, <4>1
      <4>3. u.pc # "free" => b.route[r].pc # "free" /\ u.token = b.route[r].token
        BY <4>2 DEF Outdated
      <4>4. QED
        BY <3>2, <4>1, <4>3
    <3>5. CASE c.route[r].token = k /\ k # None
      BY <3>5
    <3>6. QED
      BY <3>1, <3>3, <3>4, <3>5
  <2>4. c.me # None => issued[c.meToken] = c.me
    BY DEF Sane, Sets, Known
  <2>5. QED
    BY <2>1, <2>2, <2>3, <2>4 DEF Known
<1>4. Sane(c, issued)
  <2>1. c \in Tab /\ (c.me = None <=> c.meToken = None)
    BY DEF Sane, Sets
  <2>2. c.view \in {"app", "powerless"} => c.drawn # None
    BY DEF Sane, Sets
  <2>3. QED
    BY <1>1, <1>2, <1>3, <2>1, <2>2 DEF Sane
<1>5. \A q \in Slots : Mine(c, q) => q = r
  BY DEF Mine, Sets, Outdated
<1>6. k # None => \/ c.view = "powerless" /\ c.drawn = c.held /\ c.route[r] = NoRoute
                  \/ Mine(c, r) /\ c.route[r].token = c.held
                       /\ (c.route[r].pc = "caps" => c.meToken = c.held)
  BY DEF Sets, Mine
<1>7. k = None => c.view = "login" /\ c.held = None /\ ~Mine(c, r)
  BY DEF Sets, Mine, Outdated
<1>8. c.route[r] = NoRoute => ~Mine(c, r)
  BY NoRouteIs DEF Mine
<1>9. c.held = k
  BY DEF Sets
<1>10. RoutesInStep(c)
  BY <1>5, <1>6, <1>7, <1>8 DEF RoutesInStep
<1>11. ViewInStep(c)
  BY <1>6, <1>7, <1>9 DEF ViewInStep, Drawing
<1>12. QED
  BY <1>4, <1>10, <1>11 DEF InStep

\* A tab whose routes and account are as they were.
LEMMA SameKeeps ==
    ASSUME NEW issued, NEW b, InStep(b, issued),
           NEW c \in Tab, SameAccount(b, c), c.route = b.route, c.drawn = b.drawn,
           \/ c.view = "signing in" /\ c.asked
           \/ c.view = "login"
           \/ c.view = b.view /\ b.view # "signing in"
    PROVE  InStep(c, issued)
<1>1. Known(c, issued)
  BY DEF InStep, Sane, Known, SameAccount
<1>2. Sane(c, issued)
  BY <1>1 DEF InStep, Sane, SameAccount
<1>3. RoutesInStep(c)
  BY DEF InStep, RoutesInStep, Mine, SameAccount
<1>4. ViewInStep(c)
  <2>1. Drawing(c) <=> Drawing(b)
    BY DEF Drawing, Mine
  <2>2. QED
    BY <2>1 DEF InStep, ViewInStep, SameAccount
<1>5. QED
  BY <1>2, <1>3, <1>4 DEF InStep

\* A route that may not draw ends: nothing waited for it.
LEMMA FreeKeeps ==
    ASSUME NEW issued, NEW b, InStep(b, issued),
           NEW r \in Slots, ~Mine(b, r), NEW c, c = Free(b, r)
    PROVE  InStep(c, issued)
<1>1. /\ c \in Tab /\ SameAccount(b, c)
      /\ c.view = b.view /\ c.drawn = b.drawn /\ c.asked = b.asked
      /\ c.route[r] = NoRoute /\ \A q \in Slots \ {r} : c.route[q] = b.route[q]
  BY FreeIs DEF InStep, Sane
<1>2. Sane(c, issued)
  BY FreeSane DEF InStep
<1>3. \A q \in Slots : Mine(c, q) <=> Mine(b, q)
  BY <1>1, NoRouteIs DEF Mine
<1>4. \A q \in Slots : Mine(c, q) => c.route[q] = b.route[q]
  BY <1>1, <1>3
<1>5. RoutesInStep(c)
  BY <1>1, <1>3, <1>4 DEF InStep, RoutesInStep, SameAccount
<1>6. ViewInStep(c)
  BY <1>1, <1>3 DEF InStep, ViewInStep, Drawing, SameAccount
<1>7. QED
  BY <1>2, <1>5, <1>6 DEF InStep

\* The latest route ends with a view of its own.
LEMMA EndKeeps ==
    ASSUME NEW issued, NEW b, InStep(b, issued),
           NEW r \in Slots, Mine(b, r), NEW d, d = Free(b, r),
           NEW c \in Tab, SameAccount(d, c), c.route = d.route,
           \/ c.view = "error" /\ c.drawn = None
           \/ c.view \in {"app", "powerless"} /\ c.drawn = d.meToken /\ b.meToken = b.held
    PROVE  InStep(c, issued)
<1>1. /\ SameAccount(b, d) /\ d.route[r] = NoRoute
      /\ \A q \in Slots \ {r} : d.route[q] = b.route[q]
  BY FreeIs DEF InStep, Sane
<1>2. Sane(d, issued)
  BY FreeSane DEF InStep
<1>3. b.held # None
  <2>1. b.route[r].token \in Tokens /\ b.route[r].token = b.held
    BY DEF InStep, Sane, RouteWell, RoutesInStep, Mine
  <2>2. QED
    BY <2>1, BrowserSessionAssumption
<1>4. /\ c.held = b.held /\ c.held = d.held /\ c.me = d.me
      /\ c.meToken = d.meToken /\ d.meToken = b.meToken
  BY <1>1 DEF SameAccount
<1>5. Known(c, issued)
  BY <1>2, <1>4 DEF Sane, Known
<1>6. Sane(c, issued)
  BY <1>2, <1>3, <1>4, <1>5 DEF Sane
<1>7. \A q \in Slots : ~Mine(c, q)
  <2>1. \A q \in Slots \ {r} : ~Mine(b, q)
    BY DEF InStep, RoutesInStep
  <2>2. \A q \in Slots \ {r} : ~Mine(c, q)
    BY <1>1, <2>1 DEF Mine
  <2>3. ~Mine(c, r)
    BY <1>1, NoRouteIs DEF Mine
  <2>4. QED
    BY <2>2, <2>3
<1>8. RoutesInStep(c)
  BY <1>7 DEF RoutesInStep
<1>9. ViewInStep(c)
  BY <1>3, <1>4 DEF ViewInStep
<1>10. QED
  BY <1>6, <1>8, <1>9 DEF InStep

\* auth/me answers the latest route: the account is that of the token the tab holds.
LEMMA TakesIs ==
    ASSUME NEW b \in Tab, NEW p, NEW c, c = Takes(b, p),
           subject[p.token] \in Subjects, p.token \in Tokens
    PROVE  /\ c \in Tab /\ c.held = b.held /\ c.me = subject[p.token] /\ c.meToken = p.token
           /\ c.previous = b.previous /\ c.view = b.view /\ c.drawn = b.drawn
           /\ c.asked = b.asked /\ c.route = b.route
  BY DEF Takes, Tab

LEMMA MeKeeps ==
    ASSUME NEW b, InStep(b, subject), NEW r \in Slots, Mine(b, r),
           subject \in [Tokens -> Subjects \cup {None}],
           NEW d, d = Takes(b, b.route[r]), NEW notice, NEW c, Proceeds(d, c, r, b.held, notice)
    PROVE  InStep(c, subject) /\ c.me # None
<1>1. /\ b.route[r].token = b.held /\ b.held \in Tokens /\ b.held # None
      /\ subject[b.held] # None /\ subject[b.held] \in Subjects
  <2>1. b.route[r].token \in Tokens /\ b.route[r].token = b.held
    BY DEF InStep, Sane, RouteWell, RoutesInStep, Mine
  <2>2. subject[b.route[r].token] # None
    BY DEF InStep, Sane, Known, Mine
  <2>3. QED
    BY <2>1, <2>2, BrowserSessionAssumption
<1>2. /\ d \in Tab /\ d.held = b.held /\ d.me = subject[b.held] /\ d.meToken = b.held
      /\ d.view = b.view /\ d.drawn = b.drawn /\ d.asked = b.asked /\ d.route = b.route
  BY <1>1, TakesIs DEF InStep, Sane
<1>3. /\ c \in Tab /\ c.held = b.held /\ c.me = subject[b.held] /\ c.meToken = b.held
      /\ c.asked = b.asked /\ \A q \in Slots \ {r} : c.route[q] = b.route[q]
      /\ \/ c.view = "powerless" /\ c.drawn = b.held /\ c.route[r] = NoRoute
         \/ /\ c.view = b.view /\ c.drawn = b.drawn
            /\ c.route[r].pc = "caps" /\ c.route[r].token = b.held /\ c.route[r].mine
  BY <1>2 DEF Proceeds, SameAccount
<1>4. \A q \in Slots : RouteWell(c.route[q])
  <2>1. \A q \in Slots \ {r} : RouteWell(c.route[q])
    BY <1>3 DEF InStep, Sane
  <2>2. RouteWell(c.route[r])
    BY <1>1, <1>3, NoRouteIs DEF RouteWell
  <2>3. QED
    BY <2>1, <2>2
<1>5. Known(c, subject)
  <2>0. b.drawn # None => subject[b.drawn] # None
    BY DEF InStep, Sane, Known
  <2>1. \A k \in {c.held, c.meToken, c.drawn} \ {None} : subject[k] # None
    BY <1>1, <1>3, <2>0
  <2>2. \A q \in Slots \ {r} : c.route[q].pc # "free" => subject[c.route[q].token] # None
    BY <1>3 DEF InStep, Sane, Known
  <2>3. c.route[r].pc # "free" => subject[c.route[r].token] # None
    BY <1>1, <1>3, NoRouteIs
  <2>4. c.me # None => subject[c.meToken] = c.me
    BY <1>3
  <2>5. QED
    BY <2>1, <2>2, <2>3, <2>4 DEF Known
<1>6. Sane(c, subject)
  BY <1>1, <1>3, <1>4, <1>5, BrowserSessionAssumption DEF InStep, Sane
<1>7. \A q \in Slots \ {r} : ~Mine(c, q)
  BY <1>3 DEF InStep, RoutesInStep, Mine
<1>8. RoutesInStep(c)
  BY <1>3, <1>7, NoRouteIs DEF RoutesInStep, Mine
<1>9. ViewInStep(c)
  BY <1>1, <1>3 DEF ViewInStep, Drawing, Mine
<1>10. QED
  BY <1>1, <1>3, <1>6, <1>8, <1>9 DEF InStep

\* session.token() reads what is stored into a memory that has none.
LEMMA ReadKeeps ==
    ASSUME NEW issued, NEW b, InStep(b, issued),
           NEW k \in Tokens \cup {None}, k # None => issued[k] # None, b.held \in {None, k},
           NEW c, c = [b EXCEPT !.held = k]
    PROVE  /\ InStep(c, issued) /\ c.held = k
           /\ c.me = b.me /\ c.meToken = b.meToken /\ c.previous = b.previous
           /\ c.view = b.view /\ c.drawn = b.drawn /\ c.route = b.route
<1>1. /\ c \in Tab /\ c.held = k /\ c.me = b.me /\ c.meToken = b.meToken
      /\ c.previous = b.previous /\ c.view = b.view /\ c.drawn = b.drawn
      /\ c.asked = b.asked /\ c.route = b.route
  BY HeldSet DEF InStep, Sane
<1>2. Known(c, issued)
  BY <1>1 DEF InStep, Sane, Known
<1>3. Sane(c, issued)
  BY <1>1, <1>2 DEF InStep, Sane
<1>4. \A q \in Slots : Mine(c, q) <=> Mine(b, q)
  BY <1>1 DEF Mine
<1>5. \A q \in Slots : Mine(c, q) => b.held # None
  <2>1. \A q \in Slots : Mine(b, q) => b.route[q].token \in Tokens /\ b.route[q].token = b.held
    BY DEF InStep, Sane, RouteWell, RoutesInStep, Mine
  <2>2. QED
    BY <1>4, <2>1, BrowserSessionAssumption
<1>6. RoutesInStep(c)
  BY <1>1, <1>4, <1>5 DEF InStep, RoutesInStep
<1>7. Drawing(c) <=> Drawing(b)
  BY <1>4 DEF Drawing
<1>8. ViewInStep(c)
  BY <1>1, <1>7 DEF InStep, ViewInStep
<1>9. QED
  BY <1>1, <1>3, <1>6, <1>8 DEF InStep

\* What the server does to its tokens.
LEMMA IssueSane ==
    ASSUME NEW issued \in [Tokens -> Subjects \cup {None}], NEW b,
           Sane(b, issued), NEW k \in Tokens, issued[k] = None, NEW s \in Subjects,
           NEW issued2, issued2 = [issued EXCEPT ![k] = s]
    PROVE  Sane(b, issued2)
<1>1. b.held \in Tokens \cup {None} /\ b.meToken \in Tokens \cup {None}
      /\ b.drawn \in Tokens \cup {None}
  BY DEF Sane, Tab
<1>2. \A j \in Tokens : issued[j] # None => issued2[j] = issued[j] /\ j # k
  OBVIOUS
<1>3. \A r \in Slots : b.route[r].pc # "free" =>
        b.route[r].token \in Tokens /\ issued[b.route[r].token] # None
  BY DEF Sane, Known, RouteWell
<1>4. Known(b, issued2)
  BY <1>1, <1>2, <1>3 DEF Sane, Known
<1>5. QED
  BY <1>4 DEF Sane

LEMMA SignedInSane ==
    ASSUME NEW issued, NEW b, Sane(b, issued),
           NEW k \in Tokens, issued[k] # None,
           NEW c \in Tab, c.held = k, c.me = b.me, c.meToken = b.meToken,
           c.view = b.view, c.drawn = b.drawn, c.route = b.route
    PROVE  Sane(c, issued)
<1>1. Known(c, issued)
  BY DEF Sane, Known
<1>2. QED
  BY <1>1 DEF Sane

LEMMA IssueRemembers ==
    ASSUME NEW issued \in [Tokens -> Subjects \cup {None}], NEW b,
           InStep(b, issued), NEW k \in Tokens, issued[k] = None, NEW s \in Subjects,
           NEW issued2, issued2 = [issued EXCEPT ![k] = s],
           NEW last, Remembers(b, last, issued)
    PROVE  Remembers(b, last, issued2)
<1>1. b.meToken \in Tokens \cup {None} /\ b.drawn \in Tokens \cup {None}
  BY DEF InStep, Sane, Tab
<1>2. \A j \in Tokens : issued[j] # None => issued2[j] = issued[j]
  OBVIOUS
<1>3. b.drawn # None => issued[b.drawn] # None
  BY DEF InStep, Sane, Known
<1>4. \A r \in Slots : Mine(b, r) /\ b.route[r].pc = "caps" =>
        b.meToken \in Tokens /\ issued[b.meToken] # None
  <2> TAKE r \in Slots
  <2> HAVE Mine(b, r) /\ b.route[r].pc = "caps"
  <2>1. b.route[r].token \in Tokens /\ issued[b.route[r].token] # None
    BY DEF InStep, Sane, RouteWell, Known
  <2>2. b.meToken = b.route[r].token
    BY DEF InStep, RoutesInStep
  <2> QED
    BY <2>1, <2>2
<1>5. ASSUME last # None
      PROVE  /\ b.drawn # None => b.me = last /\ issued2[b.drawn] = last
             /\ b.me = None => b.previous = last
             /\ b.me # None => b.held = b.meToken
             /\ b.me \notin {None, last} =>
                  \E r \in Slots : Mine(b, r) /\ b.route[r].pc = "caps"
             /\ \A r \in Slots : Mine(b, r) /\ b.route[r].pc = "me" => b.me = None
  BY <1>1, <1>2, <1>3, <1>5 DEF Remembers
<1>6. ASSUME last # None, NEW r \in Slots, Mine(b, r), b.route[r].pc = "caps"
      PROVE  b.route[r].notice \/ issued2[b.meToken] = last
  <2>1. b.route[r].notice \/ issued[b.meToken] = last
    BY <1>6 DEF Remembers
  <2>2. issued2[b.meToken] = issued[b.meToken]
    BY <1>2, <1>4, <1>6
  <2>3. QED
    BY <2>1, <2>2
<1>7. QED
  BY <1>5, <1>6 DEF Remembers
------------------------------------------------------------------------------
(***************************************************************************)
(* What the operator was last shown.                                       *)
(***************************************************************************)

Out(c) == c.view \in {"login", "signing in"}
Drew(b, c) == c.drawn \notin {None, b.drawn}

\* A route that took another account over may draw no more.
Stops(b, c, last) ==
    /\ last # None /\ b.me \notin {None, last}
    /\ \E r \in Slots : b.route[r].pc = "caps" /\ b.route[r].mine /\ ~c.route[r].mine

Recalled(b, c, last, issued) ==
    IF Out(c) THEN None
    ELSE IF Drew(b, c) THEN issued[c.drawn]
    ELSE IF Stops(b, c, last) THEN b.me ELSE last

\* From b to c, what is recalled stays right.
Goes(b, c, last, issued) == Remembers(c, Recalled(b, c, last, issued), issued)

\* Seen(t) is Recalled, of the tab before and after.
LEMMA SeenIs ==
    ASSUME TypeOK, NEW t \in Tabs, NEW c \in Tab, Become(t, c), Seen(t)
    PROVE  /\ shown' \in [Tabs -> Subjects \cup {None}]
           /\ cut' \in [Tabs -> Subjects \cup {None}]
           /\ \A o \in Tabs \ {t} : LastOf(o)' = LastOf(o) /\ shown'[o] = shown[o]
           /\ Goes(tab[t], c, LastOf(t), subject) => Remembers(c, LastOf(t)', subject)
           /\ \/ shown'[t] \in {None, shown[t]}
              \/ Drew(tab[t], c) /\ shown'[t] = subject[c.drawn]
<1>1. tab'[t] = c
  BY DEF TypeOK, Become
<1>2. CutOff(t) <=> Stops(tab[t], c, LastOf(t))
  BY <1>1 DEF CutOff, Stops
<1>3. PICK x : x = IF Out(c) THEN None ELSE IF Drew(tab[t], c) THEN subject[c.drawn]
                   ELSE shown[t]
  OBVIOUS
<1>4. PICK y : y = IF Out(c) \/ Drew(tab[t], c) THEN None
                   ELSE IF Stops(tab[t], c, LastOf(t)) THEN tab[t].me ELSE cut[t]
  OBVIOUS
<1>5. shown' = [shown EXCEPT ![t] = x]
  BY <1>1, <1>3 DEF Seen, Out, Drew
<1>6. cut' = [cut EXCEPT ![t] = y]
  BY <1>1, <1>2, <1>4 DEF Seen, Out, Drew
<1>7. x \in Subjects \cup {None}
  <2>1. c.drawn \in Tokens \cup {None} /\ shown[t] \in Subjects \cup {None}
    BY DEF Tab, TypeOK
  <2>2. \A k \in Tokens : subject[k] \in Subjects \cup {None}
    BY DEF TypeOK
  <2>3. QED
    BY <1>3, <2>1, <2>2 DEF Drew
<1>8. y \in Subjects \cup {None}
  <2>1. tab[t].me \in Subjects \cup {None} /\ cut[t] \in Subjects \cup {None}
    BY DEF Tab, TypeOK
  <2>2. QED
    BY <1>4, <2>1
<1>9. /\ shown \in [Tabs -> Subjects \cup {None}] /\ cut \in [Tabs -> Subjects \cup {None}]
  BY DEF TypeOK
<1>10. /\ shown' \in [Tabs -> Subjects \cup {None}] /\ cut' \in [Tabs -> Subjects \cup {None}]
       /\ shown'[t] = x /\ cut'[t] = y
       /\ \A o \in Tabs \ {t} : shown'[o] = shown[o] /\ cut'[o] = cut[o]
  BY <1>5, <1>6, <1>7, <1>8, <1>9
<1>11. \A o \in Tabs \ {t} : LastOf(o)' = LastOf(o)
  BY <1>10 DEF LastOf
<1>12. LastOf(t)' = Recalled(tab[t], c, LastOf(t), subject)
  <2>1. LastOf(t)' = IF y # None THEN y ELSE x
    BY <1>10 DEF LastOf
  <2>2. LastOf(t) = IF cut[t] # None THEN cut[t] ELSE shown[t]
    BY DEF LastOf
  <2>3. Stops(tab[t], c, LastOf(t)) => tab[t].me # None
    BY DEF Stops
  <2>4. QED
    BY <1>3, <1>4, <2>1, <2>2, <2>3 DEF Recalled
<1>13. x \in {None, shown[t]} \/ (Drew(tab[t], c) /\ x = subject[c.drawn])
  BY <1>3
<1>14. Goes(tab[t], c, LastOf(t), subject) => Remembers(c, LastOf(t)', subject)
  BY <1>12 DEF Goes
<1>15. QED
  BY <1>10, <1>11, <1>13, <1>14

\* The routes that may draw, and what they have decided.
SameMine(b, c) ==
    \A q \in Slots : /\ Mine(c, q) <=> Mine(b, q)
                     /\ Mine(c, q) => /\ c.route[q].pc = b.route[q].pc
                                      /\ c.route[q].notice = b.route[q].notice

\* Nothing is drawn, no account dropped and no route outdated.
LEMMA CalmRemembers ==
    ASSUME NEW issued, NEW b, NEW last, Remembers(b, last, issued),
           b.me = None <=> b.meToken = None,
           NEW c, c.me = b.me, c.meToken = b.meToken, c.previous = b.previous,
           c.drawn = b.drawn, c.held = b.held \/ b.held = None, SameMine(b, c)
    PROVE  Remembers(c, last, issued) /\ Goes(b, c, last, issued)
<1>1. Remembers(c, last, issued)
  BY DEF Remembers, SameMine
<1>2. ~Stops(b, c, last)
  BY DEF Stops, SameMine, Mine
<1>3. Recalled(b, c, last, issued) \in {None, last}
  BY <1>2 DEF Recalled, Drew
<1>4. Remembers(c, None, issued)
  BY DEF Remembers
<1>5. QED
  BY <1>1, <1>3, <1>4 DEF Goes

\* The error view takes the place of the account's.
LEMMA ErrorRemembers ==
    ASSUME NEW issued, NEW b, NEW last, Remembers(b, last, issued),
           NEW c, c.me = b.me, c.meToken = b.meToken, c.held = b.held,
           c.previous = b.previous, c.drawn = None, \A q \in Slots : ~Mine(c, q),
           \A q \in Slots : c.route[q].mine => c.route[q].pc # "free"
    PROVE  Goes(b, c, last, issued)
<1>1. ~Drew(b, c)
  BY DEF Drew
<1>2. Remembers(c, None, issued)
  BY DEF Remembers
<1>3. CASE Out(c) \/ last = None
  <2>1. Recalled(b, c, last, issued) = None
    BY <1>1, <1>3 DEF Recalled, Stops
  <2>2. QED
    BY <1>2, <2>1 DEF Goes
<1>4. CASE ~Out(c) /\ last # None /\ b.me \in {None, last}
  <2>1. Recalled(b, c, last, issued) = last
    BY <1>1, <1>4 DEF Recalled, Stops
  <2>2. Remembers(c, last, issued)
    BY <1>4 DEF Remembers
  <2>3. QED
    BY <2>1, <2>2 DEF Goes
<1>5. CASE ~Out(c) /\ last # None /\ b.me \notin {None, last}
  <2>1. Stops(b, c, last)
    BY <1>5 DEF Remembers, Stops, Mine
  <2>2. Recalled(b, c, last, issued) = b.me
    BY <1>1, <1>5, <2>1 DEF Recalled
  <2>3. Remembers(c, b.me, issued)
    BY <1>5 DEF Remembers
  <2>4. QED
    BY <2>2, <2>3 DEF Goes
<1>6. QED
  BY <1>3, <1>4, <1>5

\* A view of the account is drawn.
LEMMA DrawnRemembers ==
    ASSUME NEW issued, NEW b, NEW last, Remembers(b, last, issued),
           NEW c, c.me # None, c.drawn # None, c.drawn = c.meToken, c.held = c.meToken,
           c.me = issued[c.meToken], \A q \in Slots : ~Mine(c, q)
    PROVE  Goes(b, c, last, issued)
<1>1. Remembers(c, None, issued) /\ Remembers(c, c.me, issued)
  BY DEF Remembers
<1>2. Out(c) \/ Drew(b, c) => Recalled(b, c, last, issued) \in {None, c.me}
  BY DEF Recalled
<1>3. ASSUME ~Out(c), ~Drew(b, c)
      PROVE  Recalled(b, c, last, issued) \in {None, c.me}
  <2>1. b.drawn = c.drawn
    BY <1>3 DEF Drew
  <2>2. last = None \/ (b.me = last /\ last = c.me)
    BY <2>1 DEF Remembers
  <2>3. ~Stops(b, c, last)
    BY <2>2 DEF Stops
  <2>4. QED
    BY <1>3, <2>2, <2>3 DEF Recalled
<1>4. QED
  BY <1>1, <1>2, <1>3 DEF Goes

\* The account is taken over, and the notice decided.
LEMMA TakenRemembers ==
    ASSUME NEW issued, NEW b, NEW last, Remembers(b, last, issued),
           NEW r \in Slots, Mine(b, r), b.route[r].pc = "me",
           NEW c, c.me # None, c.held = c.meToken, c.drawn = b.drawn,
           \A q \in Slots : Mine(c, q) => q = r, Mine(c, r), c.route[r].pc = "caps",
           c.route[r].notice = NoticeDue(b, issued[c.meToken])
    PROVE  Goes(b, c, last, issued)
<1>1. last = None \/ b.me = None
  BY DEF Remembers
<1>2. Recalled(b, c, last, issued) \in {None, last}
  BY <1>1 DEF Recalled, Drew, Stops
<1>3. Remembers(c, None, issued)
  BY DEF Remembers
<1>4. ASSUME last # None PROVE Remembers(c, last, issued)
  <2>1. b.me = None /\ b.previous = last /\ b.drawn = None
    BY <1>1, <1>4 DEF Remembers
  <2>2. c.route[r].notice \/ issued[c.meToken] = last
    BY <1>4, <2>1 DEF NoticeDue
  <2>3. QED
    BY <2>1, <2>2 DEF Remembers
<1>5. QED
  BY <1>2, <1>3, <1>4 DEF Goes

\* Another tab's session replaces the one that is shown.
LEMMA ReplacedRemembers ==
    ASSUME NEW issued, NEW b, NEW last, Remembers(b, last, issued),
           NEW d, d.previous = IF b.me # None THEN b.me ELSE b.previous,
           NEW c, c.me = None, c.drawn = None,
           \A q \in Slots : b.route[q].pc = "caps" => ~c.route[q].mine,
           \/ c.view = "login"
           \/ /\ c.previous = d.previous
              /\ \A q \in Slots : Mine(c, q) => c.route[q].pc = "me"
    PROVE  Goes(b, c, last, issued)
<1>1. ~Drew(b, c)
  BY DEF Drew
<1>2. Remembers(c, None, issued)
  BY DEF Remembers
<1>3. CASE Out(c) \/ last = None
  <2>1. Recalled(b, c, last, issued) = None
    BY <1>1, <1>3 DEF Recalled, Stops
  <2>2. QED
    BY <1>2, <2>1 DEF Goes
<1>4. CASE ~Out(c) /\ last # None
  <2>1. c.previous = d.previous /\ \A q \in Slots : Mine(c, q) => c.route[q].pc = "me"
    BY <1>4 DEF Out
  <2>2. Remembers(c, d.previous, issued)
    BY <2>1 DEF Remembers
  <2>3. Recalled(b, c, last, issued) = d.previous
    <3>1. CASE b.me \in {None, last}
      <4>1. d.previous = last
        BY <1>4, <3>1 DEF Remembers
      <4>2. QED
        BY <1>1, <1>4, <3>1, <4>1 DEF Recalled, Stops
    <3>2. CASE b.me \notin {None, last}
      <4>1. Stops(b, c, last)
        BY <1>4, <3>2 DEF Remembers, Stops, Mine
      <4>2. QED
        BY <1>1, <1>4, <3>2, <4>1 DEF Recalled
    <3>3. QED
      BY <3>1, <3>2
  <2>4. QED
    BY <2>2, <2>3 DEF Goes
<1>5. QED
  BY <1>3, <1>4

\* A route begins in a tab whose account is known to it, or is not known at all.
LEMMA RoutedRemembers ==
    ASSUME NEW issued, NEW b, NEW last, Remembers(b, last, issued),
           Sane(b, issued), NEW r \in Slots, b.route[r].pc = "free",
           NEW k \in Tokens \cup {None}, k = b.held \/ b.held = None,
           NEW c, Sets(b, c, r, k)
    PROVE  Goes(b, c, last, issued)
<1>1. /\ c.held = k /\ c.me = b.me /\ c.meToken = b.meToken
      /\ \A q \in Slots \ {r} : Outdated(b.route[q], c.route[q])
      /\ b.me # None => issued[b.meToken] = b.me
      /\ b.me = None <=> b.meToken = None
  BY DEF Sets, Sane, Known
<1>2. \A q \in Slots \ {r} : ~Mine(c, q)
  BY <1>1 DEF Outdated, Mine
<1>3. CASE k = None
  BY <1>3 DEF Sets, Goes, Recalled, Out, Remembers
<1>4. CASE k # None /\ k = b.meToken /\ c.drawn = k /\ c.route[r] = NoRoute
  <2>1. \A q \in Slots : ~Mine(c, q)
    BY <1>2, <1>4, NoRouteIs DEF Mine
  <2>2. c.me # None /\ c.drawn = c.meToken /\ c.held = c.meToken /\ c.me = issued[c.meToken]
    BY <1>1, <1>4
  <2>3. QED
    BY <1>4, <2>1, <2>2, DrawnRemembers
<1>5. CASE /\ k # None /\ c.drawn = b.drawn /\ c.previous = b.previous
           /\ \/ k = b.meToken /\ c.route[r].pc = "caps" /\ c.route[r].mine
              \/ k # b.meToken /\ c.route[r].pc = "me" /\ c.route[r].mine
  <2>1. ~Drew(b, c)
    BY <1>5 DEF Drew
  <2>2. Remembers(c, None, issued)
    BY DEF Remembers
  <2>3. CASE Out(c) \/ last = None
    <3>1. Recalled(b, c, last, issued) = None
      BY <2>1, <2>3 DEF Recalled, Stops
    <3>2. QED
      BY <2>2, <3>1 DEF Goes
  <2>4. CASE ~Out(c) /\ last # None
    <3>1. PICK w : w = IF b.me \in {None, last} THEN last ELSE b.me
      OBVIOUS
    <3>2. Recalled(b, c, last, issued) = w
      <4>1. CASE b.me \in {None, last}
        BY <2>1, <2>4, <3>1, <4>1 DEF Recalled, Stops
      <4>2. CASE b.me \notin {None, last}
        <5>1. PICK q \in Slots : Mine(b, q) /\ b.route[q].pc = "caps"
          BY <2>4, <4>2 DEF Remembers
        <5>2. q # r /\ b.route[q].mine
          BY <5>1 DEF Mine
        <5>3. ~c.route[q].mine
          BY <1>1, <5>2 DEF Outdated
        <5>4. Stops(b, c, last)
          BY <2>4, <4>2, <5>1, <5>2, <5>3 DEF Stops
        <5>5. QED
          BY <2>1, <2>4, <3>1, <4>2, <5>4 DEF Recalled
      <4>3. QED
        BY <4>1, <4>2
    <3>3. c.me \in {None, w} /\ (c.me = None => w = last)
      BY <1>1, <3>1
    <3>4. b.me # None => b.held = b.meToken /\ b.meToken # None
      BY <1>1, <2>4 DEF Remembers
    <3>5. c.me = None => c.route[r].pc = "me" /\ c.previous = w
      BY <1>1, <1>5, <2>4, <3>3 DEF Remembers
    <3>6. c.me # None => c.held = c.meToken /\ c.route[r].pc = "caps" /\ issued[c.meToken] = w
      BY <1>1, <1>5, <3>3, <3>4
    <3>7. c.drawn # None => c.me = w /\ issued[c.drawn] = w
      <4>1. c.drawn # None => b.me = last /\ issued[c.drawn] = last
        BY <1>5, <2>4 DEF Remembers
      <4>2. QED
        BY <1>1, <3>1, <4>1
    <3>8. \A q \in Slots : Mine(c, q) => q = r
      BY <1>2
    <3>9. Remembers(c, w, issued)
      BY <3>3, <3>5, <3>6, <3>7, <3>8 DEF Remembers
    <3>10. QED
      BY <3>2, <3>9 DEF Goes
  <2>5. QED
    BY <2>3, <2>4
<1>6. QED
  BY <1>3, <1>4, <1>5 DEF Sets
------------------------------------------------------------------------------
(***************************************************************************)
(* What the tabs share.                                                    *)
(***************************************************************************)

\* A change of the storage reaches every other tab.
LEMMA StoreIs ==
    ASSUME NEW t \in Tabs, NEW v \in Tokens \cup {None},
           NEW pending \in [Tabs -> Seq(Tokens \cup {None})], Store(t, v, pending)
    PROVE  /\ storage' = v /\ events' \in [Tabs -> Seq(Tokens \cup {None})]
           /\ events'[t] = pending[t]
           /\ \A o \in Tabs \ {t} : \A held :
                Hears(held, pending[o], storage) => Hears(held, events'[o], v)
<1>1. /\ storage' = v
      /\ events' = [o \in Tabs |-> IF o # t /\ v # storage THEN Append(pending[o], v)
                                   ELSE pending[o]]
  BY DEF Store
<1>2. \A o \in Tabs : pending[o] \in Seq(Tokens \cup {None})
  OBVIOUS
<1>3. \A o \in Tabs : events'[o] \in Seq(Tokens \cup {None})
  BY <1>1, <1>2, AppendProperties
<1>4. ASSUME NEW o \in Tabs \ {t}, NEW held, Hears(held, pending[o], storage)
      PROVE  Hears(held, events'[o], v)
  <2>1. CASE v = storage
    BY <1>1, <1>4, <2>1
  <2>2. CASE v # storage
    <3>1. events'[o] = Append(pending[o], v)
      BY <1>1, <2>2
    <3>2. events'[o] # <<>> /\ events'[o][Len(events'[o])] = v
      BY <1>2, <3>1, AppendProperties
    <3>3. QED
      BY <3>2 DEF Hears
  <2>3. QED
    BY <2>1, <2>2
<1>5. QED
  BY <1>1, <1>3, <1>4

\* A tab that has handled an event still has the last one to hear of, if it needs it.
LEMMA HeardIs ==
    ASSUME TypeOK, NEW t \in Tabs, events[t] # <<>>
    PROVE  /\ Heard(t) \in [Tabs -> Seq(Tokens \cup {None})]
           /\ Head(events[t]) \in Tokens \cup {None}
           /\ \A o \in Tabs \ {t} : Heard(t)[o] = events[o]
           /\ \A held, stored :
                Hears(held, events[t], stored) /\ held = Head(events[t])
                  => Hears(held, Heard(t)[t], stored)
<1>1. events[t] \in Seq(Tokens \cup {None}) /\ events \in [Tabs -> Seq(Tokens \cup {None})]
  BY DEF TypeOK
<1>2. PICK rest : rest = Tail(events[t])
  OBVIOUS
<1>3. /\ rest \in Seq(Tokens \cup {None}) /\ Len(rest) = Len(events[t]) - 1
      /\ \A i \in 1..Len(rest) : rest[i] = events[t][i + 1]
      /\ Head(events[t]) \in Tokens \cup {None} /\ Head(events[t]) = events[t][1]
      /\ Len(events[t]) \in Nat \ {0}
  BY <1>1, <1>2, HeadTailProperties
<1>4. Heard(t) = [events EXCEPT ![t] = rest]
  BY <1>2 DEF Heard
<1>5. /\ Heard(t) \in [Tabs -> Seq(Tokens \cup {None})] /\ Heard(t)[t] = rest
      /\ \A o \in Tabs \ {t} : Heard(t)[o] = events[o]
  BY <1>1, <1>3, <1>4
<1>6. ASSUME NEW held, NEW stored, Hears(held, events[t], stored), held = Head(events[t])
      PROVE  Hears(held, rest, stored)
  <2>1. CASE Len(rest) = 0
    <3>1. events[t][Len(events[t])] = held
      BY <1>3, <1>6, <2>1
    <3>2. QED
      BY <1>6, <3>1 DEF Hears
  <2>2. CASE Len(rest) # 0
    <3>1. rest # <<>>
      BY <2>2
    <3>2. Len(rest) \in 1..Len(rest) /\ Len(rest) + 1 = Len(events[t])
      <4>1. PICK n \in Nat, m \in Nat : n = Len(rest) /\ m = Len(events[t])
        BY <1>1, <1>3, LenProperties
      <4>2. n = m - 1 /\ n # 0
        BY <1>3, <2>2, <4>1
      <4>3. n \in 1..n /\ n + 1 = m
        BY <4>2
      <4>4. QED
        BY <4>1, <4>3
    <3>3. rest[Len(rest)] = events[t][Len(events[t])]
      BY <1>3, <3>2
    <3>4. events[t] # <<>>
      OBVIOUS
    <3>5. QED
      BY <1>6, <3>1, <3>3 DEF Hears
  <2>3. QED
    BY <2>1, <2>2
<1>7. QED
  BY <1>3, <1>5, <1>6

\* A step of one tab, of what it holds and what the tabs share.
LEMMA OneTabStep ==
    ASSUME IInv, NEW t \in Tabs, NEW c, Become(t, c), UNCHANGED <<subject, ranOut>>,
           storage' \in Tokens \cup {None}, storage' # None => subject[storage'] # None,
           events' \in [Tabs -> Seq(Tokens \cup {None})],
           turns' \in Nat,
           shown' \in [Tabs -> Subjects \cup {None}], cut' \in [Tabs -> Subjects \cup {None}],
           \A o \in Tabs \ {t} : LastOf(o)' = LastOf(o),
           \A o \in Tabs \ {t} : Hears(tab[o].held, events'[o], storage'),
           InStep(c, subject), Hears(c.held, events'[t], storage'),
           Remembers(c, LastOf(t)', subject)
    PROVE  IInv'
<1>1. c \in Tab
  BY DEF InStep, Sane
<1>2. /\ tab' \in [Tabs -> Tab] /\ tab'[t] = c
      /\ \A o \in Tabs \ {t} : tab'[o] = tab[o]
  BY <1>1 DEF IInv, TypeOK, Become
<1>3. TypeOK'
  BY <1>2 DEF IInv, TypeOK
<1>4. storage' # None => subject'[storage'] # None
  OBVIOUS
<1>5. ASSUME NEW o \in Tabs
      PROVE  /\ InStep(tab'[o], subject')
             /\ Hears(tab'[o].held, events'[o], storage')
             /\ Remembers(tab'[o], LastOf(o)', subject')
  <2>1. CASE o = t
    BY <1>2, <2>1
  <2>2. CASE o # t
    BY <1>2, <2>2 DEF IInv
  <2>3. QED
    BY <2>1, <2>2
<1>6. QED
  BY <1>3, <1>4, <1>5 DEF IInv

\* The same, of what the tab holds only.
LEMMA OwnStep ==
    ASSUME IInv, NEW t \in Tabs, NEW c, Become(t, c),
           UNCHANGED <<storage, events, subject, ranOut>>,
           turns' \in Nat,
           shown' \in [Tabs -> Subjects \cup {None}], cut' \in [Tabs -> Subjects \cup {None}],
           \A o \in Tabs \ {t} : LastOf(o)' = LastOf(o),
           InStep(c, subject), c.held \in {tab[t].held, storage},
           Remembers(c, LastOf(t)', subject)
    PROVE  IInv'
<1>1. \A o \in Tabs \ {t} : Hears(tab[o].held, events'[o], storage')
  BY DEF IInv
<1>2. Hears(c.held, events'[t], storage')
  BY DEF IInv, Hears
<1>3. /\ storage' \in Tokens \cup {None} /\ (storage' # None => subject[storage'] # None)
      /\ events' \in [Tabs -> Seq(Tokens \cup {None})]
  BY DEF IInv, TypeOK
<1>4. QED
  BY <1>1, <1>2, <1>3, OneTabStep
------------------------------------------------------------------------------
(***************************************************************************)
(* Every action keeps the invariant.                                       *)
(***************************************************************************)

LEMMA TabIs ==
    ASSUME IInv, NEW t \in Tabs
    PROVE  /\ tab[t] \in Tab /\ InStep(tab[t], subject) /\ Sane(tab[t], subject)
           /\ Hears(tab[t].held, events[t], storage)
           /\ Remembers(tab[t], LastOf(t), subject)
           /\ tab \in [Tabs -> Tab] /\ turns \in Nat
           /\ shown \in [Tabs -> Subjects \cup {None}] /\ cut \in [Tabs -> Subjects \cup {None}]
           /\ subject \in [Tokens -> Subjects \cup {None}]
           /\ storage \in Tokens \cup {None} /\ (storage # None => subject[storage] # None)
           /\ events \in [Tabs -> Seq(Tokens \cup {None})]
  BY DEF IInv, TypeOK, InStep, Sane

LEMMA BecomeIs ==
    ASSUME IInv, NEW t \in Tabs, NEW c, Become(t, c)
    PROVE  tab'[t] = c /\ \A o \in Tabs \ {t} : tab'[o] = tab[o]
  BY DEF IInv, TypeOK, Become

\* No view of another session is drawn in t.
DrawsNothing(t) == tab'[t].view # "app" \/ tab'[t].drawn \in {None, tab[t].drawn}

LEMMA SubmitStep ==
    ASSUME IInv, NEW t \in Tabs, Submit(t)
    PROVE  IInv'
<1>1. PICK yes \in BOOLEAN : yes = TRUE
  OBVIOUS
<1>2. PICK b \in Tab : b = tab[t]
  BY TabIs
<1>3. PICK c : c = [b EXCEPT !.view = "signing in", !.asked = yes]
  OBVIOUS
<1>4. Become(t, c)
  BY <1>1, <1>2, <1>3 DEF Submit
<1>5. /\ c \in Tab /\ SameAccount(b, c) /\ c.route = b.route /\ c.drawn = b.drawn
      /\ c.previous = b.previous /\ c.view = "signing in" /\ c.asked
  BY <1>1, <1>3 DEF Tab, Views, SameAccount
<1>6. InStep(b, subject)
  BY <1>2, TabIs
<1>7. InStep(c, subject)
  BY <1>5, <1>6, SameKeeps
<1>8. Remembers(c, LastOf(t), subject)
  <2>1. SameMine(b, c)
    BY <1>5 DEF SameMine, Mine
  <2>2. c.me = b.me /\ c.meToken = b.meToken /\ c.held = b.held
    BY <1>5 DEF SameAccount
  <2>3. Remembers(b, LastOf(t), subject)
    BY <1>2, TabIs
  <2>4. b.me = None <=> b.meToken = None
    BY <1>2, TabIs DEF Sane
  <2>5. QED
    BY <1>5, <2>1, <2>2, <2>3, <2>4, CalmRemembers
<1>9. UNCHANGED <<storage, events, subject, ranOut, turns, shown, cut>>
  BY DEF Submit, history
<1>10. c.held = tab[t].held
  BY <1>2, <1>5 DEF SameAccount
<1>11. \A o \in Tabs : LastOf(o)' = LastOf(o)
  BY <1>9 DEF LastOf
<1>12. Remembers(c, LastOf(t)', subject)
  BY <1>8, <1>11
<1>13. QED
  BY <1>4, <1>7, <1>8, <1>9, <1>10, <1>11, <1>12, OwnStep, TabIs

LEMMA SignInFailsStep ==
    ASSUME IInv, NEW t \in Tabs, SignInFails(t)
    PROVE  IInv'
<1>1. PICK no \in BOOLEAN : no = FALSE
  OBVIOUS
<1>2. PICK b \in Tab : b = tab[t]
  BY TabIs
<1>3. PICK view : view = IF b.view = "signing in" THEN "login" ELSE b.view
  OBVIOUS
<1>4. PICK c : c = [b EXCEPT !.asked = no, !.view = view]
  OBVIOUS
<1>5. Become(t, c)
  BY <1>1, <1>2, <1>3, <1>4 DEF SignInFails
<1>6. view \in Views
  BY <1>3 DEF Tab, Views
<1>7. /\ c \in Tab /\ SameAccount(b, c) /\ c.route = b.route /\ c.drawn = b.drawn
      /\ c.previous = b.previous /\ c.view = view
  BY <1>4, <1>6 DEF Tab, SameAccount
<1>8. InStep(b, subject)
  BY <1>2, TabIs
<1>9. InStep(c, subject)
  BY <1>3, <1>7, <1>8, SameKeeps
<1>10. Remembers(c, LastOf(t), subject)
  <2>1. SameMine(b, c)
    BY <1>7 DEF SameMine, Mine
  <2>2. c.me = b.me /\ c.meToken = b.meToken /\ c.held = b.held
    BY <1>7 DEF SameAccount
  <2>3. Remembers(b, LastOf(t), subject)
    BY <1>2, TabIs
  <2>4. b.me = None <=> b.meToken = None
    BY <1>2, TabIs DEF Sane
  <2>5. QED
    BY <1>7, <2>1, <2>2, <2>3, <2>4, CalmRemembers
<1>11. UNCHANGED <<storage, events, subject, ranOut, turns, shown, cut>>
  BY DEF SignInFails, history
<1>12. c.held = tab[t].held
  BY <1>2, <1>7 DEF SameAccount
<1>13. \A o \in Tabs : LastOf(o)' = LastOf(o)
  BY <1>11 DEF LastOf
<1>14. Remembers(c, LastOf(t)', subject)
  BY <1>10, <1>13
<1>15. QED
  BY <1>5, <1>9, <1>11, <1>12, <1>13, <1>14, OwnStep, TabIs

LEMMA LoginRemembers ==
    ASSUME NEW b, NEW c, c.view = "login", NEW last, NEW issued
    PROVE  Goes(b, c, last, issued)
  BY DEF Goes, Remembers, Recalled, Out

LEMMA SignOutStep ==
    ASSUME IInv, NEW t \in Tabs, SignOut(t)
    PROVE  IInv' /\ DrawsNothing(t)
<1>1. PICK c : c = ShowLogin(Forget(tab[t]))
  OBVIOUS
<1>2. Become(t, c) /\ Store(t, None, events) /\ Seen(t)
  BY <1>1 DEF SignOut
<1>3. InStep(c, subject) /\ c.held = None /\ c.view = "login"
  BY <1>1, LoginKeeps, TabIs
<1>4. c \in Tab /\ TypeOK
  BY <1>3 DEF InStep, Sane, IInv
<1>5. /\ shown' \in [Tabs -> Subjects \cup {None}] /\ cut' \in [Tabs -> Subjects \cup {None}]
      /\ \A o \in Tabs \ {t} : LastOf(o)' = LastOf(o)
      /\ Goes(tab[t], c, LastOf(t), subject)
           => Remembers(c, LastOf(t)', subject)
  BY <1>2, <1>4, SeenIs
<1>6. Remembers(c, LastOf(t)', subject)
  <2>1. Goes(tab[t], c, LastOf(t), subject)
    BY <1>3, LoginRemembers
  <2>2. QED
    BY <1>5, <2>1
<1>7. /\ storage' = None /\ events' \in [Tabs -> Seq(Tokens \cup {None})]
      /\ \A o \in Tabs \ {t} : \A held :
           Hears(held, events[o], storage) => Hears(held, events'[o], None)
  BY <1>2, StoreIs, TabIs
<1>8. \A o \in Tabs \ {t} : Hears(tab[o].held, events'[o], storage')
  BY <1>7 DEF IInv
<1>9. Hears(c.held, events'[t], storage')
  BY <1>3 DEF Hears
<1>10. UNCHANGED <<subject, ranOut, turns>>
  BY DEF SignOut
<1>11. IInv'
  BY <1>2, <1>3, <1>5, <1>6, <1>7, <1>8, <1>9, <1>10, OneTabStep, TabIs
<1>12. DrawsNothing(t)
  BY <1>2, <1>3, BecomeIs DEF DrawsNothing
<1>13. QED
  BY <1>11, <1>12

LEMMA RunOutStep ==
    ASSUME IInv, NEW k \in Tokens, RunOut(k)
    PROVE  IInv'
<1>1. /\ ranOut' = ranOut \cup {k} /\ turns' = turns + 1
      /\ UNCHANGED <<storage, events, tab, subject, shown, cut>>
  BY DEF RunOut, history
<1>2. TypeOK'
  <2>1. turns' \in Nat
    BY <1>1 DEF IInv, TypeOK
  <2>2. QED
    BY <1>1, <2>1 DEF IInv, TypeOK
<1>3. \A t \in Tabs : LastOf(t)' = LastOf(t)
  BY <1>1 DEF LastOf
<1>4. QED
  BY <1>1, <1>2, <1>3 DEF IInv

LEMMA SignInStep ==
    ASSUME IInv, NEW t \in Tabs, NEW s \in Subjects, SignIn(t, s)
    PROVE  IInv'
<1>1. PICK k \in Tokens, r \in Slots :
        /\ subject[k] = None /\ FreeSlot(t, r)
        /\ subject' = [subject EXCEPT ![k] = s]
        /\ Store(t, k, events)
        /\ Become(t, Routed([tab[t] EXCEPT !.held = k, !.asked = FALSE], r))
  BY DEF SignIn
<1>2. PICK no \in BOOLEAN : no = FALSE
  OBVIOUS
<1>3. PICK issued : issued = subject'
  OBVIOUS
<1>4. PICK b \in Tab : b = tab[t]
  BY TabIs
<1>5. PICK d : d = [b EXCEPT !.held = k, !.asked = no]
  OBVIOUS
<1>6. PICK c : c = Routed(d, r)
  OBVIOUS
<1>7. Become(t, c)
  BY <1>1, <1>2, <1>4, <1>5, <1>6
<1>8. /\ issued = [subject EXCEPT ![k] = s] /\ k # None
      /\ issued \in [Tokens -> Subjects \cup {None}] /\ issued[k] # None
      /\ \A j \in Tokens : subject[j] # None => issued[j] = subject[j]
  BY <1>1, <1>3, TabIs, BrowserSessionAssumption
<1>9. \A o \in Tabs : Sane(tab[o], issued)
  <2>1. SUFFICES ASSUME NEW o \in Tabs PROVE Sane(tab[o], issued)
    OBVIOUS
  <2>2. Sane(tab[o], subject) /\ subject \in [Tokens -> Subjects \cup {None}]
    BY TabIs
  <2>3. QED
    BY <1>1, <1>8, <2>2, IssueSane
<1>10. Sane(d, issued) /\ d.route = b.route /\ d.held = k
  <2>1. Sane(b, issued)
    BY <1>4, <1>9
  <2>2. /\ d \in Tab /\ d.held = k /\ d.me = b.me /\ d.meToken = b.meToken
        /\ d.view = b.view /\ d.drawn = b.drawn /\ d.route = b.route
    BY <1>5 DEF Tab
  <2>3. QED
    BY <1>8, <2>1, <2>2, SignedInSane
<1>11. Sets(d, c, r, k)
  <2>1. d \in Tab /\ k = Read(d)
    BY <1>8, <1>10 DEF Sane, Read
  <2>2. QED
    BY <1>6, <2>1, RoutedIs
<1>12. InStep(c, issued)
  <2>1. d.route[r].pc = "free"
    BY <1>1, <1>4, <1>10 DEF FreeSlot
  <2>2. QED
    BY <1>8, <1>10, <1>11, <2>1, RoutedKeeps
<1>13. c \in Tab /\ c.held = k
  BY <1>11 DEF Sets
<1>14. /\ storage' = k /\ events' \in [Tabs -> Seq(Tokens \cup {None})]
       /\ \A o \in Tabs \ {t} : \A held :
            Hears(held, events[o], storage) => Hears(held, events'[o], k)
  <2>1. Store(t, k, events) /\ k \in Tokens \cup {None}
    BY <1>1
  <2>2. events \in [Tabs -> Seq(Tokens \cup {None})]
    BY TabIs
  <2>3. QED
    BY <2>1, <2>2, StoreIs
<1>15. /\ shown' = [shown EXCEPT ![t] = None] /\ cut' = [cut EXCEPT ![t] = None]
       /\ UNCHANGED <<ranOut, turns>>
  BY DEF SignIn
<1>16. tab' \in [Tabs -> Tab] /\ tab'[t] = c /\ \A o \in Tabs \ {t} : tab'[o] = tab[o]
  BY <1>7, <1>13, TabIs DEF Become
<1>17. shown' \in [Tabs -> Subjects \cup {None}] /\ cut' \in [Tabs -> Subjects \cup {None}]
       /\ LastOf(t)' = None /\ \A o \in Tabs \ {t} : LastOf(o)' = LastOf(o)
  BY <1>15, TabIs DEF LastOf
<1>18. TypeOK'
  <2>1. ranOut' \subseteq Tokens
    BY <1>15 DEF IInv, TypeOK
  <2>2. subject' \in [Tokens -> Subjects \cup {None}]
    BY <1>3, <1>8
  <2>3. QED
    BY <1>14, <1>15, <1>16, <1>17, <2>1, <2>2, TabIs DEF TypeOK
<1>19. storage' # None => subject'[storage'] # None
  BY <1>3, <1>8, <1>14
<1>20. ASSUME NEW o \in Tabs
       PROVE  /\ InStep(tab'[o], subject')
              /\ Hears(tab'[o].held, events'[o], storage')
              /\ Remembers(tab'[o], LastOf(o)', subject')
  <2>1. CASE o = t
    <3>1. Remembers(c, None, subject')
      BY DEF Remembers
    <3>2. QED
      BY <1>3, <1>12, <1>13, <1>14, <1>16, <1>17, <2>1, <3>1 DEF Hears
  <2>2. CASE o # t
    <3>1. InStep(tab[o], issued)
      BY <1>9, TabIs DEF InStep
    <3>2. Hears(tab[o].held, events'[o], k)
      BY <1>14, <2>2, TabIs
    <3>3. Remembers(tab[o], LastOf(o), issued)
      BY <1>1, <1>8, TabIs, IssueRemembers
    <3>4. QED
      BY <1>3, <1>14, <1>15, <1>16, <1>17, <2>2, <3>1, <3>2, <3>3
  <2>3. QED
    BY <2>1, <2>2
<1>21. QED
  BY <1>18, <1>19, <1>20 DEF IInv

\* A step of one tab that only changes what it holds, and is seen.
LEMMA SeenStep ==
    ASSUME IInv, NEW t \in Tabs, NEW c, Become(t, c), Seen(t),
           UNCHANGED <<storage, events, subject, ranOut>>,
           turns' \in Nat,
           InStep(c, subject), c.held \in {tab[t].held, storage},
           Goes(tab[t], c, LastOf(t), subject)
    PROVE  IInv'
<1>1. c \in Tab /\ TypeOK
  BY DEF InStep, Sane, IInv
<1>2. /\ shown' \in [Tabs -> Subjects \cup {None}] /\ cut' \in [Tabs -> Subjects \cup {None}]
      /\ \A o \in Tabs \ {t} : LastOf(o)' = LastOf(o)
      /\ Goes(tab[t], c, LastOf(t), subject)
           => Remembers(c, LastOf(t)', subject)
  BY <1>1, SeenIs
<1>3. Remembers(c, LastOf(t)', subject)
  BY <1>2
<1>4. QED
  BY <1>2, <1>3, OwnStep

LEMMA NavigateStep ==
    ASSUME IInv, NEW t \in Tabs, Navigate(t)
    PROVE  IInv' /\ DrawsNothing(t)
<1>1. PICK r \in Slots : FreeSlot(t, r) /\ Become(t, Routed(tab[t], r))
  BY DEF Navigate
<1>2. PICK b \in Tab : b = tab[t]
  BY TabIs
<1>3. PICK k \in Tokens \cup {None} : k = Read(b)
  BY TabIs DEF Read, Tab
<1>4. PICK c : c = Routed(b, r)
  OBVIOUS
<1>5. Sets(b, c, r, k)
  BY <1>3, <1>4, RoutedIs
<1>6. Sane(b, subject) /\ b.route[r].pc = "free"
  BY <1>1, <1>2, TabIs DEF FreeSlot
<1>7. k # None => subject[k] # None
  BY <1>3, <1>6, TabIs DEF Read, Sane, Known
<1>8. InStep(c, subject)
  BY <1>5, <1>6, <1>7, RoutedKeeps
<1>9. c.held \in {tab[t].held, storage}
  BY <1>2, <1>3, <1>5 DEF Sets, Read
<1>10. /\ UNCHANGED <<storage, events, subject, ranOut>>
       /\ Seen(t) /\ Become(t, c) /\ turns' = turns + 1
  BY <1>1, <1>2, <1>4 DEF Navigate
<1>11. turns' \in Nat
  BY <1>10, TabIs
<1>12. Goes(tab[t], c, LastOf(t), subject)
  <2>1. k = b.held \/ b.held = None
    BY <1>3 DEF Read
  <2>2. Remembers(b, LastOf(t), subject)
    BY <1>2, TabIs
  <2>3. PICK last : last = LastOf(t)
    OBVIOUS
  <2>4. Remembers(b, last, subject)
    BY <2>2, <2>3
  <2>5. Goes(b, c, last, subject)
    BY <1>5, <1>6, <2>1, <2>4, RoutedRemembers
  <2>6. QED
    BY <1>2, <2>3, <2>5
<1>13. IInv'
  BY <1>8, <1>9, <1>10, <1>11, <1>12, SeenStep
<1>14. DrawsNothing(t)
  BY <1>2, <1>5, <1>10, BecomeIs DEF DrawsNothing, Sets
<1>15. QED
  BY <1>13, <1>14

\* expire() changes the storage only by emptying it.
LEMMA ExpireIs ==
    ASSUME NEW t \in Tabs, NEW held, NEW pending \in [Tabs -> Seq(Tokens \cup {None})],
           Expire(t, held, pending)
    PROVE  /\ storage' \in {storage, None}
           /\ events' \in [Tabs -> Seq(Tokens \cup {None})]
           /\ \A o \in Tabs \ {t} : \A h :
                Hears(h, pending[o], storage) => Hears(h, events'[o], storage')
<1>1. CASE Removes(held)
  <2>1. PICK v \in Tokens \cup {None} : v = None
    OBVIOUS
  <2>2. Store(t, v, pending)
    BY <1>1, <2>1 DEF Expire
  <2>3. /\ storage' = v /\ events' \in [Tabs -> Seq(Tokens \cup {None})]
        /\ \A o \in Tabs \ {t} : \A h :
             Hears(h, pending[o], storage) => Hears(h, events'[o], v)
    BY <2>2, StoreIs
  <2>4. QED
    BY <2>1, <2>3
<1>2. CASE ~Removes(held)
  <2>1. storage' = storage /\ events' = pending
    BY <1>2 DEF Expire
  <2>2. QED
    BY <2>1
<1>3. QED
  BY <1>1, <1>2

\* Signed out by an answer or an event: this tab expires what it holds.
LEMMA ExpiredStep ==
    ASSUME IInv, NEW t \in Tabs, NEW b, Sane(b, subject),
           NEW c, c = ShowLogin(Forget(b)), Become(t, c), Seen(t),
           NEW held, NEW pending \in [Tabs -> Seq(Tokens \cup {None})],
           Expire(t, held, pending), \A o \in Tabs \ {t} : pending[o] = events[o],
           UNCHANGED <<subject, ranOut>>, turns' \in Nat
    PROVE  IInv' /\ DrawsNothing(t)
<1>1. InStep(c, subject) /\ c.held = None /\ c.view = "login"
  BY LoginKeeps
<1>2. c \in Tab /\ TypeOK
  BY <1>1 DEF InStep, Sane, IInv
<1>3. /\ shown' \in [Tabs -> Subjects \cup {None}] /\ cut' \in [Tabs -> Subjects \cup {None}]
      /\ \A o \in Tabs \ {t} : LastOf(o)' = LastOf(o)
      /\ Goes(tab[t], c, LastOf(t), subject)
           => Remembers(c, LastOf(t)', subject)
  BY <1>2, SeenIs
<1>4. Remembers(c, LastOf(t)', subject)
  <2>1. Goes(tab[t], c, LastOf(t), subject)
    BY <1>1, LoginRemembers
  <2>2. QED
    BY <1>3, <2>1
<1>5. /\ storage' \in {storage, None} /\ events' \in [Tabs -> Seq(Tokens \cup {None})]
      /\ \A o \in Tabs \ {t} : \A h :
           Hears(h, pending[o], storage) => Hears(h, events'[o], storage')
  BY ExpireIs
<1>6. \A o \in Tabs \ {t} : Hears(tab[o].held, events'[o], storage')
  BY <1>5, TabIs
<1>7. storage' \in Tokens \cup {None} /\ (storage' # None => subject[storage'] # None)
  BY <1>5, TabIs
<1>8. Hears(c.held, events'[t], storage')
  BY <1>1 DEF Hears
<1>9. IInv'
  BY <1>1, <1>3, <1>4, <1>5, <1>6, <1>7, <1>8, OneTabStep
<1>10. DrawsNothing(t)
  BY <1>1, BecomeIs DEF DrawsNothing
<1>11. QED
  BY <1>9, <1>10

LEMMA ReceiveUnauthorizedStep ==
    ASSUME IInv, NEW t \in Tabs, NEW r \in Slots, ReceiveUnauthorized(t, r)
    PROVE  IInv' /\ DrawsNothing(t)
<1>1. PICK a \in Tab : a = tab[t]
  BY TabIs
<1>2. PICK b : b = Free(a, r)
  OBVIOUS
<1>3. /\ InStep(a, subject) /\ Sane(a, subject)
      /\ Remembers(a, LastOf(t), subject)
  BY <1>1, TabIs
<1>4. /\ Seen(t) /\ UNCHANGED <<subject, ranOut>> /\ turns' \in Nat
  BY TabIs DEF ReceiveUnauthorized
<1>5. Sane(b, subject)
  BY <1>2, <1>3, FreeSane
<1>6. CASE EndsSession(a, a.route[r].token)
  <2>1. PICK c : c = ShowLogin(Forget(b))
    OBVIOUS
  <2>2. Expire(t, Read(b), events) /\ Become(t, c)
    BY <1>1, <1>2, <1>6, <2>1 DEF ReceiveUnauthorized
  <2>3. PICK held, pending : held = Read(b) /\ pending = events
    OBVIOUS
  <2>4. Expire(t, held, pending)
    BY <2>2, <2>3
  <2>5. pending \in [Tabs -> Seq(Tokens \cup {None})]
    BY <2>3, TabIs
  <2>6. \A o \in Tabs \ {t} : pending[o] = events[o]
    BY <2>3
  <2>7. QED
    BY <1>4, <1>5, <2>1, <2>2, <2>4, <2>5, <2>6, ExpiredStep
<1>7. CASE ~EndsSession(a, a.route[r].token)
  <2>1. PICK k \in Tokens \cup {None} : k = Read(a)
    BY TabIs DEF Read, Tab
  <2>2. PICK c : c = [b EXCEPT !.held = k]
    OBVIOUS
  <2>3. /\ b \in Tab /\ SameAccount(a, b) /\ b.previous = a.previous /\ b.view = a.view
        /\ b.drawn = a.drawn
        /\ b.route[r] = NoRoute /\ \A q \in Slots \ {r} : b.route[q] = a.route[q]
    BY <1>2, FreeIs
  <2>4. Read(b) = k
    BY <2>1, <2>3 DEF Read, SameAccount
  <2>5. Become(t, c) /\ UNCHANGED <<storage, events>>
    BY <1>1, <1>2, <1>7, <2>2, <2>4 DEF ReceiveUnauthorized
  <2>6. ~Mine(a, r)
    <3>1. Mine(a, r) => a.route[r].token = a.held /\ a.route[r].token \in Tokens
      BY <1>3 DEF InStep, Sane, RoutesInStep, RouteWell, Mine
    <3>2. QED
      BY <1>7, <3>1, BrowserSessionAssumption DEF EndsSession, Read
  <2>7. InStep(b, subject)
    BY <1>2, <1>3, <2>6, FreeKeeps
  <2>8. (k # None => subject[k] # None) /\ b.held \in {None, k}
    BY <1>3, <2>1, <2>3, TabIs DEF Sane, Known, Read, SameAccount
  <2>9. /\ InStep(c, subject) /\ c.held = k
        /\ c.me = b.me /\ c.meToken = b.meToken /\ c.previous = b.previous
        /\ c.view = b.view /\ c.drawn = b.drawn /\ c.route = b.route
    BY <2>2, <2>7, <2>8, ReadKeeps
  <2>10. c.held \in {tab[t].held, storage}
    BY <1>1, <2>1, <2>9 DEF Read
  <2>11. Goes(a, c, LastOf(t), subject)
    <3>1. \A q \in Slots : /\ Mine(c, q) <=> Mine(a, q)
                           /\ Mine(c, q) => c.route[q] = a.route[q]
      BY <2>3, <2>6, <2>9, NoRouteIs DEF Mine
    <3>2. SameMine(a, c)
      BY <3>1 DEF SameMine
    <3>3. c.me = a.me /\ c.meToken = a.meToken /\ c.previous = a.previous /\ c.drawn = a.drawn
      BY <2>3, <2>9 DEF SameAccount
    <3>4. (a.me = None <=> a.meToken = None) /\ (c.held = a.held \/ a.held = None)
      BY <1>3, <2>1, <2>9 DEF Sane, Read
    <3>5. QED
      BY <1>3, <3>2, <3>3, <3>4, CalmRemembers
  <2>12. Goes(tab[t], c, LastOf(t), subject)
    BY <1>1, <2>11
  <2>13. IInv'
    BY <1>4, <2>5, <2>9, <2>10, <2>12, SeenStep
  <2>14. DrawsNothing(t)
    BY <1>1, <2>3, <2>5, <2>9, BecomeIs DEF DrawsNothing
  <2>15. QED
    BY <2>13, <2>14
<1>8. QED
  BY <1>6, <1>7

\* A route that is no longer the latest ends with its answer.
LEMMA StrayStep ==
    ASSUME IInv, NEW t \in Tabs, NEW r \in Slots, ~Mine(tab[t], r),
           Become(t, Free(tab[t], r)), Seen(t),
           UNCHANGED <<storage, events, subject, ranOut>>, turns' \in Nat
    PROVE  IInv' /\ DrawsNothing(t)
<1>1. PICK b \in Tab : b = tab[t]
  BY TabIs
<1>2. PICK c : c = Free(b, r)
  OBVIOUS
<1>3. InStep(b, subject) /\ Remembers(b, LastOf(t), subject)
  BY <1>1, TabIs
<1>4. ~Mine(b, r) /\ Become(t, c)
  BY <1>1, <1>2
<1>5. InStep(c, subject)
  BY <1>2, <1>3, <1>4, FreeKeeps
<1>6. /\ SameAccount(b, c) /\ c.previous = b.previous /\ c.drawn = b.drawn
      /\ c.route[r] = NoRoute /\ \A q \in Slots \ {r} : c.route[q] = b.route[q]
  BY <1>2, FreeIs
<1>7. Goes(b, c, LastOf(t), subject)
  <2>1. \A q \in Slots : /\ Mine(c, q) <=> Mine(b, q)
                         /\ Mine(c, q) => c.route[q] = b.route[q]
    BY <1>4, <1>6, NoRouteIs DEF Mine
  <2>2. SameMine(b, c)
    BY <2>1 DEF SameMine
  <2>3. c.me = b.me /\ c.meToken = b.meToken /\ c.held = b.held
    BY <1>6 DEF SameAccount
  <2>4. b.me = None <=> b.meToken = None
    BY <1>3 DEF InStep, Sane
  <2>5. QED
    BY <1>3, <1>6, <2>2, <2>3, <2>4, CalmRemembers
<1>8. Goes(tab[t], c, LastOf(t), subject)
  BY <1>1, <1>7
<1>9. c.held = tab[t].held
  BY <1>1, <1>6 DEF SameAccount
<1>10. IInv'
  BY <1>4, <1>5, <1>8, <1>9, SeenStep
<1>11. DrawsNothing(t)
  BY <1>1, <1>4, <1>6, BecomeIs DEF DrawsNothing
<1>12. QED
  BY <1>10, <1>11

\* The latest route ends with its view.
LEMMA EndStep ==
    ASSUME IInv, NEW t \in Tabs, NEW r \in Slots, NEW b \in Tab, b = tab[t], Mine(b, r),
           NEW d, d = Free(b, r), NEW c \in Tab, SameAccount(d, c), c.route = d.route,
           \/ c.view = "error" /\ c.drawn = None /\ c.previous = b.previous
           \/ c.view = "app" /\ c.drawn = d.meToken /\ b.meToken = b.held,
           Become(t, c), Seen(t),
           UNCHANGED <<storage, events, subject, ranOut>>, turns' \in Nat
    PROVE  IInv'
<1>1. InStep(b, subject) /\ Remembers(b, LastOf(t), subject)
  BY TabIs
<1>2. InStep(c, subject)
  BY <1>1, EndKeeps
<1>3. /\ SameAccount(b, d) /\ d.route[r] = NoRoute
      /\ \A q \in Slots \ {r} : d.route[q] = b.route[q]
  BY FreeIs
<1>4. c.me = b.me /\ c.meToken = b.meToken /\ c.held = b.held /\ d.meToken = b.meToken
  BY <1>3 DEF SameAccount
<1>5. \A q \in Slots : ~Mine(c, q)
  <2>1. \A q \in Slots \ {r} : ~Mine(b, q)
    BY <1>1 DEF InStep, RoutesInStep
  <2>2. c.route[r] = NoRoute /\ \A q \in Slots \ {r} : c.route[q] = b.route[q]
    BY <1>3
  <2>3. \A q \in Slots \ {r} : ~Mine(c, q)
    BY <2>1, <2>2 DEF Mine
  <2>4. ~Mine(c, r)
    BY <2>2, NoRouteIs DEF Mine
  <2>5. QED
    BY <2>3, <2>4
<1>6. Goes(b, c, LastOf(t), subject)
  <2>1. CASE c.view = "error" /\ c.drawn = None /\ c.previous = b.previous
    <3>1. \A q \in Slots : c.route[q].mine => c.route[q].pc # "free"
      BY <1>2 DEF InStep, Sane, RouteWell
    <3>2. QED
      BY <1>1, <1>4, <1>5, <2>1, <3>1, ErrorRemembers
  <2>2. CASE c.view = "app" /\ c.drawn = d.meToken /\ b.meToken = b.held
    <3>1. b.route[r].token = b.held /\ b.route[r].token \in Tokens
      BY <1>1 DEF InStep, Sane, RouteWell, RoutesInStep, Mine
    <3>2. c.drawn # None /\ c.me # None
      BY <1>1, <1>4, <2>2, <3>1, BrowserSessionAssumption DEF InStep, Sane
    <3>3. c.drawn = c.meToken /\ c.held = c.meToken /\ c.me = subject[c.meToken]
      BY <1>1, <1>4, <2>2, <3>2 DEF InStep, Sane, Known
    <3>4. QED
      BY <1>1, <1>5, <3>2, <3>3, DrawnRemembers
  <2>3. QED
    BY <2>1, <2>2
<1>7. Goes(tab[t], c, LastOf(t), subject)
  BY <1>6
<1>8. c.held = tab[t].held
  BY <1>4
<1>9. QED
  BY <1>2, <1>7, <1>8, SeenStep

LEMMA ReceiveFailureStep ==
    ASSUME IInv, NEW t \in Tabs, NEW r \in Slots, ReceiveFailure(t, r)
    PROVE  IInv' /\ DrawsNothing(t)
<1>1. PICK b \in Tab : b = tab[t]
  BY TabIs
<1>2. PICK d : d = Free(b, r)
  OBVIOUS
<1>3. PICK no \in BOOLEAN : no = FALSE
  OBVIOUS
<1>4. PICK e : e = Draw(d, "error", no)
  OBVIOUS
<1>5. PICK c : c = [e EXCEPT !.drawn = None]
  OBVIOUS
<1>6. /\ Seen(t) /\ UNCHANGED <<storage, events, subject, ranOut>> /\ turns' \in Nat
      /\ Become(t, IF IsLatest(b.route[r]) THEN c ELSE d)
  <2>1. turns' = turns + 1
    BY DEF ReceiveFailure
  <2>2. turns' \in Nat
    BY <2>1, TabIs
  <2>3. Seen(t) /\ UNCHANGED <<storage, events, subject, ranOut>>
    BY DEF ReceiveFailure
  <2>4. Become(t, IF IsLatest(b.route[r]) THEN c ELSE d)
    BY <1>1, <1>2, <1>3, <1>4, <1>5 DEF ReceiveFailure
  <2>5. QED
    BY <2>2, <2>3, <2>4
<1>7. b.route[r].pc # "free"
  <2>1. ~FreeSlot(t, r)
    BY DEF ReceiveFailure
  <2>2. QED
    BY <1>1, <2>1 DEF FreeSlot
<1>8. CASE ~b.route[r].mine
  <2>1. ~Mine(tab[t], r) /\ Become(t, Free(tab[t], r))
    BY <1>1, <1>2, <1>6, <1>8 DEF Mine, IsLatest
  <2>2. QED
    BY <1>6, <2>1, StrayStep
<1>9. CASE b.route[r].mine
  <2>1. Mine(b, r) /\ Become(t, c)
    BY <1>6, <1>7, <1>9 DEF Mine, IsLatest
  <2>2. d \in Tab /\ SameAccount(b, d) /\ d.previous = b.previous
    BY <1>2, FreeIs
  <2>3. /\ e \in Tab /\ SameAccount(d, e) /\ e.previous = d.previous
        /\ e.view = "error" /\ e.route = d.route
    <3>1. "error" \in Views
      BY DEF Views
    <3>2. QED
      BY <1>4, <2>2, <3>1, DrawIs
  <2>4. /\ c \in Tab /\ SameAccount(d, c) /\ c.previous = b.previous
        /\ c.view = "error" /\ c.route = d.route /\ c.drawn = None
    BY <1>5, <2>2, <2>3 DEF Tab, SameAccount
  <2>5. IInv'
    BY <1>1, <1>2, <1>6, <2>1, <2>4, EndStep
  <2>6. DrawsNothing(t)
    BY <2>1, <2>4, BecomeIs DEF DrawsNothing
  <2>7. QED
    BY <2>5, <2>6
<1>10. QED
  BY <1>8, <1>9

LEMMA ReceiveCapsStep ==
    ASSUME IInv, NEW t \in Tabs, NEW r \in Slots, ReceiveCaps(t, r)
    PROVE  IInv'
<1>1. PICK b \in Tab : b = tab[t]
  BY TabIs
<1>2. PICK d : d = Free(b, r)
  OBVIOUS
<1>3. PICK notice \in BOOLEAN : notice = b.route[r].notice
  BY DEF Tab, Route
<1>4. PICK c : c = DrawAccount(d, "app", notice)
  OBVIOUS
<1>5. /\ Seen(t) /\ UNCHANGED <<storage, events, subject, ranOut>> /\ turns' \in Nat
      /\ b.route[r].pc = "caps"
      /\ Become(t, IF IsLatest(b.route[r]) THEN c ELSE d)
  BY <1>1, <1>2, <1>3, <1>4, TabIs DEF ReceiveCaps
<1>6. CASE ~b.route[r].mine
  <2>1. ~Mine(tab[t], r) /\ Become(t, Free(tab[t], r))
    BY <1>1, <1>2, <1>5, <1>6 DEF Mine, IsLatest
  <2>2. QED
    BY <1>5, <2>1, StrayStep
<1>7. CASE b.route[r].mine
  <2>1. Mine(b, r) /\ Become(t, c)
    BY <1>5, <1>7 DEF Mine, IsLatest
  <2>2. b.meToken = b.held
    BY <1>1, <1>5, <2>1, TabIs DEF InStep, RoutesInStep
  <2>3. d \in Tab
    BY <1>2, FreeIs
  <2>4. /\ c \in Tab /\ SameAccount(d, c) /\ c.view = "app" /\ c.drawn = d.meToken
        /\ c.route = d.route
    <3>1. "app" \in Views
      BY DEF Views
    <3>2. QED
      BY <1>4, <2>3, <3>1, DrawAccountIs
  <2>5. QED
    BY <1>1, <1>2, <1>5, <2>1, <2>2, <2>4, EndStep
<1>8. QED
  BY <1>6, <1>7

LEMMA ReceiveMeStep ==
    ASSUME IInv, NEW t \in Tabs, NEW r \in Slots, ReceiveMe(t, r)
    PROVE  IInv' /\ DrawsNothing(t)
<1>1. PICK b \in Tab : b = tab[t]
  BY TabIs
<1>2. PICK d : d = Takes(b, b.route[r])
  OBVIOUS
<1>3. PICK notice \in BOOLEAN : notice = NoticeDue(b, subject[b.route[r].token])
  BY DEF NoticeDue
<1>4. PICK c : c = AfterMe(d, r, Read(d), notice)
  OBVIOUS
<1>5. /\ Seen(t) /\ UNCHANGED <<storage, events, subject, ranOut>> /\ turns' \in Nat
      /\ b.route[r].pc = "me"
      /\ Become(t, IF IsLatest(b.route[r]) THEN c ELSE Free(b, r))
  BY <1>1, <1>2, <1>3, <1>4, TabIs DEF ReceiveMe
<1>6. CASE ~b.route[r].mine
  <2>1. ~Mine(tab[t], r) /\ Become(t, Free(tab[t], r))
    BY <1>1, <1>5, <1>6 DEF Mine, IsLatest
  <2>2. QED
    BY <1>5, <2>1, StrayStep
<1>7. CASE b.route[r].mine
  <2>1. Mine(b, r) /\ Become(t, c)
    BY <1>5, <1>7 DEF Mine, IsLatest
  <2>2. /\ InStep(b, subject) /\ subject \in [Tokens -> Subjects \cup {None}]
        /\ Remembers(b, LastOf(t), subject)
    BY <1>1, TabIs
  <2>3. /\ b.route[r].token = b.held /\ b.held \in Tokens /\ b.held # None
        /\ subject[b.held] \in Subjects
    <3>1. b.route[r].token \in Tokens /\ b.route[r].token = b.held
      BY <2>1, <2>2 DEF InStep, Sane, RouteWell, RoutesInStep, Mine
    <3>2. subject[b.route[r].token] # None
      BY <2>1, <2>2 DEF InStep, Sane, Known, Mine
    <3>3. QED
      BY <2>2, <3>1, <3>2, BrowserSessionAssumption
  <2>4. d \in Tab /\ d.held = b.held /\ d.meToken = b.held /\ d.drawn = b.drawn
    BY <1>2, <2>3, TakesIs
  <2>5. Read(d) = b.held
    BY <2>3, <2>4 DEF Read
  <2>6. PICK k \in Tokens : k = b.held
    BY <2>3
  <2>7. c = AfterMe(d, r, k, notice)
    BY <1>4, <2>5, <2>6
  <2>8. Proceeds(d, c, r, k, notice)
    BY <2>4, <2>7, AfterMeIs
  <2>9. Proceeds(d, c, r, b.held, notice)
    BY <2>6, <2>8
  <2>10. InStep(c, subject) /\ c.me # None
    BY <1>2, <2>1, <2>2, <2>9, MeKeeps
  <2>11. /\ c.held = b.held /\ c.meToken = b.held
         /\ \A q \in Slots \ {r} : c.route[q] = d.route[q]
         /\ \/ c.view = "powerless" /\ c.drawn = b.held /\ c.route[r] = NoRoute
            \/ /\ c.drawn = b.drawn /\ c.route[r].pc = "caps" /\ c.route[r].notice = notice
               /\ c.route[r].mine
    BY <2>4, <2>9 DEF Proceeds, SameAccount
  <2>12. \A q \in Slots \ {r} : ~Mine(c, q)
    <3>1. \A q \in Slots \ {r} : ~Mine(b, q)
      BY <2>1, <2>2 DEF InStep, RoutesInStep
    <3>2. d.route = b.route
      BY <1>2, <2>3, TakesIs
    <3>3. QED
      BY <2>11, <3>1, <3>2 DEF Mine
  <2>13. Goes(b, c, LastOf(t), subject)
    <3>1. CASE c.view = "powerless" /\ c.drawn = b.held /\ c.route[r] = NoRoute
      <4>1. \A q \in Slots : ~Mine(c, q)
        <5>1. ~Mine(c, r)
          BY <3>1, NoRouteIs DEF Mine
        <5>2. QED
          BY <2>12, <5>1
      <4>2. c.drawn # None /\ c.drawn = c.meToken /\ c.held = c.meToken
        BY <2>3, <2>11, <3>1
      <4>3. c.me = subject[c.meToken]
        BY <2>10 DEF InStep, Sane, Known
      <4>4. QED
        BY <2>2, <2>10, <4>1, <4>2, <4>3, DrawnRemembers
    <3>2. CASE /\ c.drawn = b.drawn /\ c.route[r].pc = "caps" /\ c.route[r].notice = notice
               /\ c.route[r].mine
      <4>1. c.route[r].notice = NoticeDue(b, subject[c.meToken])
        BY <1>3, <2>3, <2>11, <3>2
      <4>2. Mine(c, r) /\ \A q \in Slots : Mine(c, q) => q = r
        BY <2>12, <3>2 DEF Mine
      <4>3. c.held = c.meToken
        BY <2>11
      <4>4. QED
        BY <1>5, <2>1, <2>2, <2>10, <3>2, <4>1, <4>2, <4>3, TakenRemembers
    <3>3. QED
      BY <2>11, <3>1, <3>2
  <2>14. Goes(tab[t], c, LastOf(t), subject)
    BY <1>1, <2>13
  <2>15. c.held = tab[t].held
    BY <1>1, <2>11
  <2>16. IInv'
    BY <1>5, <2>1, <2>10, <2>14, <2>15, SeenStep
  <2>17. DrawsNothing(t)
    BY <1>1, <2>1, <2>11, BecomeIs DEF DrawsNothing
  <2>18. QED
    BY <2>16, <2>17
<1>8. QED
  BY <1>6, <1>7

LEMMA HearEndedStep ==
    ASSUME IInv, NEW t \in Tabs, events[t] # <<>>, HearEnded(t, Head(events[t])), Seen(t),
           UNCHANGED <<subject, ranOut>>, turns' \in Nat
    PROVE  IInv' /\ DrawsNothing(t)
<1>1. PICK b : b = tab[t]
  OBVIOUS
<1>2. PICK c : c = ShowLogin(Forget(b))
  OBVIOUS
<1>3. PICK held, pending : held = tab[t].held /\ pending = Heard(t)
  OBVIOUS
<1>4. Become(t, c) /\ Expire(t, held, pending)
  BY <1>1, <1>2, <1>3 DEF HearEnded
<1>5. /\ pending \in [Tabs -> Seq(Tokens \cup {None})]
      /\ \A o \in Tabs \ {t} : pending[o] = events[o]
  BY <1>3, HeardIs DEF IInv
<1>6. Sane(b, subject)
  BY <1>1, TabIs
<1>7. QED
  BY <1>2, <1>4, <1>5, <1>6, ExpiredStep

LEMMA HearNothingStep ==
    ASSUME IInv, NEW t \in Tabs, events[t] # <<>>, HearNothing(t, Head(events[t])), Seen(t),
           UNCHANGED <<subject, ranOut>>, turns' \in Nat
    PROVE  IInv' /\ DrawsNothing(t)
<1>1. PICK c : c = tab[t]
  OBVIOUS
<1>2. /\ events' = Heard(t) /\ UNCHANGED <<storage, tab>>
      /\ c.held = Head(events[t])
  BY <1>1 DEF HearNothing, Believed
<1>3. /\ Heard(t) \in [Tabs -> Seq(Tokens \cup {None})]
      /\ \A o \in Tabs \ {t} : Heard(t)[o] = events[o]
      /\ Hears(c.held, events[t], storage) => Hears(c.held, Heard(t)[t], storage)
  BY <1>2, HeardIs DEF IInv
<1>4. /\ InStep(c, subject) /\ c \in Tab /\ Hears(c.held, events[t], storage)
      /\ Remembers(c, LastOf(t), subject)
  BY <1>1, TabIs
<1>5. Become(t, c)
  BY <1>1, <1>2, TabIs DEF Become
<1>6. /\ shown' \in [Tabs -> Subjects \cup {None}] /\ cut' \in [Tabs -> Subjects \cup {None}]
      /\ \A o \in Tabs \ {t} : LastOf(o)' = LastOf(o)
      /\ Goes(tab[t], c, LastOf(t), subject)
           => Remembers(c, LastOf(t)', subject)
  BY <1>4, <1>5, SeenIs DEF IInv
<1>7. Remembers(c, LastOf(t)', subject)
  <2>1. SameMine(c, c) /\ (c.me = None <=> c.meToken = None)
    BY <1>4 DEF SameMine, InStep, Sane
  <2>2. Goes(c, c, LastOf(t), subject)
    BY <1>4, <2>1, CalmRemembers
  <2>3. QED
    BY <1>1, <1>6, <2>2
<1>8. \A o \in Tabs \ {t} : Hears(tab[o].held, events'[o], storage')
  BY <1>2, <1>3, TabIs
<1>9. Hears(c.held, events'[t], storage')
  BY <1>2, <1>3, <1>4
<1>10. /\ storage' \in Tokens \cup {None} /\ (storage' # None => subject[storage'] # None)
       /\ events' \in [Tabs -> Seq(Tokens \cup {None})]
  BY <1>2, <1>3, TabIs
<1>11. IInv'
  BY <1>4, <1>5, <1>6, <1>7, <1>8, <1>9, <1>10, OneTabStep
<1>12. DrawsNothing(t)
  BY <1>1, <1>5, BecomeIs DEF DrawsNothing
<1>13. QED
  BY <1>11, <1>12

LEMMA HearReplacedStep ==
    ASSUME IInv, NEW t \in Tabs, events[t] # <<>>, HearReplaced(t, Head(events[t])), Seen(t),
           UNCHANGED <<subject, ranOut>>, turns' \in Nat
    PROVE  IInv' /\ DrawsNothing(t)
<1>1. PICK b \in Tab : b = tab[t]
  BY TabIs
<1>2. PICK no \in BOOLEAN : no = FALSE
  OBVIOUS
<1>3. PICK e : e = Bump(b)
  OBVIOUS
<1>4. PICK f : f = Draw(e, "placeholder", no)
  OBVIOUS
<1>5. PICK who : who = IF f.me # None THEN f.me ELSE f.previous
  OBVIOUS
<1>6. PICK g : g = [f EXCEPT !.previous = who, !.drawn = None]
  OBVIOUS
<1>7. PICK d : d = Forget(g)
  OBVIOUS
<1>8. PICK r \in Slots : FreeSlot(t, r) /\ Become(t, Routed(d, r))
  <2>1. \E r \in Slots :
          /\ FreeSlot(t, r)
          /\ Become(t, Routed(Forget([f EXCEPT !.previous = IF f.me # None THEN f.me ELSE @,
                                               !.drawn = None]), r))
    BY <1>1, <1>2, <1>3, <1>4 DEF HearReplaced
  <2>2. g = [f EXCEPT !.previous = IF f.me # None THEN f.me ELSE @, !.drawn = None]
    BY <1>5, <1>6
  <2>3. QED
    BY <1>7, <2>1, <2>2
<1>9. PICK c : c = Routed(d, r)
  OBVIOUS
<1>10. PICK k \in Tokens \cup {None} : k = storage
  BY TabIs
<1>11. /\ e \in Tab /\ SameAccount(b, e) /\ e.previous = b.previous
       /\ \A q \in Slots : Outdated(b.route[q], e.route[q])
  BY <1>3, BumpIs
<1>12. /\ f \in Tab /\ f.me = b.me /\ f.previous = b.previous /\ f.view = "placeholder"
       /\ f.route = e.route
  <2>1. "placeholder" \in Views
    BY DEF Views
  <2>2. /\ f \in Tab /\ SameAccount(e, f) /\ f.previous = e.previous
        /\ f.view = "placeholder" /\ f.route = e.route
    BY <1>4, <1>11, <2>1, DrawIs
  <2>3. QED
    BY <1>11, <2>2 DEF SameAccount
<1>13. /\ g \in Tab /\ g.previous = who /\ g.drawn = None /\ g.view = "placeholder"
       /\ g.route = e.route
  <2>1. f.me \in Subjects \cup {None} /\ f.previous \in Subjects \cup {None}
    BY <1>12 DEF Tab
  <2>2. who \in Subjects \cup {None}
    BY <1>5, <2>1
  <2>3. QED
    BY <1>6, <1>12, <2>2 DEF Tab
<1>14. /\ d \in Tab /\ d.held = None /\ d.me = None /\ d.meToken = None
       /\ d.previous = who /\ d.view = "placeholder" /\ d.drawn = None /\ d.route = e.route
  BY <1>7, <1>13, ForgetIs
<1>15. Sane(d, subject)
  <2>1. Sane(b, subject)
    BY <1>1, TabIs
  <2>2. d.view \notin {"app", "powerless"}
    BY <1>14
  <2>3. \A q \in Slots : Outdated(b.route[q], d.route[q])
    BY <1>11, <1>14
  <2>4. QED
    BY <1>14, <2>1, <2>2, <2>3, OutdatedSane
<1>16. d.route[r].pc = "free"
  BY <1>1, <1>8, <1>11, <1>14 DEF FreeSlot, Outdated
<1>17. Sets(d, c, r, k)
  <2>1. k = Read(d)
    BY <1>10, <1>14 DEF Read
  <2>2. QED
    BY <1>9, <1>14, <2>1, RoutedIs
<1>18. InStep(c, subject)
  <2>1. k # None => subject[k] # None
    BY <1>10, TabIs
  <2>2. QED
    BY <1>15, <1>16, <1>17, <2>1, RoutedKeeps
<1>19. c \in Tab /\ c.held = k /\ c.me = None
  BY <1>14, <1>17 DEF Sets
<1>20. c.drawn = None
  BY <1>14, <1>17 DEF Sets
<1>21. \/ c.view = "login"
       \/ /\ c.previous = d.previous
          /\ \A q \in Slots : Mine(c, q) => c.route[q].pc = "me"
  BY <1>14, <1>17 DEF Sets, Mine, Outdated
<1>22. Goes(b, c, LastOf(t), subject)
  <2>1. d.previous = IF b.me # None THEN b.me ELSE b.previous
    BY <1>5, <1>12, <1>14
  <2>2. Remembers(b, LastOf(t), subject)
    BY <1>1, TabIs
  <2>3. \A q \in Slots : b.route[q].pc = "caps" => ~c.route[q].mine
    <3>1. \A q \in Slots \ {r} : Outdated(d.route[q], c.route[q])
      BY <1>17 DEF Sets
    <3>2. b.route[r].pc # "caps"
      BY <1>1, <1>8 DEF FreeSlot
    <3>3. QED
      BY <3>1, <3>2 DEF Outdated
  <2>4. QED
    BY <1>19, <1>20, <1>21, <2>1, <2>2, <2>3, ReplacedRemembers
<1>23. Become(t, c) /\ events' = Heard(t) /\ storage' = storage
  BY <1>8, <1>9 DEF HearReplaced
<1>24. /\ shown' \in [Tabs -> Subjects \cup {None}] /\ cut' \in [Tabs -> Subjects \cup {None}]
       /\ \A o \in Tabs \ {t} : LastOf(o)' = LastOf(o)
       /\ Goes(tab[t], c, LastOf(t), subject)
            => Remembers(c, LastOf(t)', subject)
  BY <1>19, <1>23, SeenIs DEF IInv
<1>25. Remembers(c, LastOf(t)', subject)
  BY <1>1, <1>22, <1>24
<1>26. /\ events' \in [Tabs -> Seq(Tokens \cup {None})]
       /\ \A o \in Tabs \ {t} : events'[o] = events[o]
  BY <1>23, HeardIs DEF IInv
<1>27. \A o \in Tabs \ {t} : Hears(tab[o].held, events'[o], storage')
  BY <1>23, <1>26, TabIs
<1>28. Hears(c.held, events'[t], storage')
  BY <1>10, <1>19, <1>23 DEF Hears
<1>29. /\ storage' \in Tokens \cup {None} /\ (storage' # None => subject[storage'] # None)
  BY <1>23, TabIs
<1>30. IInv'
  BY <1>18, <1>23, <1>24, <1>25, <1>26, <1>27, <1>28, <1>29, OneTabStep
<1>31. DrawsNothing(t)
  BY <1>20, <1>23, BecomeIs DEF DrawsNothing
<1>32. QED
  BY <1>30, <1>31

LEMMA HandleEventStep ==
    ASSUME IInv, NEW t \in Tabs, HandleEvent(t)
    PROVE  IInv' /\ DrawsNothing(t)
<1>1. events[t] # <<>> /\ Seen(t) /\ UNCHANGED <<subject, ranOut>> /\ turns' \in Nat
  BY TabIs DEF HandleEvent
<1>2. \/ HearEnded(t, Head(events[t])) \/ HearReplaced(t, Head(events[t]))
      \/ HearNothing(t, Head(events[t]))
  BY DEF HandleEvent
<1>3. QED
  BY <1>1, <1>2, HearEndedStep, HearReplacedStep, HearNothingStep

\* The invariant holds at the start.
LEMMA InitHolds == Init => IInv
<1>1. SUFFICES ASSUME Init PROVE IInv
  OBVIOUS
<1>2. PICK b : b = [held |-> None, me |-> None, meToken |-> None,
                    previous |-> None, view |-> "login", drawn |-> None,
                    notice |-> FALSE, asked |-> FALSE, route |-> [r \in Slots |-> NoRoute]]
  OBVIOUS
<1>3. /\ b \in Tab /\ b.held = None /\ b.me = None /\ b.meToken = None /\ b.view = "login"
      /\ b.drawn = None /\ \A r \in Slots : b.route[r] = NoRoute
  <2>1. [r \in Slots |-> NoRoute] \in [Slots -> Route]
    BY NoRouteIs
  <2>2. PICK f \in [Slots -> Route] : f = [r \in Slots |-> NoRoute]
    BY <2>1
  <2>3. PICK no \in BOOLEAN : no = FALSE
    OBVIOUS
  <2>4. b = [held |-> None, me |-> None, meToken |-> None,
             previous |-> None, view |-> "login", drawn |-> None,
             notice |-> no, asked |-> no, route |-> f]
    BY <1>2, <2>2, <2>3
  <2>5. QED
    BY <2>2, <2>4 DEF Tab, Views
<1>4. storage = None /\ events = [t \in Tabs |-> <<>>] /\ subject = [k \in Tokens |-> None]
      /\ ranOut = {} /\ turns = 0 /\ shown = [t \in Tabs |-> None]
      /\ cut = [t \in Tabs |-> None]
  BY <1>1 DEF Init
<1>5. tab = [t \in Tabs |-> b]
  BY <1>1, <1>2 DEF Init
<1>6. TypeOK
  <2>1. events \in [Tabs -> Seq(Tokens \cup {None})]
    BY <1>4
  <2>2. tab \in [Tabs -> Tab]
    BY <1>3, <1>5
  <2>3. QED
    BY <1>4, <2>1, <2>2 DEF TypeOK
<1>7. InStep(b, subject)
  <2>1. \A r \in Slots : RouteWell(b.route[r]) /\ ~Mine(b, r) /\ b.route[r].pc = "free"
    BY <1>3, NoRouteIs DEF RouteWell, Mine
  <2>2. Known(b, subject)
    BY <1>3, <2>1 DEF Known
  <2>3. QED
    BY <1>3, <2>1, <2>2 DEF InStep, Sane, RoutesInStep, ViewInStep
<1>8. \A t \in Tabs : Hears(tab[t].held, events[t], storage)
  BY <1>3, <1>5 DEF Hears
<1>9. \A t \in Tabs : Remembers(tab[t], LastOf(t), subject)
  BY <1>4 DEF LastOf, Remembers
<1>10. QED
  BY <1>4, <1>5, <1>6, <1>7, <1>8, <1>9 DEF IInv

\* Every step keeps it.
LEMMA NextKeeps == IInv /\ [Next]_vars => IInv'
<1>1. SUFFICES ASSUME IInv, [Next]_vars PROVE IInv'
  OBVIOUS
<1>2. CASE UNCHANGED vars
  <2>1. UNCHANGED <<storage, events, tab, subject, ranOut, turns, shown, cut>>
    BY <1>2 DEF vars, history
  <2>2. TypeOK'
    BY <1>1, <2>1 DEF IInv, TypeOK
  <2>3. \A t \in Tabs : LastOf(t)' = LastOf(t)
    BY <2>1 DEF LastOf
  <2>4. QED
    BY <1>1, <2>1, <2>2, <2>3 DEF IInv
<1>3. ASSUME NEW t \in Tabs, Session(t) PROVE IInv'
  <2>1. CASE Submit(t)
    BY <1>1, <2>1, SubmitStep
  <2>2. CASE SignInFails(t)
    BY <1>1, <2>2, SignInFailsStep
  <2>3. CASE SignOut(t)
    BY <1>1, <2>3, SignOutStep
  <2>4. CASE HandleEvent(t)
    BY <1>1, <2>4, HandleEventStep
  <2>5. CASE \E s \in Subjects : SignIn(t, s)
    BY <1>1, <2>5, SignInStep
  <2>6. QED
    BY <1>3, <2>1, <2>2, <2>3, <2>4, <2>5 DEF Session
<1>4. ASSUME NEW t \in Tabs, Routing(t) PROVE IInv'
  <2>1. CASE Navigate(t)
    BY <1>1, <2>1, NavigateStep
  <2>2. ASSUME NEW r \in Slots, ReceiveUnauthorized(t, r) PROVE IInv'
    BY <1>1, <2>2, ReceiveUnauthorizedStep
  <2>3. ASSUME NEW r \in Slots, ReceiveFailure(t, r) PROVE IInv'
    BY <1>1, <2>3, ReceiveFailureStep
  <2>4. ASSUME NEW r \in Slots, ReceiveMe(t, r) PROVE IInv'
    BY <1>1, <2>4, ReceiveMeStep
  <2>5. ASSUME NEW r \in Slots, ReceiveCaps(t, r) PROVE IInv'
    BY <1>1, <2>5, ReceiveCapsStep
  <2>6. QED
    BY <1>4, <2>1, <2>2, <2>3, <2>4, <2>5 DEF Routing
<1>5. ASSUME NEW k \in Tokens, RunOut(k) PROVE IInv'
  BY <1>1, <1>5, RunOutStep
<1>6. QED
  BY <1>1, <1>2, <1>3, <1>4, <1>5 DEF Next
------------------------------------------------------------------------------
(***************************************************************************)
(* What follows of the screen.                                             *)
(***************************************************************************)

\* The invariant holds of every behaviour: for any number of tabs, accounts, sign-ins and
\* routes under way, the latest route of a tab is the only one that may draw and its
\* answers are about the token the tab holds.
THEOREM SessionSafe == Spec => []IInv
  BY InitHolds, NextKeeps, PTL DEF Spec

\* A view of an account is only on screen with the token it was drawn for, or while the
\* route that will replace it is under way, and `me' is the account its token was issued
\* to: what route() and handleReplaced() guard with latestRoute and meToken.
THEOREM ScreenIsOfItsSession == Spec => []ScreenFollowsSession
<1>1. IInv => ScreenFollowsSession
  <2>1. SUFFICES ASSUME IInv PROVE ScreenFollowsSession
    OBVIOUS
  <2>2. TypeOK
    BY <2>1 DEF IInv
  <2>3. ViewFollowsSession
    BY <2>1 DEF IInv, InStep, ViewInStep, Drawing, Mine, ViewFollowsSession
  <2>4. MeIsOfItsToken
    BY <2>1 DEF IInv, InStep, Sane, Known, MeIsOfItsToken
  <2>5. QED
    BY <2>2, <2>3, <2>4 DEF ScreenFollowsSession
<1>2. QED
  BY <1>1, SessionSafe, PTL

\* Once no event, answer or sign-in is under way, every tab that holds a token holds the
\* stored one, none shows an account of a session that is over, and none is left waiting:
\* the storage listener and expire() bring them together, whatever they did in between.
THEOREM TabsComeToAgree == Spec => []TabsAgree
<1>1. IInv => TabsAgree
  <2>1. SUFFICES ASSUME IInv, Quiet, NEW t \in Tabs
                 PROVE  /\ tab[t].held \in {None, storage}
                        /\ storage = None => tab[t].view = "login"
                        /\ tab[t].view \notin {"placeholder", "signing in"}
    BY DEF TabsAgree
  <2>2. events[t] = <<>> /\ Awaited(t) = {} /\ ~tab[t].asked
    BY <2>1 DEF Quiet
  <2>3. InStep(tab[t], subject) /\ Hears(tab[t].held, events[t], storage)
    BY <2>1, TabIs
  <2>4. ~Drawing(tab[t])
    BY <2>2 DEF Drawing, Mine, Awaited
  <2>5. tab[t].held \in {None, storage}
    BY <2>2, <2>3 DEF Hears
  <2>6. tab[t].view \notin {"placeholder", "signing in"}
    BY <2>2, <2>3, <2>4 DEF InStep, ViewInStep
  <2>7. storage = None => tab[t].view = "login"
    BY <2>3, <2>5, <2>6 DEF InStep, ViewInStep
  <2>8. QED
    BY <2>5, <2>6, <2>7
<1>2. QED
  BY <1>1, SessionSafe, PTL
------------------------------------------------------------------------------
(***************************************************************************)
(* What follows of a late answer.                                          *)
(***************************************************************************)

LEMMA LoginFrees ==
    ASSUME NEW b \in Tab, NEW c, c = ShowLogin(Forget(b))
    PROVE  \A r \in Slots : c.route[r].pc = b.route[r].pc
<1>1. PICK d : d = Forget(b)
  OBVIOUS
<1>2. d \in Tab /\ d.route = b.route
  BY <1>1, ForgetIs
<1>3. \A r \in Slots : Outdated(d.route[r], c.route[r])
  BY <1>1, <1>2, ShowLoginIs
<1>4. QED
  BY <1>2, <1>3 DEF Outdated

Spared(t, r) ==
    (tab[t].route[r].pc # "free" /\ tab'[t].route[r].pc = "free"
       /\ storage # None /\ storage' = None)
      => storage \in ranOut

\* Ended by hand, or by an event: no answer is handled.
LEMMA LoginSpares ==
    ASSUME IInv, NEW o \in Tabs, Become(o, ShowLogin(Forget(tab[o])))
    PROVE  \A t \in Tabs, r \in Slots : Spared(t, r)
<1>1. PICK b \in Tab : b = tab[o]
  BY TabIs
<1>2. PICK c : c = ShowLogin(Forget(b))
  OBVIOUS
<1>3. tab'[o] = c /\ \A t \in Tabs \ {o} : tab'[t] = tab[t]
  BY <1>1, <1>2, BecomeIs
<1>4. \A r \in Slots : c.route[r].pc = b.route[r].pc
  BY <1>2, LoginFrees
<1>5. QED
  BY <1>1, <1>3, <1>4 DEF Spared

\* A 401 ends the session only if it is the one it was sent for.
LEMMA UnauthorizedSpares ==
    ASSUME IInv, NEW o \in Tabs, NEW q \in Slots, ReceiveUnauthorized(o, q)
    PROVE  \A t \in Tabs, r \in Slots : Spared(t, r)
<1>1. PICK a \in Tab : a = tab[o]
  BY TabIs
<1>2. PICK b : b = Free(a, q)
  OBVIOUS
<1>3. PICK k : k = a.route[q].token
  OBVIOUS
<1>4. CASE ~EndsSession(a, k)
  <2>1. storage' = storage
    BY <1>1, <1>3, <1>4 DEF ReceiveUnauthorized
  <2>2. QED
    BY <2>1 DEF Spared
<1>5. CASE EndsSession(a, k)
  <2>1. PICK c : c = ShowLogin(Forget(b))
    OBVIOUS
  <2>2. /\ Expire(o, Read(b), events) /\ Become(o, c)
        /\ k \in ranOut
    BY <1>1, <1>2, <1>3, <1>5, <2>1 DEF ReceiveUnauthorized
  <2>3. /\ b \in Tab /\ SameAccount(a, b)
        /\ \A r \in Slots \ {q} : b.route[r] = a.route[r]
    BY <1>2, FreeIs
  <2>4. \A r \in Slots \ {q} : c.route[r].pc = a.route[r].pc
    <3>1. \A r \in Slots : c.route[r].pc = b.route[r].pc
      BY <2>1, <2>3, LoginFrees
    <3>2. QED
      BY <2>3, <3>1
  <2>5. storage' # storage => storage = k
    <3>1. Read(b) = k
      BY <1>5, <2>3 DEF EndsSession, Read, SameAccount
    <3>2. storage' # storage => storage = Read(b)
      BY <2>2 DEF Expire, Removes
    <3>3. QED
      BY <3>1, <3>2
    <2>6. tab'[o] = c /\ \A t \in Tabs \ {o} : tab'[t] = tab[t]
    BY <2>2, BecomeIs
  <2>7. ASSUME NEW t \in Tabs, NEW r \in Slots PROVE Spared(t, r)
    <3>1. CASE t # o \/ r # q
      BY <1>1, <2>4, <2>6, <3>1 DEF Spared
    <3>2. CASE t = o /\ r = q
      BY <2>2, <2>5 DEF Spared
    <3>3. QED
      BY <3>1, <3>2
  <2>8. QED
    BY <2>7
<1>6. QED
  BY <1>4, <1>5

\* A 401 never removes from the storage a token the server still accepts, whichever tab
\* it reaches and whatever was signed in since the request was sent: what the comparison
\* with getToken() in api.js and the one in expire() are for.
THEOREM LateAnswersAreHarmless == Spec => LateAnswersSpareSessions
<1>1. IInv /\ [Next]_vars =>
        [\A t \in Tabs, r \in Slots :
           (tab[t].route[r].pc # "free" /\ tab'[t].route[r].pc = "free"
              /\ storage # None /\ storage' = None)
             => storage \in ranOut]_vars
  <2>1. SUFFICES ASSUME IInv, Next PROVE \A t \in Tabs, r \in Slots : Spared(t, r)
    BY DEF Spared
  <2>2. CASE storage' = storage
    BY <2>2 DEF Spared
  <2>3. ASSUME NEW s \in Subjects, NEW o \in Tabs, SignIn(o, s)
        PROVE  \A t \in Tabs, r \in Slots : Spared(t, r)
    <3>1. storage' # None
      BY <2>3, BrowserSessionAssumption DEF SignIn, Store
    <3>2. QED
      BY <3>1 DEF Spared
  <2>4. ASSUME NEW o \in Tabs, SignOut(o)
        PROVE  \A t \in Tabs, r \in Slots : Spared(t, r)
    BY <2>1, <2>4, LoginSpares DEF SignOut
  <2>5. ASSUME NEW o \in Tabs, HandleEvent(o)
        PROVE  \A t \in Tabs, r \in Slots : Spared(t, r)
    <3>1. CASE HearEnded(o, Head(events[o]))
      BY <2>1, <3>1, LoginSpares DEF HearEnded
    <3>2. CASE HearReplaced(o, Head(events[o])) \/ HearNothing(o, Head(events[o]))
      <4>1. storage' = storage
        BY <3>2 DEF HearReplaced, HearNothing
      <4>2. QED
        BY <4>1 DEF Spared
    <3>3. QED
      BY <2>5, <3>1, <3>2 DEF HandleEvent
  <2>6. ASSUME NEW o \in Tabs, NEW q \in Slots, ReceiveUnauthorized(o, q)
        PROVE  \A t \in Tabs, r \in Slots : Spared(t, r)
    BY <2>1, <2>6, UnauthorizedSpares
  <2>7. ASSUME NEW o \in Tabs, Submit(o) \/ SignInFails(o) \/ Navigate(o)
        PROVE  storage' = storage
    BY <2>7 DEF Submit, SignInFails, Navigate
  <2>8. ASSUME NEW o \in Tabs, NEW q \in Slots,
               ReceiveFailure(o, q) \/ ReceiveMe(o, q) \/ ReceiveCaps(o, q)
        PROVE  storage' = storage
    BY <2>8 DEF ReceiveFailure, ReceiveMe, ReceiveCaps
  <2>9. ASSUME NEW k \in Tokens, RunOut(k) PROVE storage' = storage
    BY <2>9 DEF RunOut
  <2>10. QED
    BY <2>1, <2>2, <2>3, <2>4, <2>5, <2>6, <2>7, <2>8, <2>9 DEF Next, Session, Routing
<1>2. QED
  BY <1>1, SessionSafe, PTL DEF Spec, LateAnswersSpareSessions
------------------------------------------------------------------------------
(***************************************************************************)
(* What follows of the notice.                                             *)
(***************************************************************************)

Announced(t) == Switches(t) /\ shown'[t] # cut[t] => tab'[t].notice

\* A step that draws no account's view does not change whose it is.
LEMMA DrawsNothingAnnounces ==
    ASSUME IInv, NEW o \in Tabs, NEW c, Become(o, c), c \in Tab, Seen(o), DrawsNothing(o)
    PROVE  \A t \in Tabs : Announced(t)
<1>1. tab'[o] = c
  BY BecomeIs
<1>2. /\ \A t \in Tabs \ {o} : shown'[t] = shown[t]
      /\ shown'[o] \in {None, shown[o]} \/ Drew(tab[o], c)
  BY SeenIs DEF IInv
<1>3. c.view = "app" => shown'[o] \in {None, shown[o]}
  BY <1>1, <1>2 DEF Drew, DrawsNothing
<1>4. QED
  BY <1>1, <1>2, <1>3 DEF Announced, Switches

\* capabilities answer: the view is drawn with the notice the route decided on.
LEMMA CapsAnnounce ==
    ASSUME IInv, NEW o \in Tabs, NEW q \in Slots, ReceiveCaps(o, q)
    PROVE  \A t \in Tabs : Announced(t)
<1>1. PICK b \in Tab : b = tab[o]
  BY TabIs
<1>2. PICK d : d = Free(b, q)
  OBVIOUS
<1>3. PICK notice \in BOOLEAN : notice = b.route[q].notice
  BY <1>1 DEF Tab, Route
<1>4. PICK c : c = IF IsLatest(b.route[q]) THEN DrawAccount(d, "app", notice) ELSE d
  OBVIOUS
<1>5. Become(o, c) /\ Seen(o) /\ b.route[q].pc = "caps"
  BY <1>1, <1>2, <1>3, <1>4 DEF ReceiveCaps
<1>6. d \in Tab /\ d.drawn = b.drawn /\ SameAccount(b, d)
  BY <1>2, FreeIs
<1>7. tab'[o] = c
  BY <1>5, BecomeIs
<1>8. CASE ~b.route[q].mine
  <2>1. c = d
    BY <1>4, <1>8 DEF IsLatest
  <2>2. DrawsNothing(o)
    BY <1>1, <1>6, <1>7, <2>1 DEF DrawsNothing
  <2>3. QED
    BY <1>5, <1>6, <2>1, <2>2, DrawsNothingAnnounces
<1>9. CASE b.route[q].mine
  <2>1. c = DrawAccount(d, "app", notice)
    BY <1>4, <1>9 DEF IsLatest
  <2>2. c \in Tab /\ c.drawn = d.meToken /\ c.notice = notice /\ c.view = "app"
    <3>1. "app" \in Views
      BY DEF Views
    <3>2. QED
      BY <1>6, <2>1, <3>1, DrawAccountIs
  <2>3. /\ \A t \in Tabs \ {o} : shown'[t] = shown[t]
        /\ shown'[o] \in {None, shown[o], subject[b.meToken]}
    <3>1. c.drawn = b.meToken
      BY <1>6, <2>2 DEF SameAccount
    <3>2. QED
      BY <1>5, <2>2, <3>1, SeenIs DEF IInv
  <2>4. LastOf(o) # None => notice \/ subject[b.meToken] = LastOf(o)
    BY <1>1, <1>3, <1>5, <1>9, TabIs DEF Remembers, Mine
  <2>5. LastOf(o) \in {shown[o], cut[o]} /\ (LastOf(o) = None => shown[o] = None)
    BY DEF LastOf
  <2>6. ASSUME Switches(o), shown'[o] # cut[o] PROVE notice
    <3>1. shown'[o] = subject[b.meToken] /\ shown'[o] # shown[o] /\ shown[o] # None
      BY <2>3, <2>6 DEF Switches
    <3>2. QED
      BY <2>4, <2>5, <2>6, <3>1
  <2>7. QED
    BY <1>7, <2>2, <2>3, <2>6 DEF Announced, Switches
<1>10. QED
  BY <1>8, <1>9

\* The account whose view is on screen does not change to another tab's without the notice,
\* however many sessions replaced each other before one answered, and whatever was
\* navigated, retried or failed meanwhile, unless the switch to that very account was cut
\* off between its two answers.  crossTabPreviousSubject outlives `me', and is what the
\* answer is compared with.
THEOREM SwitchesAreAnnounced == Spec => SwitchIsAnnounced
<1>1. IInv /\ [Next]_vars =>
        [\A t \in Tabs :
           Switches(t) /\ shown'[t] # cut[t] => tab'[t].notice]_vars
  <2>1. SUFFICES ASSUME IInv, Next PROVE \A t \in Tabs : Announced(t)
    BY DEF Announced
  <2>2. ASSUME NEW o \in Tabs, tab'[o] \in Tab, Become(o, tab'[o]), Seen(o), DrawsNothing(o)
        PROVE  \A t \in Tabs : Announced(t)
    BY <2>1, <2>2, DrawsNothingAnnounces
  <2>3. \A o \in Tabs : tab'[o] \in Tab
    BY <2>1, NextKeeps DEF IInv, TypeOK
  <2>4. CASE shown' = shown
    BY <2>4 DEF Announced, Switches
  <2>5. ASSUME NEW o \in Tabs, NEW s \in Subjects, SignIn(o, s)
        PROVE  \A t \in Tabs : Announced(t)
    <3>1. shown' = [shown EXCEPT ![o] = None]
      BY <2>5 DEF SignIn
    <3>2. \A t \in Tabs : shown'[t] \in {None, shown[t]}
      BY <2>1, <3>1 DEF IInv, TypeOK
    <3>3. QED
      BY <3>2 DEF Announced, Switches
  <2>6. ASSUME NEW o \in Tabs, SignOut(o) \/ HandleEvent(o) \/ Navigate(o)
        PROVE  \A t \in Tabs : Announced(t)
    <3>1. DrawsNothing(o)
      BY <2>1, <2>6, SignOutStep, HandleEventStep, NavigateStep
    <3>2. Seen(o)
      BY <2>6 DEF SignOut, HandleEvent, Navigate
    <3>3. \E c : Become(o, c)
      BY <2>1, <2>6, TabIs
         DEF SignOut, HandleEvent, Navigate, HearEnded, HearReplaced, HearNothing, Become
    <3>4. Become(o, tab'[o])
      BY <2>1, <3>3, BecomeIs
    <3>5. QED
      BY <2>2, <2>3, <3>1, <3>2, <3>4
  <2>7. ASSUME NEW o \in Tabs, NEW q \in Slots,
               ReceiveUnauthorized(o, q) \/ ReceiveFailure(o, q) \/ ReceiveMe(o, q)
        PROVE  \A t \in Tabs : Announced(t)
    <3>1. DrawsNothing(o)
      BY <2>1, <2>7, ReceiveUnauthorizedStep, ReceiveFailureStep, ReceiveMeStep
    <3>2. Seen(o)
      BY <2>7 DEF ReceiveUnauthorized, ReceiveFailure, ReceiveMe
    <3>3. \E c : Become(o, c)
      BY <2>7 DEF ReceiveUnauthorized, ReceiveFailure, ReceiveMe
    <3>4. Become(o, tab'[o])
      BY <2>1, <3>3, BecomeIs
    <3>5. QED
      BY <2>2, <2>3, <3>1, <3>2, <3>4
  <2>8. ASSUME NEW o \in Tabs, NEW q \in Slots, ReceiveCaps(o, q)
        PROVE  \A t \in Tabs : Announced(t)
    BY <2>1, <2>8, CapsAnnounce
  <2>9. ASSUME NEW o \in Tabs, Submit(o) \/ SignInFails(o) PROVE shown' = shown
    BY <2>9 DEF Submit, SignInFails, history
  <2>10. ASSUME NEW k \in Tokens, RunOut(k) PROVE shown' = shown
    BY <2>10 DEF RunOut, history
  <2>11. QED
    BY <2>1, <2>4, <2>5, <2>6, <2>7, <2>8, <2>9, <2>10 DEF Next, Session, Routing
<1>2. QED
  BY <1>1, SessionSafe, PTL DEF Spec, SwitchIsAnnounced
=============================================================================
