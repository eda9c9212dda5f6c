---------------------------- MODULE ServiceProofs ----------------------------
(***************************************************************************)
(* What the parts that only read, or only decide, keep true: the two pages *)
(* of the web client that only read, access with its command-line client,  *)
(* the reads of one owner, the walks over the lists, and the timeline.     *)
(* Each part is proved on its own, and then for Service, in which it is    *)
(* one of several.                                                         *)
(***************************************************************************)
EXTENDS Service, Ranking

-----------------------------------------------------------------------------
(***************************************************************************)
(* The search box.                                                         *)
(***************************************************************************)
Answered == UNION {[S -> {"pending", "found", "none", "refused"}] :
                      S \in SUBSET (Shown \cup {"character", "account"})}

SearchTyped ==
    /\ typed \in Seq(Texts) /\ latest = Len(typed)
    /\ searches \in Seq({<<>>} \cup {<<a>> : a \in Answered}) /\ Len(searches) = Len(typed)
    /\ timer \in {0, latest}

\* A timer or a request is there for text only.
AsksForText ==
    /\ timer # 0 => typed[timer] # "blank"
    /\ \A k \in DOMAIN searches : Running(k) => typed[k] # "blank"

\* The last keystroke waits, is being answered, or is on screen.
LatestIsServed ==
    typed # <<>> =>
        \/ timer = latest
        \/ Running(latest)
        \/ /\ screen.of = latest
           /\ typed[latest] = "blank" <=> screen.says = Blank.says

SearchInv == SearchTyped /\ AsksForText /\ LatestIsServed

LEMMA SearchInitHolds == SearchInit => SearchInv
<1> SUFFICES ASSUME SearchInit PROVE SearchInv
  OBVIOUS
<1>1. typed = <<>> /\ searches = <<>> /\ latest = 0 /\ timer = 0
  BY DEF SearchInit
<1> QED
  BY <1>1 DEF SearchInv, SearchTyped, AsksForText, LatestIsServed, Running

LEMMA TypeKeeps == SearchInv /\ Type => SearchInv' /\ DrawnForTheBox /\ MissIsAMiss
<1> SUFFICES ASSUME SearchInv, NEW text \in Texts,
                    typed' = Append(typed, text), latest' = Bumped(latest, text),
                    IF text = "blank" THEN timer' = 0 /\ screen' = [Blank EXCEPT !.of = latest']
                    ELSE timer' = latest' /\ screen' = screen,
                    searches' = Append(searches, <<>>)
             PROVE  SearchInv' /\ DrawnForTheBox /\ MissIsAMiss
  BY DEF Type
<1> DEFINE n == Len(typed) + 1
<1>1. /\ typed \in Seq(Texts) /\ latest = Len(typed) /\ Len(searches) = Len(typed)
      /\ searches \in Seq({<<>>} \cup {<<a>> : a \in Answered})
  BY DEF SearchInv, SearchTyped
<1>2. /\ typed' \in Seq(Texts) /\ Len(typed') = n /\ latest' = n /\ n # 0
      /\ searches' \in Seq({<<>>} \cup {<<a>> : a \in Answered}) /\ Len(searches') = n
  BY <1>1 DEF Bumped
<1>3. /\ \A k \in 1 .. Len(typed) : typed'[k] = typed[k] /\ searches'[k] = searches[k]
      /\ typed'[n] = text /\ searches'[n] = <<>>
  BY <1>1
<1>4. SearchTyped'
  BY <1>2 DEF SearchTyped
<1>5. AsksForText'
  <2>1. timer' # 0 => typed'[timer'] # "blank"
    BY <1>2, <1>3
  <2>2. ASSUME NEW k \in DOMAIN searches', searches'[k] # <<>> PROVE typed'[k] # "blank"
    <3>1. k \in 1 .. Len(typed)
      BY <1>2, <1>3, <2>2
    <3> QED
      BY <1>1, <1>3, <2>2, <3>1 DEF SearchInv, AsksForText, Running
  <2> QED
    BY <2>1, <2>2 DEF AsksForText, Running
<1>6. text = "blank" => screen'.of = n /\ screen'.says = Blank.says
  BY <1>2 DEF Blank
<1>7. LatestIsServed'
  BY <1>2, <1>3, <1>6 DEF LatestIsServed
<1>8. DrawnForTheBox
  BY <1>2, <1>6 DEF DrawnForTheBox
<1>9. MissIsAMiss
  <2> SUFFICES ASSUME NEW k \in DOMAIN searches, searches[k] # <<>>, searches'[k] = <<>>
               PROVE  FALSE
    BY DEF MissIsAMiss, Running
  <2>1. k \in 1 .. Len(typed)
    BY <1>1
  <2> QED
    BY <1>3, <2>1
<1> QED
  BY <1>4, <1>5, <1>7, <1>8, <1>9 DEF SearchInv

LEMMA TimerKeeps == SearchInv /\ TimerFires => SearchInv'
<1> SUFFICES ASSUME SearchInv, TimerFires PROVE SearchInv'
  OBVIOUS
<1> DEFINE asked == [r \in Requests(typed[timer]) |-> "pending"]
<1>1. /\ typed \in Seq(Texts) /\ latest = Len(typed) /\ Len(searches) = Len(typed)
      /\ searches \in Seq({<<>>} \cup {<<a>> : a \in Answered}) /\ timer \in {0, latest}
  BY DEF SearchInv, SearchTyped
<1>2. /\ timer # 0 /\ timer' = 0 /\ UNCHANGED <<typed, latest, screen>>
      /\ searches' = [searches EXCEPT ![timer] = <<asked>>]
  BY DEF TimerFires
<1>3. timer \in 1 .. Len(typed)
  BY <1>1, <1>2
<1>4. asked \in Answered
  <2>1. Requests(typed[timer]) \in SUBSET (Shown \cup {"character", "account"})
    BY <1>1, <1>3 DEF Requests, Texts
  <2> QED
    BY <2>1 DEF Answered
<1> HIDE DEF asked
<1>5. /\ searches' \in Seq({<<>>} \cup {<<a>> : a \in Answered}) /\ Len(searches') = Len(typed)
      /\ \A k \in 1 .. Len(typed) : searches'[k] = IF k = timer THEN <<asked>> ELSE searches[k]
  BY <1>1, <1>2, <1>3, <1>4
<1>6. SearchTyped'
  BY <1>1, <1>2, <1>5 DEF SearchTyped
<1>7. AsksForText'
  BY <1>1, <1>2, <1>3, <1>5 DEF SearchInv, AsksForText, Running
<1>8. <<asked>> # <<>>
  OBVIOUS
<1>9. LatestIsServed'
  BY <1>1, <1>2, <1>3, <1>5, <1>8 DEF LatestIsServed, Running
<1> QED
  BY <1>6, <1>7, <1>9 DEF SearchInv

\* A sequence with one of its elements replaced.
LEMMA OneReplaced ==
  ASSUME NEW D, NEW q \in Seq(D), NEW i \in 1 .. Len(q), NEW d \in D
  PROVE  /\ [q EXCEPT ![i] = d] \in Seq(D) /\ Len([q EXCEPT ![i] = d]) = Len(q)
         /\ \A j \in 1 .. Len(q) : [q EXCEPT ![i] = d][j] = IF j = i THEN d ELSE q[j]
  OBVIOUS

\* A search that runs is one record of answers.
LEMMA RunningIsOne ==
  ASSUME SearchTyped, NEW k \in DOMAIN searches, Running(k)
  PROVE  \E a \in Answered : searches[k] = <<a>>
  BY DEF SearchTyped, Running

LEMMA SettlesKeeps == SearchInv /\ RequestSettles => SearchInv'
<1> SUFFICES ASSUME SearchInv, NEW k \in DOMAIN searches, Running(k),
                    NEW r \in DOMAIN searches[k][1], NEW v \in {"found", "none", "refused"},
                    searches' = [searches EXCEPT ![k][1][r] = v],
                    UNCHANGED <<typed, latest, timer, screen>>
             PROVE  SearchInv'
  BY DEF RequestSettles
<1>1. /\ typed \in Seq(Texts) /\ latest = Len(typed) /\ Len(searches) = Len(typed)
      /\ searches \in Seq({<<>>} \cup {<<a>> : a \in Answered}) /\ timer \in {0, latest}
  BY DEF SearchInv, SearchTyped
<1>2. PICK a \in Answered : searches[k] = <<a>>
  BY RunningIsOne DEF SearchInv
<1> DEFINE b == [a EXCEPT ![r] = v]
<1>3. b \in Answered
  <2>1. PICK S \in SUBSET (Shown \cup {"character", "account"}) :
          a \in [S -> {"pending", "found", "none", "refused"}]
    BY DEF Answered
  <2>2. b \in [S -> {"pending", "found", "none", "refused"}]
    BY <2>1
  <2> QED
    BY <2>2 DEF Answered
<1>4. searches' = [searches EXCEPT ![k] = <<b>>]
  <2>1. searches[k][1] = a
    BY <1>2
  <2>2. [<<a>> EXCEPT ![1] = b] = <<b>>
    <3> HIDE DEF b
    <3> QED
      OBVIOUS
  <2>3. searches' =
          [searches EXCEPT ![k] = [searches[k] EXCEPT ![1] = [searches[k][1] EXCEPT ![r] = v]]]
    OBVIOUS
  <2> QED
    BY <1>2, <2>1, <2>2, <2>3
<1> HIDE DEF b
<1>5. /\ searches' \in Seq({<<>>} \cup {<<x>> : x \in Answered}) /\ Len(searches') = Len(typed)
      /\ \A j \in 1 .. Len(typed) : searches'[j] = IF j = k THEN <<b>> ELSE searches[j]
  <2>1. <<b>> \in {<<>>} \cup {<<x>> : x \in Answered}
    BY <1>3
  <2>2. k \in 1 .. Len(typed)
    BY <1>1
  <2> DEFINE D == {<<>>} \cup {<<x>> : x \in Answered}
  <2>3. searches \in Seq(D) /\ <<b>> \in D
    BY <1>1, <2>1
  <2> HIDE DEF D
  <2>4. /\ [searches EXCEPT ![k] = <<b>>] \in Seq(D)
        /\ Len([searches EXCEPT ![k] = <<b>>]) = Len(searches)
        /\ \A j \in 1 .. Len(searches) :
              [searches EXCEPT ![k] = <<b>>][j] = IF j = k THEN <<b>> ELSE searches[j]
    BY <1>1, <2>2, <2>3, OneReplaced
  <2> QED
    BY <1>1, <1>4, <2>4 DEF D
<1>6. SearchTyped'
  BY <1>1, <1>5 DEF SearchTyped
<1>7. \A j \in 1 .. Len(typed) : searches'[j] # <<>> <=> searches[j] # <<>>
  <2>1. <<b>> # <<>> /\ <<a>> # <<>>
    OBVIOUS
  <2> QED
    BY <1>2, <1>5, <2>1
<1>8. AsksForText'
  BY <1>1, <1>5, <1>7 DEF SearchInv, AsksForText, Running
<1>9. LatestIsServed'
  <2>1. typed # <<>> => latest \in 1 .. Len(typed)
    BY <1>1
  <2> QED
    BY <1>7, <2>1 DEF SearchInv, LatestIsServed, Running
<1> QED
  BY <1>6, <1>8, <1>9 DEF SearchInv

\* What a group says: a refusal is heard, and nothing is bare.
LEMMA SaysTruly ==
  ASSUME NEW answers, NEW g
  PROVE  /\ Says(answers, g) # "nothing"
         /\ \A r \in DOMAIN answers : GroupOf(r) = g /\ answers[r] = "refused" =>
               Says(answers, g) \in {"problem", "found and problem"}
<1> DEFINE got == {answers[r] : r \in {q \in DOMAIN answers : GroupOf(q) = g}}
<1>1. Says(answers, g) = CASE "refused" \in got /\ "found" \in got -> "found and problem"
                           [] "refused" \in got /\ "found" \notin got -> "problem"
                           [] "refused" \notin got /\ "found" \in got -> "found"
                           [] OTHER -> "none"
  BY DEF Says
<1>2. \A r \in DOMAIN answers : GroupOf(r) = g /\ answers[r] = "refused" => "refused" \in got
  OBVIOUS
<1> HIDE DEF got
<1>3. "refused" \in got => Says(answers, g) \in {"problem", "found and problem"}
  BY <1>1
<1>4. "refused" \notin got => Says(answers, g) \in {"found", "none"}
  BY <1>1
<1> QED
  BY <1>2, <1>3, <1>4

LEMMA EndsKeep == SearchInv /\ SearchEnds => SearchInv' /\ DrawnForTheBox /\ MissIsAMiss
<1> SUFFICES ASSUME SearchInv, NEW k \in DOMAIN searches, NEW shape \in {"usable", "unusable"},
                    Running(k), searches' = [searches EXCEPT ![k] = <<>>],
                    screen' = IF ~Wanted(k) THEN screen
                              ELSE [of |-> k, says |-> [g \in Shown |->
                                 IF shape = "usable" THEN Says(searches[k][1], g) ELSE "problem"]],
                    UNCHANGED <<typed, latest, timer>>
             PROVE  SearchInv' /\ DrawnForTheBox /\ MissIsAMiss
  BY DEF SearchEnds
<1>1. /\ typed \in Seq(Texts) /\ latest = Len(typed) /\ Len(searches) = Len(typed)
      /\ searches \in Seq({<<>>} \cup {<<a>> : a \in Answered}) /\ timer \in {0, latest}
      /\ k \in 1 .. Len(typed)
  BY DEF SearchInv, SearchTyped
<1>2. /\ searches' \in Seq({<<>>} \cup {<<x>> : x \in Answered}) /\ Len(searches') = Len(typed)
      /\ \A j \in 1 .. Len(typed) : searches'[j] = IF j = k THEN <<>> ELSE searches[j]
  BY <1>1
<1>3. SearchTyped'
  BY <1>1, <1>2 DEF SearchTyped
<1>4. AsksForText'
  BY <1>1, <1>2 DEF SearchInv, AsksForText, Running
<1>5. k = latest => screen'.of = latest /\ screen'.says # Blank.says
  <2>1. ASSUME k = latest PROVE screen'.of = latest /\ screen'.says # Blank.says
    <3> DEFINE says == [g \in Shown |->
                 IF shape = "usable" THEN Says(searches[k][1], g) ELSE "problem"]
    <3>1. screen'.of = k /\ screen'.says = says
      BY <2>1 DEF Wanted
    <3>2. "characters" \in Shown
      BY DEF Shown
    <3>3. says["characters"] # "nothing"
      BY <3>2, SaysTruly
    <3>4. Blank.says["characters"] = "nothing"
      BY <3>2 DEF Blank
    <3> QED
      BY <2>1, <3>1, <3>3, <3>4
  <2> QED
    BY <2>1
<1>6. k # latest => screen' = screen
  BY DEF Wanted
<1>7. typed[k] # "blank"
  BY DEF SearchInv, AsksForText
<1>8. LatestIsServed'
  <2>1. CASE k = latest
    BY <1>5, <1>7, <2>1 DEF LatestIsServed
  <2>2. CASE k # latest
    <3>1. typed # <<>> => latest \in 1 .. Len(typed)
      BY <1>1
    <3> QED
      BY <1>2, <1>6, <2>2, <3>1 DEF SearchInv, LatestIsServed, Running
  <2> QED
    BY <2>1, <2>2
<1>9. DrawnForTheBox
  BY <1>1, <1>5, <1>6 DEF DrawnForTheBox
<1>10. MissIsAMiss
  <2> SUFFICES ASSUME NEW j \in DOMAIN searches, Running(j), screen' # screen,
                      NEW r \in DOMAIN searches[j][1], searches[j][1][r] = "refused",
                      searches'[j] = <<>>
               PROVE  screen'.says[GroupOf(r)] \in {"problem", "found and problem"}
    BY DEF MissIsAMiss
  <2>1. j = k
    BY <1>1, <1>2 DEF Running
  <2>2. screen'.says = [g \in Shown |->
                 IF shape = "usable" THEN Says(searches[k][1], g) ELSE "problem"]
    BY DEF Wanted
  <2>3. GroupOf(r) \in Shown
    BY DEF GroupOf, Shown
  <2>4. screen'.says[GroupOf(r)] =
          IF shape = "usable" THEN Says(searches[k][1], GroupOf(r)) ELSE "problem"
    BY <2>2, <2>3
  <2> QED
    BY <2>1, <2>4, SaysTruly
<1> QED
  BY <1>3, <1>4, <1>8, <1>9, <1>10 DEF SearchInv

LEMMA SearchNextKeeps ==
  SearchInv /\ [SearchNext]_searchVars =>
    SearchInv' /\ [DrawnForTheBox /\ MissIsAMiss]_searchVars
<1> SUFFICES ASSUME SearchInv, [SearchNext]_searchVars
             PROVE  SearchInv' /\ [DrawnForTheBox /\ MissIsAMiss]_searchVars
  OBVIOUS
<1>1. CASE Type
  BY <1>1, TypeKeeps
<1>2. CASE TimerFires
  BY <1>2, TimerKeeps DEF TimerFires, DrawnForTheBox, MissIsAMiss
<1>3. CASE RequestSettles
  BY <1>3, SettlesKeeps DEF RequestSettles, DrawnForTheBox, MissIsAMiss
<1>4. CASE SearchEnds
  BY <1>4, EndsKeep
<1>5. CASE UNCHANGED searchVars
  BY <1>5 DEF searchVars, SearchInv, SearchTyped, AsksForText, LatestIsServed, Running
<1> QED
  BY <1>1, <1>2, <1>3, <1>4, <1>5 DEF SearchNext

\* When nothing is under way any more, the screen is about what the box holds
\* (renderSearch).
LEMMA SearchShowsTheBoxAlone == SearchSpec => []QuietShowsTheBox
<1>1. SearchInv => QuietShowsTheBox
  <2> SUFFICES ASSUME SearchInv, typed # <<>>, timer = 0, \A k \in DOMAIN searches : ~Running(k)
               PROVE  /\ screen.of = Len(typed)
                      /\ typed[Len(typed)] = "blank" <=> screen.says = Blank.says
    BY DEF QuietShowsTheBox
  <2>1. latest = Len(typed) /\ latest # 0 /\ latest \in DOMAIN searches
    BY DEF SearchInv, SearchTyped
  <2> QED
    BY <2>1 DEF SearchInv, LatestIsServed
<1> QED
  BY SearchInitHolds, SearchNextKeeps, <1>1, PTL DEF SearchSpec

\* Nothing is drawn for what was typed before, and no refusal is read as a miss
\* (renderSearch, statusSentences).
LEMMA SearchDrawsTrulyAlone == SearchSpec => DrawingIsTrue
  BY SearchInitHolds, SearchNextKeeps, PTL DEF SearchSpec, DrawingIsTrue

-----------------------------------------------------------------------------
(***************************************************************************)
(* The dossier.                                                            *)
(***************************************************************************)
Stages == {"parts", "account", "draw", "over"}
Load == [at : Stages, got : [Parts -> Int]]
PageRecord == [of : Nat, got : [Parts -> Int], problem : BOOLEAN, half : BOOLEAN]

DossierTyped == loads \in Seq(Load) /\ page \in PageRecord /\ fact \in Nat

\* The page is of a refresh that is over; once the last is over, the page is of
\* it or says that it is not.
PageInv ==
    /\ DossierTyped
    /\ newest = Len(loads) /\ newest # 0
    /\ page.of # 0 => page.of \in DOMAIN loads /\ loads[page.of].at = "over"
    /\ loads[newest].at = "over" => (page.problem <=> page.of # newest \/ page.half)

LEMMA NotReadIsOne == NotRead \in [Parts -> Int]
  BY DEF NotRead, Pending

LEMMA PageInitHolds == DossierInit => PageInv
<1> SUFFICES ASSUME DossierInit PROVE PageInv
  OBVIOUS
<1>1. [at |-> "parts", got |-> NotRead] \in Load
  BY NotReadIsOne DEF Load, Stages
<1>2. page \in PageRecord
  <2>1. page = [of |-> 0, got |-> NotRead, problem |-> FALSE, half |-> FALSE]
    BY DEF DossierInit
  <2>2. 0 \in Nat /\ FALSE \in BOOLEAN
    OBVIOUS
  <2> QED
    BY <2>1, <2>2, NotReadIsOne, Zenon DEF PageRecord
<1>3. /\ loads = <<[at |-> "parts", got |-> NotRead]>> /\ newest = 1 /\ fact = 0
      /\ page.of = 0
  BY DEF DossierInit
<1> QED
  BY <1>1, <1>2, <1>3 DEF PageInv, DossierTyped

\* A refresh that is not over moves on, and nothing else does.
LEMMA StepKeeps ==
  ASSUME PageInv, NEW k \in DOMAIN loads, NEW next \in Load,
         loads[k].at # "over", next.at # "over",
         loads' = [loads EXCEPT ![k] = next], UNCHANGED <<fact, newest, page>>
  PROVE  PageInv'
<1>1. /\ loads \in Seq(Load) /\ newest = Len(loads) /\ newest # 0 /\ page \in PageRecord
      /\ k \in 1 .. Len(loads)
  BY DEF PageInv, DossierTyped
<1>2. /\ loads' \in Seq(Load) /\ Len(loads') = Len(loads)
      /\ \A j \in 1 .. Len(loads) : loads'[j] = IF j = k THEN next ELSE loads[j]
  BY <1>1, OneReplaced
<1>3. page.of # 0 => page.of \in 1 .. Len(loads) /\ loads[page.of].at = "over"
  BY <1>1 DEF PageInv
<1> QED
  BY <1>1, <1>2, <1>3 DEF PageInv, DossierTyped

\* The record a refresh becomes when one of its fields is set.
LEMMA LoadKeeps ==
  ASSUME NEW l \in Load, NEW at \in Stages
  PROVE  [l EXCEPT !.at = at] \in Load /\ [l EXCEPT !.at = at].at = at
  BY DEF Load

\* So is the record that has one more answer.
LEMMA GotKeeps ==
  ASSUME NEW l \in Load, NEW p \in Parts, NEW v \in Int
  PROVE  [l EXCEPT !.got[p] = v] \in Load /\ [l EXCEPT !.got[p] = v].at = l.at
  BY DEF Load

LEMMA RefreshKeeps == PageInv /\ Refresh => PageInv'
<1> SUFFICES ASSUME PageInv, Refresh PROVE PageInv'
  OBVIOUS
<1> DEFINE first == [at |-> "parts", got |-> NotRead]
<1>1. loads \in Seq(Load) /\ newest = Len(loads) /\ page \in PageRecord /\ fact \in Nat
  BY DEF PageInv, DossierTyped
<1>2. /\ newest' = newest + 1 /\ loads' = Append(loads, first)
      /\ UNCHANGED <<fact, page>>
  BY DEF Refresh
<1>3. first \in Load /\ first.at # "over"
  BY NotReadIsOne DEF Load, Stages
<1> HIDE DEF first
<1>4. /\ loads' \in Seq(Load) /\ Len(loads') = Len(loads) + 1
      /\ loads'[Len(loads) + 1] = first /\ \A j \in 1 .. Len(loads) : loads'[j] = loads[j]
  BY <1>1, <1>2, <1>3
<1>5. page.of # 0 => page.of \in 1 .. Len(loads) /\ loads[page.of].at = "over"
  BY <1>1 DEF PageInv
<1> QED
  BY <1>1, <1>2, <1>3, <1>4, <1>5 DEF PageInv, DossierTyped

LEMMA AnswerKeeps == PageInv /\ PartAnswered => PageInv'
<1> SUFFICES ASSUME PageInv, NEW k \in DOMAIN loads, NEW p \in Parts, NEW v \in {fact, Failed},
                    loads[k].at = "parts", loads' = [loads EXCEPT ![k].got[p] = v],
                    UNCHANGED <<fact, newest, page>>
             PROVE  PageInv'
  BY DEF PartAnswered
<1>1. loads[k] \in Load /\ v \in Int /\ "parts" \in Stages
  BY DEF PageInv, DossierTyped, Failed, Stages
<1>2. [loads[k] EXCEPT !.got[p] = v] \in Load /\ [loads[k] EXCEPT !.got[p] = v].at = "parts"
  BY <1>1, GotKeeps, Zenon
<1> QED
  BY <1>2, StepKeeps

LEMMA ArriveKeeps == PageInv /\ (PartsArrive \/ AccountArrives) => PageInv'
<1> SUFFICES ASSUME PageInv, NEW k \in DOMAIN loads, NEW at \in {"account", "draw"},
                    loads[k].at \in {"parts", "account"}, loads' = [loads EXCEPT ![k].at = at],
                    UNCHANGED <<fact, newest, page>>
             PROVE  PageInv'
  BY DEF PartsArrive, AccountArrives, Stage
<1>1. loads[k] \in Load /\ at \in Stages
  BY DEF PageInv, DossierTyped, Stages
<1>2. [loads[k] EXCEPT !.at = at] \in Load /\ [loads[k] EXCEPT !.at = at].at = at
  BY <1>1, LoadKeeps
<1> QED
  BY <1>2, StepKeeps

\* A refresh ends: the page is not of it yet, and either stays what it was or, for
\* the last one, is repainted or complains.
LEMMA EndKeeps ==
  ASSUME PageInv, NEW k \in DOMAIN loads, loads[k].at # "over", Ends(k),
         page' \in PageRecord, UNCHANGED <<fact, newest>>,
         k # newest => page' = page,
         k = newest => \/ page'.of = page.of /\ page'.problem
                       \/ page'.of = k /\ (page'.problem <=> page'.half)
  PROVE  PageInv'
<1> DEFINE over == [at |-> "over", got |-> NotRead]
<1>1. /\ loads \in Seq(Load) /\ newest = Len(loads) /\ newest # 0
      /\ k \in 1 .. Len(loads) /\ fact \in Nat
  BY DEF PageInv, DossierTyped
<1>2. over \in Load /\ over.at = "over"
  BY NotReadIsOne DEF Load, Stages
<1>3. loads' = [loads EXCEPT ![k] = over]
  BY DEF Ends
<1> HIDE DEF over
<1>4. /\ loads' \in Seq(Load) /\ Len(loads') = Len(loads)
      /\ \A j \in 1 .. Len(loads) : loads'[j] = IF j = k THEN over ELSE loads[j]
  BY <1>1, <1>2, <1>3, OneReplaced
<1>5. page.of # 0 => page.of \in 1 .. Len(loads) /\ loads[page.of].at = "over"
  BY <1>1 DEF PageInv
<1>6. page.of # k
  BY <1>1, <1>5
<1>7. page'.of # 0 => page'.of \in DOMAIN loads' /\ loads'[page'.of].at = "over"
  BY <1>1, <1>2, <1>4, <1>5
<1>8. loads'[newest].at = "over" => (page'.problem <=> page'.of # newest \/ page'.half)
  <2>1. CASE k = newest
    BY <1>6, <2>1
  <2>2. CASE k # newest
    <3>1. loads'[newest] = loads[newest] /\ page' = page
      BY <1>1, <1>4, <2>2
    <3> QED
      BY <3>1 DEF PageInv
  <2> QED
    BY <2>1, <2>2
<1> QED
  BY <1>1, <1>4, <1>7, <1>8 DEF PageInv, DossierTyped

\* The page that complains is the page as it was, with its problem line.
LEMMA ComplaintIsAPage ==
  ASSUME page \in PageRecord
  PROVE  LET q == [page EXCEPT !.problem = TRUE]
         IN  q \in PageRecord /\ q.of = page.of /\ q.problem
  BY Zenon DEF PageRecord

LEMMA ComplainKeeps == PageInv /\ Complain => PageInv'
<1> SUFFICES ASSUME PageInv, NEW k \in DOMAIN loads, loads[k].at = "parts", Ends(k),
                    page' = IF k = newest THEN [page EXCEPT !.problem = TRUE] ELSE page,
                    UNCHANGED <<fact, newest>>
             PROVE  PageInv'
  BY DEF Complain, MayComplain
<1>1. page \in PageRecord
  BY DEF PageInv, DossierTyped
<1>2. page' \in PageRecord /\ (k # newest => page' = page)
      /\ (k = newest => page'.of = page.of /\ page'.problem)
  BY <1>1, ComplaintIsAPage
<1>3. loads[k].at # "over"
  OBVIOUS
<1> QED
  BY <1>2, <1>3, EndKeeps

LEMMA DrawKeeps == PageInv /\ Draw => PageInv'
<1> SUFFICES ASSUME PageInv, NEW k \in DOMAIN loads, NEW shape \in {"usable", "unusable"},
                    NEW half \in BOOLEAN, loads[k].at = "draw", Ends(k),
                    IF k = newest /\ shape = "usable"
                    THEN page' = [of |-> k, got |-> loads[k].got, problem |-> half, half |-> half]
                    ELSE page' = IF k = newest THEN [page EXCEPT !.problem = TRUE] ELSE page,
                    UNCHANGED <<fact, newest>>
             PROVE  PageInv'
  BY Zenon DEF Draw, MayDraw
<1>1. page \in PageRecord /\ loads[k] \in Load /\ k \in Nat
  BY DEF PageInv, DossierTyped
<1>2. loads[k].got \in [Parts -> Int]
  BY <1>1 DEF Load
<1>3. loads[k].at # "over"
  OBVIOUS
<1>4. CASE k = newest /\ shape = "usable"
  <2>1. page' = [of |-> k, got |-> loads[k].got, problem |-> half, half |-> half]
    BY <1>4
  <2>2. page' \in PageRecord
    BY <1>1, <1>2, <2>1, Zenon DEF PageRecord
  <2>3. page'.of = k /\ page'.problem = half /\ page'.half = half
    BY <2>1, Zenon
  <2> QED
    BY <1>3, <1>4, <2>2, <2>3, EndKeeps
<1>5. CASE ~(k = newest /\ shape = "usable")
  <2>1. page' \in PageRecord /\ (k # newest => page' = page)
        /\ (k = newest => page'.of = page.of /\ page'.problem)
    BY <1>1, <1>5, ComplaintIsAPage
  <2> QED
    BY <1>3, <2>1, EndKeeps
<1> QED
  BY <1>4, <1>5

LEMMA DossierNextKeeps == PageInv /\ [DossierNext]_dossierVars => PageInv'
<1> SUFFICES ASSUME PageInv, [DossierNext]_dossierVars PROVE PageInv'
  OBVIOUS
<1>1. CASE FactChanges
  BY <1>1 DEF FactChanges, PageInv, DossierTyped
<1>2. CASE UNCHANGED dossierVars
  BY <1>2 DEF dossierVars, PageInv, DossierTyped
<1> QED
  BY <1>1, <1>2, RefreshKeeps, AnswerKeeps, ArriveKeeps, DrawKeeps, ComplainKeeps
  DEF DossierNext

\* When no refresh is under way any more, the page is that of the last one or says
\* that it is not (refresh).
LEMMA QuietDossierIsLatestAlone == DossierSpec => []QuietPageIsLatest
<1>1. PageInv => QuietPageIsLatest
  BY DEF PageInv, DossierTyped, QuietPageIsLatest
<1> QED
  BY PageInitHolds, DossierNextKeeps, <1>1, PTL DEF DossierSpec

-----------------------------------------------------------------------------
(***************************************************************************)
(* Access and the command-line client: whoever is let through was given it,*)
(* and the exit status of roadmin tells what became of the request.        *)
(***************************************************************************)
USE GroupAssumption, ScopeAssumption, TtlAssumption

Token == [lvl : KnownLevels, scopes : {Unscoped} \cup SUBSET Permissions, exp : Nat, secret : Nat]

AccessTyped ==
    /\ now \in Nat /\ secret \in Nat /\ group \in Groups \cup {-1}
    /\ tokens \in Seq(Token)
    /\ told \in Seq(Seq(SUBSET Permissions)) /\ Len(told) = Len(tokens)

HeldTyped ==
    /\ heldAt \in [Groups -> Int]
    /\ group \in Groups => heldAt[group] = now
    /\ \A g \in Groups : heldAt[g] <= now

\* The level of a sign-in was held until no more than the token's life ago.
LevelsWereHeld ==
    \A t \in DOMAIN tokens :
        tokens[t].scopes = Unscoped /\ tokens[t].lvl # Player =>
            /\ tokens[t].lvl \in Groups
            /\ heldAt[tokens[t].lvl] >= 0
            /\ tokens[t].exp <= heldAt[tokens[t].lvl] + Ttl

\* A client was told of a token what the decision still says of it.
ToldIsPermitted ==
    \A t \in DOMAIN told : \A i \in DOMAIN told[t] : told[t][i] = PermissionsOf(t)

\* The last answer is what the gate says of its token now.
AnswerStands ==
    /\ answer.status \in {200, 403} =>
         /\ answer.token \in DOMAIN tokens /\ answer.permission \in Permissions
         /\ Valid(answer.token)
    /\ answer.status = 200 => IsPermitted(answer.token, answer.permission)
    /\ answer.status = 403 => ~IsPermitted(answer.token, answer.permission)

AccessInv == AccessTyped /\ HeldTyped /\ LevelsWereHeld /\ ToldIsPermitted /\ AnswerStands

-----------------------------------------------------------------------------
(***************************************************************************)
(* Access.                                                                 *)
(***************************************************************************)
LEMMA NoAnswerStands == answer' = NoAnswer => AnswerStands'
  BY DEF NoAnswer, AnswerStands

LEMMA AccessInitHolds == AccessInit => AccessInv
<1> SUFFICES ASSUME AccessInit PROVE AccessInv
  OBVIOUS
<1>1. tokens = <<>> /\ told = <<>> /\ now = 0 /\ secret = 1 /\ group \in Groups
  BY DEF AccessInit
<1>2. AccessTyped
  BY <1>1 DEF AccessTyped
<1>3. heldAt = [g \in Groups |-> IF g = group THEN 0 ELSE -1]
  BY DEF AccessInit
<1>4. HeldTyped
  BY <1>1, <1>3 DEF HeldTyped
<1>5. AnswerStands
  BY DEF AccessInit, NoAnswer, AnswerStands
<1>6. LevelsWereHeld /\ ToldIsPermitted
  BY <1>1 DEF LevelsWereHeld, ToldIsPermitted
<1> QED
  BY <1>2, <1>4, <1>5, <1>6 DEF AccessInv

\* What is permitted depends on the tokens alone.
LEMMA PermissionsStay ==
  ASSUME UNCHANGED tokens, NEW t
  PROVE  PermissionsOf(t)' = PermissionsOf(t)
  BY DEF PermissionsOf, IsPermitted

\* Later times at which a group was held keep every level earned.
LEMMA LaterTimesKeep ==
  ASSUME AccessInv, UNCHANGED <<tokens, told, secret>>, answer' = NoAnswer,
         now' \in Nat, group' \in Groups \cup {-1}, HeldTyped',
         \A g \in Groups : heldAt'[g] >= heldAt[g]
  PROVE  AccessInv'
<1>1. AccessTyped'
  BY DEF AccessInv, AccessTyped
<1>2. LevelsWereHeld'
  <2>1. SUFFICES ASSUME NEW t \in DOMAIN tokens, tokens[t].scopes = Unscoped,
                        tokens[t].lvl # Player
                 PROVE  /\ tokens[t].lvl \in Groups
                        /\ heldAt'[tokens[t].lvl] >= 0
                        /\ tokens[t].exp <= heldAt'[tokens[t].lvl] + Ttl
    BY DEF LevelsWereHeld
  <2>2. /\ tokens[t].lvl \in Groups
        /\ heldAt[tokens[t].lvl] >= 0
        /\ tokens[t].exp <= heldAt[tokens[t].lvl] + Ttl
    BY <2>1 DEF AccessInv, LevelsWereHeld
  <2>3. heldAt \in [Groups -> Int] /\ heldAt' \in [Groups -> Int]
    BY DEF AccessInv, HeldTyped
  <2>4. tokens[t] \in Token
    BY <2>1 DEF AccessInv, AccessTyped
  <2>5. tokens[t].exp \in Nat
    BY <2>4 DEF Token
  <2> HIDE DEF Token
  <2> DEFINE l == tokens[t].lvl
  <2>6. heldAt[l] \in Int /\ heldAt'[l] \in Int /\ heldAt'[l] >= heldAt[l]
    BY <2>2, <2>3
  <2> HIDE DEF l
  <2>7. l \in Groups /\ heldAt[l] >= 0 /\ tokens[t].exp <= heldAt[l] + Ttl
    BY <2>2 DEF l
  <2>8. heldAt'[l] >= 0 /\ tokens[t].exp <= heldAt'[l] + Ttl
    BY <2>5, <2>6, <2>7
  <2> QED
    BY <2>7, <2>8 DEF l
<1>3. ToldIsPermitted'
  BY PermissionsStay DEF AccessInv, ToldIsPermitted
<1> QED
  BY <1>1, <1>2, <1>3, NoAnswerStands DEF AccessInv

LEMMA SecondKeeps == AccessInv /\ SecondPasses => AccessInv'
<1> SUFFICES ASSUME AccessInv, SecondPasses PROVE AccessInv'
  OBVIOUS
<1>1. /\ now' = now + 1 /\ now \in Nat /\ group' = group
      /\ heldAt' = [g \in Groups |-> IF g = group THEN now' ELSE heldAt[g]]
  BY DEF SecondPasses, AccessInv, AccessTyped
<1>2. HeldTyped'
  BY <1>1 DEF AccessInv, HeldTyped
<1>3. \A g \in Groups : heldAt'[g] >= heldAt[g]
  BY <1>1 DEF AccessInv, HeldTyped
<1> QED
  BY <1>1, <1>2, <1>3, LaterTimesKeep DEF SecondPasses, AccessInv, AccessTyped

LEMMA SetGroupKeeps == AccessInv /\ SetGroup => AccessInv'
<1> SUFFICES ASSUME AccessInv, SetGroup PROVE AccessInv'
  OBVIOUS
<1>1. PICK g \in Groups \cup {-1} :
        /\ group' = g
        /\ heldAt' = IF g = -1 THEN heldAt ELSE [heldAt EXCEPT ![g] = now]
  BY DEF SetGroup
<1>2. now' = now /\ now \in Nat
  BY DEF SetGroup, AccessInv, AccessTyped
<1>3. HeldTyped'
  BY <1>1, <1>2 DEF AccessInv, HeldTyped
<1>4. \A h \in Groups : heldAt'[h] >= heldAt[h]
  BY <1>1, <1>2 DEF AccessInv, HeldTyped
<1> QED
  BY <1>1, <1>2, <1>3, <1>4, LaterTimesKeep DEF SetGroup, AccessInv, AccessTyped

LEMMA RotateSecretKeeps == AccessInv /\ RotateSecret => AccessInv'
<1> SUFFICES ASSUME AccessInv, RotateSecret PROVE AccessInv'
  OBVIOUS
<1>1. UNCHANGED <<now, group, tokens, told, heldAt>> /\ secret' = secret + 1 /\ answer' = NoAnswer
  BY DEF RotateSecret
<1>2. AccessTyped' /\ HeldTyped' /\ LevelsWereHeld'
  BY <1>1 DEF AccessInv, AccessTyped, HeldTyped, LevelsWereHeld
<1>3. ToldIsPermitted'
  BY <1>1, PermissionsStay DEF AccessInv, ToldIsPermitted
<1> QED
  BY <1>1, <1>2, <1>3, NoAnswerStands DEF AccessInv

\* A token is added: those that were there keep their numbers.
LEMMA IssueKeeps ==
  ASSUME AccessInv, NEW lvl \in KnownLevels, NEW scopes \in {Unscoped} \cup SUBSET Permissions,
         Issue(lvl, scopes),
         scopes = Unscoped /\ lvl # Player => lvl \in Groups /\ heldAt[lvl] = now
  PROVE  AccessInv'
<1> DEFINE new == [lvl |-> lvl, scopes |-> scopes, exp |-> now + Ttl, secret |-> secret]
<1>1. /\ tokens' = Append(tokens, new) /\ told' = Append(told, <<>>) /\ answer' = NoAnswer
      /\ UNCHANGED <<now, group, secret, heldAt>>
  BY DEF Issue
<1>2. new \in Token
  BY DEF AccessInv, AccessTyped, Token
<1>3. /\ tokens \in Seq(Token) /\ told \in Seq(Seq(SUBSET Permissions)) /\ Len(told) = Len(tokens)
      /\ now \in Nat
  BY DEF AccessInv, AccessTyped
<1>4. /\ tokens' \in Seq(Token) /\ told' \in Seq(Seq(SUBSET Permissions))
      /\ Len(tokens') = Len(tokens) + 1 /\ Len(told') = Len(tokens) + 1
      /\ \A t \in 1 .. Len(tokens) : tokens'[t] = tokens[t] /\ told'[t] = told[t]
      /\ tokens'[Len(tokens) + 1] = new /\ told'[Len(tokens) + 1] = <<>>
  BY <1>1, <1>2, <1>3
<1>5. AccessTyped' /\ HeldTyped'
  BY <1>1, <1>4 DEF AccessInv, AccessTyped, HeldTyped
<1>6. LevelsWereHeld'
  <2> SUFFICES ASSUME NEW t \in DOMAIN tokens', tokens'[t].scopes = Unscoped,
                      tokens'[t].lvl # Player
               PROVE  /\ tokens'[t].lvl \in Groups
                      /\ heldAt[tokens'[t].lvl] >= 0
                      /\ tokens'[t].exp <= heldAt[tokens'[t].lvl] + Ttl
    BY <1>1 DEF LevelsWereHeld
  <2>1. CASE t \in 1 .. Len(tokens)
    <3>1. tokens'[t] = tokens[t] /\ t \in DOMAIN tokens
      BY <1>3, <1>4, <2>1
    <3> QED
      BY <3>1 DEF AccessInv, LevelsWereHeld
  <2>2. CASE t = Len(tokens) + 1
    <3>1. tokens'[t] = new
      BY <1>4, <2>2
    <3>2. lvl \in Groups /\ heldAt[lvl] = now
      BY <3>1
    <3> QED
      BY <1>3, <3>1, <3>2
  <2> QED
    BY <1>3, <1>4, <2>1, <2>2
<1>7. ToldIsPermitted'
  <2> SUFFICES ASSUME NEW t \in DOMAIN told', NEW i \in DOMAIN told'[t]
               PROVE  told'[t][i] = PermissionsOf(t)'
    BY DEF ToldIsPermitted
  <2>1. t \in 1 .. Len(tokens)
    BY <1>3, <1>4
  <2>2. told[t][i] = PermissionsOf(t)
    <3>1. told'[t] = told[t]
      BY <1>4, <2>1
    <3>2. t \in DOMAIN told
      BY <1>3, <2>1
    <3> QED
      BY <3>1, <3>2 DEF AccessInv, ToldIsPermitted
  <2>3. tokens'[t] = tokens[t]
    BY <1>4, <2>1
  <2>4. PermissionsOf(t)' = PermissionsOf(t)
    BY <2>3 DEF PermissionsOf, IsPermitted
  <2> QED
    BY <1>4, <2>1, <2>2, <2>4
<1> QED
  BY <1>1, <1>5, <1>6, <1>7, NoAnswerStands DEF AccessInv

LEMMA SignInKeeps == AccessInv /\ SignIn => AccessInv'
<1> SUFFICES ASSUME AccessInv, SignIn PROVE AccessInv'
  OBVIOUS
<1>1. group \in Groups /\ heldAt[group] = now
  BY DEF SignIn, AccessInv, AccessTyped, HeldTyped
<1>2. LevelOf(group) \in KnownLevels /\ (LevelOf(group) # Player => LevelOf(group) = group)
  BY DEF LevelOf, KnownLevels, Player
<1>3. Issue(LevelOf(group), Unscoped)
  BY DEF SignIn
<1> QED
  BY <1>1, <1>2, <1>3, IssueKeeps

\* A set of permissions is not the mark of a sign-in.
LEMMA ScopesAreNoSignIn == \A scopes \in SUBSET Permissions : scopes # Unscoped
  BY DEF Permissions, Writes, Unscoped

LEMMA MintKeeps == AccessInv /\ MintToken => AccessInv'
<1> SUFFICES ASSUME AccessInv, NEW scopes \in ScopeSets, Issue(Player, scopes) PROVE AccessInv'
  BY DEF MintToken
<1>1. scopes \in SUBSET Permissions /\ Player \in KnownLevels
  BY DEF Player, KnownLevels
<1> QED
  BY <1>1, IssueKeeps, ScopesAreNoSignIn

LEMMA MeKeeps == AccessInv /\ Me => AccessInv'
<1> SUFFICES ASSUME AccessInv, NEW t \in DOMAIN tokens,
                    told' = [told EXCEPT ![t] = <<PermissionsOf(t)>>],
                    answer' = NoAnswer, UNCHANGED <<now, group, secret, tokens, heldAt>>
             PROVE  AccessInv'
  BY DEF Me
<1>1. /\ tokens \in Seq(Token) /\ told \in Seq(Seq(SUBSET Permissions)) /\ Len(told) = Len(tokens)
  BY DEF AccessInv, AccessTyped
<1>2. PermissionsOf(t) \in SUBSET Permissions
  BY DEF PermissionsOf
<1>3. <<PermissionsOf(t)>> \in Seq(SUBSET Permissions)
  BY <1>2
<1>4. /\ told' \in Seq(Seq(SUBSET Permissions)) /\ Len(told') = Len(tokens)
      /\ \A u \in 1 .. Len(tokens) : told'[u] = IF u = t THEN <<PermissionsOf(t)>> ELSE told[u]
  BY <1>1, <1>3
<1>5. AccessTyped' /\ HeldTyped' /\ LevelsWereHeld'
  BY <1>4 DEF AccessInv, AccessTyped, HeldTyped, LevelsWereHeld
<1>6. ToldIsPermitted'
  <2> SUFFICES ASSUME NEW u \in DOMAIN told', NEW i \in DOMAIN told'[u]
               PROVE  told'[u][i] = PermissionsOf(u)
    BY PermissionsStay DEF ToldIsPermitted
  <2>1. u \in 1 .. Len(tokens)
    BY <1>4
  <2>2. CASE u = t
    BY <1>4, <2>1, <2>2
  <2>3. CASE u # t
    BY <1>1, <1>4, <2>1, <2>3 DEF AccessInv, ToldIsPermitted
  <2> QED
    BY <2>2, <2>3
<1> QED
  BY <1>5, <1>6, NoAnswerStands DEF AccessInv

LEMMA CallKeeps == AccessInv /\ Call => AccessInv'
<1> SUFFICES ASSUME AccessInv, NEW t \in DOMAIN tokens, NEW p \in Permissions,
                    answer' = [token |-> t, permission |-> p, status |-> Gate(t, p)],
                    UNCHANGED <<now, group, secret, tokens, told, heldAt>>
             PROVE  AccessInv'
  BY DEF Call
<1>1. answer'.token = t /\ answer'.permission = p /\ answer'.status = Gate(t, p)
  OBVIOUS
<1>2. Gate(t, p) = 200 => Valid(t) /\ IsPermitted(t, p)
  BY DEF Gate
<1>3. Gate(t, p) = 403 => Valid(t) /\ ~IsPermitted(t, p)
  BY DEF Gate
<1>4. Valid(t)' = Valid(t) /\ IsPermitted(t, p)' = IsPermitted(t, p)
  BY DEF Valid, IsPermitted
<1>5. AnswerStands'
  BY <1>1, <1>2, <1>3, <1>4 DEF AnswerStands
<1>6. ToldIsPermitted'
  BY PermissionsStay DEF AccessInv, ToldIsPermitted
<1> QED
  BY <1>5, <1>6 DEF AccessInv, AccessTyped, HeldTyped, LevelsWereHeld

LEMMA AccessNextKeeps == AccessInv /\ AccessNext => AccessInv'
  BY SecondKeeps, SetGroupKeeps, RotateSecretKeeps, SignInKeeps, MintKeeps, MeKeeps, CallKeeps
     DEF AccessNext

LEMMA AccessStays == AccessInv /\ UNCHANGED accessVars => AccessInv'
<1> SUFFICES ASSUME AccessInv, UNCHANGED accessVars PROVE AccessInv'
  OBVIOUS
<1>1. UNCHANGED <<now, group, secret, tokens, told, heldAt, answer>>
  BY DEF accessVars
<1>2. AnswerStands'
  BY <1>1 DEF AccessInv, AnswerStands, Valid, IsPermitted
<1>3. ToldIsPermitted'
  BY <1>1, PermissionsStay DEF AccessInv, ToldIsPermitted
<1> QED
  BY <1>1, <1>2, <1>3 DEF AccessInv, AccessTyped, HeldTyped, LevelsWereHeld

LEMMA GrantIsGiven == AccessInv => GrantWasGiven
<1> SUFFICES ASSUME AccessInv, answer.status = 200 PROVE GrantWasGiven
  BY DEF GrantWasGiven, GrantWasEarned, TokensAreBounded, Granted
<1> DEFINE t == answer.token
           p == answer.permission
<1>1. t \in DOMAIN tokens /\ Valid(t) /\ IsPermitted(t, p)
  BY DEF AccessInv, AnswerStands
<1>2. tokens[t] \in Token /\ now \in Nat
  BY <1>1 DEF AccessInv, AccessTyped
<1>3. TokensAreBounded
  BY <1>1 DEF TokensAreBounded, Valid, IsPermitted
<1>4. ASSUME tokens[t].scopes = Unscoped
      PROVE  \E g \in Groups \cap KnownLevels :
                /\ g >= RequiredLevel(p)
                /\ heldAt[g] >= 0 /\ heldAt[g] + Ttl > now
  <2>1. tokens[t].lvl >= RequiredLevel(p)
    BY <1>1, <1>4 DEF IsPermitted
  <2>2. tokens[t].lvl \in KnownLevels /\ tokens[t].exp \in Nat
    BY <1>2 DEF Token
  <2>3. tokens[t].lvl # Player
    BY <2>1 DEF RequiredLevel, Player, Staff, Admin
  <2>4. /\ tokens[t].lvl \in Groups
        /\ heldAt[tokens[t].lvl] >= 0
        /\ tokens[t].exp <= heldAt[tokens[t].lvl] + Ttl
    BY <1>1, <1>4, <2>3 DEF AccessInv, LevelsWereHeld
  <2>5. heldAt \in [Groups -> Int]
    BY DEF AccessInv, HeldTyped
  <2>6. now < tokens[t].exp
    BY <1>1 DEF Valid
  <2> DEFINE l == tokens[t].lvl
  <2>7. /\ l \in Groups \cap KnownLevels /\ l >= RequiredLevel(p) /\ heldAt[l] >= 0
        /\ tokens[t].exp <= heldAt[l] + Ttl
    BY <2>1, <2>2, <2>4
  <2> HIDE DEF l
  <2>8. heldAt[l] \in Int
    <3>1. l \in Groups
      BY <2>7
    <3> QED
      BY <2>5, <3>1
  <2>9. heldAt[l] + Ttl > now
    BY <1>2, <2>2, <2>6, <2>7, <2>8
  <2>10. l \in Groups \cap KnownLevels
    BY <2>7
  <2>11. l >= RequiredLevel(p) /\ heldAt[l] >= 0 /\ heldAt[l] + Ttl > now
    BY <2>7, <2>9
  <2> WITNESS l \in Groups \cap KnownLevels
  <2> QED
    BY <2>11
<1>5. GrantWasEarned
  BY <1>4 DEF GrantWasEarned
<1> QED
  BY <1>3, <1>5 DEF GrantWasGiven

LEMMA MeIsTrue == AccessInv => MeIsEnforced
<1> SUFFICES ASSUME AccessInv, answer.status \in {200, 403},
                    NEW i \in DOMAIN told[answer.token]
             PROVE  Granted <=> answer.permission \in told[answer.token][i]
  BY DEF MeIsEnforced
<1>1. answer.token \in DOMAIN tokens /\ answer.permission \in Permissions
  BY DEF AccessInv, AnswerStands
<1>2. answer.token \in DOMAIN told
  BY <1>1 DEF AccessInv, AccessTyped
<1>3. told[answer.token][i] = PermissionsOf(answer.token)
  BY <1>2 DEF AccessInv, ToldIsPermitted
<1>4. Granted <=> IsPermitted(answer.token, answer.permission)
  BY DEF AccessInv, AnswerStands, Granted
<1> QED
  BY <1>1, <1>3, <1>4 DEF PermissionsOf

-----------------------------------------------------------------------------
(***************************************************************************)
(* The client.                                                             *)
(***************************************************************************)
RunTyped ==
    /\ run \in [method : Methods \cup {"none"}, token : Int,
                at : {"rest", "sent", "answered", "exited"}]
    /\ served \in Nat /\ exit \in {-1, 0, 1, 2}
    /\ reply \in {<<>>} \cup {<<r>> : r \in [status : Nat, body : Bodies]}

\* What is known of a request before the tool ends.
RunStands ==
    /\ run.at = "rest" => run.method = "none"
    /\ run.at # "exited" => exit = -1
    /\ run.at = "sent" => served = 0
    /\ run.at = "answered" =>
         /\ reply # <<>>
         /\ Is2xx(reply[1].status) => served > 0
         /\ run.method = "DISCOVER" /\ reply[1].status = 200 => reply[1].body = "json"
         /\ reply[1].status = 202 => reply[1].body = "json"

CliInv == RunTyped /\ RunStands /\ OneWritePerInvocation /\ StatusIsTrue

LEMMA CliInitHolds == CliInit => AccessInv /\ CliInv
<1> SUFFICES ASSUME CliInit PROVE AccessInv /\ CliInv
  OBVIOUS
<1>1. /\ run = [method |-> "none", token |-> 0, at |-> "rest"] /\ reply = <<>>
      /\ served = 0 /\ exit = -1
  BY DEF CliInit, Rest
<1>2. RunTyped
  BY <1>1 DEF RunTyped
<1>3. RunStands /\ OneWritePerInvocation /\ StatusIsTrue
  BY <1>1 DEF RunStands, OneWritePerInvocation, StatusIsTrue, ZeroMeansDone, AcceptanceIsReported
<1> QED
  BY <1>2, <1>3, AccessInitHolds DEF CliInit, CliInv

\* A run that moves keeps its method and its token.
LEMMA RunMoves ==
  ASSUME RunTyped, NEW at \in {"rest", "sent", "answered", "exited"}, run' = [run EXCEPT !.at = at]
  PROVE  /\ run' \in [method : Methods \cup {"none"}, token : Int,
                      at : {"rest", "sent", "answered", "exited"}]
         /\ run'.at = at /\ run'.method = run.method
  BY DEF RunTyped

LEMMA InvokeKeeps == AccessInv /\ CliInv /\ Invoke => AccessInv' /\ CliInv'
<1> SUFFICES ASSUME AccessInv, CliInv, NEW method \in Methods, NEW t \in DOMAIN tokens \cup {0},
                    \/ run' = [method |-> method, token |-> t, at |-> "exited"] /\ exit' = 2
                    \/ run' = [method |-> method, token |-> t, at |-> "sent"] /\ exit' = -1,
                    reply' = <<>>, served' = 0, answer' = NoAnswer,
                    UNCHANGED <<now, group, secret, tokens, told, heldAt>>
             PROVE  AccessInv' /\ CliInv'
  BY DEF Invoke
<1>1. AccessInv'
  BY PermissionsStay, NoAnswerStands
     DEF AccessInv, AccessTyped, HeldTyped, LevelsWereHeld, ToldIsPermitted
<1>2. t \in Int
  BY DEF AccessInv, AccessTyped
<1>3. /\ run'.method = method /\ run'.at \in {"exited", "sent"}
      /\ run'.at = "exited" => exit' = 2
      /\ run'.at = "sent" => exit' = -1
      /\ run' \in [method : Methods \cup {"none"}, token : Int,
                   at : {"rest", "sent", "answered", "exited"}]
  BY <1>2
<1>4. RunTyped'
  BY <1>3 DEF RunTyped
<1>5. RunStands' /\ OneWritePerInvocation' /\ StatusIsTrue'
  BY <1>3 DEF RunStands, OneWritePerInvocation, StatusIsTrue, ZeroMeansDone, AcceptanceIsReported
<1> QED
  BY <1>1, <1>4, <1>5 DEF CliInv

Answers == [status : Nat, body : Bodies]

\* An answer that claims success only for what was carried out.
Honest(r, n) ==
    /\ n \in {0, 1}
    /\ Is2xx(r.status) => n = 1
    /\ r.status = 202 => r.body = "json"

\* An answer arrives.
LEMMA AnsweredKeeps ==
  ASSUME CliInv, run.at = "sent", NEW r \in Answers, reply' = <<r>>, Honest(r, served'),
         run.method = "DISCOVER" /\ r.status = 200 => r.body = "json",
         run' = [run EXCEPT !.at = "answered"], exit' = exit
  PROVE  CliInv'
<1>1. /\ run' \in [method : Methods \cup {"none"}, token : Int,
                   at : {"rest", "sent", "answered", "exited"}]
      /\ run'.at = "answered" /\ run'.method = run.method
  BY RunMoves DEF CliInv
<1>2. exit = -1
  BY DEF CliInv, RunStands
<1>3. reply' # <<>> /\ reply'[1] = r
  OBVIOUS
<1>4. RunTyped'
  BY <1>1, <1>2 DEF RunTyped, Answers, Honest
<1>5. RunStands'
  BY <1>1, <1>2, <1>3 DEF RunStands, Honest
<1>6. OneWritePerInvocation' /\ StatusIsTrue'
  BY <1>1, <1>2 DEF OneWritePerInvocation, StatusIsTrue, ZeroMeansDone, AcceptanceIsReported, Honest
<1> QED
  BY <1>4, <1>5, <1>6 DEF CliInv

LEMMA Successes ==
  \A s \in {401, 403, 404, 409, 422, 500, 502, 504} : s \in Nat /\ ~Is2xx(s) /\ s # 202 /\ s # 200
  BY DEF Is2xx

\* What each status may come with.
R(status, body) == [status |-> status, body |-> body]

LEMMA RefusalsAreHonest ==
  ASSUME NEW s \in {401, 403, 404, 409, 422, 500, 502, 504}, NEW body \in Bodies, NEW n \in {0, 1}
  PROVE  R(s, body) \in Answers /\ Honest(R(s, body), n) /\ R(s, body).status # 200
  BY Successes DEF Answers, Honest, R

LEMMA SuccessesAreHonest ==
  ASSUME NEW s \in {200, 202}, NEW body \in Bodies, s = 202 => body = "json"
  PROVE  R(s, body) \in Answers /\ Honest(R(s, body), 1) /\ R(s, body).body = body
<1>1. s \in Nat
  OBVIOUS
<1> QED
  BY <1>1 DEF Answers, Honest, R

LEMMA ServeKeeps == CliInv /\ Serve => CliInv'
<1> SUFFICES ASSUME CliInv, Serve PROVE CliInv'
  OBVIOUS
<1>1. /\ run.at = "sent" /\ run.method # "DISCOVER" /\ served = 0
      /\ run' = [run EXCEPT !.at = "answered"] /\ exit' = exit
  BY DEF Serve, CliInv, RunStands
<1>2. \/ \E s \in {401, 403, 404, 409, 422} : reply' = <<R(s, "json")>> /\ served' = served
      \/ reply' = <<R(500, "other")>> /\ served' \in {served, served + 1}
      \/ \E body \in Bodies : reply' = <<R(200, body)>> /\ served' = served + 1
      \/ reply' = <<R(202, "json")>> /\ served' = served + 1
  <2> DEFINE gate == Gate(run.token, Needs(run.method))
  <2>1. gate \in {200, 401, 403}
    BY DEF Gate
  <2>2. IF gate # 200 THEN reply' = <<R(gate, "json")>> /\ served' = served
        ELSE \/ \E s \in {404, 409, 422} : reply' = <<R(s, "json")>> /\ served' = served
             \/ reply' = <<R(500, "other")>> /\ served' \in {served, served + 1}
             \/ /\ \/ \E body \in Bodies : reply' = <<R(200, body)>>
                   \/ reply' = <<R(202, "json")>>
                /\ served' = served + 1
    BY DEF Serve, Answer, R
  <2> HIDE DEF gate
  <2> QED
    BY <2>1, <2>2
<1>3. "json" \in Bodies /\ "other" \in Bodies
  BY DEF Bodies
<1>4. \E r \in Answers : reply' = <<r>> /\ Honest(r, served')
  <2>1. CASE \E s \in {401, 403, 404, 409, 422} : reply' = <<R(s, "json")>> /\ served' = served
    BY <1>1, <1>3, <2>1, RefusalsAreHonest
  <2>2. CASE reply' = <<R(500, "other")>> /\ served' \in {served, served + 1}
    BY <1>1, <1>3, <2>2, RefusalsAreHonest
  <2>3. CASE \E body \in Bodies : reply' = <<R(200, body)>> /\ served' = served + 1
    BY <1>1, <2>3, SuccessesAreHonest
  <2>4. CASE reply' = <<R(202, "json")>> /\ served' = served + 1
    BY <1>1, <1>3, <2>4, SuccessesAreHonest
  <2> QED
    BY <1>2, <2>1, <2>2, <2>3, <2>4
<1> QED
  BY <1>1, <1>4, AnsweredKeeps

LEMMA OthersServeKeeps == CliInv /\ (ServeDescription \/ ProxyAnswers) => CliInv'
<1> SUFFICES ASSUME CliInv, ServeDescription \/ ProxyAnswers PROVE CliInv'
  OBVIOUS
<1>1. /\ run.at = "sent" /\ served = 0
      /\ run' = [run EXCEPT !.at = "answered"] /\ exit' = exit
  BY DEF ServeDescription, ProxyAnswers, CliInv, RunStands
<1>2. \/ reply' = <<R(200, "json")>> /\ served' = served + 1
      \/ reply' = <<R(500, "other")>> /\ served' = served
      \/ \E body \in Bodies : reply' = <<R(502, body)>> /\ served' = served
      \/ \E body \in Bodies : reply' = <<R(504, body)>> /\ served' \in {served, served + 1}
  BY DEF ServeDescription, ProxyAnswers, Answer, R
<1>3. "json" \in Bodies /\ "other" \in Bodies
  BY DEF Bodies
<1>4. \E r \in Answers : reply' = <<r>> /\ Honest(r, served') /\ (r.status = 200 => r.body = "json")
  <2>1. CASE reply' = <<R(200, "json")>> /\ served' = served + 1
    BY <1>1, <1>3, <2>1, SuccessesAreHonest
  <2>2. CASE reply' = <<R(500, "other")>> /\ served' = served
    BY <1>1, <1>3, <2>2, RefusalsAreHonest
  <2>3. CASE \E body \in Bodies : reply' = <<R(502, body)>> /\ served' = served
    BY <1>1, <2>3, RefusalsAreHonest
  <2>4. CASE \E body \in Bodies : reply' = <<R(504, body)>> /\ served' \in {served, served + 1}
    BY <1>1, <2>4, RefusalsAreHonest
  <2> QED
    BY <1>2, <2>1, <2>2, <2>3, <2>4
<1> QED
  BY <1>1, <1>4, AnsweredKeeps

\* The tool ends: on an answer with the status that it earns, and without one with 1.
LEMMA UnansweredKeeps == CliInv /\ Unanswered => CliInv'
<1> SUFFICES ASSUME CliInv, Unanswered PROVE CliInv'
  OBVIOUS
<1>1. run' = [run EXCEPT !.at = "exited"] /\ exit' = 1 /\ reply' = <<>> /\ served' = served
  BY DEF Unanswered, NoReply, Exits
<1>2. /\ run' \in [method : Methods \cup {"none"}, token : Int,
                   at : {"rest", "sent", "answered", "exited"}]
      /\ run'.at = "exited" /\ run'.method = run.method
  BY <1>1, RunMoves DEF CliInv
<1>3. RunTyped'
  BY <1>1, <1>2 DEF CliInv, RunTyped
<1> QED
  BY <1>1, <1>2, <1>3 DEF CliInv, RunStands, OneWritePerInvocation, StatusIsTrue, ZeroMeansDone,
                          AcceptanceIsReported

LEMMA FinishKeeps == CliInv /\ Finish => CliInv'
<1> SUFFICES ASSUME CliInv, Finish PROVE CliInv'
  OBVIOUS
<1> DEFINE r == reply[1]
<1>1. /\ run.at = "answered" /\ run' = [run EXCEPT !.at = "exited"]
      /\ exit' = ExitCode(run.method, r) /\ reply' = reply /\ served' = served
  BY DEF Finish, Exits
<1>2. /\ run' \in [method : Methods \cup {"none"}, token : Int,
                   at : {"rest", "sent", "answered", "exited"}]
      /\ run'.at = "exited" /\ run'.method = run.method
  BY <1>1, RunMoves DEF CliInv
<1>3. exit' \in {0, 1, 2}
  BY <1>1 DEF ExitCode
<1>4. RunTyped'
  BY <1>1, <1>2, <1>3 DEF CliInv, RunTyped
<1>5. /\ reply # <<>>
      /\ Is2xx(r.status) => served > 0
      /\ run.method = "DISCOVER" /\ r.status = 200 => r.body = "json"
      /\ r.status = 202 => r.body = "json"
  BY <1>1 DEF CliInv, RunStands
<1>6. ZeroMeansDone'
  <2>1. ASSUME exit' = 0 PROVE Is2xx(r.status) /\ r.body = "json"
    BY <1>1, <1>5, <2>1 DEF ExitCode, Is2xx
  <2> QED
    BY <1>1, <1>5, <2>1 DEF ZeroMeansDone
<1>7. AcceptanceIsReported'
  <2>1. ASSUME run.method = "POST", r.status = 202 PROVE exit' = 0
    BY <1>1, <1>5, <2>1 DEF ExitCode, Is2xx
  <2> QED
    BY <1>1, <1>2, <2>1 DEF AcceptanceIsReported
<1> QED
  BY <1>1, <1>2, <1>4, <1>6, <1>7 DEF CliInv, RunStands, OneWritePerInvocation, StatusIsTrue

\* The line that is offered is a GET: to run it again writes nothing.
LEMMA FollowAdviceKeeps == CliInv /\ FollowAdvice => CliInv'
<1> SUFFICES ASSUME CliInv, FollowAdvice PROVE CliInv'
  OBVIOUS
<1>1. /\ run.at = "exited" /\ run.method = "GET" /\ served' = served + 1
      /\ UNCHANGED <<run, reply, exit>>
  BY DEF FollowAdvice, Advises
<1>2. served \in Nat
  BY DEF CliInv, RunTyped
<1> QED
  BY <1>1, <1>2 DEF CliInv, RunTyped, RunStands, OneWritePerInvocation, StatusIsTrue, ZeroMeansDone,
                    AcceptanceIsReported

LEMMA OthersActKeeps == AccessInv /\ CliInv /\ OthersAct => AccessInv' /\ CliInv'
<1> SUFFICES ASSUME AccessInv, CliInv, OthersAct PROVE AccessInv' /\ CliInv'
  OBVIOUS
<1>1. AccessInv'
  BY AccessNextKeeps DEF OthersAct
<1>2. CASE UNCHANGED cliState
  BY <1>1, <1>2 DEF cliState, CliInv, RunTyped, RunStands, OneWritePerInvocation, StatusIsTrue,
              ZeroMeansDone, AcceptanceIsReported
<1>3. CASE run' = Rest /\ reply' = <<>> /\ served' = 0 /\ exit' = -1
  <2>1. run' = [method |-> "none", token |-> 0, at |-> "rest"]
    BY <1>3 DEF Rest
  <2>2. RunTyped'
    BY <1>3, <2>1 DEF RunTyped
  <2> QED
    BY <1>1, <1>3, <2>1, <2>2 DEF CliInv, RunStands, OneWritePerInvocation, StatusIsTrue,
                            ZeroMeansDone, AcceptanceIsReported
<1> QED
  BY <1>1, <1>2, <1>3 DEF OthersAct

LEMMA CliNextKeeps ==
  AccessInv /\ CliInv /\ [CliOrOthers]_cliVars => AccessInv' /\ CliInv'
<1> SUFFICES ASSUME AccessInv, CliInv, [CliOrOthers]_cliVars PROVE AccessInv' /\ CliInv'
  OBVIOUS
<1>1. CASE Invoke
  BY <1>1, InvokeKeeps
<1>2. CASE Serve
  BY <1>2, ServeKeeps, AccessStays DEF Serve
<1>3. CASE ServeDescription \/ ProxyAnswers
  BY <1>3, OthersServeKeeps, AccessStays DEF ServeDescription, ProxyAnswers
<1>4. CASE Unanswered
  BY <1>4, UnansweredKeeps, AccessStays DEF Unanswered
<1>5. CASE Finish
  BY <1>5, FinishKeeps, AccessStays DEF Finish
<1>6. CASE FollowAdvice
  BY <1>6, FollowAdviceKeeps, AccessStays DEF FollowAdvice
<1>7. CASE OthersAct
  BY <1>7, OthersActKeeps
<1>8. CASE UNCHANGED cliVars
  BY <1>8, AccessStays DEF cliVars, cliState, CliInv, RunTyped, RunStands, OneWritePerInvocation,
                           StatusIsTrue, ZeroMeansDone, AcceptanceIsReported
<1> QED
  BY <1>1, <1>2, <1>3, <1>4, <1>5, <1>6, <1>7, <1>8 DEF CliOrOthers, CliNext

LEMMA CliInvariant == CliSpec => [](AccessInv /\ CliInv)
  BY CliInitHolds, CliNextKeeps, PTL DEF CliSpec

-----------------------------------------------------------------------------
\* Whoever is let through by a sign-in was in a group of that level within the
\* life of a token, and a changed secret or a missing scope stops everybody
\* (login, decode_token, is_permitted, requires).
LEMMA GrantsAreGivenAlone == CliSpec => []GrantWasGiven
  BY CliInvariant, GrantIsGiven, PTL

\* What /auth/me told a client of a token is what every route does with it.
LEMMA MeIsWhatIsEnforcedAlone == CliSpec => []MeIsEnforced
  BY CliInvariant, MeIsTrue, PTL

\* An invocation of roadmin writes at most once, whatever is lost on the way and
\* whatever it tells its operator to run (_request, describe_body).
LEMMA WritesAreNotRepeatedAlone == CliSpec => []OneWritePerInvocation
<1>1. CliInv => OneWritePerInvocation
  BY DEF CliInv
<1> QED
  BY CliInvariant, <1>1, PTL

\* Exit 0 is given to a request that was carried out and answered, and to every
\* write whose acceptance was heard (_request, _discover, main).
LEMMA ExitsAreTrueAlone == CliSpec => []StatusIsTrue
<1>1. CliInv => StatusIsTrue
  BY DEF CliInv
<1> QED
  BY CliInvariant, <1>1, PTL

-----------------------------------------------------------------------------
(***************************************************************************)
(* Reads about one owner.                                                  *)
(***************************************************************************)
USE DEF None

NoRequest == [kind : {"none"}, at : {"answered"}]
Request == [kind : {"inventory", "characters", "one"}, at : {"owner", "has", "answered"},
            next : {1, 2}, status : Nat, stale : BOOLEAN, has : Nat]

OwnerTyped ==
    /\ exists \in BOOLEAN /\ online \in BOOLEAN /\ live \in Nat /\ stored \in Nat
    /\ ask \in NoRequest \cup Request

\* Where a request stands, and that it has seen the present.
RequestStands ==
    /\ ask.at = "owner" => ask.next = 1
    /\ ask.at = "has" => ask.next = 2 /\ ask.kind \in {"inventory", "characters"}
    /\ Asking => Instant \in was

\* Once the owner has been read as absent from the game, what is stored was the
\* truth at some instant since: a login takes it over, and a save writes what is
\* the truth at that moment.
StoredWasTrue ==
    ask.at = "has" =>
        /\ \E i \in was : i.exists = TRUE
        /\ ~ask.stale => \E i \in was : i.has = stored

OwnedInv == OwnerTyped /\ RequestStands /\ StoredWasTrue /\ AnswerWasTrue

\* A request that is updated is a request.
LEMMA RequestUpdated ==
  ASSUME NEW r \in Request
  PROVE  /\ \A s \in Nat : [r EXCEPT !.at = "answered", !.status = s] \in Request
         /\ \A b \in BOOLEAN : [r EXCEPT !.stale = b] \in Request
<1>1. ASSUME NEW s \in Nat PROVE [r EXCEPT !.at = "answered", !.status = s] \in Request
  BY DEF Request
<1>2. ASSUME NEW b \in BOOLEAN PROVE [r EXCEPT !.stale = b] \in Request
  BY DEF Request
<1> QED
  BY <1>1, <1>2

\* a is the request r, answered.
AnswerOf(a, r, s) ==
  /\ a \in Request /\ a.at = "answered" /\ a.status = s
  /\ a.kind = r.kind /\ a.stale = r.stale /\ a.has = r.has

LEMMA RequestAnswered ==
  ASSUME NEW r \in Request, NEW s \in Nat
  PROVE  AnswerOf([r EXCEPT !.at = "answered", !.status = s], r, s)
<1>1. PICK a : a = [r EXCEPT !.at = "answered", !.status = s]
  OBVIOUS
<1>2. a \in Request
  BY <1>1, RequestUpdated
<1>3. a.at = "answered" /\ a.status = s
  BY <1>1 DEF Request
<1>4. a.kind = r.kind /\ a.stale = r.stale /\ a.has = r.has
  BY <1>1 DEF Request
<1> QED
  BY <1>1, <1>2, <1>3, <1>4 DEF AnswerOf

\* The invariant of a request that has just been answered.
LEMMA OwnerAnsweredKeeps ==
  ASSUME OwnedInv, UNCHANGED <<exists, online, live, stored, was>>,
         ask' \in Request, ask'.at = "answered", AnswerWasTrue'
  PROVE  OwnedInv'
  BY DEF OwnedInv, OwnerTyped, RequestStands, StoredWasTrue, Asking

LEMMA OwnedInitHolds == OwnedInit => OwnedInv
<1> SUFFICES ASSUME OwnedInit PROVE OwnedInv
  OBVIOUS
<1>1. ask = [kind |-> "none", at |-> "answered"]
  BY DEF OwnedInit
<1>2. ask \in NoRequest
  BY <1>1 DEF NoRequest
<1>3. OwnerTyped
  BY <1>2 DEF OwnedInit, OwnerTyped
<1> QED
  BY <1>1, <1>3 DEF OwnedInv, RequestStands, StoredWasTrue, AnswerWasTrue,
                    NotStaleWasTrue, AbsenceWasTrue, Asking

\* A step of the world keeps what a request relies on, if what is stored
\* afterwards was stored before or is the truth.
LEMMA WorldKeeps ==
  ASSUME OwnedInv, Happens,
         exists' \in BOOLEAN, online' \in BOOLEAN, live' \in Nat, stored' \in Nat,
         stored' = stored \/ stored' = Truth'
  PROVE  OwnedInv'
<1>1. CASE ~Asking
  <2>1. was' = {} /\ ask' = [kind |-> "none", at |-> "answered"]
    BY <1>1 DEF Happens
  <2> QED
    BY <2>1 DEF OwnedInv, OwnerTyped, NoRequest, RequestStands, StoredWasTrue, AnswerWasTrue,
                NotStaleWasTrue, AbsenceWasTrue, Asking
<1>2. CASE Asking
  <2>1. was' = was \cup {Instant'} /\ ask' = ask
    BY <1>2 DEF Happens
  <2>2. OwnerTyped'
    BY <2>1 DEF OwnedInv, OwnerTyped
  <2>3. RequestStands'
    BY <2>1 DEF OwnedInv, RequestStands, Asking
  <2>4. Instant'.has = Truth'
    BY DEF Instant
  <2>5. StoredWasTrue'
    BY <2>1, <2>4 DEF OwnedInv, StoredWasTrue
  <2>6. AnswerWasTrue'
    BY <1>2, <2>1 DEF AnswerWasTrue, NotStaleWasTrue, AbsenceWasTrue, Asking
  <2> QED
    BY <2>2, <2>3, <2>5, <2>6 DEF OwnedInv
<1> QED
  BY <1>1, <1>2

LEMMA AskOwnedKeeps == OwnedInv /\ AskOwned => OwnedInv'
<1> SUFFICES ASSUME OwnedInv, AskOwned PROVE OwnedInv'
  OBVIOUS
<1>1. PICK k \in {"inventory", "characters", "one"} :
        ask' = [kind |-> k, at |-> "owner", next |-> 1, status |-> 0,
                stale |-> FALSE, has |-> 0]
  BY DEF AskOwned, Statements
<1>2. was' = {Instant} /\ Instant' = Instant
  BY DEF AskOwned, ownedWorld, Instant, Truth
<1>3. OwnerTyped'
  BY <1>1 DEF OwnedInv, OwnerTyped, Request, AskOwned, ownedWorld
<1>4. RequestStands' /\ StoredWasTrue' /\ AnswerWasTrue'
  BY <1>1, <1>2 DEF RequestStands, StoredWasTrue, AnswerWasTrue, NotStaleWasTrue,
                    AbsenceWasTrue, Asking
<1> QED
  BY <1>3, <1>4 DEF OwnedInv

\* The owner's statement: 404 where there is none, and else its `online'.
LEMMA ReadOwnerKeeps == OwnedInv /\ ReadOwner => OwnedInv'
<1> SUFFICES ASSUME OwnedInv, ReadOwner PROVE OwnedInv'
  OBVIOUS
<1>1. /\ ask \in Request /\ ask.next = 1 /\ ask.at = "owner"
      /\ Instant \in was
  BY DEF OwnedInv, OwnerTyped, RequestStands, ReadOwner, NoRequest, Asking
<1>2. UNCHANGED <<exists, online, live, stored, was>>
  BY DEF ReadOwner, ownedWorld
<1>3. online \in BOOLEAN /\ Instant.exists = exists /\ Instant.has = Truth /\ Instant' = Instant
  BY <1>2 DEF OwnedInv, OwnerTyped, Instant, Truth
<1>4. CASE ~exists
  <2>1. ask' = [ask EXCEPT !.at = "answered", !.status = 404]
    BY <1>4 DEF ReadOwner
  <2>2. ask' \in Request
    <3>1. PICK s \in Nat : s = 404
      OBVIOUS
    <3>2. [ask EXCEPT !.at = "answered", !.status = s] \in Request
      BY <1>1, RequestUpdated
    <3> QED
      BY <2>1, <3>1, <3>2
  <2>3. ask'.at = "answered" /\ ask'.status = 404
    BY <1>1, <2>1 DEF Request
  <2>4. Instant.exists = FALSE
    BY <1>3, <1>4
  <2>5. Instant.exists = (ask'.status = 200) /\ Instant \in was'
    <3>1. (ask'.status = 200) = FALSE
      BY <2>3
    <3> QED
      BY <1>1, <1>2, <2>4, <3>1
  <2>6. AnswerWasTrue'
    BY <2>3, <2>5 DEF AnswerWasTrue, NotStaleWasTrue, AbsenceWasTrue
  <2> QED
    BY <1>2, <2>2, <2>3, <2>6, OwnerAnsweredKeeps
<1>5. CASE exists /\ ask.kind = "one"
  <2>1. ask' = [[ask EXCEPT !.stale = online] EXCEPT !.at = "answered", !.status = 200]
    BY <1>1, <1>5 DEF ReadOwner, Further, Statements, Request
  <2>2. ask' \in Request /\ ask'.at = "answered" /\ ask'.status = 200 /\ ask'.kind = "one"
    <3>1. [ask EXCEPT !.stale = online] \in Request
      BY <1>1, <1>3, RequestUpdated
    <3>2. PICK x \in Request : x = [ask EXCEPT !.stale = online]
      BY <3>1
    <3>3. PICK s \in Nat : s = 200
      OBVIOUS
    <3>4. ask' = [x EXCEPT !.at = "answered", !.status = s]
      BY <2>1, <3>2, <3>3
    <3>5. AnswerOf(ask', x, s)
      BY <3>4, RequestAnswered
    <3>6. x.kind = "one"
      BY <1>1, <1>5, <3>2 DEF Request
    <3> QED
      BY <3>3, <3>5, <3>6 DEF AnswerOf
  <2>3. Instant.exists = TRUE
    BY <1>3, <1>5
  <2> QED
    BY <1>1, <1>2, <2>2, <2>3, OwnerAnsweredKeeps
       DEF AnswerWasTrue, NotStaleWasTrue, AbsenceWasTrue
<1>6. CASE exists /\ ask.kind # "one"
  <2> DEFINE a == [ask EXCEPT !.stale = online]
  <2>1. a.next = 1 /\ a.kind = ask.kind /\ a.kind # "one" /\ a \in Request
    BY <1>1, <1>3, <1>6 DEF Request
  <2>2. Statements(a.kind) = <<"owner", "has">>
    BY <2>1 DEF Statements
  <2>3. ask' = [a EXCEPT !.at = Statements(a.kind)[a.next + 1], !.next = a.next + 1]
    BY <1>6, <2>1, <2>2 DEF ReadOwner, Further
  <2>4. ask' = [a EXCEPT !.at = "has", !.next = 2]
    <3>1. Statements(a.kind)[a.next + 1] = "has"
      BY <2>1, <2>2
    <3>2. a.next + 1 = 2
      BY <2>1
    <3> HIDE DEF a
    <3> QED
      BY <2>3, <3>1, <3>2
  <2>5. ask' \in Request
    BY <2>1, <2>4 DEF Request
  <2>6. /\ ask'.at = "has" /\ ask'.next = 2 /\ ask'.stale = online
        /\ ask'.kind \in {"inventory", "characters"}
    BY <1>1, <2>1, <2>4 DEF Request
  <2>7. Instant.exists = TRUE
    BY <1>3, <1>6
  <2>8. ~online => Instant.has = stored
    BY <1>3 DEF Truth
  <2>9. AnswerWasTrue'
    BY <2>6 DEF AnswerWasTrue, NotStaleWasTrue, AbsenceWasTrue
  <2>10. StoredWasTrue' /\ RequestStands'
    BY <1>1, <1>2, <1>3, <2>6, <2>7, <2>8 DEF StoredWasTrue, RequestStands, Asking
  <2> QED
    BY <1>2, <2>5, <2>9, <2>10 DEF OwnedInv, OwnerTyped
<1> QED
  BY <1>4, <1>5, <1>6

LEMMA ReadHasKeeps == OwnedInv /\ ReadHas => OwnedInv'
<1> SUFFICES ASSUME OwnedInv, ReadHas PROVE OwnedInv'
  OBVIOUS
<1>1. /\ ask \in Request /\ ask.next = 2 /\ ask.at = "has"
      /\ ask.kind \in {"inventory", "characters"}
  BY DEF OwnedInv, OwnerTyped, RequestStands, ReadHas, NoRequest
<1>2. UNCHANGED <<exists, online, live, stored, was>>
  BY DEF ReadHas, ownedWorld
<1>3. ask' = [[ask EXCEPT !.has = stored] EXCEPT !.at = "answered", !.status = 200]
  BY <1>1 DEF ReadHas, Further, Statements, Request
<1>4. /\ ask' \in Request /\ ask'.at = "answered" /\ ask'.status = 200
      /\ ask'.stale = ask.stale /\ ask'.has = stored
  <2>1. PICK x : x = [ask EXCEPT !.has = stored]
    OBVIOUS
  <2>2. x \in Request /\ x.stale = ask.stale /\ x.has = stored
    BY <1>1, <2>1 DEF Request, OwnedInv, OwnerTyped
  <2>3. PICK s \in Nat : s = 200
    OBVIOUS
  <2>4. ask' = [x EXCEPT !.at = "answered", !.status = s]
    BY <1>3, <2>1, <2>3
  <2>5. AnswerOf(ask', x, s)
    BY <2>2, <2>4, RequestAnswered
  <2> QED
    BY <2>2, <2>3, <2>5 DEF AnswerOf
<1>5. AnswerWasTrue'
  <2>1. was' = was /\ stored' = stored
    BY <1>2
  <2>2. /\ \E i \in was : i.exists = TRUE
        /\ ~ask.stale => \E i \in was : i.has = stored
    BY <1>1 DEF OwnedInv, StoredWasTrue
  <2>3. (ask'.status = 200) = TRUE
    BY <1>4
  <2> QED
    BY <1>4, <2>1, <2>2, <2>3 DEF AnswerWasTrue, NotStaleWasTrue, AbsenceWasTrue
<1> QED
  BY <1>2, <1>4, <1>5, OwnerAnsweredKeeps

LEMMA OwnedNextKeeps == OwnedInv /\ [OwnedNext]_ownedVars => OwnedInv'
<1> SUFFICES ASSUME OwnedInv, [OwnedNext]_ownedVars PROVE OwnedInv'
  OBVIOUS
<1> USE DEF OwnedInv, OwnerTyped
<1>1. CASE CreateOwner
  BY <1>1, WorldKeeps DEF CreateOwner
<1>2. CASE DeleteOwner
  BY <1>2, WorldKeeps DEF DeleteOwner, Truth
<1>3. CASE Login
  BY <1>3, WorldKeeps DEF Login
<1>4. CASE Change
  BY <1>4, WorldKeeps DEF Change
<1>5. CASE Save
  BY <1>5, WorldKeeps DEF Save, Truth
<1>6. CASE Logout
  BY <1>6, WorldKeeps DEF Logout
<1>7. CASE GameDies
  BY <1>7, WorldKeeps DEF GameDies
<1>8. CASE AskOwned
  BY <1>8, AskOwnedKeeps
<1>9. CASE ReadOwner
  BY <1>9, ReadOwnerKeeps
<1>10. CASE ReadHas
  BY <1>10, ReadHasKeeps
<1>11. CASE UNCHANGED ownedVars
  BY <1>11 DEF ownedVars, ownedWorld, RequestStands, StoredWasTrue, AnswerWasTrue,
              NotStaleWasTrue, AbsenceWasTrue, Asking, Instant, Truth
<1> QED
  BY <1>1, <1>2, <1>3, <1>4, <1>5, <1>6, <1>7, <1>8, <1>9, <1>10, <1>11 DEF OwnedNext

\* What an answer about an owner says was so at some instant while it was asked,
\* although its two statements see two instants and the game logs the owner in
\* and out, changes, saves and loses what it has between them (get_character,
\* get_inventory, get_account, account_characters).
LEMMA AnswersAboutOwnersWereTrueAlone == OwnedSpec => []AnswerWasTrue
<1>1. OwnedInv => AnswerWasTrue
  BY DEF OwnedInv
<1> QED
  BY OwnedInitHolds, OwnedNextKeeps, <1>1, PTL DEF OwnedSpec

-----------------------------------------------------------------------------
(***************************************************************************)
(* The walks over the lists.                                               *)
(***************************************************************************)
\* The lists that no two rows tie in.
Untied == list.by \notin {"date", "userid"}

\* The order of the rows, and a row's place in it, counted from 0.
RowOrder == {p \in rows \X rows : p[1] # p[2] /\ Before(p[1], p[2])}
Place(r) == RankOf(RowOrder, rows, r)

WalkFields == {"at", "limit", "offset", "total", "first", "met"}

ListingTyped ==
    /\ list \in Lists
    /\ last \in Nat /\ deletes \in Nat
    /\ rows \subseteq [id : 1 .. last, name : Nat, key : Nat] /\ IsFiniteSet(rows)
    /\ walk.at \in {"idle", "count", "page", "done"}
    /\ walk.at # "idle" => /\ DOMAIN walk = WalkFields
                           /\ walk.limit \in Nat \ {0} /\ walk.offset \in Nat
                           /\ \A r \in walk.first : r.id \in 1 .. last

\* What a list is ordered by tells its rows apart, unless rows may tie in it.
KeysDiffer ==
    /\ list.by = "id" => \A r \in rows : r.key = r.id
    /\ list.by = "name" => \A r \in rows : r.key = r.name
    /\ Untied => \A a, b \in rows : a.key = b.key => a = b

\* item_db is only loaded, so that its count holds until its page is read.
TotalHolds == list.over = "total" /\ walk.at = "page" => walk.total = Cardinality(rows)

\* The rows that the walk has gone past without meeting them, because others
\* before them were deleted.
PassedBy == {r \in walk.first \cap rows : r \notin walk.met /\ Place(r) < walk.offset}

FewArePassedBy == Untied /\ walk.at # "idle" => Cardinality(PassedBy) <= deletes
DoneIsPast == Untied /\ walk.at = "done" => \A r \in rows : Place(r) < walk.offset

ListingInv == ListingTyped /\ KeysDiffer /\ TotalHolds /\ FewArePassedBy /\ DoneIsPast

LEMMA RowsAreOrdered ==
  ASSUME ListingTyped, KeysDiffer, Untied PROVE StrictOrder(RowOrder, rows)
<1>1. \A r \in rows : r.key \in Int
  BY DEF ListingTyped
<1>2. \A a, b \in rows : a.key = b.key => a = b
  BY DEF KeysDiffer
<1>3. \A a, b \in rows : <<a, b>> \in RowOrder <=>
        a # b /\ IF list.newestFirst THEN a.key >= b.key ELSE a.key <= b.key
  BY DEF RowOrder, Before
<1>4. \A a \in rows : <<a, a>> \notin RowOrder
  BY <1>3
<1>5. \A a, b, c \in rows : <<a, b>> \in RowOrder /\ <<b, c>> \in RowOrder => <<a, c>> \in RowOrder
  BY <1>1, <1>2, <1>3
<1>6. ASSUME NEW a \in rows, NEW b \in rows
      PROVE  a = b \/ <<a, b>> \in RowOrder \/ <<b, a>> \in RowOrder
  <2>1. a.key <= b.key \/ b.key <= a.key
    BY <1>1
  <2> QED
    BY <2>1, <1>1, <1>3
<1> QED
  BY <1>4, <1>5, <1>6 DEF StrictOrder

LEMMA PlacesAreNumbers ==
  ASSUME ListingTyped, KeysDiffer, Untied
  PROVE  \A r \in rows : Place(r) \in Nat /\ Place(r) < Cardinality(rows)
BY RowsAreOrdered, RankInRange, FS_CardinalityType DEF Place, ListingTyped

LEMMA PassedByIsFinite == ListingTyped => IsFiniteSet(PassedBy) /\ Cardinality(PassedBy) \in Nat
<1> SUFFICES ASSUME ListingTyped PROVE IsFiniteSet(PassedBy) /\ Cardinality(PassedBy) \in Nat
  OBVIOUS
<1>1. PassedBy \in SUBSET rows /\ IsFiniteSet(rows)
  BY DEF PassedBy, ListingTyped
<1> QED
  BY <1>1, FS_Subset, FS_CardinalityType

LEMMA ListingInitHolds == ListingInit => ListingInv
<1> SUFFICES ASSUME ListingInit PROVE ListingInv
  OBVIOUS
<1>1. list \in Lists /\ rows = {} /\ last = 0 /\ deletes = 0 /\ walk.at = "idle"
  BY DEF ListingInit, NoWalk
<1>2. ListingTyped
  BY <1>1, FS_EmptySet DEF ListingTyped
<1> QED
  BY <1>1, <1>2 DEF ListingInv, KeysDiffer, TotalHolds, FewArePassedBy, DoneIsPast

LEMMA KindsOfLists ==
  ASSUME list \in Lists
  PROVE  /\ list.by \in {"date", "userid", "id", "name"}
         /\ list.over \in {"short page", "flag", "total"}
         /\ list.by = "name" => ~list.newestFirst /\ list.over = "flag"
<1>1. CASE list \in {CommandLogs, ZenyLogs, ItemLogs, SearchItems}
  <2>1. /\ CommandLogs.by = "date" /\ ZenyLogs.by = "id"
        /\ ItemLogs.by = "id" /\ SearchItems.by = "id"
    BY Zenon DEF CommandLogs, ZenyLogs, ItemLogs, SearchItems
  <2>2. /\ CommandLogs.over = "short page" /\ ZenyLogs.over = "short page"
        /\ ItemLogs.over = "short page" /\ SearchItems.over = "total"
    BY Zenon DEF CommandLogs, ZenyLogs, ItemLogs, SearchItems
  <2> QED
    BY <1>1, <2>1, <2>2
<1>2. CASE \E p \in BOOLEAN : list = ListCharacters(p)
  <2>1. PICK p \in BOOLEAN : list = ListCharacters(p)
    BY <1>2
  <2>2. list.newestFirst = FALSE
    BY <2>1 DEF ListCharacters
  <2> QED
    BY <2>1, <2>2 DEF ListCharacters
<1>3. CASE \E p \in BOOLEAN : list = ListAccounts(p)
  <2>1. PICK p \in BOOLEAN : list = ListAccounts(p)
    BY <1>3
  <2>2. list.newestFirst = FALSE
    BY <2>1 DEF ListAccounts
  <2> QED
    BY <2>1, <2>2 DEF ListAccounts
<1>4. \/ list \in {CommandLogs, ZenyLogs, ItemLogs, SearchItems}
      \/ \E p \in BOOLEAN : list = ListCharacters(p)
      \/ \E p \in BOOLEAN : list = ListAccounts(p)
  BY DEF Lists
<1> QED
  BY <1>1, <1>2, <1>3, <1>4

\* A row that is added sets those that it comes before one place further on.
LEMMA AddRowKeeps == ListingInv /\ AddRow => ListingInv'
<1> SUFFICES ASSUME ListingInv, AddRow PROVE ListingInv'
  OBVIOUS
<1> DEFINE new(name) == [id |-> last + 1, name |-> name, key |-> Key(last + 1, name)]
<1>1. PICK name \in Names : MayBeNamed(name) /\ rows' = rows \cup {new(name)}
  BY DEF AddRow
<1> DEFINE x == new(name)
<1> HIDE DEF x
<1>2. name \in Nat /\ last \in Nat /\ ListingTyped /\ KeysDiffer /\ TotalHolds
  BY SizeAssumption DEF ListingInv, ListingTyped
<1>3. /\ last' = last + 1 /\ UNCHANGED <<list, deletes>>
      /\ walk' = IF Walking THEN walk ELSE NoWalk
      /\ ~(list.over = "total" /\ Walking)
      /\ rows' = rows \cup {x}
  BY <1>1 DEF AddRow, x
<1>4. x.id = last + 1 /\ x.name = name /\ x.key = Key(last + 1, name)
      /\ x \in [id : 1 .. last', name : Nat, key : Nat]
  BY <1>2, <1>3 DEF x, Key
<1>5. rows' \subseteq [id : 1 .. last', name : Nat, key : Nat] /\ IsFiniteSet(rows')
  <2>1. rows \subseteq [id : 1 .. last', name : Nat, key : Nat] /\ IsFiniteSet(rows)
    BY <1>2, <1>3 DEF ListingTyped
  <2> QED
    BY <2>1, <1>3, <1>4, FS_AddElement
<1>6. /\ walk'.at \in {"idle", "count", "page"}
      /\ walk'.at # "idle" => walk' = walk /\ walk.at = walk'.at /\ Walking
  BY <1>3 DEF Walking, NoWalk
<1>7. ListingTyped'
  <2>1. walk'.at # "idle" => /\ DOMAIN walk' = WalkFields
                             /\ walk'.limit \in Nat \ {0} /\ walk'.offset \in Nat
    BY <1>2, <1>6 DEF ListingTyped
  <2>2. walk'.at # "idle" => \A r \in walk'.first : r.id \in 1 .. last'
    <3> SUFFICES ASSUME walk'.at # "idle", NEW r \in walk.first PROVE r.id \in 1 .. last'
      BY <1>6
    <3>1. r.id \in 1 .. last
      BY <1>2, <1>6 DEF ListingTyped
    <3> QED
      BY <3>1, <1>2, <1>3, <1>6
  <2> QED
    BY <1>2, <1>3, <1>5, <1>6, <2>1, <2>2 DEF ListingTyped
<1>8. KeysDiffer'
  <2>1. list.by = "id" => \A r \in rows' : r.key = r.id
    BY <1>2, <1>3, <1>4 DEF KeysDiffer, Key
  <2>2. list.by = "name" => \A r \in rows' : r.key = r.name
    BY <1>2, <1>3, <1>4 DEF KeysDiffer, Key
  <2>3. Untied => \A a \in rows : a.key # x.key
    <3> SUFFICES ASSUME Untied, NEW a \in rows PROVE a.key # x.key
      OBVIOUS
    <3>1. list.by \in {"id", "name"}
      BY <1>2, KindsOfLists DEF Untied, ListingTyped
    <3>2. a.id \in 1 .. last
      BY <1>2 DEF ListingTyped
    <3>3. CASE list.by = "id"
      BY <3>2, <3>3, <1>2, <1>4 DEF KeysDiffer, Key
    <3>4. CASE list.by = "name"
      <4>1. ~list.newestFirst
        BY <3>4, <1>2, KindsOfLists DEF ListingTyped
      <4>2. a.name # name
        BY <1>1, <3>4, <4>1 DEF MayBeNamed
      <4> QED
        BY <4>2, <3>4, <1>2, <1>4 DEF KeysDiffer, Key
    <3> QED
      BY <3>1, <3>3, <3>4
  <2>4. Untied => \A a, b \in rows' : a.key = b.key => a = b
    BY <2>3, <1>2, <1>3 DEF KeysDiffer
  <2> QED
    BY <2>1, <2>2, <2>4, <1>3 DEF KeysDiffer, Untied
<1>9. TotalHolds'
  BY <1>3, <1>6 DEF TotalHolds, Walking
<1>10. FewArePassedBy'
  <2> SUFFICES ASSUME Untied, walk'.at # "idle" PROVE Cardinality(PassedBy') <= deletes
    BY <1>3 DEF FewArePassedBy, Untied
  <2>1. Untied' /\ walk' = walk /\ walk.at # "idle"
    BY <1>3, <1>6 DEF Untied
  <2>2. \A r \in rows : Place(r)' \in Nat /\ Place(r) \in Nat /\ Place(r) <= Place(r)'
    <3> TAKE r \in rows
    <3>1. Ahead(RowOrder, rows, r) \subseteq Ahead(RowOrder, rows, r)'
      BY <1>3 DEF Ahead, RowOrder, Before
    <3>2. IsFiniteSet(rows') /\ Ahead(RowOrder, rows, r)' \in SUBSET rows'
      BY <1>5 DEF Ahead
    <3>3. IsFiniteSet(Ahead(RowOrder, rows, r)')
      BY <3>2, FS_Subset
    <3>4. IsFiniteSet(Ahead(RowOrder, rows, r))
      BY <3>1, <3>3, FS_Subset
    <3>5. Cardinality(Ahead(RowOrder, rows, r)) <= Cardinality(Ahead(RowOrder, rows, r)')
      BY <3>1, <3>3, FS_Subset
    <3> QED
      BY <3>3, <3>4, <3>5, FS_CardinalityType DEF Place, RankOf
  <2>3. PassedBy' \subseteq PassedBy
    <3> SUFFICES ASSUME NEW r \in PassedBy' PROVE r \in PassedBy
      OBVIOUS
    <3>1. r \in walk.first /\ r \in rows' /\ r \notin walk.met /\ Place(r)' < walk.offset
      BY <2>1 DEF PassedBy
    <3>2. r # x
      <4>1. r.id \in 1 .. last
        BY <3>1, <2>1, <1>2 DEF ListingTyped
      <4> QED
        BY <4>1, <1>2, <1>4
    <3>3. r \in rows /\ walk.offset \in Nat
      BY <3>1, <3>2, <1>2, <1>3, <2>1 DEF ListingTyped
    <3>4. Place(r) < walk.offset
      BY <3>1, <3>3, <2>2
    <3> QED
      BY <3>1, <3>3, <3>4 DEF PassedBy
  <2>4. Cardinality(PassedBy') <= Cardinality(PassedBy) /\ Cardinality(PassedBy) <= deletes
    BY <2>1, <2>3, <1>2, PassedByIsFinite, FS_Subset DEF ListingInv, FewArePassedBy
  <2> QED
    BY <2>4, <1>2, <2>3, PassedByIsFinite, FS_Subset, FS_CardinalityType DEF ListingTyped
<1>11. DoneIsPast'
  BY <1>6 DEF DoneIsPast
<1> QED
  BY <1>7, <1>8, <1>9, <1>10, <1>11 DEF ListingInv

\* A row that is deleted brings those after it one place forward, and so at most
\* one of them to where the walk has been.
LEMMA DeleteRowKeeps == ListingInv /\ DeleteRow => ListingInv'
<1> SUFFICES ASSUME ListingInv, DeleteRow PROVE ListingInv'
  OBVIOUS
<1>1. PICK x \in rows : rows' = rows \ {x}
  BY DEF DeleteRow
<1>2. /\ UNCHANGED <<list, last, walk>> /\ deletes' = deletes + 1
      /\ list.over = "flag" /\ walk.at \in {"count", "page"}
  BY DEF DeleteRow, Walking
<1>3. ListingTyped /\ KeysDiffer
  BY DEF ListingInv
<1>4. ListingTyped'
  <2>1. IsFiniteSet(rows') /\ rows' \subseteq rows
    BY <1>1, <1>3, FS_RemoveElement DEF ListingTyped
  <2> QED
    BY <2>1, <1>2, <1>3 DEF ListingTyped
<1>5. KeysDiffer'
  BY <1>1, <1>2, <1>3 DEF KeysDiffer, Untied
<1>6. FewArePassedBy'
  <2> SUFFICES ASSUME Untied PROVE Cardinality(PassedBy') <= deletes + 1
    BY <1>2 DEF FewArePassedBy, Untied
  <2> DEFINE Next1 == {r \in rows : Place(r) = walk.offset}
  <2>1. walk.offset \in Nat /\ deletes \in Nat
    BY <1>2, <1>3 DEF ListingTyped
  <2>2. \A r \in rows : Place(r) \in Nat
    BY <1>3, PlacesAreNumbers
  <2>3. \A r \in rows' : Place(r)' \in Nat /\ Place(r) <= Place(r)' + 1
    <3> TAKE r \in rows'
    <3>1. Ahead(RowOrder, rows, r)' = Ahead(RowOrder, rows, r) \ {x}
      BY <1>1, <1>2 DEF Ahead, RowOrder, Before
    <3>2. IsFiniteSet(Ahead(RowOrder, rows, r))
      <4>1. Ahead(RowOrder, rows, r) \in SUBSET rows /\ IsFiniteSet(rows)
        BY <1>3 DEF ListingTyped, Ahead
      <4> QED
        BY <4>1, FS_Subset
    <3> DEFINE A == Ahead(RowOrder, rows, r)
    <3>3. /\ Cardinality(A \ {x}) \in Nat /\ Cardinality(A) \in Nat
          /\ Cardinality(A) <= Cardinality(A \ {x}) + 1
      <4> HIDE DEF A
      <4>1. /\ IsFiniteSet(A \ {x})
            /\ Cardinality(A \ {x}) = IF x \in A THEN Cardinality(A) - 1 ELSE Cardinality(A)
        BY <3>2, FS_RemoveElement DEF A
      <4>2. Cardinality(A \ {x}) \in Nat /\ Cardinality(A) \in Nat
        BY <4>1, <3>2, FS_CardinalityType DEF A
      <4> QED
        BY <4>1, <4>2
    <3> QED
      BY <3>1, <3>3 DEF Place, RankOf
  <2>4. PassedBy' \subseteq PassedBy \cup Next1
    <3> SUFFICES ASSUME NEW r \in PassedBy' PROVE r \in PassedBy \cup Next1
      OBVIOUS
    <3>1. r \in walk.first /\ r \in rows' /\ r \notin walk.met /\ Place(r)' < walk.offset
      BY <1>2 DEF PassedBy
    <3>2. r \in rows /\ Place(r) <= walk.offset
      BY <3>1, <1>1, <2>1, <2>2, <2>3
    <3>3. Place(r) < walk.offset \/ Place(r) = walk.offset
      BY <3>2, <2>1, <2>2
    <3> QED
      BY <3>1, <3>2, <3>3 DEF PassedBy
  <2>5. \A a, b \in Next1 : a = b
    BY <1>3, RowsAreOrdered, RankIsOne DEF Place, ListingTyped
  <2>6. \E z : PassedBy' \subseteq PassedBy \cup {z}
    <3>1. CASE Next1 = {}
      BY <3>1, <2>4
    <3>2. CASE Next1 # {}
      <4>1. PICK z \in Next1 : Next1 = {z}
        BY <3>2, <2>5
      <4> QED
        BY <4>1, <2>4
    <3> QED
      BY <3>1, <3>2
  <2>7. PICK z : PassedBy' \subseteq PassedBy \cup {z}
    BY <2>6
  <2>8. IsFiniteSet(PassedBy) /\ Cardinality(PassedBy) \in Nat /\ Cardinality(PassedBy) <= deletes
    BY <1>2, <1>3, PassedByIsFinite DEF ListingInv, FewArePassedBy
  <2>9. /\ IsFiniteSet(PassedBy \cup {z})
        /\ Cardinality(PassedBy \cup {z}) <= Cardinality(PassedBy) + 1
        /\ Cardinality(PassedBy \cup {z}) \in Nat
    BY <2>8, FS_AddElement, FS_CardinalityType
  <2>10. Cardinality(PassedBy') <= Cardinality(PassedBy \cup {z}) /\ Cardinality(PassedBy') \in Nat
    BY <2>7, <2>9, FS_Subset, FS_CardinalityType
  <2> QED
    BY <2>1, <2>8, <2>9, <2>10
<1>7. TotalHolds' /\ DoneIsPast'
  BY <1>2 DEF TotalHolds, DoneIsPast
<1> QED
  BY <1>4, <1>5, <1>6, <1>7 DEF ListingInv

LEMMA BeginWalkKeeps == ListingInv /\ BeginWalk => ListingInv'
<1> SUFFICES ASSUME ListingInv, BeginWalk PROVE ListingInv'
  OBVIOUS
<1>1. PICK limit \in PageSizes, at \in {"count", "page"} :
        /\ walk' = [at |-> at, limit |-> limit, offset |-> 0, total |-> 0,
                    first |-> rows, met |-> {}]
        /\ at = "page" <=> list.over # "total"
  BY DEF BeginWalk
<1>2. deletes' = 0 /\ UNCHANGED <<list, rows, last>>
  BY DEF BeginWalk
<1>3. ListingTyped /\ KeysDiffer
  BY DEF ListingInv
<1>4. /\ walk'.at = at /\ walk'.limit = limit /\ walk'.offset = 0 /\ walk'.first = rows
      /\ DOMAIN walk' = WalkFields
  BY <1>1 DEF WalkFields
<1>5. ListingTyped'
  BY <1>2, <1>3, <1>4, SizeAssumption DEF ListingTyped
<1>6. KeysDiffer'
  BY <1>2, <1>3 DEF KeysDiffer, Untied
<1>7. TotalHolds'
  BY <1>1, <1>2, <1>4 DEF TotalHolds
<1>8. FewArePassedBy'
  <2> SUFFICES ASSUME Untied' PROVE Cardinality(PassedBy') <= deletes'
    BY DEF FewArePassedBy
  <2>1. \A r \in rows' : Place(r)' \in Nat
    <3>1. \A r \in rows : Place(r) \in Nat
      BY <1>2, <1>3, PlacesAreNumbers DEF Untied
    <3>2. \A r : Place(r)' = Place(r)
      BY <1>2 DEF Place, RowOrder, Before
    <3> QED
      BY <3>1, <3>2, <1>2
  <2>2. PassedBy' = {}
    BY <1>4, <2>1 DEF PassedBy
  <2> QED
    BY <2>2, <1>2, FS_EmptySet
<1>9. DoneIsPast'
  BY <1>4 DEF DoneIsPast
<1> QED
  BY <1>5, <1>6, <1>7, <1>8, <1>9 DEF ListingInv

LEMMA CountItemsKeeps == ListingInv /\ CountItems => ListingInv'
<1> SUFFICES ASSUME ListingInv, CountItems PROVE ListingInv'
  OBVIOUS
<1>1. /\ walk.at = "count" /\ UNCHANGED <<list, rows, last, deletes>>
      /\ walk' = [walk EXCEPT !.at = "page", !.total = Cardinality(rows)]
  BY DEF CountItems
<1>2. ListingTyped /\ KeysDiffer /\ DOMAIN walk = WalkFields
  BY <1>1 DEF ListingInv, ListingTyped
<1>3. /\ walk'.at = "page" /\ walk'.total = Cardinality(rows) /\ DOMAIN walk' = WalkFields
      /\ walk'.limit = walk.limit /\ walk'.offset = walk.offset
      /\ walk'.first = walk.first /\ walk'.met = walk.met
  BY <1>1, <1>2 DEF WalkFields
<1>4. ListingTyped' /\ TotalHolds'
  BY <1>1, <1>2, <1>3 DEF ListingTyped, TotalHolds
<1>5. KeysDiffer'
  BY <1>1, <1>2 DEF KeysDiffer, Untied
<1>6. FewArePassedBy'
  <2>1. PassedBy' = PassedBy
    BY <1>1, <1>3 DEF PassedBy, Place, RowOrder, Before
  <2> QED
    BY <2>1, <1>1, <1>3 DEF ListingInv, FewArePassedBy, Untied
<1>7. DoneIsPast'
  BY <1>3 DEF DoneIsPast
<1> QED
  BY <1>4, <1>5, <1>6, <1>7 DEF ListingInv

\* p is the part of s that LIMIT n OFFSET offset returns.
IsPart(p, s, offset, n, T) ==
    /\ p \in Seq(T)
    /\ Len(p) = IF Len(s) <= offset THEN 0
                ELSE IF offset + n < Len(s) THEN n ELSE Len(s) - offset
    /\ \A i \in 1 .. Len(p) : p[i] = s[offset + i]

LEMMA SliceIs ==
  ASSUME NEW T, NEW s \in Seq(T), NEW offset \in Nat, NEW n \in Nat
  PROVE  IsPart(Slice(s, offset, n), s, offset, n, T)
<1> DEFINE m == IF offset + n < Len(s) THEN offset + n ELSE Len(s)
<1>1. m \in Nat /\ m <= Len(s) /\ Slice(s, offset, n) = SubSeq(s, offset + 1, m)
  BY DEF Slice
<1> HIDE DEF m
<1>2. /\ SubSeq(s, offset + 1, m) \in Seq(T)
      /\ Len(SubSeq(s, offset + 1, m)) = IF offset + 1 <= m THEN m - offset ELSE 0
      /\ \A i \in 1 .. m - offset : SubSeq(s, offset + 1, m)[i] = s[offset + i]
  BY <1>1
<1>3. Len(s) \in Nat
  OBVIOUS
<1>4. (IF offset + 1 <= m THEN m - offset ELSE 0) =
        IF Len(s) <= offset THEN 0 ELSE IF offset + n < Len(s) THEN n ELSE Len(s) - offset
  BY <1>3 DEF m
<1>5. offset + 1 <= m \/ m - offset <= 0
  BY <1>1
<1> QED
  BY <1>1, <1>2, <1>4, <1>5 DEF IsPart

\* What a page takes of the list, and when it tells that nothing follows.
IsPageOf(s, offset, limit, fetched, items) ==
    /\ \A j \in 1 .. Len(s) : offset < j /\ j <= offset + limit => s[j] \in Range(items)
    /\ Len(items) < limit => Len(s) <= offset + limit
    /\ list.over = "flag" /\ ~(Len(fetched) > limit) => Len(s) <= offset + limit
    /\ offset + Len(items) >= Len(s) => Len(s) <= offset + limit

LEMMA PageTakes ==
  ASSUME NEW T, NEW s \in Seq(T), NEW offset \in Nat, NEW limit \in Nat \ {0},
         NEW fetched, fetched = Slice(s, offset, Fetch(limit)),
         NEW items, items = Slice(fetched, 0, limit)
  PROVE  IsPageOf(s, offset, limit, fetched, items)
<1>1. Fetch(limit) \in Nat /\ Fetch(limit) >= limit
      /\ (list.over = "flag" => Fetch(limit) = limit + 1)
  BY DEF Fetch
<1> IsPart(fetched, s, offset, Fetch(limit), T)
  BY <1>1, SliceIs
<1>2. /\ fetched \in Seq(T)
      /\ Len(fetched) = IF Len(s) <= offset THEN 0
                        ELSE IF offset + Fetch(limit) < Len(s) THEN Fetch(limit)
                        ELSE Len(s) - offset
      /\ \A i \in 1 .. Len(fetched) : fetched[i] = s[offset + i]
  BY DEF IsPart
<1> IsPart(items, fetched, 0, limit, T)
  BY <1>2, SliceIs
<1>3. /\ items \in Seq(T)
      /\ Len(items) = IF Len(fetched) <= 0 THEN 0
                      ELSE IF 0 + limit < Len(fetched) THEN limit ELSE Len(fetched) - 0
      /\ \A i \in 1 .. Len(items) : items[i] = fetched[0 + i]
  BY DEF IsPart
<1>4. Len(s) \in Nat /\ Len(items) \in Nat /\ Len(fetched) \in Nat
  BY <1>2, <1>3
<1>5. Len(items) = IF Len(s) <= offset THEN 0
                   ELSE IF offset + limit < Len(s) THEN limit ELSE Len(s) - offset
  BY <1>1, <1>2, <1>3, <1>4
<1>6. \A i \in 1 .. Len(items) : items[i] = s[offset + i]
  BY <1>2, <1>3, <1>4
<1>7. ASSUME NEW j \in 1 .. Len(s), offset < j, j <= offset + limit PROVE s[j] \in Range(items)
  <2>1. j - offset \in 1 .. Len(items)
    BY <1>4, <1>5, <1>7
  <2>2. items[j - offset] = s[offset + (j - offset)]
    BY <2>1, <1>6
  <2>3. offset + (j - offset) = j
    OBVIOUS
  <2>4. DOMAIN items = 1 .. Len(items)
    BY <1>3
  <2> QED
    BY <2>1, <2>2, <2>3, <2>4 DEF Range
<1>8. Len(items) < limit => Len(s) <= offset + limit
  BY <1>4, <1>5
<1>9. list.over = "flag" /\ ~(Len(fetched) > limit) => Len(s) <= offset + limit
  BY <1>1, <1>2, <1>4
<1>10. offset + Len(items) >= Len(s) => Len(s) <= offset + limit
  BY <1>4, <1>5
<1> QED
  BY <1>7, <1>8, <1>9, <1>10 DEF IsPageOf

LEMMA ReadListingKeeps == ListingInv /\ ReadListing => ListingInv'
<1> SUFFICES ASSUME ListingInv, ReadListing PROVE ListingInv'
  OBVIOUS
<1>1. ListingTyped /\ KeysDiffer /\ walk.at = "page" /\ UNCHANGED <<list, rows, last, deletes>>
  BY DEF ListingInv, ReadListing
<1>2. walk.offset \in Nat /\ walk.limit \in Nat \ {0} /\ DOMAIN walk = WalkFields
  BY <1>1 DEF ListingTyped
<1>3. PICK s \in Results :
         LET fetched == Slice(s, walk.offset, Fetch(walk.limit))
             items == Slice(fetched, 0, walk.limit)
             done == CASE list.over = "flag" -> ~(Len(fetched) > walk.limit)
                       [] list.over = "total" -> walk.offset + Len(items) >= walk.total
                       [] OTHER -> Len(items) < walk.limit
         IN walk' = [walk EXCEPT !.met = @ \cup Range(items),
                                 !.offset = @ + walk.limit,
                                 !.at = IF done THEN "done"
                                        ELSE IF list.over = "total" THEN "count" ELSE "page"]
  BY DEF ReadListing
<1> DEFINE fetched == Slice(s, walk.offset, Fetch(walk.limit))
           items == Slice(fetched, 0, walk.limit)
           done == CASE list.over = "flag" -> ~(Len(fetched) > walk.limit)
                     [] list.over = "total" -> walk.offset + Len(items) >= walk.total
                     [] OTHER -> Len(items) < walk.limit
           at == IF done THEN "done" ELSE IF list.over = "total" THEN "count" ELSE "page"
           n == Cardinality(rows)
<1>4. /\ n \in Nat /\ s \in [1 .. n -> rows] /\ s \in Seq(rows) /\ Len(s) = n
      /\ \A i, j \in 1 .. n : i # j => s[i] # s[j]
      /\ \A i, j \in 1 .. n : i < j => Before(s[i], s[j])
  <2>1. n \in Nat
    BY <1>1, FS_CardinalityType DEF ListingTyped
  <2>2. s \in SetToSeqs(rows) /\ \A i, j \in DOMAIN s : i < j => Before(s[i], s[j])
    BY DEF Results
  <2>3. s \in [1 .. n -> rows] /\ \A i, j \in 1 .. n : i # j => s[i] # s[j]
    BY <2>2 DEF SetToSeqs
  <2> QED
    BY <2>1, <2>2, <2>3
<1>5. /\ \A j \in 1 .. n : walk.offset < j /\ j <= walk.offset + walk.limit => s[j] \in Range(items)
      /\ done => n <= walk.offset + walk.limit
  <2>1. fetched = Slice(s, walk.offset, Fetch(walk.limit)) /\ items = Slice(fetched, 0, walk.limit)
    OBVIOUS
  <2> HIDE DEF fetched, items, n
  <2>2. IsPageOf(s, walk.offset, walk.limit, fetched, items)
    BY <1>2, <1>4, <2>1, PageTakes
  <2>3. /\ \A j \in 1 .. Len(s) : walk.offset < j /\ j <= walk.offset + walk.limit
                                     => s[j] \in Range(items)
        /\ Len(items) < walk.limit => Len(s) <= walk.offset + walk.limit
        /\ list.over = "flag" /\ ~(Len(fetched) > walk.limit)
             => Len(s) <= walk.offset + walk.limit
        /\ walk.offset + Len(items) >= Len(s) => Len(s) <= walk.offset + walk.limit
    BY <2>2 DEF IsPageOf
  <2>4. list.over = "total" => walk.total = n
    BY <1>1 DEF ListingInv, TotalHolds, n
  <2>5. CASE list.over = "flag"
    BY <2>3, <2>5, <1>4
  <2>6. CASE list.over = "total"
    BY <2>3, <2>4, <2>6, <1>4
  <2>7. CASE list.over \notin {"flag", "total"}
    BY <2>3, <2>7, <1>4
  <2> QED
    BY <2>5, <2>6, <2>7
<1>6. walk' = [walk EXCEPT !.met = walk.met \cup Range(items),
                           !.offset = walk.offset + walk.limit, !.at = at]
  BY <1>3
<1> HIDE DEF fetched, items, done, n
<1>7. /\ walk'.at = at /\ walk'.offset = walk.offset + walk.limit
      /\ walk'.met = walk.met \cup Range(items)
      /\ walk'.limit = walk.limit /\ walk'.first = walk.first /\ DOMAIN walk' = WalkFields
  BY <1>2, <1>6 DEF WalkFields
<1>8. at \in {"done", "count", "page"} /\ (at = "done" <=> done)
      /\ (at = "page" => list.over # "total")
  OBVIOUS
<1> HIDE DEF at
<1>9. ListingTyped'
  BY <1>1, <1>2, <1>7, <1>8 DEF ListingTyped
<1>10. KeysDiffer' /\ TotalHolds'
  BY <1>1, <1>7, <1>8 DEF KeysDiffer, Untied, TotalHolds
<1>11. Untied =>
         /\ \A i \in 1 .. n : Place(s[i]) = i - 1
         /\ \A a \in rows : \E i \in 1 .. n : s[i] = a
  <2> SUFFICES ASSUME Untied PROVE /\ \A i \in 1 .. n : Place(s[i]) = i - 1
                                   /\ \A a \in rows : \E i \in 1 .. n : s[i] = a
    OBVIOUS
  <2>1. StrictOrder(RowOrder, rows) /\ IsFiniteSet(rows)
    BY <1>1, RowsAreOrdered DEF ListingTyped
  <2>2. \A i, j \in 1 .. n : i < j => <<s[i], s[j]>> \in RowOrder
    BY <1>4 DEF RowOrder
  <2>3. s \in [1 .. n -> rows]
    BY <1>4
  <2> QED
    BY <2>1, <2>2, <2>3, SortedByRank DEF Place, n
<1>12. \A r : Place(r)' = Place(r)
  BY <1>1 DEF Place, RowOrder, Before
<1>13. FewArePassedBy'
  <2> SUFFICES ASSUME Untied PROVE Cardinality(PassedBy') <= deletes
    BY <1>1 DEF FewArePassedBy, Untied
  <2>1. PassedBy' \subseteq PassedBy
    <3> SUFFICES ASSUME NEW r \in PassedBy' PROVE r \in PassedBy
      OBVIOUS
    <3>1. /\ r \in walk.first /\ r \in rows /\ r \notin walk.met /\ r \notin Range(items)
          /\ Place(r) < walk.offset + walk.limit
      BY <1>1, <1>7, <1>12 DEF PassedBy
    <3>2. PICK i \in 1 .. n : s[i] = r
      BY <3>1, <1>11
    <3>3. Place(r) = i - 1
      BY <3>2, <1>11
    <3>4. ~(walk.offset < i /\ i <= walk.offset + walk.limit)
      BY <3>1, <3>2, <1>5
    <3>5. Place(r) < walk.offset
      BY <3>1, <3>3, <3>4, <1>2, <1>4
    <3> QED
      BY <3>1, <3>5 DEF PassedBy
  <2>2. Cardinality(PassedBy) <= deletes /\ deletes \in Nat
    BY <1>1 DEF ListingInv, FewArePassedBy, ListingTyped
  <2>3. IsFiniteSet(PassedBy) /\ Cardinality(PassedBy) \in Nat
    BY <1>1, PassedByIsFinite
  <2>4. Cardinality(PassedBy') <= Cardinality(PassedBy) /\ Cardinality(PassedBy') \in Nat
    BY <2>1, <2>3, FS_Subset, FS_CardinalityType
  <2> QED
    BY <2>2, <2>3, <2>4
<1>14. DoneIsPast'
  <2> SUFFICES ASSUME Untied, done, NEW r \in rows PROVE Place(r) < walk.offset + walk.limit
    BY <1>1, <1>7, <1>8, <1>12 DEF DoneIsPast, Untied
  <2>1. PICK i \in 1 .. n : s[i] = r /\ Place(r) = i - 1
    BY <1>11
  <2> QED
    BY <2>1, <1>2, <1>4, <1>5
<1> QED
  BY <1>9, <1>10, <1>13, <1>14 DEF ListingInv

LEMMA ListingNextKeeps == ListingInv /\ [ListingNext]_listingVars => ListingInv'
<1> SUFFICES ASSUME ListingInv, [ListingNext]_listingVars PROVE ListingInv'
  OBVIOUS
<1>1. CASE UNCHANGED listingVars
  <2>1. UNCHANGED <<list, rows, last, deletes, walk>>
    BY <1>1 DEF listingVars
  <2>2. ListingTyped' /\ KeysDiffer' /\ TotalHolds'
    BY <2>1 DEF ListingInv, ListingTyped, KeysDiffer, TotalHolds, Untied
  <2>3. FewArePassedBy' /\ DoneIsPast'
    BY <2>1 DEF ListingInv, FewArePassedBy, DoneIsPast, PassedBy, Untied, Place, RowOrder, Before
  <2> QED
    BY <2>2, <2>3 DEF ListingInv
<1> QED
  BY <1>1, AddRowKeeps, DeleteRowKeeps, BeginWalkKeeps, CountItemsKeeps, ReadListingKeeps
     DEF ListingNext

\* Where rows do not tie, a reader who walks a list to its end has met every row
\* that was there when it began and is still there, except one for each row
\* deleted meanwhile; rows that are added lose nothing (list_characters,
\* item_logs, search_items).
LEMMA WalkMissesNothingAlone == ListingSpec => []WalkMissesNothing
<1>1. ListingInv => WalkMissesNothing
  <2> SUFFICES ASSUME ListingInv, walk.at = "done", Untied
               PROVE  Cardinality((walk.first \cap rows) \ walk.met) <= deletes
    BY DEF WalkMissesNothing, Untied
  <2>1. (walk.first \cap rows) \ walk.met = PassedBy
    BY DEF ListingInv, DoneIsPast, PassedBy
  <2> QED
    BY <2>1 DEF ListingInv, FewArePassedBy
<1> QED
  BY ListingInitHolds, ListingNextKeeps, <1>1, PTL DEF ListingSpec

-----------------------------------------------------------------------------
(***************************************************************************)
(* The timeline: the merge.                                                *)
(***************************************************************************)
\* p is the page that A, put in order by date, comes to: what it leaves out is
\* not newer than anything on it.
IsMerge(p, A, limit) ==
    /\ p = [i \in 1 .. Len(p) |-> p[i]] /\ Len(p) \in Nat /\ Len(p) <= limit
    /\ \A e \in Range(p) : e \in Range(A)
    /\ \A i, j \in DOMAIN p : i < j => p[i].date >= p[j].date
    /\ \A a \in Range(A) :
         a \in Range(p) \/ (Len(p) = limit /\ \A e \in Range(p) : e.date >= a.date)

\* list.sort: a later place is of an entry that is not newer, and every entry
\* has a place.
LEMMA SortedIs ==
  ASSUME NEW T, NEW A \in Seq(T), \A e \in T : e.date \in Int,
         NEW s, s = Sorted(A)
  PROVE  /\ DOMAIN s = 1 .. Len(A)
         /\ \A i \in 1 .. Len(A) : s[i] \in Range(A)
         /\ \A i, j \in 1 .. Len(A) : i < j => s[i].date >= s[j].date
         /\ \A a \in Range(A) : \E i \in 1 .. Len(A) : s[i] = a
<1> DEFINE D == 1 .. Len(A)
           Rel == {p \in D \X D : \/ A[p[1]].date > A[p[2]].date
                                  \/ A[p[1]].date = A[p[2]].date /\ p[1] < p[2]}
           nth(i) == ElementAt(Rel, D, i)
<1>1. Len(A) \in Nat /\ DOMAIN A = D /\ IsFiniteSet(D) /\ Cardinality(D) = Len(A)
  <2>1. Len(A) \in Nat /\ DOMAIN A = D
    OBVIOUS
  <2> QED
    BY <2>1, CountTo
<1>2. \A i \in D : A[i].date \in Int /\ i \in Int
  OBVIOUS
<1>3. \A a, b \in D : <<a, b>> \in Rel <=> \/ A[a].date > A[b].date
                                           \/ A[a].date = A[b].date /\ a < b
  OBVIOUS
<1>4. StrictOrder(Rel, D)
  <2> HIDE DEF Rel, D
  <2>1. \A a \in D : <<a, a>> \notin Rel
    BY <1>2, <1>3
  <2>2. \A a, b, c \in D : <<a, b>> \in Rel /\ <<b, c>> \in Rel => <<a, c>> \in Rel
    <3> TAKE a, b, c \in D
    <3>1. \A x, y, z \in Int : x > y /\ y > z => x > z
      OBVIOUS
    <3>2. a < b /\ b < c => a < c
      BY <1>2
    <3>3. /\ A[a].date > A[b].date \/ A[a].date = A[b].date
          /\ A[b].date > A[c].date \/ A[b].date = A[c].date
          => A[a].date > A[c].date \/ A[a].date = A[c].date
      BY <1>2, <3>1
    <3>4. (A[a].date > A[b].date \/ A[b].date > A[c].date)
            /\ (A[a].date > A[b].date \/ A[a].date = A[b].date)
            /\ (A[b].date > A[c].date \/ A[b].date = A[c].date)
          => A[a].date > A[c].date
      BY <1>2, <3>1
    <3> QED
      BY <1>3, <3>2, <3>4
  <2>3. \A a, b \in D : a = b \/ <<a, b>> \in Rel \/ <<b, a>> \in Rel
    <3> TAKE a, b \in D
    <3>1. A[a].date > A[b].date \/ A[b].date > A[a].date \/ A[a].date = A[b].date
      BY <1>2
    <3>2. a < b \/ b < a \/ a = b
      BY <1>2
    <3> QED
      BY <1>3, <3>1, <3>2
  <2> QED
    BY <2>1, <2>2, <2>3 DEF StrictOrder
<1>5. s = [i \in D |-> A[nth(i)]]
  <2>1. \A a \in D : {b \in D : <<b, a>> \in Rel} =
                     {b \in D : \/ A[b].date > A[a].date
                                \/ A[b].date = A[a].date /\ b < a}
    BY <1>3
  <2>2. \A i \in D : nth(i) =
          CHOOSE a \in D : Cardinality({b \in D : \/ A[b].date > A[a].date
                                                  \/ A[b].date = A[a].date /\ b < a}) = i - 1
    BY <2>1 DEF ElementAt
  <2>3. s = [i \in D |->
          A[CHOOSE a \in D : Cardinality({b \in D : \/ A[b].date > A[a].date
                                                    \/ A[b].date = A[a].date /\ b < a}) = i - 1]]
    BY <1>1 DEF Sorted, Nth
  <2> QED
    BY <2>2, <2>3
<1>6. \A i \in D : nth(i) \in D /\ RankOf(Rel, D, nth(i)) = i - 1
  <2> TAKE i \in D
  <2>1. i \in 1 .. Cardinality(D)
    BY <1>1
  <2> HIDE DEF D, Rel
  <2>2. /\ ElementAt(Rel, D, i) \in D
        /\ RankOf(Rel, D, ElementAt(Rel, D, i)) = i - 1
    <3>1. IsFiniteSet(D)
      BY <1>1
    <3> HIDE DEF nth
    <3> QED
      BY <3>1, <1>4, <2>1, ElementAtItsRank
  <2> QED
    BY <2>2
<1> HIDE DEF nth, Rel
<1>7. \A i \in D : s[i] \in Range(A)
  BY <1>1, <1>5, <1>6 DEF Range
<1>8. ASSUME NEW i \in D, NEW j \in D, i < j PROVE s[i].date >= s[j].date
  <2>1. <<nth(i), nth(j)>> \in Rel
    <3>1. RankOf(Rel, D, nth(i)) < RankOf(Rel, D, nth(j))
      BY <1>6, <1>8, <1>1
    <3> QED
      BY <3>1, <1>1, <1>4, <1>6, RankTells
  <2>2. A[nth(i)].date >= A[nth(j)].date
    <3>1. PICK a \in D, b \in D : a = nth(i) /\ b = nth(j)
      BY <1>6
    <3>2. A[a].date > A[b].date \/ A[a].date = A[b].date
      BY <2>1, <3>1, <1>3
    <3>3. A[a].date \in Int /\ A[b].date \in Int
      BY <1>2
    <3> QED
      BY <3>1, <3>2, <3>3
  <2> QED
    BY <2>2, <1>5
<1>9. ASSUME NEW a \in Range(A) PROVE \E i \in D : s[i] = a
  <2>1. PICK k \in D : A[k] = a
    BY <1>1 DEF Range
  <2>2. RankOf(Rel, D, k) \in 0 .. Len(A) - 1
    BY <1>1, <1>4, RankInRange
  <2> DEFINE i == RankOf(Rel, D, k) + 1
  <2>3. i \in D /\ i - 1 = RankOf(Rel, D, k)
    BY <1>1, <2>2
  <2> HIDE DEF i
  <2>4. nth(i) = k
    <3>1. nth(i) \in D /\ RankOf(Rel, D, nth(i)) = RankOf(Rel, D, k)
      BY <2>3, <1>6
    <3> HIDE DEF D
    <3> QED
      BY <3>1, <1>1, <1>4, RankIsOne
  <2> QED
    BY <2>1, <2>3, <2>4, <1>5
<1> QED
  BY <1>5, <1>7, <1>8, <1>9

LEMMA MergedIs ==
  ASSUME NEW T, NEW A \in Seq(T), \A e \in T : e.date \in Int, NEW limit \in Nat
  PROVE  IsMerge(Merged(A, limit), A, limit)
<1> DEFINE s == Sorted(A)
           m == IF Len(A) < limit THEN Len(A) ELSE limit
           p == Merged(A, limit)
<1>1. /\ DOMAIN s = 1 .. Len(A)
      /\ \A i \in 1 .. Len(A) : s[i] \in Range(A)
      /\ \A i, j \in 1 .. Len(A) : i < j => s[i].date >= s[j].date
      /\ \A a \in Range(A) : \E i \in 1 .. Len(A) : s[i] = a
  BY SortedIs
<1>2. Len(A) \in Nat /\ m \in Nat /\ m <= Len(A) /\ m <= limit
  OBVIOUS
<1>3. Range(A) \subseteq T
  BY DEF Range
<1>4. s \in Seq(T) /\ Len(s) = Len(A)
  <2> HIDE DEF s
  <2>1. s \in [1 .. Len(A) -> T]
    <3>1. s = [i \in DOMAIN s |-> s[i]]
      BY DEF Sorted, s
    <3> QED
      BY <3>1, <1>1, <1>3
  <2> QED
    BY <2>1, <1>2
<1>5. p = SubSeq(s, 1, m)
  BY <1>4 DEF Merged, Cut
<1> HIDE DEF s, m, p
<1>6. /\ p = [i \in 1 .. Len(p) |-> p[i]] /\ DOMAIN p = 1 .. m /\ Len(p) = m
      /\ \A i \in 1 .. m : p[i] = s[i]
  BY <1>2, <1>4, <1>5
<1>7. \A e \in Range(p) : e \in Range(A)
  BY <1>1, <1>2, <1>6 DEF Range
<1>8. \A i, j \in DOMAIN p : i < j => p[i].date >= p[j].date
  BY <1>1, <1>2, <1>6
<1>9. ASSUME NEW a \in Range(A)
      PROVE  a \in Range(p) \/ (Len(p) = limit /\ \A e \in Range(p) : e.date >= a.date)
  <2>1. PICK i \in 1 .. Len(A) : s[i] = a
    BY <1>1
  <2>2. CASE i <= m
    <3>1. i \in DOMAIN p /\ p[i] = a
      BY <1>2, <1>6, <2>1, <2>2
    <3> QED
      BY <3>1 DEF Range
  <2>3. CASE m < i
    <3>1. m = limit
      BY <1>2, <2>3 DEF m
    <3>2. ASSUME NEW e \in Range(p) PROVE e.date >= a.date
      <4>1. PICK k \in 1 .. m : e = s[k]
        BY <1>6 DEF Range
      <4>2. k \in 1 .. Len(A) /\ k < i
        BY <1>2, <2>3, <4>1
      <4> QED
        BY <1>1, <2>1, <4>1, <4>2
    <3> QED
      BY <3>1, <3>2, <1>6
  <2> QED
    BY <1>2, <2>2, <2>3
<1> QED
  BY <1>2, <1>6, <1>7, <1>8, <1>9 DEF IsMerge, p

LEMMA JoinedIs ==
  ASSUME NEW T, NEW p \in Seq(T), NEW q \in Seq(T)
  PROVE  p \o q \in Seq(T) /\ Range(p \o q) = Range(p) \cup Range(q)
<1>1. /\ p \o q \in Seq(T) /\ Len(p \o q) = Len(p) + Len(q)
      /\ \A i \in 1 .. Len(p) : (p \o q)[i] = p[i]
      /\ \A i \in 1 .. Len(q) : (p \o q)[Len(p) + i] = q[i]
  OBVIOUS
<1>2. DOMAIN (p \o q) = 1 .. Len(p) + Len(q) /\ DOMAIN p = 1 .. Len(p) /\ DOMAIN q = 1 .. Len(q)
      /\ Len(p) \in Nat /\ Len(q) \in Nat
  OBVIOUS
<1>3. ASSUME NEW i \in DOMAIN (p \o q) PROVE (p \o q)[i] \in Range(p) \cup Range(q)
  <2>1. CASE i <= Len(p)
    BY <1>1, <1>2, <2>1 DEF Range
  <2>2. CASE Len(p) < i
    <3>1. i - Len(p) \in DOMAIN q /\ (p \o q)[i] = q[i - Len(p)]
      BY <1>1, <1>2, <2>2
    <3> QED
      BY <3>1 DEF Range
  <2> QED
    BY <1>2, <2>1, <2>2
<1>4. ASSUME NEW i \in DOMAIN p PROVE p[i] \in Range(p \o q)
  BY <1>1, <1>2 DEF Range
<1>5. ASSUME NEW i \in DOMAIN q PROVE q[i] \in Range(p \o q)
  <2>1. Len(p) + i \in DOMAIN (p \o q) /\ (p \o q)[Len(p) + i] = q[i]
    BY <1>1, <1>2
  <2> QED
    BY <2>1 DEF Range
<1>6. Range(p \o q) \subseteq Range(p) \cup Range(q)
  BY <1>3 DEF Range
<1>7. Range(p) \subseteq Range(p \o q) /\ Range(q) \subseteq Range(p \o q)
  BY <1>4, <1>5 DEF Range
<1> QED
  BY <1>1, <1>6, <1>7

\* A page that holds as many entries as it may holds no others.
LEMMA PageIsFull ==
  ASSUME NEW p, NEW limit \in Nat, p = [i \in 1 .. Len(p) |-> p[i]],
         Len(p) \in Nat, Len(p) <= limit,
         NEW f \in Injection(1 .. limit, Range(p))
  PROVE  Len(p) = limit /\ \A e \in Range(p) : \E i \in 1 .. limit : f[i] = e
<1>1. p \in Surjection(1 .. Len(p), Range(p))
  BY DEF Surjection, Range
<1>2. /\ IsFiniteSet(1 .. Len(p)) /\ Cardinality(1 .. Len(p)) = Len(p)
      /\ IsFiniteSet(1 .. limit) /\ Cardinality(1 .. limit) = limit
  BY CountTo
<1>3. IsFiniteSet(Range(p)) /\ Cardinality(Range(p)) <= Len(p)
  BY <1>1, <1>2, FS_Surjection
<1>4. Cardinality(Range(p)) \in Nat
  BY <1>3, FS_CardinalityType
<1>5. /\ limit <= Cardinality(Range(p))
      /\ limit = Cardinality(Range(p)) <=> f \in Surjection(1 .. limit, Range(p))
  BY <1>2, <1>3, FS_Injection
<1>6. f \in Surjection(1 .. limit, Range(p)) /\ Len(p) = limit
  BY <1>3, <1>4, <1>5
<1> QED
  BY <1>6 DEF Surjection

-----------------------------------------------------------------------------
(***************************************************************************)
(* The timeline: its request among the writers.                            *)
(***************************************************************************)
AnyItem == Items \cup {NoItem}
LogRow == [date : Nat, item : AnyItem, cause : Nat]
Statuses == {"pending", "processing", "finished"}
QueueRow1 == [date : Nat, action : {"give_item", "sync_character"}, item : AnyItem,
              status : Statuses]
EntryRecord == [kind : {"command", "zeny", "item", "queued"}, n : Nat, date : Nat,
                item : AnyItem, status : Statuses \cup {"none"}, named : BOOLEAN]
ReadFields == {"at", "next", "limit", "sources", "got", "seen", "page"}
UnderWay == read.at \in {"read", "names"}

WorldTyped ==
    /\ today \in 0 .. MaxDate /\ installed \in BOOLEAN
    /\ log \in [Logs -> Seq(LogRow)]
    /\ queue \in Seq(QueueRow1)
    /\ queue # <<>> => installed

\* Rows are written in the order of their dates.
RowsInOrder ==
    \A s \in Sources :
        /\ \A i \in DOMAIN Table(s) : Table(s)[i].date <= today
        /\ \A i, j \in DOMAIN Table(s) : i < j => Table(s)[i].date <= Table(s)[j].date

\* Only picklog names items, and an item given by a command follows its row.
CausesStand ==
    /\ \A s \in Logs \ {"picklog"} : \A i \in DOMAIN log[s] :
         log[s][i].item = NoItem /\ log[s][i].cause = 0
    /\ \A i \in DOMAIN log["picklog"] :
         LET q == log["picklog"][i].cause IN
         q # 0 => q \in DOMAIN queue /\ queue[q].status # "pending"

WorldInv == WorldTyped /\ RowsInOrder /\ CausesStand

ReadTyped ==
    /\ read.at \in {"idle", "read", "names", "answered"}
    /\ UnderWay =>
         /\ DOMAIN read = ReadFields
         /\ read.next \in 1 .. 5 /\ (read.at = "read" <=> read.next # 5)
         /\ read.limit \in Limits
         /\ read.sources \subseteq Sources
         /\ read.got \in [Sources -> Seq(EntryRecord)]
         /\ read.seen \in [Sources -> Nat]
         /\ read.page = <<>>
         /\ \A k \in 1 .. 4 : Order[k] \in Logs /\ k < read.next => Order[k] \in read.sources
         /\ \A k \in 1 .. 4 : Order[k] \in read.sources => k < read.next
         /\ \A s \in Sources \ read.sources : read.got[s] = <<>>

InstantsStand ==
    /\ instants \subseteq BOOLEAN
    /\ UnderWay => /\ installed \in instants
                   /\ "queue" \in read.sources => TRUE \in instants
                   /\ read.next = 5 /\ "queue" \notin read.sources => FALSE \in instants

\* What was fetched of a source are its rows as they were, none twice, and no
\* row that was left out is newer.
FetchStands(s) ==
    LET g == read.got[s] IN
    /\ read.seen[s] <= Len(Table(s))
    /\ \A i \in DOMAIN g :
         /\ g[i].kind = Kind(s) /\ g[i].n \in 1 .. read.seen[s]
         /\ g[i].date = Table(s)[g[i].n].date /\ g[i].item = Table(s)[g[i].n].item
    /\ \A i, j \in DOMAIN g : g[i].n = g[j].n => i = j
    /\ \A n \in 1 .. read.seen[s] :
         \/ \E i \in DOMAIN g : g[i].n = n
         \/ Len(g) = read.limit /\ \A i \in DOMAIN g : g[i].date >= Table(s)[n].date

FetchesStand == UnderWay => \A s \in read.sources : FetchStands(s)

\* The queue is read after picklog: the command that gave an item was there.
CausesFetched ==
    UnderWay /\ read.next = 5 =>
        \A i \in DOMAIN read.got["picklog"] :
            LET q == log["picklog"][read.got["picklog"][i].n].cause IN
            q # 0 =>
                /\ "queue" \in read.sources /\ q \in 1 .. read.seen["queue"]
                /\ \A j \in DOMAIN read.got["queue"] :
                     read.got["queue"][j].n = q => read.got["queue"][j].status # "pending"

AnswerIsTrue ==
    read.at = "answered" =>
        /\ NewestFirst /\ SourcesAreThoseRead /\ NamesAreResolved /\ EffectHasItsCause
        /\ Len(read.page) <= read.limit /\ read.sources \subseteq Sources

TimelineInv ==
    WorldInv /\ ReadTyped /\ InstantsStand /\ FetchesStand /\ CausesFetched /\ AnswerIsTrue

LEMMA TimelineInitHolds == TimelineInit => TimelineInv
<1> SUFFICES ASSUME TimelineInit PROVE TimelineInv
  OBVIOUS
<1>1. /\ today = 0 /\ log = [s \in Logs |-> <<>>] /\ queue = <<>> /\ installed \in BOOLEAN
      /\ read.at = "idle" /\ instants = {}
  BY DEF TimelineInit
<1>2. \A s \in Sources : Table(s) = <<>>
  BY <1>1 DEF Sources, Table
<1>3. WorldTyped
  BY <1>1, DateAssumption DEF WorldTyped
<1>4. RowsInOrder /\ CausesStand
  BY <1>1, <1>2 DEF RowsInOrder, CausesStand, Logs
<1>5. ReadTyped /\ InstantsStand /\ FetchesStand /\ CausesFetched /\ AnswerIsTrue
  BY <1>1 DEF ReadTyped, InstantsStand, FetchesStand, CausesFetched, AnswerIsTrue, UnderWay
<1> QED
  BY <1>3, <1>4, <1>5 DEF TimelineInv, WorldInv

\* Rows are added, and what they were written with stays.
Grows ==
    /\ \A s \in Sources :
         /\ Len(Table(s)) <= Len(Table(s)')
         /\ \A n \in 1 .. Len(Table(s)) :
              Table(s)'[n].date = Table(s)[n].date /\ Table(s)'[n].item = Table(s)[n].item
    /\ \A n \in DOMAIN log["picklog"] : log'["picklog"][n].cause = log["picklog"][n].cause

TablesAreTyped ==
    /\ \A s \in Sources :
         /\ Len(Table(s)) \in Nat /\ DOMAIN Table(s) = 1 .. Len(Table(s))
         /\ \A n \in DOMAIN Table(s) : Table(s)[n].date \in Nat /\ Table(s)[n].item \in AnyItem
    /\ today \in Nat

LEMMA TablesTyped == WorldTyped => TablesAreTyped
<1> SUFFICES ASSUME WorldTyped PROVE TablesAreTyped
  OBVIOUS
<1>1. ASSUME NEW s \in Sources
      PROVE  /\ Len(Table(s)) \in Nat /\ DOMAIN Table(s) = 1 .. Len(Table(s))
             /\ \A n \in DOMAIN Table(s) : Table(s)[n].date \in Nat /\ Table(s)[n].item \in AnyItem
  <2>1. PICK t : t = Table(s)
    OBVIOUS
  <2>2. CASE s # "queue"
    <3>1. t \in Seq(LogRow)
      BY <2>1, <2>2 DEF WorldTyped, Table, Sources
    <3>2. \A n \in DOMAIN t : t[n] \in LogRow
      BY <3>1
    <3> QED
      BY <2>1, <3>1, <3>2 DEF LogRow
  <2>3. CASE s = "queue"
    <3>1. t \in Seq(QueueRow1)
      BY <2>1, <2>3 DEF WorldTyped, Table
    <3>2. \A n \in DOMAIN t : t[n] \in QueueRow1
      BY <3>1
    <3> QED
      BY <2>1, <3>1, <3>2 DEF QueueRow1
  <2> QED
    BY <2>2, <2>3
<1>2. today \in Nat
  BY DateAssumption DEF WorldTyped
<1> QED
  BY <1>1, <1>2 DEF TablesAreTyped

LEMMA AsideKeeps ==
  ASSUME TimelineInv, WorldInv', Aside, Grows PROVE TimelineInv'
<1>1. ReadTyped /\ InstantsStand /\ FetchesStand /\ CausesFetched /\ WorldTyped
  BY DEF TimelineInv, WorldInv
<1>2. CASE ~Waiting
  <2>1. read'.at = "idle" /\ instants' = {}
    BY <1>2 DEF Aside, Idle
  <2> QED
    BY <2>1 DEF TimelineInv, ReadTyped, InstantsStand, FetchesStand, CausesFetched, AnswerIsTrue,
                UnderWay
<1>3. CASE Waiting
  <2>1. read' = read /\ instants' = instants \cup {installed'} /\ UnderWay
    BY <1>1, <1>3 DEF Aside, ReadTyped, Waiting, UnderWay
  <2>2. ReadTyped'
    BY <2>1, <1>1 DEF ReadTyped, UnderWay
  <2>3. InstantsStand'
    <3>1. installed' \in BOOLEAN
      BY DEF WorldInv, WorldTyped
    <3> QED
      BY <2>1, <3>1, <1>1 DEF InstantsStand, UnderWay
  <2>4. FetchesStand'
    <3> SUFFICES ASSUME NEW s \in read.sources PROVE FetchStands(s)'
      BY <2>1 DEF FetchesStand, UnderWay
    <3>1. FetchStands(s) /\ s \in Sources /\ read.seen[s] \in Nat
      BY <1>1, <2>1 DEF FetchesStand, ReadTyped
    <3>2. \A n \in 1 .. read.seen[s] : n \in 1 .. Len(Table(s))
      BY <3>1, <1>1, TablesTyped DEF FetchStands, TablesAreTyped
    <3>3. Len(Table(s)) \in Nat /\ Len(Table(s)') \in Nat
      <4>1. WorldTyped'
        BY DEF WorldInv
      <4>2. TablesAreTyped /\ TablesAreTyped'
        BY <4>1, <1>1, TablesTyped, PTL
      <4> QED
        BY <3>1, <4>2 DEF TablesAreTyped
    <3>4. read.seen[s] <= Len(Table(s)')
      BY <3>1, <3>3 DEF FetchStands, Grows
    <3>5. \A n \in 1 .. read.seen[s] :
             Table(s)'[n].date = Table(s)[n].date /\ Table(s)'[n].item = Table(s)[n].item
      BY <3>1, <3>2 DEF Grows
    <3> QED
      BY <2>1, <3>1, <3>4, <3>5 DEF FetchStands
  <2>5. CausesFetched'
    <3> SUFFICES ASSUME read.next = 5, NEW i \in DOMAIN read.got["picklog"],
                        log'["picklog"][read.got["picklog"][i].n].cause # 0
                 PROVE  LET q == log'["picklog"][read.got["picklog"][i].n].cause IN
                          /\ "queue" \in read.sources /\ q \in 1 .. read.seen["queue"]
                          /\ \A j \in DOMAIN read.got["queue"] :
                               read.got["queue"][j].n = q =>
                                 read.got["queue"][j].status # "pending"
      BY <2>1 DEF CausesFetched, UnderWay
    <3>1. "picklog" \in read.sources /\ "picklog" \in Sources
      BY <1>1, <2>1 DEF ReadTyped, Order, Logs, Sources
    <3>2. read.got["picklog"][i].n \in 1 .. read.seen["picklog"]
          /\ read.seen["picklog"] <= Len(log["picklog"]) /\ read.seen["picklog"] \in Nat
      BY <3>1, <2>1, <1>1 DEF FetchesStand, FetchStands, ReadTyped, Table
    <3>3. read.got["picklog"][i].n \in DOMAIN log["picklog"]
      BY <3>2, <1>1 DEF WorldTyped, Logs
    <3>4. log'["picklog"][read.got["picklog"][i].n].cause =
          log["picklog"][read.got["picklog"][i].n].cause
      BY <3>3 DEF Grows
    <3> QED
      BY <3>4, <1>1, <2>1 DEF CausesFetched
  <2>6. AnswerIsTrue'
    BY <2>1 DEF AnswerIsTrue, UnderWay
  <2> QED
    BY <2>2, <2>3, <2>4, <2>5, <2>6 DEF TimelineInv
<1> QED
  BY <1>2, <1>3

LEMMA ClockTicksKeeps == TimelineInv /\ ClockTicks => TimelineInv'
<1> SUFFICES ASSUME TimelineInv, ClockTicks PROVE TimelineInv'
  OBVIOUS
<1>1. /\ today < MaxDate /\ today' = today + 1 /\ UNCHANGED <<log, queue, installed>> /\ Aside
  BY DEF ClockTicks
<1>2. WorldTyped /\ RowsInOrder /\ CausesStand
  BY DEF TimelineInv, WorldInv
<1>3. \A s \in Sources : Table(s)' = Table(s)
  BY <1>1 DEF Table
<1>4. WorldTyped' /\ CausesStand'
  BY <1>1, <1>2, DateAssumption DEF WorldTyped, CausesStand
<1>5. RowsInOrder'
  BY <1>1, <1>2, <1>3, TablesTyped DEF RowsInOrder, TablesAreTyped
<1>6. Grows
  BY <1>1, <1>2, <1>3, TablesTyped DEF Grows, TablesAreTyped
<1> QED
  BY <1>1, <1>4, <1>5, <1>6, AsideKeeps DEF WorldInv

LEMMA WrittenKeeps ==
  ASSUME TimelineInv, NEW s \in Logs, NEW item \in AnyItem, NEW cause \in Nat,
         Written(s, item, cause),
         s # "picklog" => item = NoItem /\ cause = 0,
         cause # 0 => cause \in DOMAIN queue /\ queue[cause].status # "pending"
  PROVE  TimelineInv'
<1> DEFINE x == [date |-> today, item |-> item, cause |-> cause]
<1>1. /\ log' = [log EXCEPT ![s] = Append(@, x)]
      /\ UNCHANGED <<today, queue, installed>> /\ Aside
  BY DEF Written
<1>2. WorldTyped /\ RowsInOrder /\ CausesStand /\ today \in Nat
  BY TablesTyped DEF TimelineInv, WorldInv, TablesAreTyped
<1>3. x \in LogRow /\ x.date = today /\ x.item = item /\ x.cause = cause
  BY <1>2 DEF LogRow
<1> HIDE DEF x
<1> DEFINE n == Len(log[s])
<1>4. /\ log[s] \in Seq(LogRow) /\ n \in Nat /\ DOMAIN log[s] = 1 .. n
      /\ log'[s] = Append(log[s], x)
      /\ \A t \in Logs \ {s} : log'[t] = log[t]
  BY <1>1, <1>2 DEF WorldTyped
<1>5. /\ Len(log'[s]) = n + 1 /\ DOMAIN log'[s] = 1 .. n + 1 /\ log'[s][n + 1] = x
      /\ \A i \in 1 .. n : log'[s][i] = log[s][i]
      /\ log'[s] \in Seq(LogRow)
  BY <1>3, <1>4
<1> HIDE DEF n
<1>6. /\ \A t \in Sources \ {s} : Table(t)' = Table(t)
      /\ Table(s)' = log'[s] /\ Table(s) = log[s] /\ s \in Sources
  BY <1>1, <1>4 DEF Table, Sources, Logs
<1>7. WorldTyped'
  <2>1. log' \in [Logs -> Seq(LogRow)]
    BY <1>1, <1>2, <1>3 DEF WorldTyped
  <2> QED
    BY <2>1, <1>1, <1>2 DEF WorldTyped
<1>8. RowsInOrder'
  <2>1. /\ \A i \in 1 .. n : log[s][i].date <= today
        /\ \A i, j \in 1 .. n : i < j => log[s][i].date <= log[s][j].date
    BY <1>2, <1>4, <1>6 DEF RowsInOrder
  <2>2. /\ \A i \in DOMAIN log'[s] : log'[s][i].date <= today
        /\ \A i, j \in DOMAIN log'[s] : i < j => log'[s][i].date <= log'[s][j].date
    <3>1. \A i \in 1 .. n + 1 : i \in 1 .. n \/ i = n + 1
      BY <1>4
    <3>2. \A i \in 1 .. n + 1 : log'[s][i].date <= today
      BY <3>1, <2>1, <1>2, <1>3, <1>5
    <3>3. ASSUME NEW i \in 1 .. n + 1, NEW j \in 1 .. n + 1, i < j
          PROVE  log'[s][i].date <= log'[s][j].date
      <4>1. CASE j = n + 1
        BY <4>1, <3>2, <1>3, <1>5
      <4>2. CASE j # n + 1
        <5>1. i \in 1 .. n /\ j \in 1 .. n
          <6>1. n \in Nat
            BY <1>4
          <6> QED
            BY <6>1, <4>2, <3>3
        <5> QED
          BY <5>1, <3>3, <2>1, <1>5
      <4> QED
        BY <4>1, <4>2
    <3> QED
      BY <3>2, <3>3, <1>5
  <2> QED
    BY <2>2, <1>1, <1>2, <1>6 DEF RowsInOrder
<1>9. CausesStand'
  <2>1. ASSUME NEW t \in Logs \ {"picklog"}, NEW i \in DOMAIN log'[t]
        PROVE  log'[t][i].item = NoItem /\ log'[t][i].cause = 0
    <3>1. CASE t # s
      BY <3>1, <1>2, <1>4, <2>1 DEF CausesStand
    <3>2. CASE t = s /\ i = n + 1
      BY <3>2, <1>3, <1>5, <2>1
    <3>3. CASE t = s /\ i # n + 1
      BY <3>3, <1>2, <1>4, <1>5, <2>1 DEF CausesStand
    <3> QED
      BY <3>1, <3>2, <3>3
  <2>2. ASSUME NEW i \in DOMAIN log'["picklog"], log'["picklog"][i].cause # 0
        PROVE  LET q == log'["picklog"][i].cause IN
                 q \in DOMAIN queue /\ queue[q].status # "pending"
    <3>1. CASE s # "picklog"
      BY <3>1, <1>2, <1>4, <2>2 DEF CausesStand, Logs
    <3>2. CASE s = "picklog" /\ i = n + 1
      BY <3>2, <1>3, <1>5, <2>2
    <3>3. CASE s = "picklog" /\ i # n + 1
      BY <3>3, <1>2, <1>4, <1>5, <2>2 DEF CausesStand
    <3> QED
      BY <3>1, <3>2, <3>3
  <2> QED
    BY <2>1, <2>2, <1>1 DEF CausesStand
<1>10. Grows
  <2>1. \A t \in Sources : Len(Table(t)) \in Nat
    BY <1>2, TablesTyped DEF TablesAreTyped
  <2>2. \A t \in Sources \ {s} : Len(Table(t)) <= Len(Table(t)')
    BY <2>1, <1>6
  <2>3. n <= n + 1 /\ Len(log[s]) = n
    BY <1>4 DEF n
  <2>4. \A i \in DOMAIN log["picklog"] : log'["picklog"][i].cause = log["picklog"][i].cause
    BY <1>4, <1>5 DEF Logs
  <2>5. \A t \in Sources : /\ Len(Table(t)) <= Len(Table(t)')
                           /\ \A i \in 1 .. Len(Table(t)) : Table(t)'[i] = Table(t)[i]
    BY <2>2, <2>3, <1>5, <1>6
  <2> QED
    BY <2>4, <2>5 DEF Grows
<1> QED
  BY <1>1, <1>7, <1>8, <1>9, <1>10, AsideKeeps DEF WorldInv

LEMMA LogsAreWrittenKeeps == TimelineInv /\ (GameLogs \/ GiveItem) => TimelineInv'
<1> SUFFICES ASSUME TimelineInv, GameLogs \/ GiveItem PROVE TimelineInv'
  OBVIOUS
<1>1. CASE GameLogs
  <2>1. CASE \E s \in {"atcommandlog", "zenylog"} : Written(s, NoItem, 0)
    BY <2>1, WrittenKeeps DEF Logs, AnyItem
  <2>2. CASE \E i \in Items : Written("picklog", i, 0)
    BY <2>2, WrittenKeeps DEF Logs, AnyItem
  <2> QED
    BY <1>1, <2>1, <2>2 DEF GameLogs
<1>2. CASE GiveItem
  <2>1. PICK q \in DOMAIN queue :
          queue[q].status = "processing" /\ Written("picklog", queue[q].item, q)
    BY <1>2 DEF GiveItem
  <2>2. queue[q].item \in AnyItem /\ q \in Nat
    <3>1. queue \in Seq(QueueRow1)
      BY DEF TimelineInv, WorldInv, WorldTyped
    <3>2. queue[q] \in QueueRow1 /\ q \in Nat
      BY <3>1
    <3> QED
      BY <3>2 DEF QueueRow1
  <2> QED
    BY <2>1, <2>2, WrittenKeeps DEF Logs
<1> QED
  BY <1>1, <1>2

\* The queue changes, and nothing in the logs.
LEMMA QueueChangeKeeps ==
  ASSUME TimelineInv, UNCHANGED <<today, log, installed>>, Aside,
         queue' \in Seq(QueueRow1), queue' # <<>> => installed,
         Len(queue) <= Len(queue'),
         \A n \in 1 .. Len(queue) :
            /\ queue'[n].date = queue[n].date /\ queue'[n].item = queue[n].item
            /\ queue[n].status # "pending" => queue'[n].status # "pending",
         \A n \in 1 .. Len(queue') : n \in 1 .. Len(queue) \/ queue'[n].date = today
  PROVE  TimelineInv'
<1>1. WorldTyped /\ RowsInOrder /\ CausesStand /\ TablesAreTyped
  BY TablesTyped DEF TimelineInv, WorldInv
<1>2. WorldTyped'
  BY <1>1 DEF WorldTyped
<1>3. TablesAreTyped'
  BY <1>2, TablesTyped, PTL
<1>4. /\ \A s \in Logs : Table(s)' = Table(s)
      /\ Table("queue")' = queue' /\ Table("queue") = queue
      /\ "queue" \in Sources /\ Sources = Logs \cup {"queue"}
  BY DEF Table, Logs, Sources
<1>5. /\ DOMAIN queue' = 1 .. Len(queue') /\ Len(queue') \in Nat
      /\ DOMAIN queue = 1 .. Len(queue) /\ Len(queue) \in Nat /\ today \in Nat
  BY <1>1, <1>3, <1>4 DEF TablesAreTyped
<1>6. RowsInOrder'
  <2>1. /\ \A i \in DOMAIN queue : queue[i].date <= today
        /\ \A i, j \in DOMAIN queue : i < j => queue[i].date <= queue[j].date
    BY <1>1, <1>4 DEF RowsInOrder
  <2>2. \A i \in DOMAIN queue' : queue'[i].date <= today
    BY <2>1, <1>5
  <2>3. ASSUME NEW i \in DOMAIN queue', NEW j \in DOMAIN queue', i < j
        PROVE  queue'[i].date <= queue'[j].date
    <3>1. CASE j \in 1 .. Len(queue)
      <4>1. i \in 1 .. Len(queue)
        BY <3>1, <2>3, <1>5
      <4> QED
        BY <4>1, <3>1, <2>1, <2>3, <1>5
    <3>2. CASE j \notin 1 .. Len(queue)
      BY <3>2, <2>2, <1>5
    <3> QED
      BY <3>1, <3>2
  <2>4. \A s \in Logs : /\ \A i \in DOMAIN Table(s)' : Table(s)'[i].date <= today'
                        /\ \A i, j \in DOMAIN Table(s)' :
                             i < j => Table(s)'[i].date <= Table(s)'[j].date
    BY <1>1, <1>4 DEF RowsInOrder
  <2> QED
    BY <2>2, <2>3, <2>4, <1>4 DEF RowsInOrder
<1>7. CausesStand'
  BY <1>1, <1>5 DEF CausesStand
<1>8. Grows
  <2>1. \A s \in Logs : Len(Table(s)) <= Len(Table(s)')
    BY <1>1, <1>4 DEF TablesAreTyped
  <2> QED
    BY <2>1, <1>4 DEF Grows
<1> QED
  BY <1>2, <1>6, <1>7, <1>8, AsideKeeps DEF WorldInv

LEMMA QueueRowKeeps == TimelineInv /\ QueueRow => TimelineInv'
<1> SUFFICES ASSUME TimelineInv, QueueRow PROVE TimelineInv'
  OBVIOUS
<1>1. PICK a \in {"give_item", "sync_character"}, i \in AnyItem :
        queue' = Append(queue, [date |-> today, action |-> a, item |-> i, status |-> "pending"])
  BY DEF QueueRow, AnyItem
<1>2. installed /\ UNCHANGED <<today, log, installed>> /\ Aside
  BY DEF QueueRow
<1>3. queue \in Seq(QueueRow1) /\ today \in Nat
  BY TablesTyped DEF TimelineInv, WorldInv, WorldTyped, TablesAreTyped
<1> DEFINE x == [date |-> today, action |-> a, item |-> i, status |-> "pending"]
<1>4. x \in QueueRow1 /\ x.date = today
  BY <1>3 DEF QueueRow1, Statuses
<1> HIDE DEF x
<1>5. /\ queue' \in Seq(QueueRow1) /\ Len(queue') = Len(queue) + 1 /\ Len(queue) \in Nat
      /\ \A n \in 1 .. Len(queue) : queue'[n] = queue[n]
      /\ queue'[Len(queue) + 1] = x
  BY <1>1, <1>3, <1>4 DEF x
<1> QED
  BY <1>2, <1>4, <1>5, QueueChangeKeeps

LEMMA MovesKeeps ==
  ASSUME TimelineInv, NEW q \in DOMAIN queue, NEW from, NEW to \in Statuses \ {"pending"},
         Moves(q, from, to)
  PROVE  TimelineInv'
<1>1. /\ queue' = [queue EXCEPT ![q].status = to]
      /\ UNCHANGED <<today, log, installed>> /\ Aside
  BY DEF Moves
<1>2. queue \in Seq(QueueRow1) /\ (queue # <<>> => installed)
  BY DEF TimelineInv, WorldInv, WorldTyped
<1>3. PICK x : x = [queue[q] EXCEPT !.status = to]
  OBVIOUS
<1>4. queue' = [queue EXCEPT ![q] = x]
  BY <1>1, <1>3
<1>5. queue[q] \in QueueRow1
  BY <1>2
<1>6. x \in QueueRow1 /\ x.date = queue[q].date /\ x.item = queue[q].item /\ x.status = to
  BY <1>3, <1>5 DEF QueueRow1
<1>7. /\ queue' \in Seq(QueueRow1) /\ Len(queue') = Len(queue) /\ Len(queue) \in Nat
      /\ \A n \in 1 .. Len(queue) : queue'[n] = IF n = q THEN x ELSE queue[n]
  BY <1>2, <1>4, <1>6
<1>8. queue # <<>>
  BY <1>2
<1> QED
  BY <1>1, <1>2, <1>6, <1>7, <1>8, QueueChangeKeeps

LEMMA InstallQueueKeeps == TimelineInv /\ InstallQueue => TimelineInv'
<1> SUFFICES ASSUME TimelineInv, InstallQueue PROVE TimelineInv'
  OBVIOUS
<1>1. queue = <<>> /\ installed' = ~installed /\ UNCHANGED <<today, log, queue>> /\ Aside
  BY DEF InstallQueue
<1>2. WorldTyped /\ RowsInOrder /\ CausesStand /\ TablesAreTyped
  BY TablesTyped DEF TimelineInv, WorldInv
<1>3. \A s \in Sources : Table(s)' = Table(s)
  BY <1>1 DEF Table
<1>4. WorldTyped' /\ CausesStand'
  BY <1>1, <1>2 DEF WorldTyped, CausesStand
<1>5. RowsInOrder'
  BY <1>1, <1>2, <1>3 DEF RowsInOrder
<1>6. Grows
  BY <1>1, <1>2, <1>3 DEF Grows, TablesAreTyped
<1> QED
  BY <1>1, <1>4, <1>5, <1>6, AsideKeeps DEF WorldInv

LEMMA WorldStaysInv == WorldInv /\ UNCHANGED timelineWorld => WorldInv'
<1> SUFFICES ASSUME WorldInv, UNCHANGED timelineWorld PROVE WorldInv'
  OBVIOUS
<1>1. UNCHANGED <<today, log, queue, installed>>
  BY DEF timelineWorld
<1>2. \A s : Table(s)' = Table(s)
  BY <1>1 DEF Table
<1> QED
  BY <1>1, <1>2 DEF WorldInv, WorldTyped, RowsInOrder, CausesStand

LEMMA AskTimelineKeeps == TimelineInv /\ AskTimeline => TimelineInv'
<1> SUFFICES ASSUME TimelineInv, AskTimeline PROVE TimelineInv'
  OBVIOUS
<1>1. PICK limit \in Limits :
         read' = [at |-> "read", next |-> 1, limit |-> limit, sources |-> {},
                  got |-> [s \in Sources |-> <<>>], seen |-> [s \in Sources |-> 0],
                  page |-> <<>>]
  BY DEF AskTimeline
<1>2. instants' = {installed} /\ UNCHANGED timelineWorld /\ WorldInv /\ installed \in BOOLEAN
      /\ installed' = installed
  BY DEF AskTimeline, TimelineInv, WorldInv, WorldTyped, timelineWorld
<1>3. /\ DOMAIN read' = ReadFields
      /\ read'.at = "read" /\ read'.next = 1 /\ read'.limit = limit /\ read'.sources = {}
      /\ read'.page = <<>>
      /\ read'.got = [s \in Sources |-> <<>>] /\ read'.seen = [s \in Sources |-> 0]
  BY <1>1 DEF ReadFields
<1>4. ReadTyped'
  BY <1>3 DEF ReadTyped, UnderWay
<1>5. InstantsStand' /\ FetchesStand' /\ CausesFetched' /\ AnswerIsTrue'
  BY <1>2, <1>3 DEF InstantsStand, FetchesStand, CausesFetched, AnswerIsTrue, UnderWay
<1> QED
  BY <1>2, <1>4, <1>5, WorldStaysInv DEF TimelineInv

LEMMA EntryIs ==
  ASSUME WorldTyped, NEW s \in Sources, NEW n \in DOMAIN Table(s), NEW e, e = Entry(s, n)
  PROVE  /\ e \in EntryRecord
         /\ e.kind = Kind(s) /\ e.n = n /\ e.date = Table(s)[n].date
         /\ e.item = Table(s)[n].item
         /\ s = "queue" => e.status = queue[n].status
<1>1. PICK no \in BOOLEAN : no = FALSE
  OBVIOUS
<1> DEFINE status == IF s = "queue" THEN queue[n].status ELSE "none"
<1>2. e = [kind |-> Kind(s), n |-> n, date |-> Table(s)[n].date, item |-> Table(s)[n].item,
           status |-> status, named |-> no]
  BY <1>1, Zenon DEF Entry
<1>3. /\ n \in Nat /\ Table(s)[n].date \in Nat /\ Table(s)[n].item \in AnyItem
  BY TablesTyped DEF TablesAreTyped
<1>4. status \in Statuses \cup {"none"}
  <2>1. CASE s = "queue"
    <3>1. queue \in Seq(QueueRow1) /\ n \in DOMAIN queue
      BY <2>1 DEF WorldTyped, Table
    <3>2. queue[n] \in QueueRow1
      BY <3>1
    <3> QED
      BY <2>1, <3>2 DEF QueueRow1
  <2> QED
    BY <2>1
<1>5. Kind(s) \in {"command", "zeny", "item", "queued"}
  BY DEF Kind, Sources, Logs
<1> HIDE DEF status
<1>6. e \in EntryRecord
  BY <1>2, <1>3, <1>4, <1>5 DEF EntryRecord
<1> QED
  BY <1>2, <1>6 DEF status

\* g is what a statement returned of source s: the rows of K.
IsFetch(g, s, K) ==
    /\ g \in Seq(EntryRecord) /\ Len(g) = Cardinality(K)
    /\ \A i \in DOMAIN g :
         /\ g[i].n \in K /\ g[i].kind = Kind(s)
         /\ g[i].date = Table(s)[g[i].n].date /\ g[i].item = Table(s)[g[i].n].item
         /\ s = "queue" => g[i].status = queue[g[i].n].status
    /\ \A i, j \in DOMAIN g : g[i].n = g[j].n => i = j
    /\ \A n \in K : \E i \in DOMAIN g : g[i].n = n

LEMMA FetchedIs ==
  ASSUME WorldTyped, NEW s \in Sources, NEW K \in SUBSET DOMAIN Table(s)
  PROVE  IsFetch(Fetched(s, K), s, K)
<1> DEFINE g == Fetched(s, K)
           Rel == {p \in K \X K : p[1] > p[2]}
           nth(i) == ElementAt(Rel, K, i)
<1>1. /\ DOMAIN Table(s) = 1 .. Len(Table(s)) /\ Len(Table(s)) \in Nat
      /\ K \subseteq Int
  BY TablesTyped DEF TablesAreTyped
<1>2. IsFiniteSet(K) /\ Cardinality(K) \in Nat
  <2>1. K \in SUBSET (1 .. Len(Table(s))) /\ IsFiniteSet(1 .. Len(Table(s)))
    BY <1>1, FS_Interval
  <2> QED
    BY <2>1, FS_Subset, FS_CardinalityType
<1>3. StrictOrder(Rel, K)
  BY <1>1 DEF StrictOrder
<1> DEFINE D == 1 .. Cardinality(K)
<1>4. \A i \in D : nth(i) \in K /\ RankOf(Rel, K, nth(i)) = i - 1
  <2> HIDE DEF Rel
  <2> QED
    BY <1>2, <1>3, ElementAtItsRank
<1>5. g = [i \in D |-> Entry(s, nth(i))]
  <2>1. \A a \in K : {b \in K : <<b, a>> \in Rel} = {b \in K : b > a}
    OBVIOUS
  <2> DEFINE c(i) == CHOOSE a \in K : Cardinality({b \in K : b > a}) = i - 1
  <2>2. \A i \in D : nth(i) = c(i)
    BY <2>1 DEF ElementAt
  <2>3. g = [i \in D |-> Entry(s, c(i))]
    BY DEF Fetched, Nth
  <2> HIDE DEF g, nth, c, D
  <2> QED
    BY <2>2, <2>3
<1> HIDE DEF g, nth
<1>6. \A i \in D : /\ g[i] \in EntryRecord /\ g[i].n = nth(i)
                   /\ g[i].kind = Kind(s) /\ g[i].date = Table(s)[nth(i)].date
                   /\ g[i].item = Table(s)[nth(i)].item
                   /\ s = "queue" => g[i].status = queue[nth(i)].status
  <2> TAKE i \in D
  <2>1. nth(i) \in DOMAIN Table(s) /\ g[i] = Entry(s, nth(i))
    BY <1>4, <1>5
  <2> QED
    BY <2>1, EntryIs
<1>7. g \in Seq(EntryRecord) /\ Len(g) = Cardinality(K) /\ DOMAIN g = D
  <2>1. g \in [D -> EntryRecord]
    BY <1>5, <1>6
  <2> QED
    BY <2>1, <1>2
<1>8. ASSUME NEW i \in D, NEW j \in D, nth(i) = nth(j) PROVE i = j
  <2>1. i - 1 = j - 1
    BY <1>4, <1>8
  <2> QED
    BY <2>1, <1>2
<1>9. ASSUME NEW n \in K PROVE \E i \in D : nth(i) = n
  <2>1. RankOf(Rel, K, n) \in 0 .. Cardinality(K) - 1
    BY <1>2, <1>3, RankInRange
  <2> DEFINE i == RankOf(Rel, K, n) + 1
  <2>2. i \in D /\ i - 1 = RankOf(Rel, K, n)
    BY <1>2, <2>1
  <2> HIDE DEF i
  <2>3. nth(i) \in K /\ RankOf(Rel, K, nth(i)) = RankOf(Rel, K, n)
    BY <2>2, <1>4
  <2>4. nth(i) = n
    <3> HIDE DEF Rel
    <3> QED
      BY <2>3, <1>2, <1>3, RankIsOne
  <2> QED
    BY <2>2, <2>4
<1>10. \A i \in DOMAIN g :
         /\ g[i].n \in K /\ g[i].kind = Kind(s)
         /\ g[i].date = Table(s)[g[i].n].date /\ g[i].item = Table(s)[g[i].n].item
         /\ s = "queue" => g[i].status = queue[g[i].n].status
  BY <1>4, <1>6, <1>7
<1>11. \A i, j \in DOMAIN g : g[i].n = g[j].n => i = j
  BY <1>6, <1>7, <1>8
<1>12. \A n \in K : \E i \in DOMAIN g : g[i].n = n
  BY <1>6, <1>7, <1>9
<1> QED
  BY <1>7, <1>10, <1>11, <1>12 DEF IsFetch, g

LEMMA OnwardIs ==
  ASSUME NEW r, DOMAIN r = ReadFields, r.next \in 1 .. 4, NEW o, o = Onward(r)
  PROVE  /\ DOMAIN o = ReadFields
         /\ o.next = r.next + 1 /\ o.at = IF r.next = 4 THEN "names" ELSE "read"
         /\ o.limit = r.limit /\ o.sources = r.sources /\ o.got = r.got /\ o.seen = r.seen
         /\ o.page = r.page
<1>1. Len(Order) = 4
  BY DEF Order
<1>2. PICK at : at = IF r.next = 4 THEN "names" ELSE "read"
  OBVIOUS
<1>3. PICK next : next = r.next + 1
  OBVIOUS
<1>4. o = [r EXCEPT !.next = next, !.at = at]
  BY <1>1, <1>2, <1>3 DEF Onward
<1> QED
  BY <1>2, <1>3, <1>4 DEF ReadFields

\* A request whose queue is missing goes on without it.
LEMMA UnreadKeeps ==
  ASSUME TimelineInv, ReadSource, Order[read.next] = "queue", ~installed PROVE TimelineInv'
<1>1. read.at = "read" /\ UNCHANGED <<timelineWorld, instants>> /\ read' = Onward(read)
  BY DEF ReadSource, Unread
<1>2. WorldInv /\ ReadTyped /\ InstantsStand /\ FetchesStand /\ CausesFetched /\ UnderWay
  BY <1>1 DEF TimelineInv, UnderWay
<1>3. DOMAIN read = ReadFields /\ read.next \in 1 .. 4
  BY <1>1, <1>2 DEF ReadTyped
<1>4. read.next = 4
  BY <1>3 DEF Order
<1>5. /\ DOMAIN read' = ReadFields /\ read'.next = 5 /\ read'.at = "names"
      /\ read'.limit = read.limit /\ read'.sources = read.sources /\ read'.got = read.got
      /\ read'.seen = read.seen /\ read'.page = read.page
  BY <1>1, <1>3, <1>4, OnwardIs
<1>6. UNCHANGED <<today, log, queue, installed, instants>>
  BY <1>1 DEF timelineWorld
<1>7. "queue" \notin read.sources
  BY <1>2, <1>4 DEF ReadTyped, Order
<1>8. ReadTyped'
  <2>1. \A k \in 1 .. 4 : Order[k] \in Logs => Order[k] \in read.sources
    <3> SUFFICES ASSUME NEW k \in 1 .. 4, Order[k] \in Logs PROVE Order[k] \in read.sources
      OBVIOUS
    <3>1. k < 4
      BY DEF Order, Logs
    <3> QED
      BY <3>1, <1>2, <1>4 DEF ReadTyped
  <2>2. \A k \in 1 .. 4 : k < 5
    OBVIOUS
  <2> QED
    BY <2>1, <2>2, <1>2, <1>5 DEF ReadTyped, UnderWay
<1>9. InstantsStand'
  <2>1. FALSE \in instants
    <3>1. installed \in BOOLEAN /\ installed \in instants
      BY <1>2 DEF WorldInv, WorldTyped, InstantsStand
    <3> QED
      BY <3>1
  <2>2. instants \subseteq BOOLEAN /\ installed \in instants
    BY <1>2 DEF InstantsStand
  <2>3. instants' = instants /\ installed' = installed /\ read'.sources = read.sources
    BY <1>5, <1>6
  <2> QED
    BY <2>1, <2>2, <2>3, <1>7 DEF InstantsStand
<1>10. FetchesStand'
  <2>1. \A s : Table(s)' = Table(s)
    BY <1>6 DEF Table
  <2> QED
    BY <1>2, <1>5, <1>6, <2>1 DEF FetchesStand, FetchStands
<1>11. CausesFetched'
  <2> SUFFICES ASSUME NEW i \in DOMAIN read.got["picklog"]
               PROVE  log["picklog"][read.got["picklog"][i].n].cause = 0
    BY <1>5, <1>6 DEF CausesFetched
  <2>1. queue = <<>>
    BY <1>2 DEF WorldInv, WorldTyped
  <2>2. "picklog" \in read.sources
    BY <1>2, <1>4 DEF ReadTyped, Order, Logs
  <2>3. read.got["picklog"][i].n \in 1 .. read.seen["picklog"]
        /\ read.seen["picklog"] <= Len(log["picklog"]) /\ read.seen["picklog"] \in Nat
    BY <2>2, <1>2 DEF FetchesStand, FetchStands, ReadTyped, Table
  <2>4. read.got["picklog"][i].n \in DOMAIN log["picklog"]
    BY <2>3, <1>2 DEF WorldInv, WorldTyped, Logs
  <2> QED
    BY <2>1, <2>4, <1>2 DEF WorldInv, CausesStand
<1>12. AnswerIsTrue'
  BY <1>5 DEF AnswerIsTrue
<1> QED
  BY <1>1, <1>2, <1>8, <1>9, <1>10, <1>11, <1>12, WorldStaysInv DEF TimelineInv

\* The newest rows: one that is left out is not newer.
LEMMA NewestIs ==
  ASSUME WorldTyped, RowsInOrder, NEW s \in Sources, NEW limit \in Nat,
         NEW K \in Newest(s, limit)
  PROVE  /\ K \in SUBSET DOMAIN Table(s)
         /\ \A n \in DOMAIN Table(s) \ K :
              /\ Cardinality(K) = limit
              /\ \A k \in K : Table(s)[k].date >= Table(s)[n].date
<1> DEFINE all == DOMAIN Table(s)
<1>1. all = 1 .. Len(Table(s)) /\ IsFiniteSet(all)
  <2>1. all = 1 .. Len(Table(s)) /\ Len(Table(s)) \in Nat
    BY TablesTyped DEF TablesAreTyped
  <2> QED
    BY <2>1, FS_Interval
<1>2. /\ K \in SUBSET all
      /\ Cardinality(K) = IF Cardinality(all) < limit THEN Cardinality(all) ELSE limit
      /\ \A i \in K, j \in all \ K :
           IF s = "atcommandlog" THEN Table(s)[i].date >= Table(s)[j].date ELSE i > j
  BY DEF Newest
<1>3. ASSUME NEW n \in all \ K PROVE Cardinality(K) = limit
  <2>1. Cardinality(K) # Cardinality(all)
    BY <1>1, <1>2, <1>3, FS_Subset
  <2> QED
    BY <2>1, <1>2
<1>4. ASSUME NEW n \in all \ K, NEW k \in K PROVE Table(s)[k].date >= Table(s)[n].date
  <2>1. CASE s = "atcommandlog"
    BY <2>1, <1>2
  <2>2. CASE s # "atcommandlog"
    <3>1. k > n /\ k \in all /\ n \in all
      BY <2>2, <1>2
    <3>2. n < k
      BY <3>1, <1>1
    <3>3. Table(s)[n].date <= Table(s)[k].date
      BY <3>1, <3>2 DEF RowsInOrder
    <3>4. Table(s)[n].date \in Nat /\ Table(s)[k].date \in Nat
      BY <3>1, TablesTyped DEF TablesAreTyped
    <3> QED
      BY <3>3, <3>4
  <2> QED
    BY <2>1, <2>2
<1> QED
  BY <1>2, <1>3, <1>4

LEMMA FetchKeeps ==
  ASSUME TimelineInv, ReadSource, ~(Order[read.next] = "queue" /\ ~installed)
  PROVE  TimelineInv'
<1>1. PICK s : s = Order[read.next]
  OBVIOUS
<1>2. /\ read.at = "read" /\ UNCHANGED <<timelineWorld, instants>>
      /\ \E K \in Newest(s, read.limit) :
           read' = Onward([read EXCEPT !.sources = @ \cup {s},
                                       !.got[s] = Fetched(s, K),
                                       !.seen[s] = Len(Table(s))])
  BY <1>1 DEF ReadSource
<1>3. PICK K \in Newest(s, read.limit) :
           read' = Onward([read EXCEPT !.sources = @ \cup {s},
                                       !.got[s] = Fetched(s, K),
                                       !.seen[s] = Len(Table(s))])
  BY <1>2
<1>4. WorldInv /\ ReadTyped /\ InstantsStand /\ FetchesStand /\ CausesFetched /\ UnderWay
      /\ WorldTyped /\ RowsInOrder /\ CausesStand /\ TablesAreTyped
  BY <1>2, TablesTyped DEF TimelineInv, UnderWay, WorldInv
<1>5. /\ DOMAIN read = ReadFields /\ read.next \in 1 .. 4 /\ read.limit \in Limits
      /\ read.sources \subseteq Sources /\ read.page = <<>>
      /\ read.got \in [Sources -> Seq(EntryRecord)] /\ read.seen \in [Sources -> Nat]
  BY <1>2, <1>4 DEF ReadTyped
<1>6. s \in Sources /\ s \notin read.sources
  <2>1. s \in Sources
    <3>1. \A k \in 1 .. 4 : Order[k] \in Sources
      BY DEF Order, Sources, Logs
    <3> QED
      BY <1>5, <1>1, <3>1
  <2>2. Order[read.next] \in read.sources => read.next < read.next
    <3>1. \A k \in 1 .. 4 : Order[k] \in read.sources => k < read.next
      BY <1>4 DEF ReadTyped
    <3> QED
      BY <1>5, <3>1
  <2> QED
    BY <2>1, <2>2, <1>1, <1>5
<1>7. read.limit \in Nat
  BY <1>5, LimitAssumption
<1>8. /\ K \in SUBSET DOMAIN Table(s)
      /\ \A n \in DOMAIN Table(s) \ K :
           /\ Cardinality(K) = read.limit
           /\ \A k \in K : Table(s)[k].date >= Table(s)[n].date
  BY <1>4, <1>6, <1>7, NewestIs
<1>9. PICK g : g = Fetched(s, K)
  OBVIOUS
<1>10. IsFetch(g, s, K)
  BY <1>4, <1>6, <1>8, <1>9, FetchedIs
<1>11. PICK len : len = Len(Table(s))
  OBVIOUS
<1>12. len \in Nat /\ DOMAIN Table(s) = 1 .. len
  BY <1>4, <1>6, <1>11 DEF TablesAreTyped
<1>13. PICK got, seen, sources :
         /\ got = [read.got EXCEPT ![s] = g] /\ seen = [read.seen EXCEPT ![s] = len]
         /\ sources = read.sources \cup {s}
  OBVIOUS
<1>14. PICK r : r = [read EXCEPT !.sources = sources, !.got = got, !.seen = seen]
  OBVIOUS
<1>15. read' = Onward(r)
  BY <1>3, <1>9, <1>11, <1>13, <1>14, <1>5 DEF ReadFields
<1>16. /\ DOMAIN r = ReadFields /\ r.next = read.next /\ r.limit = read.limit
       /\ r.sources = sources /\ r.got = got /\ r.seen = seen /\ r.page = read.page
  BY <1>14, <1>5 DEF ReadFields
<1>17. /\ DOMAIN read' = ReadFields /\ read'.next = read.next + 1
       /\ read'.at = IF read.next = 4 THEN "names" ELSE "read"
       /\ read'.limit = read.limit /\ read'.sources = sources /\ read'.got = got
       /\ read'.seen = seen /\ read'.page = <<>>
  <2>1. r.next \in 1 .. 4
    BY <1>5, <1>16
  <2> QED
    BY <2>1, <1>5, <1>15, <1>16, OnwardIs
<1>18. UNCHANGED <<today, log, queue, installed, instants>>
  BY <1>2 DEF timelineWorld
<1>19. /\ got \in [Sources -> Seq(EntryRecord)] /\ seen \in [Sources -> Nat]
       /\ got[s] = g /\ seen[s] = len
       /\ \A t \in Sources \ {s} : got[t] = read.got[t] /\ seen[t] = read.seen[t]
  BY <1>5, <1>6, <1>10, <1>12, <1>13 DEF IsFetch
<1>20. \A k \in 1 .. 4 : Order[k] = s => k = read.next
  BY <1>5, <1>1 DEF Order
<1>21. ReadTyped'
  <2>1. /\ read'.at \in {"read", "names"} /\ read'.next \in 1 .. 5
        /\ (read'.at = "read" <=> read'.next # 5)
    BY <1>5, <1>17
  <2>2. sources \subseteq Sources
    BY <1>5, <1>6, <1>13
  <2>3. ASSUME NEW k \in 1 .. 4, Order[k] \in Logs, k < read.next + 1
        PROVE  Order[k] \in sources
    <3>1. CASE k < read.next
      BY <3>1, <2>3, <1>4, <1>13 DEF ReadTyped
    <3>2. CASE k = read.next
      BY <3>2, <1>13, <1>1
    <3> QED
      BY <3>1, <3>2, <2>3, <1>5
  <2>4. ASSUME NEW k \in 1 .. 4, Order[k] \in sources PROVE k < read.next + 1
    <3>1. CASE Order[k] \in read.sources
      <4>1. k < read.next
        BY <3>1, <1>4 DEF ReadTyped
      <4> QED
        BY <4>1, <1>5
    <3>2. CASE Order[k] = s
      BY <3>2, <1>5, <1>20
    <3> QED
      BY <3>1, <3>2, <2>4, <1>13
  <2>5. \A t \in Sources \ sources : got[t] = <<>>
    BY <1>4, <1>13, <1>19 DEF ReadTyped
  <2> QED
    BY <2>1, <2>2, <2>3, <2>4, <2>5, <1>5, <1>17, <1>19 DEF ReadTyped
<1>22. InstantsStand'
  <2>1. installed \in instants /\ instants \subseteq BOOLEAN /\ installed \in BOOLEAN
    BY <1>4 DEF InstantsStand, WorldTyped
  <2>2. "queue" \in sources => TRUE \in instants
    <3>1. CASE s = "queue"
      <4>1. installed
        BY <3>1, <1>1
      <4> QED
        BY <4>1, <2>1
    <3>2. CASE s # "queue"
      BY <3>2, <1>4, <1>13 DEF InstantsStand
    <3> QED
      BY <3>1, <3>2
  <2>3. read.next + 1 = 5 => "queue" \in sources
    <3>1. read.next + 1 = 5 => read.next = 4
      BY <1>5
    <3> QED
      BY <3>1, <1>13, <1>1 DEF Order
  <2>4. instants' = instants /\ installed' = installed
    BY <1>18
  <2> QED
    BY <2>1, <2>2, <2>3, <2>4, <1>17 DEF InstantsStand
<1>23. \A t : Table(t)' = Table(t)
  BY <1>18 DEF Table
<1>24. FetchesStand'
  <2> SUFFICES ASSUME NEW t \in sources PROVE FetchStands(t)'
    BY <1>17 DEF FetchesStand
  <2>1. CASE t # s
    <3>1. FetchStands(t) /\ t \in Sources
      BY <2>1, <1>4, <1>5, <1>13 DEF FetchesStand
    <3>2. /\ read'.got[t] = read.got[t] /\ read'.seen[t] = read.seen[t]
          /\ read'.limit = read.limit /\ Table(t)' = Table(t)
      BY <2>1, <3>1, <1>17, <1>19, <1>23
    <3> QED
      BY <3>1, <3>2 DEF FetchStands
  <2>2. CASE t = s
    <3>1. /\ read'.got[s] = g /\ read'.seen[s] = len /\ read'.limit = read.limit
          /\ Table(s)' = Table(s)
      BY <1>17, <1>19, <1>23
    <3>2. len <= Len(Table(s))
      BY <1>11, <1>12
    <3>3. \A i \in DOMAIN g :
            /\ g[i].kind = Kind(s) /\ g[i].n \in 1 .. len
            /\ g[i].date = Table(s)[g[i].n].date /\ g[i].item = Table(s)[g[i].n].item
      BY <1>8, <1>10, <1>12 DEF IsFetch
    <3>4. \A i, j \in DOMAIN g : g[i].n = g[j].n => i = j
      BY <1>10 DEF IsFetch
    <3>5. ASSUME NEW n \in 1 .. len
          PROVE  \/ \E i \in DOMAIN g : g[i].n = n
                 \/ Len(g) = read.limit /\ \A i \in DOMAIN g : g[i].date >= Table(s)[n].date
      <4>1. CASE n \in K
        BY <4>1, <1>10 DEF IsFetch
      <4>2. CASE n \notin K
        <5>1. Cardinality(K) = read.limit /\ \A k \in K : Table(s)[k].date >= Table(s)[n].date
          BY <4>2, <1>8, <1>12
        <5> QED
          BY <5>1, <1>10 DEF IsFetch
      <4> QED
        BY <4>1, <4>2
    <3> QED
      BY <2>2, <3>1, <3>2, <3>3, <3>4, <3>5 DEF FetchStands
  <2> QED
    BY <2>1, <2>2
<1>25. CausesFetched'
  <2> SUFFICES ASSUME read.next = 4, NEW i \in DOMAIN got["picklog"],
                      log["picklog"][got["picklog"][i].n].cause # 0
               PROVE  LET q == log["picklog"][got["picklog"][i].n].cause IN
                        /\ "queue" \in sources /\ q \in 1 .. seen["queue"]
                        /\ \A j \in DOMAIN got["queue"] :
                             got["queue"][j].n = q => got["queue"][j].status # "pending"
    BY <1>5, <1>17, <1>18 DEF CausesFetched
  <2>1. s = "queue" /\ "picklog" \in read.sources /\ "picklog" # s /\ "picklog" \in Sources
    BY <1>4, <1>1 DEF Order, ReadTyped, Logs, Sources
  <2>2. got["picklog"] = read.got["picklog"] /\ got["queue"] = g /\ seen["queue"] = len
    BY <2>1, <1>19
  <2>3. got["picklog"][i].n \in 1 .. read.seen["picklog"]
        /\ read.seen["picklog"] <= Len(log["picklog"]) /\ read.seen["picklog"] \in Nat
    BY <2>1, <2>2, <1>4, <1>5 DEF FetchesStand, FetchStands, Table
  <2>4. got["picklog"][i].n \in DOMAIN log["picklog"]
    BY <2>3, <1>4 DEF WorldTyped, Logs
  <2>5. PICK q : q = log["picklog"][got["picklog"][i].n].cause
    OBVIOUS
  <2>6. q \in DOMAIN queue /\ queue[q].status # "pending"
    BY <2>4, <2>5, <1>4 DEF CausesStand
  <2>7. q \in 1 .. len
    BY <2>1, <2>6, <1>12 DEF Table
  <2>8. \A j \in DOMAIN g : g[j].n = q => g[j].status # "pending"
    BY <2>1, <2>6, <1>10 DEF IsFetch
  <2> QED
    BY <2>1, <2>2, <2>5, <2>7, <2>8, <1>13
<1>26. AnswerIsTrue'
  BY <1>17 DEF AnswerIsTrue
<1> QED
  BY <1>2, <1>4, <1>21, <1>22, <1>24, <1>25, <1>26, WorldStaysInv DEF TimelineInv

-----------------------------------------------------------------------------
(***************************************************************************)
(* The timeline: its answer.                                               *)
(***************************************************************************)
NamedEntry(x, names) == [x EXCEPT !.named = x.item \in names]

LEMMA NamedEntryIs ==
  ASSUME NEW x \in EntryRecord, NEW names, NEW e, e = NamedEntry(x, names)
  PROVE  /\ e \in EntryRecord /\ (x.item \in names => e.named)
         /\ e.kind = x.kind /\ e.n = x.n /\ e.date = x.date /\ e.item = x.item
         /\ e.status = x.status
<1>1. PICK b : b = (x.item \in names)
  OBVIOUS
<1>4. b \in BOOLEAN
  <2>1. (x.item \in names) \in BOOLEAN
    OBVIOUS
  <2> QED
    BY <1>1, <2>1, Zenon
<1>5. x.item \in names => b
  BY <1>1, Zenon
<1>2. e = [x EXCEPT !.named = b]
  BY <1>1 DEF NamedEntry
<1>3. /\ e \in EntryRecord /\ e.named = b
      /\ e.kind = x.kind /\ e.n = x.n /\ e.date = x.date /\ e.item = x.item
      /\ e.status = x.status
  BY <1>2, <1>4 DEF EntryRecord
<1> QED
  BY <1>5, <1>3

LEMMA NamedIs ==
  ASSUME NEW all \in Seq(EntryRecord), NEW names
  PROVE  /\ Named(all, names) \in Seq(EntryRecord)
         /\ Range(Named(all, names)) = {NamedEntry(x, names) : x \in Range(all)}
<1> DEFINE A == Named(all, names)
<1>1. A = [i \in 1 .. Len(all) |-> NamedEntry(all[i], names)] /\ Len(all) \in Nat
      /\ DOMAIN all = 1 .. Len(all)
  BY DEF Named, NamedEntry
<1>2. \A i \in 1 .. Len(all) : NamedEntry(all[i], names) \in EntryRecord
  BY NamedEntryIs
<1> HIDE DEF A
<1>3. A \in [1 .. Len(all) -> EntryRecord]
  BY <1>1, <1>2
<1>4. A \in Seq(EntryRecord)
  BY <1>1, <1>3
<1>5. Range(A) = {NamedEntry(x, names) : x \in Range(all)}
  BY <1>1 DEF Range
<1> QED
  BY <1>4, <1>5 DEF A

\* The parts of an answer: what was fetched, the names that were found, and the
\* page that it comes to.
Merges(p, got, names, limit) ==
    /\ p = [i \in 1 .. Len(p) |-> p[i]] /\ Len(p) \in Nat /\ Len(p) <= limit
    /\ \A i, j \in DOMAIN p : i < j => p[i].date >= p[j].date
    /\ \A e \in Range(p) : \E s \in Sources : \E i \in DOMAIN got[s] :
         e = NamedEntry(got[s][i], names)
    /\ \A s \in Sources : \A i \in DOMAIN got[s] :
         \/ NamedEntry(got[s][i], names) \in Range(p)
         \/ Len(p) = limit /\ \A e \in Range(p) : e.date >= got[s][i].date

LEMMA AnswerMerges ==
  ASSUME NEW got \in [Sources -> Seq(EntryRecord)], NEW names, NEW limit \in Nat, NEW p,
         p = Merged(Named(got["atcommandlog"] \o got["zenylog"] \o got["picklog"] \o got["queue"],
                          names), limit)
  PROVE  Merges(p, got, names, limit)
<1> DEFINE g1 == got["atcommandlog"]
           g2 == got["zenylog"]
           g3 == got["picklog"]
           g4 == got["queue"]
           all == g1 \o g2 \o g3 \o g4
           A == Named(all, names)
<1>1. /\ g1 \in Seq(EntryRecord) /\ g2 \in Seq(EntryRecord)
      /\ g3 \in Seq(EntryRecord) /\ g4 \in Seq(EntryRecord)
  BY DEF Sources, Logs
<1>2. p = Merged(A, limit)
  OBVIOUS
<1>3. \A s \in Sources : got[s] \in {g1, g2, g3, g4}
  BY DEF Sources, Logs
<1>4. {"atcommandlog", "zenylog", "picklog", "queue"} \subseteq Sources
  BY DEF Sources, Logs
<1> HIDE DEF g1, g2, g3, g4
<1>5. /\ all \in Seq(EntryRecord)
      /\ Range(all) = Range(g1) \cup Range(g2) \cup Range(g3) \cup Range(g4)
  <2>1. PICK h2 : h2 = g1 \o g2
    OBVIOUS
  <2>2. h2 \in Seq(EntryRecord) /\ Range(h2) = Range(g1) \cup Range(g2)
    BY <1>1, <2>1, JoinedIs
  <2>3. PICK h3 : h3 = h2 \o g3
    OBVIOUS
  <2>4. h3 \in Seq(EntryRecord) /\ Range(h3) = Range(h2) \cup Range(g3)
    BY <1>1, <2>2, <2>3, JoinedIs
  <2>5. PICK h4 : h4 = h3 \o g4
    OBVIOUS
  <2>6. h4 \in Seq(EntryRecord) /\ Range(h4) = Range(h3) \cup Range(g4)
    BY <1>1, <2>4, <2>5, JoinedIs
  <2>7. all = h4
    BY <2>1, <2>3, <2>5
  <2> QED
    BY <2>2, <2>4, <2>6, <2>7
<1> HIDE DEF all
<1>6. A \in Seq(EntryRecord) /\ Range(A) = {NamedEntry(x, names) : x \in Range(all)}
  BY <1>5, NamedIs
<1> HIDE DEF A
<1>7. IsMerge(p, A, limit)
  <2>1. \A e \in EntryRecord : e.date \in Int
    BY DEF EntryRecord
  <2> QED
    BY <1>2, <1>6, <2>1, MergedIs
<1>8. ASSUME NEW e \in Range(p)
      PROVE  \E s \in Sources : \E i \in DOMAIN got[s] : e = NamedEntry(got[s][i], names)
  <2>1. PICK x \in Range(all) : e = NamedEntry(x, names)
    BY <1>6, <1>7 DEF IsMerge
  <2>2. \E s \in Sources : x \in Range(got[s])
    BY <2>1, <1>4, <1>5 DEF g1, g2, g3, g4
  <2> QED
    BY <2>1, <2>2 DEF Range
<1>9. ASSUME NEW s \in Sources, NEW i \in DOMAIN got[s]
      PROVE  \/ NamedEntry(got[s][i], names) \in Range(p)
             \/ Len(p) = limit /\ \A e \in Range(p) : e.date >= got[s][i].date
  <2>1. got[s][i] \in Range(got[s]) /\ got[s][i] \in EntryRecord
    BY <1>9 DEF Range
  <2>2. got[s][i] \in Range(all)
    BY <2>1, <1>3, <1>5
  <2>3. NamedEntry(got[s][i], names) \in Range(A)
    BY <2>2, <1>6
  <2>4. NamedEntry(got[s][i], names).date = got[s][i].date
    BY <2>1, NamedEntryIs
  <2> QED
    BY <2>3, <2>4, <1>7 DEF IsMerge
<1> QED
  BY <1>7, <1>8, <1>9 DEF IsMerge, Merges

\* Whatever of a source a page leaves out is not newer than what it holds.
LEMMA NothingNewerIsLeftOut ==
  ASSUME ReadTyped, FetchesStand, UnderWay, TablesAreTyped,
         NEW names, NEW p, Merges(p, read.got, names, read.limit),
         NEW s \in read.sources, NEW n \in 1 .. read.seen[s]
  PROVE  \/ \E e \in Range(p) : e.kind = Kind(s) /\ e.n = n
         \/ Len(p) = read.limit /\ \A e \in Range(p) : e.date >= Table(s)[n].date
<1> DEFINE g == read.got[s]
           limit == read.limit
<1>1. /\ s \in Sources /\ g \in Seq(EntryRecord) /\ limit \in Nat /\ FetchStands(s)
      /\ read.seen[s] \in Nat
  BY LimitAssumption DEF ReadTyped, FetchesStand
<1>2. \A i \in DOMAIN g : g[i] \in EntryRecord
  BY <1>1
<1>3. CASE \E i \in DOMAIN g : g[i].n = n
  <2>1. PICK i \in DOMAIN g : g[i].n = n
    BY <1>3
  <2>2. g[i].kind = Kind(s) /\ g[i].date = Table(s)[n].date
    BY <1>1, <2>1 DEF FetchStands
  <2>3. NamedEntry(g[i], names).kind = Kind(s) /\ NamedEntry(g[i], names).n = n
    BY <1>2, <2>1, <2>2, NamedEntryIs
  <2> QED
    BY <1>1, <2>1, <2>2, <2>3 DEF Merges
<1>4. CASE Len(g) = limit /\ \A i \in DOMAIN g : g[i].date >= Table(s)[n].date
  <2> DEFINE f == [i \in 1 .. limit |-> NamedEntry(g[i], names)]
  <2>1. DOMAIN g = 1 .. limit
    BY <1>1, <1>4
  <2>2. \A i \in 1 .. limit : f[i].n = g[i].n /\ f[i].date = g[i].date
    BY <1>2, <2>1, NamedEntryIs
  <2>3. Table(s)[n].date \in Nat
    <3>1. n \in DOMAIN Table(s)
      BY <1>1 DEF FetchStands, TablesAreTyped
    <3> QED
      BY <3>1, <1>1 DEF TablesAreTyped
  <2>4. CASE \A i \in 1 .. limit : f[i] \in Range(p)
    <3>1. \A i, j \in 1 .. limit : f[i] = f[j] => i = j
      <4>1. \A i, j \in 1 .. limit : g[i].n = g[j].n => i = j
        BY <1>1, <2>1 DEF FetchStands
      <4> HIDE DEF f
      <4> QED
        BY <4>1, <2>2
    <3>2. f \in Injection(1 .. limit, Range(p))
      BY <2>4, <3>1 DEF Injection, IsInjective
    <3> HIDE DEF f
    <3>3. Len(p) = limit /\ \A e \in Range(p) : \E i \in 1 .. limit : f[i] = e
      BY <3>2, <1>1, PageIsFull DEF Merges
    <3> QED
      BY <3>3, <2>1, <2>2, <1>4
  <2>5. CASE \E i \in 1 .. limit : f[i] \notin Range(p)
    <3>1. PICK i \in DOMAIN g : NamedEntry(g[i], names) \notin Range(p)
      BY <2>1, <2>5
    <3>2. Len(p) = limit /\ \A e \in Range(p) : e.date >= g[i].date
      BY <1>1, <3>1 DEF Merges
    <3>3. g[i].date \in Nat /\ g[i].date >= Table(s)[n].date
      BY <1>2, <1>4, <3>1 DEF EntryRecord
    <3>4. \A e \in Range(p) : e.date \in Nat
      <4>1. \A e \in Range(p) : e \in EntryRecord
        BY NamedEntryIs DEF Merges, ReadTyped
      <4> QED
        BY <4>1 DEF EntryRecord
    <3> QED
      BY <2>3, <3>2, <3>3, <3>4
  <2> QED
    BY <2>4, <2>5
<1> QED
  BY <1>1, <1>3, <1>4 DEF FetchStands

LEMMA KindsDiffer ==
  \A s, t \in Sources : /\ Kind(s) = Kind(t) => s = t
                        /\ Kind(s) = "item" <=> s = "picklog"
                        /\ Kind(s) = "queued" <=> s = "queue"
  BY DEF Kind, Sources, Logs

\* An entry of a page is a row that was fetched, named if its item was found.
LEMMA PageEntryIs ==
  ASSUME ReadTyped, FetchesStand, UnderWay,
         NEW names, NEW p, Merges(p, read.got, names, read.limit), NEW e \in Range(p)
  PROVE  \E s \in read.sources : \E i \in DOMAIN read.got[s] :
           /\ e.kind = Kind(s) /\ e.n = read.got[s][i].n /\ e.n \in 1 .. read.seen[s]
           /\ e.item = read.got[s][i].item /\ e.item = Table(s)[e.n].item
           /\ e.status = read.got[s][i].status
           /\ e.item \in names => e.named
<1>0. PICK s \in Sources : \E i \in DOMAIN read.got[s] : e = NamedEntry(read.got[s][i], names)
  BY DEF Merges
<1>1. PICK i \in DOMAIN read.got[s] : e = NamedEntry(read.got[s][i], names)
  BY <1>0
<1>2. s \in read.sources
  <2>1. s \notin read.sources => read.got[s] = <<>>
    BY DEF ReadTyped
  <2> QED
    BY <2>1
<1>3. read.got[s][i] \in EntryRecord
  <2>1. read.got[s] \in Seq(EntryRecord)
    BY DEF ReadTyped
  <2> QED
    BY <2>1
<1>4. /\ read.got[s][i].kind = Kind(s) /\ read.got[s][i].n \in 1 .. read.seen[s]
      /\ read.got[s][i].item = Table(s)[read.got[s][i].n].item
  BY <1>2 DEF FetchesStand, FetchStands
<1> QED
  BY <1>1, <1>2, <1>3, <1>4, NamedEntryIs

LEMMA AnswerTimelineKeeps == TimelineInv /\ AnswerTimeline => TimelineInv'
<1> SUFFICES ASSUME TimelineInv, AnswerTimeline PROVE TimelineInv'
  OBVIOUS
<1>1. PICK names : names = LookupNames(Asked(read.got))
  OBVIOUS
<1>2. PICK p : p = Merged(Named(read.got["atcommandlog"] \o read.got["zenylog"] \o
                                  read.got["picklog"] \o read.got["queue"], names),
                          read.limit)
  OBVIOUS
<1>3. PICK none : none = [s \in Sources |-> <<>>]
  OBVIOUS
<1>4. /\ read.at = "names" /\ UNCHANGED <<timelineWorld, instants>>
      /\ read' = [read EXCEPT !.at = "answered", !.got = none, !.page = p]
  BY <1>1, <1>2, <1>3 DEF AnswerTimeline
<1>5. /\ WorldInv /\ ReadTyped /\ InstantsStand /\ FetchesStand /\ CausesFetched /\ UnderWay
      /\ WorldTyped /\ CausesStand /\ TablesAreTyped
  BY <1>4, TablesTyped DEF TimelineInv, UnderWay, WorldInv
<1>6. /\ DOMAIN read = ReadFields /\ read.next = 5 /\ read.limit \in Nat
      /\ read.sources \subseteq Sources
      /\ read.got \in [Sources -> Seq(EntryRecord)] /\ read.seen \in [Sources -> Nat]
  BY <1>4, <1>5, LimitAssumption DEF ReadTyped
<1>7. /\ read'.at = "answered" /\ read'.page = p /\ read'.limit = read.limit
      /\ read'.sources = read.sources /\ read'.seen = read.seen
  BY <1>4, <1>6 DEF ReadFields
<1>8. UNCHANGED <<today, log, queue, installed, instants>> /\ \A s : Table(s)' = Table(s)
  BY <1>4 DEF timelineWorld, Table
<1>9. Merges(p, read.got, names, read.limit)
  BY <1>2, <1>6, AnswerMerges
<1>10. Page' = p /\ read'.limit = read.limit
  BY <1>7 DEF Page
<1>11. ASSUME NEW s \in read.sources, NEW n \in 1 .. read.seen[s]
       PROVE  OnPage(s, n)' \/ IsFullFrom(Table(s)[n].date)'
  <2>1. \/ \E e \in Range(p) : e.kind = Kind(s) /\ e.n = n
        \/ Len(p) = read.limit /\ \A e \in Range(p) : e.date >= Table(s)[n].date
    BY <1>5, <1>9, NothingNewerIsLeftOut
  <2> QED
    BY <2>1, <1>8, <1>10 DEF OnPage, IsFullFrom
<1>12. NewestFirst'
  BY <1>7, <1>9, <1>10, <1>11 DEF NewestFirst, Merges
<1>13. SourcesAreThoseRead'
  <2>1. Logs \subseteq read.sources
    <3> SUFFICES ASSUME NEW s \in Logs PROVE s \in read.sources
      OBVIOUS
    <3>1. PICK k \in 1 .. 4 : Order[k] = s
      <4>1. Order[1] = s \/ Order[2] = s \/ Order[3] = s
        BY DEF Order, Logs
      <4> QED
        BY <4>1
    <3>2. k < 5
      OBVIOUS
    <3> QED
      BY <3>1, <3>2, <1>5, <1>6 DEF ReadTyped
  <2>2. ("queue" \in read.sources) \in instants
    <3>1. CASE "queue" \in read.sources
      <4>1. TRUE \in instants
        BY <3>1, <1>5 DEF InstantsStand
      <4>2. ("queue" \in read.sources) = TRUE
        BY <3>1
      <4> QED
        BY <4>1, <4>2, Zenon
    <3>2. CASE "queue" \notin read.sources
      <4>1. FALSE \in instants
        BY <3>2, <1>5, <1>6 DEF InstantsStand
      <4>2. ("queue" \in read.sources) = FALSE
        BY <3>2
      <4> QED
        BY <4>1, <4>2, Zenon
    <3> QED
      BY <3>1, <3>2
  <2> QED
    BY <2>1, <2>2, <1>7, <1>8 DEF SourcesAreThoseRead
<1>14. NamesAreResolved'
  <2> SUFFICES ASSUME NEW e \in Range(p), e.item \in ItemDb PROVE e.named
    BY <1>10 DEF NamesAreResolved
  <2>0. PICK s \in read.sources : \E i \in DOMAIN read.got[s] :
           /\ e.n \in 1 .. read.seen[s] /\ e.item = read.got[s][i].item
           /\ e.item = Table(s)[e.n].item /\ (e.item \in names => e.named)
    BY <1>5, <1>9, PageEntryIs
  <2>1. PICK i \in DOMAIN read.got[s] :
           /\ e.n \in 1 .. read.seen[s] /\ e.item = read.got[s][i].item
           /\ e.item = Table(s)[e.n].item /\ (e.item \in names => e.named)
    BY <2>0
  <2>2. e.item # NoItem
    BY ItemAssumption
  <2>3. s \in {"picklog", "queue"}
    <3>1. SUFFICES ASSUME s \in Logs \ {"picklog"} PROVE FALSE
      BY <1>6 DEF Sources
    <3>2. e.n \in DOMAIN log[s] /\ Table(s) = log[s]
      <4>1. FetchStands(s) /\ s \in Sources /\ read.seen[s] \in Nat /\ s # "queue"
        BY <1>5, <1>6, <3>1 DEF FetchesStand, Logs
      <4>2. Table(s) = log[s]
        BY <4>1 DEF Table
      <4> QED
        BY <2>1, <4>1, <4>2, <1>5 DEF FetchStands, TablesAreTyped
    <3> QED
      BY <2>1, <2>2, <3>1, <3>2, <1>5 DEF CausesStand
  <2>4. e.item \in ItemsOf(read.got[s])
    BY <2>1, <2>2 DEF ItemsOf, Range
  <2>5. e.item \in names
    BY <2>3, <2>4, <1>1 DEF LookupNames, Asked
  <2> QED
    BY <2>1, <2>5
<1>15. EffectHasItsCause'
  <2> SUFFICES ASSUME NEW e \in Range(p), e.kind = "item", log["picklog"][e.n].cause # 0
               PROVE  LET q == log["picklog"][e.n].cause IN
                      \/ Len(p) = read.limit /\ \A c \in Range(p) : c.date >= queue[q].date
                      \/ \E c \in Range(p) :
                           c.kind = "queued" /\ c.n = q /\ c.status # "pending"
    BY <1>8, <1>10 DEF EffectHasItsCause, IsFullFrom
  <2>0. PICK s \in read.sources : \E i \in DOMAIN read.got[s] :
           e.kind = Kind(s) /\ e.n = read.got[s][i].n
    BY <1>5, <1>9, PageEntryIs
  <2>1. PICK i \in DOMAIN read.got[s] : e.kind = Kind(s) /\ e.n = read.got[s][i].n
    BY <2>0
  <2>2. s = "picklog"
    BY <2>1, <1>6, KindsDiffer
  <2>3. PICK q : q = log["picklog"][e.n].cause
    OBVIOUS
  <2>4. /\ "queue" \in read.sources /\ q \in 1 .. read.seen["queue"]
        /\ \A j \in DOMAIN read.got["queue"] :
             read.got["queue"][j].n = q => read.got["queue"][j].status # "pending"
    BY <2>1, <2>2, <2>3, <1>5, <1>6 DEF CausesFetched
  <2>5. CASE IsFullFrom(Table("queue")[q].date)'
    <3>1. Table("queue") = queue /\ Table("queue")' = queue
      BY <1>8 DEF Table
    <3>2. Len(p) = read.limit /\ \A c \in Range(p) : c.date >= queue[q].date
      BY <2>5, <3>1, <1>10 DEF IsFullFrom
    <3> QED
      BY <2>3, <3>2
  <2>6. CASE OnPage("queue", q)'
    <3>1. PICK c \in Range(p) : c.kind = Kind("queue") /\ c.n = q
      BY <2>6, <1>10 DEF OnPage
    <3>4. PICK t \in read.sources : \E j \in DOMAIN read.got[t] :
            c.kind = Kind(t) /\ c.n = read.got[t][j].n /\ c.status = read.got[t][j].status
      BY <1>5, <1>9, PageEntryIs
    <3>2. PICK j \in DOMAIN read.got[t] :
            c.kind = Kind(t) /\ c.n = read.got[t][j].n /\ c.status = read.got[t][j].status
      BY <3>4
    <3>3. t = "queue" /\ c.kind = "queued"
      BY <2>4, <3>1, <3>2, <1>6, KindsDiffer
    <3> QED
      BY <2>3, <2>4, <3>1, <3>2, <3>3
  <2> QED
    BY <1>11, <2>4, <2>5, <2>6
<1>16. AnswerIsTrue'
  BY <1>6, <1>7, <1>9, <1>12, <1>13, <1>14, <1>15 DEF AnswerIsTrue, Merges
<1>17. ReadTyped' /\ InstantsStand' /\ FetchesStand' /\ CausesFetched'
  BY <1>5, <1>7, <1>8 DEF ReadTyped, InstantsStand, FetchesStand, CausesFetched, UnderWay
<1> QED
  BY <1>4, <1>5, <1>16, <1>17, WorldStaysInv DEF TimelineInv

LEMMA TimelineNextKeeps == TimelineInv /\ [TimelineNext]_timelineVars => TimelineInv'
<1> SUFFICES ASSUME TimelineInv, [TimelineNext]_timelineVars PROVE TimelineInv'
  OBVIOUS
<1>1. CASE ClockTicks
  BY <1>1, ClockTicksKeeps
<1>2. CASE GameLogs \/ GiveItem
  BY <1>2, LogsAreWrittenKeeps
<1>3. CASE QueueRow
  BY <1>3, QueueRowKeeps
<1>4. CASE ClaimRow
  <2>1. PICK q \in DOMAIN queue : Moves(q, "pending", "processing")
    BY <1>4 DEF ClaimRow
  <2> QED
    BY <2>1, MovesKeeps DEF Statuses
<1>5. CASE FinishRow
  <2>1. PICK q \in DOMAIN queue : Moves(q, "processing", "finished")
    BY <1>5 DEF FinishRow
  <2> QED
    BY <2>1, MovesKeeps DEF Statuses
<1>6. CASE InstallQueue
  BY <1>6, InstallQueueKeeps
<1>7. CASE AskTimeline
  BY <1>7, AskTimelineKeeps
<1>8. CASE ReadSource
  BY <1>8, UnreadKeeps, FetchKeeps
<1>9. CASE AnswerTimeline
  BY <1>9, AnswerTimelineKeeps
<1>10. CASE UNCHANGED timelineVars
  <2>1. UNCHANGED <<today, log, queue, installed, read, instants>> /\ UNCHANGED timelineWorld
    BY <1>10 DEF timelineVars, timelineWorld
  <2>2. \A s : Table(s)' = Table(s)
    BY <2>1 DEF Table
  <2>3. WorldInv'
    BY <2>1, WorldStaysInv DEF TimelineInv
  <2>4. ReadTyped' /\ InstantsStand'
    BY <2>1 DEF TimelineInv, ReadTyped, InstantsStand, UnderWay
  <2>5. FetchesStand'
    <3>1. FetchesStand
      BY DEF TimelineInv
    <3>2. read' = read
      BY <2>1
    <3> QED
      BY <2>2, <3>1, <3>2 DEF FetchesStand, FetchStands, UnderWay
  <2>7. CausesFetched'
    <3>1. CausesFetched
      BY DEF TimelineInv
    <3>2. read' = read /\ log' = log
      BY <2>1
    <3> QED
      BY <3>1, <3>2 DEF CausesFetched, UnderWay
  <2>6. AnswerIsTrue'
    BY <2>1, <2>2 DEF TimelineInv, AnswerIsTrue, NewestFirst, SourcesAreThoseRead,
                NamesAreResolved, EffectHasItsCause, Page, OnPage, IsFullFrom
  <2> QED
    BY <2>3, <2>4, <2>5, <2>6, <2>7 DEF TimelineInv
<1> QED
  BY <1>1, <1>2, <1>3, <1>4, <1>5, <1>6, <1>7, <1>8, <1>9, <1>10 DEF TimelineNext

LEMMA TimelineInvImplies == TimelineInv => PageIsOfItsSources /\ EffectHasItsCause
<1> SUFFICES ASSUME TimelineInv PROVE PageIsOfItsSources /\ EffectHasItsCause
  OBVIOUS
<1>1. WorldTyped /\ RowsInOrder /\ CausesStand /\ ReadTyped /\ InstantsStand /\ AnswerIsTrue
      /\ TablesAreTyped
  BY TablesTyped DEF TimelineInv, WorldInv
<1>2. NewestFirst /\ SourcesAreThoseRead /\ NamesAreResolved /\ EffectHasItsCause
  <2>1. CASE read.at # "answered"
    <3>1. Page = <<>>
      BY <2>1 DEF Page
    <3>2. Range(Page) = {}
      BY <3>1 DEF Range
    <3> QED
      BY <2>1, <3>2 DEF NewestFirst, SourcesAreThoseRead, NamesAreResolved, EffectHasItsCause
  <2> QED
    BY <2>1, <1>1 DEF AnswerIsTrue
<1>3. \A s \in Logs : \A i \in DOMAIN log[s] :
        log[s][i].date \in 0 .. today /\ log[s][i].cause \in 0 .. Len(queue)
  <2> SUFFICES ASSUME NEW s \in Logs, NEW i \in DOMAIN log[s]
               PROVE  log[s][i].date \in 0 .. today /\ log[s][i].cause \in 0 .. Len(queue)
    OBVIOUS
  <2>1. log[s] \in Seq(LogRow) /\ Table(s) = log[s] /\ s \in Sources
    BY <1>1 DEF WorldTyped, Table, Sources, Logs
  <2>2. log[s][i] \in LogRow
    BY <2>1
  <2>3. log[s][i].date \in Nat /\ log[s][i].cause \in Nat /\ today \in Nat
    BY <2>2, <1>1 DEF LogRow, TablesAreTyped
  <2>4. log[s][i].date <= today
    BY <2>1, <1>1 DEF RowsInOrder
  <2>5. log[s][i].cause # 0 => log[s][i].cause \in DOMAIN queue
    BY <1>1 DEF CausesStand
  <2>6. DOMAIN queue = 1 .. Len(queue) /\ Len(queue) \in Nat
    BY <1>1 DEF WorldTyped
  <2> QED
    BY <2>3, <2>4, <2>5, <2>6
<1>4. \A q \in DOMAIN queue : queue[q].status \in {"pending", "processing", "finished"}
  <2> SUFFICES ASSUME NEW q \in DOMAIN queue
               PROVE  queue[q].status \in {"pending", "processing", "finished"}
    OBVIOUS
  <2>1. queue[q] \in QueueRow1
    BY <1>1 DEF WorldTyped
  <2> QED
    BY <2>1 DEF QueueRow1, Statuses
<1>5. read.at # "idle" => Len(read.page) <= read.limit /\ read.sources \subseteq Sources
  <2>1. CASE UnderWay
    <3>1. read.page = <<>> /\ read.limit \in Nat /\ read.sources \subseteq Sources
      BY <2>1, <1>1, LimitAssumption DEF ReadTyped
    <3> QED
      BY <3>1
  <2> QED
    BY <2>1, <1>1 DEF AnswerIsTrue, UnderWay, ReadTyped
<1>6. TimelineTypeOK
  BY <1>1, <1>3, <1>4, <1>5 DEF TimelineTypeOK, WorldTyped, ReadTyped, InstantsStand
<1> QED
  BY <1>2, <1>6 DEF PageIsOfItsSources

\* The page is newest first and full of the newest: cutting each source to the
\* limit before the merge leaves out nothing newer than what is on it; it names
\* the tables that were read and no other, and every item whose name is known
\* (character_timeline).
LEMMA PageIsOfItsSourcesAlone == TimelineSpec => []PageIsOfItsSources
  BY TimelineInitHolds, TimelineNextKeeps, TimelineInvImplies, PTL DEF TimelineSpec

\* An item on the page that a queued command gave has that command on the page
\* too, unless the page was full before it, and not as one still to be carried
\* out: the queue is read after the log of items (character_timeline).
LEMMA EffectHasItsCauseAlone == TimelineSpec => []EffectHasItsCause
  BY TimelineInitHolds, TimelineNextKeeps, TimelineInvImplies, PTL DEF TimelineSpec

-----------------------------------------------------------------------------
(***************************************************************************)
(* The parts in the service.  In a behaviour of Service one part moves and *)
(* the others stand still, so that it is a behaviour of each.              *)
(***************************************************************************)
LEMMA OnePartMoves ==
  ASSUME [Next]_serviceVars
  PROVE  /\ [TimelineNext]_timelineVars /\ [ListingNext]_listingVars
         /\ [OwnedNext]_ownedVars /\ [CliOrOthers]_cliVars
         /\ [SearchNext]_searchVars /\ [DossierNext]_dossierVars
  BY DEF Next, TimelineMoves, ListsMove, OwnedMoves, AccessMoves, SearchMoves, DossierMoves,
         serviceVars

LEMMA PartsOfService ==
  Spec => /\ TimelineSpec /\ ListingSpec
          /\ OwnedSpec /\ CliSpec /\ SearchSpec /\ DossierSpec
<1>1. Init => /\ TimelineInit /\ ListingInit
              /\ OwnedInit /\ CliInit /\ SearchInit /\ DossierInit
  BY DEF Init
<1> QED
  BY <1>1, OnePartMoves, PTL
     DEF Spec, TimelineSpec, ListingSpec, OwnedSpec, CliSpec, SearchSpec, DossierSpec

\* When nothing is under way any more, the screen is about what the box holds
\* (renderSearch).
THEOREM SearchShowsTheBox == Spec => []QuietShowsTheBox
  BY PartsOfService, SearchShowsTheBoxAlone, PTL

\* Nothing is drawn for what was typed before, and no refusal is read as a miss
\* (renderSearch, statusSentences).
THEOREM SearchDrawsTruly == Spec => DrawingIsTrue
  BY PartsOfService, SearchDrawsTrulyAlone, PTL

\* When no refresh is under way any more, the page is that of the last one or says
\* that it is not (refresh).
THEOREM QuietDossierIsLatest == Spec => []QuietPageIsLatest
  BY PartsOfService, QuietDossierIsLatestAlone, PTL

\* Whoever is let through by a sign-in was in a group of that level within the
\* life of a token, and a changed secret or a missing scope stops everybody
\* (login, decode_token, is_permitted, requires).
THEOREM GrantsAreGiven == Spec => []GrantWasGiven
  BY PartsOfService, GrantsAreGivenAlone, PTL

\* What /auth/me told a client of a token is what every route does with it.
THEOREM MeIsWhatIsEnforced == Spec => []MeIsEnforced
  BY PartsOfService, MeIsWhatIsEnforcedAlone, PTL

\* An invocation of roadmin writes at most once, whatever is lost on the way and
\* whatever it tells its operator to run (_request, describe_body).
THEOREM WritesAreNotRepeated == Spec => []OneWritePerInvocation
  BY PartsOfService, WritesAreNotRepeatedAlone, PTL

\* Exit 0 is given to a request that was carried out and answered, and to every
\* write whose acceptance was heard (_request, _discover, main).
THEOREM ExitsAreTrue == Spec => []StatusIsTrue
  BY PartsOfService, ExitsAreTrueAlone, PTL

\* What an answer about an owner says was so at some instant while it was asked,
\* although its two statements see two instants and the game logs the owner in
\* and out, changes, saves and loses what it has between them (get_character,
\* get_inventory, get_account, account_characters).
THEOREM AnswersAboutOwnersWereTrue == Spec => []AnswerWasTrue
  BY PartsOfService, AnswersAboutOwnersWereTrueAlone, PTL

\* Where rows do not tie, a reader who walks a list to its end has met every row
\* that was there when it began and is still there, except one for each row
\* deleted meanwhile; rows that are added lose nothing (list_characters,
\* item_logs, search_items).
THEOREM WalksMissNothing == Spec => []WalkMissesNothing
  BY PartsOfService, WalkMissesNothingAlone, PTL

\* The page is newest first and full of the newest: cutting each source to the
\* limit before the merge leaves out nothing newer than what is on it; it names
\* the tables that were read and no other, and every item whose name is known
\* (character_timeline).
THEOREM PagesAreOfTheirSources == Spec => []PageIsOfItsSources
  BY PartsOfService, PageIsOfItsSourcesAlone, PTL

\* An item on the page that a queued command gave has that command on the page
\* too, unless the page was full before it, and not as one still to be carried
\* out: the queue is read after the log of items (character_timeline).
THEOREM EffectsHaveTheirCauses == Spec => []EffectHasItsCause
  BY PartsOfService, EffectHasItsCauseAlone, PTL
=============================================================================
