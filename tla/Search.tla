------------------------------- MODULE Search -------------------------------
(***************************************************************************)
(* The search box (web/js/search.js).  Each keystroke takes a number and,  *)
(* if there is text, starts a timer; the timer sends up to four requests;  *)
(* their answers come in any order, and only the search of the last        *)
(* keystroke may draw.                                                     *)
(***************************************************************************)
EXTENDS Integers, Sequences, FiniteSets

CONSTANT MaxKeys        \* bound: keystrokes

VARIABLES
    typed,      \* what the box held after each keystroke
    latest,     \* the counter of renderSearch
    timer,      \* the keystroke whose timer runs, 0: none
    searches,   \* the searches under way: what each was answered so far
    screen      \* what status and list are about, and what they say

searchVars == <<typed, latest, timer, searches, screen>>

Texts == {"blank", "word", "digits"}
Shown == {"characters", "accounts"}

\* searchRequests(): a number is tried as an id too.
Requests(text) ==
    CASE text = "blank" -> {}
      [] text = "word" -> Shown
      [] text = "digits" -> Shown \cup {"character", "account"}

GroupOf(request) == IF request \in {"characters", "character"} THEN "characters" ELSE "accounts"

Blank == [of |-> 0, says |-> [g \in Shown |-> "nothing"]]
-----------------------------------------------------------------------------
SearchInit ==
    typed = <<>> /\ latest = 0 /\ timer = 0 /\ searches = <<>> /\ screen = Blank

\* An operator introduced as a mistake is never used: it is the definition
\* that follows it with one plausible slip, which a run's properties catch.

\* Mistake: clearing the box is not a keystroke like any other.
BumpedUnlessBlank(l, text) == IF text = "blank" THEN l ELSE l + 1

Bumped(l, text) == l + 1

\* The `input' handler.
Type ==
    /\ Len(typed) < MaxKeys
    /\ \E text \in Texts :
         /\ typed' = Append(typed, text)
         /\ latest' = Bumped(latest, text)
         /\ IF text = "blank" THEN timer' = 0 /\ screen' = [Blank EXCEPT !.of = latest']
            ELSE timer' = latest' /\ UNCHANGED screen
    /\ searches' = Append(searches, <<>>)

\* The timer: runSearch() sends every request of the query at once.
TimerFires ==
    /\ timer # 0
    /\ searches' = [searches EXCEPT ![timer] = <<[r \in Requests(typed[timer]) |-> "pending"]>>]
    /\ timer' = 0
    /\ UNCHANGED <<typed, latest, screen>>

Running(k) == searches[k] # <<>>

\* A 404 for an id is an ordinary miss; for a list it is a refusal like others.
RequestSettles ==
    /\ \E k \in DOMAIN searches : Running(k) /\
         \E r \in DOMAIN searches[k][1], a \in {"found", "none", "refused"} :
           /\ searches[k][1][r] = "pending"
           /\ searches' = [searches EXCEPT ![k][1][r] = a]
    /\ UNCHANGED <<typed, latest, timer, screen>>

\* Mistake: a refusal is read as a miss.
SaysIgnoringRefusals(answers, g) ==
    IF \E r \in DOMAIN answers : GroupOf(r) = g /\ answers[r] = "found" THEN "found" ELSE "none"

\* statusSentences(): a group has its count, its problem, or both.
Says(answers, g) ==
    LET got == {answers[r] : r \in {q \in DOMAIN answers : GroupOf(q) = g}} IN
    CASE "refused" \in got /\ "found" \in got -> "found and problem"
      [] "refused" \in got /\ "found" \notin got -> "problem"
      [] "refused" \notin got /\ "found" \in got -> "found"
      [] OTHER -> "none"

Wanted(k) == k = latest

\* Promise.allSettled: the search draws, or finds that it is no longer wanted.  A
\* body of an unusable shape is said in place of everything.
SearchEnds ==
    /\ \E k \in DOMAIN searches, shape \in {"usable", "unusable"} :
         /\ Running(k) /\ \A r \in DOMAIN searches[k][1] : searches[k][1][r] # "pending"
         /\ searches' = [searches EXCEPT ![k] = <<>>]
         /\ screen' = IF ~Wanted(k) THEN screen
                      ELSE [of |-> k, says |-> [g \in Shown |->
                               IF shape = "usable" THEN Says(searches[k][1], g) ELSE "problem"]]
    /\ UNCHANGED <<typed, latest, timer>>

SearchNext == Type \/ TimerFires \/ RequestSettles \/ SearchEnds

SearchSpec == SearchInit /\ [][SearchNext]_searchVars
-----------------------------------------------------------------------------
(***************************************************************************)
(* Properties.                                                             *)
(***************************************************************************)
\* Once no timer runs and no request is under way, the screen is about what the
\* box holds, and it is bare if the box is.
QuietShowsTheBox ==
    typed # <<>> /\ timer = 0 /\ (\A k \in DOMAIN searches : ~Running(k)) =>
        /\ screen.of = Len(typed)
        /\ typed[Len(typed)] = "blank" <=> screen.says = Blank.says

\* What is drawn is about what the box holds at that moment: nothing drawn gives
\* way to an answer for something typed earlier.
DrawnForTheBox == screen' # screen => screen'.of = Len(typed')

\* A group is never said to have no match when one of its requests was refused.
MissIsAMiss ==
    \A k \in DOMAIN searches : Running(k) /\ screen' # screen =>
        \A r \in DOMAIN searches[k][1] :
           searches[k][1][r] = "refused" /\ searches'[k] = <<>> =>
              screen'.says[GroupOf(r)] \in {"problem", "found and problem"}

\* Together: every drawing is of the last search, and says what became of it.
DrawingIsTrue == [][DrawnForTheBox /\ MissIsAMiss]_searchVars
=============================================================================
