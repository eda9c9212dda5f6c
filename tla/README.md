# ro-admin: models and proofs

TLA+ modules beside ro-admin, an administration API for rAthena game servers. They model
the command queue and the two NPC scripts that consume it, the API around them, the web
client's forms, sessions and pages, the command-line client and the map importer. TLC checks
the models on small instances; TLAPS proves the main results for every value of the
constants.

All paths below are those of the repository (`src/ro_admin/...` is the Python package).

## 1. The system

| component | state it keeps | operations | talks to |
|---|---|---|---|
| command queue (`overlay/schema.sql`, `src/ro_admin/overlay.py`) | `ro_admin_commands`: one row per request, `pending`, `processing`, `executed`, `failed`, with claimant and error | insert, compare-and-swap claim, finish | API and both scripts, through SQL |
| Tier 1 script (`overlay/ro_admin_overlay.txt`) | `.instance`, its heartbeat row, the tick it is in | OnInit, OnTimer1000: heartbeat, select, claim, read claim, look up, attach, act, compare, finish | queue, the game in its own process |
| Tier 2 script and hook (`overlay/tier2/`) | the same, and `ro_admin_sync` | the same up to attach, then flush, read back, record, finish | queue, map server memory, char server |
| commands API (`routers/commands.py`) | none | POST: request model, heartbeat guard, insert, read back; GET | queue, heartbeats |
| character reads (`routers/characters.py`) | none | one SELECT that decides `stale`, with fallbacks; inventory in two | `char`, `ro_admin_sync`, the queue |
| heartbeat and validation (`overlay.py`, `routers/system.py`) | none | `classify_heartbeat`, `_read_tier`, `validate` | heartbeat rows |
| logs, timeline, items (`routers/logs.py`, `items.py`) | none | paged reads; the timeline merges up to four sources | log tables, queue |
| accounts, tokens, permissions (`auth.py`, `permissions.py`, `deps.py`, `routers/auth.py`, `accounts.py`) | none on the server, the token is signed | login, token check, permission gate | `login` table |
| maps and importer (`routers/maps.py`, `importers/`) | the map tables | parse, layer, import in one transaction; reads | the map cache files |
| web client: commands (`web/js/actions.js`) | per form: one write in flight, its row, the outcome shown | submit, poll, retry, check again | API |
| web client: session, routes (`app.js`, `session.js`, `api.js`) | token in memory and in storage, `me`, the latest route | sign in and out, 401, storage event, route | API, the other tabs |
| web client: search, dossier (`search.js`, `dossier.js`) | the latest query or refresh | debounce, ask, render if still the latest | API |
| command-line client (`cli.py`) | none | `discover`, `get`, `post`: one request, print, exit | API |
| service shell, repository scripts | none | wiring; token minting, text checks | |

What is hard in it:

* **Several consumers, no lock.** A map server's scripts run on one thread, but nothing
  stops an operator from pointing two map servers at one database. The queue has only a
  conditional UPDATE and a read of `claimed_by` to keep a row from being carried out twice.
* **A scripting language that does not report errors.** `query_sql` answers a statement
  that failed and a statement that found nothing in the same way. Commands such as
  `@zeny` clamp without saying so.
* **Two scripts, one queue.** Which of the two takes an action is written three times: in
  `consumer_tier()` and in two SELECTs.
* **Crashes.** A map server that dies leaves a row in `processing` for ever; it must not
  be run again. An importer that dies must leave the maps that were there.
* **Copies that lag.** Memory of the map server, saves on their way, the row in `char`:
  the API sees only the last, and judges it by timestamps of whole seconds.
* **A connection per statement.** `db.py` opens one for every query, so a request of two
  statements sees two instants, and its tables may come and go in between.
* **A browser.** Answers out of order, other tabs, tokens that change between a request
  and its answer, a POST whose answer is lost.

What makes each component correct. "Proved" is section 5, the rest is model-checked.

| component | properties | where |
|---|---|---|
| queue, scripts, commands API | a row runs at most once; `executed` exactly when observed; a refusal is safe to repeat; a verdict is final; in order within a tier; no row dropped; every row claimed and finished in the end | `Overlay`; proved, but for the last |
| queue as a whole | it implements a five-step abstract queue | `Overlay` implements `CommandQueue`, proved |
| character reads | never fresh after a queued write moved the game; the fallbacks for missing tables invent no evidence and lose none; an inventory not called stale was the owner's | `Freshness`, `Install`, `Owned`, proved |
| heartbeat, validation, capabilities | what is said of a script was so during the read; a refusal is asked of the action's own consumer; what is queued is in range | `Install`, proved |
| timeline, lists | nothing cut off is newer than what is shown; an effect is shown with its cause; a walk over pages misses no more rows than were deleted | `Timeline`, `Listings`, proved |
| accounts, tokens, permissions | whoever is let through was given it, and recently; `/auth/me` says what is enforced | `Access`, proved |
| command-line client | one write per invocation; 0 means done | `Cli`, proved |
| maps, importer | the table passes from one whole import to the next; the exit status tells which; a cache is read whole or refused; an answer of two statements was so | `MapImport` implements `MapTable`; `MapCache`; proved |
| web client: commands | what is shown is true of the row; a write that may have reached the queue is never offered again; a row still to run stays in sight; every wait ends | `CommandForm`; proved, but for the last |
| web client: session | an answer to an old token does not end, rename or draw over a new session; the tabs agree when all is quiet; a change of account is announced | `BrowserSession`, proved |
| web client: search, dossier | what is on screen when all is quiet is about the latest question; a refusal is not read as a miss | `Search`, `Dossier`, proved |

## 2. Plan

In the order written, most important behaviour first. All of it is done.

1. `CommandQueue` and `Overlay` (queue, handlers, scripts, faults), with `OverlayProofs`.
2. `Freshness` (the `stale` decision), with `FreshnessProofs`.
3. `CommandForm`, with `CommandFormProofs`, and `BrowserSession`, with `BrowserSessionProofs`
   (the two parts of the web client that decide what an operator believes and as whom he
   acts).
4. `Install` (tables that come and go, heartbeats, validation, fallbacks), with
   `InstallProofs`.
5. `MapCache`, `MapTable`, `MapImport` (the importer and its readers), with `MapImportProofs`.
6. `Timeline`, `Listings`, `Owned`, `Access`, `Cli`, `Search`, `Dossier`, composed by
   `Service`, with `ServiceProofs`, and `Ranking`, the facts about places in an order that the
   proofs of the lists, the timeline and the maps need.

## 3. The modules

### CommandQueue

A job per id with a status, the number of times the game was touched for it, and how much
of what was asked has come about. Five steps: `Submit`, `Claim`, `Run` (once), `Confirm`
(what was set going is seen to have come about), `Finish` (`executed` exactly when the
effect is full). Nothing about scripts, servers or SQL.

### Overlay

The grain is one SQL statement. A map server runs scripts, players and console commands
on one thread, so between two statements of a tick nothing else happens on that server;
the API and the other servers do as they like. A tick is a program counter per server
(`idle`, `select`, `claim`, `readclaim`, `lookup`, `act`, `readback`, `record`, `finish`)
with its `.@cmd` and `.@err$`.

| model | code |
|---|---|
| `row`, `synced`, `heartbeat` | `ro_admin_commands`, `ro_admin_sync`, `ro_admin_heartbeat` |
| `Check`, `Enqueue`, `ReadBack` | `create_command`: the 409 guard, the INSERT, the row of the 202 |
| `Poll` | `get_command` |
| `StartTick` | `OnTimer1000` of either script up to the heartbeat |
| `Select`, `Claim`, `ReadClaim`, `Lookup` | the next four statements, the same in both scripts |
| `ActTier1`, `Verdict` | `isloggedin`, `attachrid`, `getcharid`, the command, the comparison |
| `ActTier2`, `HookFails` | the same guards, `ro_admin_sync()` |
| `ReadStored`, `RecordSync` | Tier 2's read-back and the REPLACE |
| `Finish`, `Outcome` | `L_Finish`, `L_Reschedule` |
| `Load`, `Distinct` | `OnInit` at a boot or `@reloadscript`, the draw of `.instance` |
| `Crash`, `Login`, `Logout`, `Age` | the map server, players and the clock, as the code meets them |

`deed[i]` is history: how often the game was touched for row i and with what effect
(`none`, `part` or `full` of what was asked). It stands for the item or zeny command,
whose outcome the script does not control.

Every statement may fail (`Query`). An INSERT on a connection that breaks may have been
committed (`Enqueue`). A row with an action the API does not know may be written by some
other program (`ForeignInsert`); the scripts answer it.

Assumed: `.instance` of two consumers of one tier that are alive at a time differ
(`Distinct`). The code draws it from the unix second and a random part, so it is unlikely to
collide rather than certain not to; the mutant `DistinctWithoutDraw` shows what a collision
would cost. The two tiers of one server may share a value and do in the runs.

Left out: pet eggs, whose delivery is asynchronous; the arguments of a command, since only
how much of them came about matters to a verdict (their ranges are in `Install`); the age
arithmetic of a heartbeat, which is `none`, `fresh` or `stale` here and seconds in `Install`.

### Freshness

One character on the one map server that holds it. Its images are `live` (memory, or
`None`), `wire` (saves sent and not yet written, in order) and `stored` (the row), each a
balance and an experience. `Stale` is the decision of `_to_character`, from `online`, the
seconds of the last recorded sync and of the last attempted write, and now. It is one
SELECT, so the answer is a function of the state and needs no action. `ClaimWrite`, `Act`,
`Finish` are a tick of Tier 1 on a write for this character; `Hook`, `ReadBack`, `Record` a
tick of Tier 2. `Second`, `Play`, `Autosave`, `Logout`, `CharServer`, `Login`, `Crash`,
`NoticeCrash` are the game around them.

A tick of Tier 1 on another server can only refuse a row for this character, which makes an
answer more stale, and a sync that is refused changes nothing here; both are left out. The
fallbacks for an install without the tables are in `Install`.

`touched` is history: since the last read-back that matched, a queued write has changed the
game. `moved` is the same for anything at all, play included.

### CommandForm

One form of `actions.js`, from the click to the outcome line. The server side is an
instance of `CommandQueue`: a POST submits a job, a GET reads it, and `Consume` and
`FinishJob` move it on, with the reasons the scripts write. A call of `submitWrite` or
`checkAgain` is a `flight`: a program counter cut at the awaits of `runCommand` and
`pollCommand` (`posting`, `inserted`, `posted`, `sleeping`, `getting`, `got`), the row it
was handed, the answer on its way, and the loop's `failures`, `polls` and `judge`. A handler
of the browser runs from one await to the next in one step, so `Lap` is the top of the loop
up to `sleep` and `Settle` is `finish()`.

| model | code |
|---|---|
| `HandlePost`, `HandleInserted`, `HandleGet` | the handlers, and what the network does to their answers |
| `Press`, `PressInVain`, `Retry`, `CheckAgain` | the three buttons; `busy` is `form.busy` |
| `ReceivePost`, `Wake`, `ReceiveGet`, `Lap` | `runCommand`, `pollCommand` |
| `Kind`, `Verdict`, `Offer`, `PostErrorKind` | `describeOutcome`, the button beside it, `maybeApplied` |
| `Navigate`, `MayEndSession` | the form leaves the document; a 401 takes it along if its token is still the current one |

The kind `unsure` is an error message with the words "may or may not have been applied".
`Heartbeat` lets the consumer answer or fall silent at any time. A flight whose form has
left the document settles without being seen, which the properties allow for by
`connected`. `intentOf` is history: which press of the button a row is due to.

Left out: the item picker, the arguments, the wording of progress, and `capabilities.js`,
which decides which forms there are.

### BrowserSession

All tabs of one browser. `storage` is the one token in localStorage; `events[t]` are the
storage events tab t has yet to hear, in order, since the browser delivers them when it gets
to it; `tab[t]` is the state of `startApp` and `createSession`. A call of `route()` is a
slot with the answer it awaits, the token it was sent with, and whether `mine` is still
`latestRoute`, which is all the code asks of that number. Handlers are functions from a tab
to a tab, composed as the code calls them: a sign-in is `save` and then `Routed`, an `ended`
event is `Expire`, `Forget` and `ShowLogin`, a `replaced` one draws the placeholder and
then routes.

| model | code |
|---|---|
| `Submit`, `SignIn`, `SignInFails` | `renderLogin`'s handler on both sides of its await |
| `SignOut`, `Navigate` | the button in the header, hash changes and Retry |
| `HandleEvent` | the storage listener: `HearEnded`, `HearReplaced`, `HearNothing` |
| `ReceiveUnauthorized` | the 401 of `api.js` and `onUnauthorized`; its `getToken()` reads storage when the tab holds no token, as `Read` does |
| `ReceiveMe`, `ReceiveCaps`, `ReceiveFailure` | `route()` after each await |
| `Sent`, `RunOut` | a request of `route()`; the `exp` of its token |

Whether the server takes a token is decided when the request leaves (`good`); the answer comes
whenever it does, and the token may run out, or another be stored, in between. A token that has
run out may also be refused at once. `shown` is history: whose view the operator of a tab last
saw, until the sign-in form. `cut` is history too: whose switch was cut off after its `auth/me`
had answered and before its view was drawn, until a view is (section 6).

Left out: a storage that refuses, `localStorage.clear()` (whose event reads the storage
instead), titles and focus, `suppressNextHashchange`, which saves a redundant redraw, and
the requests of the views themselves, which can end a session just as those of a route can.
A tab has one sign-in under way at a time and as many routes as it has `Slots`; an event or
a navigation waits for a free one.

### Install

The install as an API process finds it: which of ro_admin's four tables exist, each tier's
heartbeat row with its age in seconds, and the evidence on one character. `CreateTable`,
`DropTable`, `Beat`, `Tick` (forward, or a second back when the database's clock is set) and
`Evidence` change it between any two statements of a request.

| model | code |
|---|---|
| `Classify`, `Threshold` | `classify_heartbeat`, with the poll interval of each script and the minimum |
| `ReadTables`, `ReadRow` | the two statements of `_read_tier` |
| `Capabilities`, `Take` | `routers/system.py`: Tier 1, then Tier 2 |
| `PostCommand`, `Insert`, `GetCommand` | `create_command` from the request model to the INSERT; `get_command` |
| `ModelAccepts`, `Specs`, `Validate`, `QueuedRow` | the pydantic models, `_SPECS`, `validate()`, `enqueue()` |
| `SelectAll`, `SelectSyncOnly`, `SelectPlain`, `NamesSync` | `_select_characters` and its two fallbacks on errno 1146 |

`held` and `always` are history: the facts about what a request asks after that were so at
some instant of it, and at every instant. They are stated in the operator's words
(`Alive`: silent for no more than the minimum, or for no more than ten of its own polls) and
not by the classifier. One request is followed at a time, as reads change nothing that
another reads. Ages stop one second past the threshold; the code only compares them.

### Timeline, Listings, Owned

`Timeline` is `GET /logs/timeline` for one character: four statements in `Order`, each cut
to `limit`, one lookup of item names, a stable sort, a cut. `Newest` is what a statement may
return: `atcommandlog` has no key, so rows of one second come in any order. Around it the
game logs, the queue moves, and the queue's table comes and goes. `cause` is history: the
queued row an item came from. Bounds of the world: the database's clock is not set back, and
the queue's table is only dropped while empty.

`Listings` is a caller who walks one of the eight paged lists to its end: by id or by what
is searched for, oldest or newest first, told that it is over by a flag, a total or a short
page. Rows come and go between pages. Rows whose key ties may come in another order on the
next page (`Results`).

`Owned` is the reads about one owner: the inventory (the owner's `online`, then its items),
an account's characters, and the single reads. The game logs the owner in, changes what it
has, saves and logs it out between the two statements. `was` is history.

### Access, Cli

`Access` is one account, its group, the secret in use and every token ever issued. `SignIn`
reads the group once; `MintToken` is `scripts/mint_token.py`; `Gate` is `current_principal`
and `requires()`; `Me` is `GET /auth/me`. One `Ttl` stands for the life of both kinds of token,
of which the property names the first alone: a sign-in's is configured, a service token's is
`--days`. `heldAt` is history: when the account was last in
each group. `Cli` is `cli.py` against that server: `Invoke` checks the arguments, `Serve`,
`ServeDescription` and `ProxyAnswers` (for a server it cannot reach, or has stopped waiting
for) answer, `Unanswered` loses either direction or times out, `Finish` is `_discover()` or the end of `main()`, and `FollowAdvice` is the operator who
runs what `describe_body()` printed. `served` counts how often the server did what was asked.

### MapCache, MapTable, MapImport

`MapCache` is `importers/mapcache.py`: the walk over one file with its offsets, Python's
slices and `unpack_from`, and `layer()`. What stands at an offset is open, so a read at a
wrong offset finds any entry. `MapTable` is what readers of `ro_admin_maps` are promised: the
table passes from one whole import to the next in one step. `MapImport` is
`import_maps.py`, a statement at a time, with crashes, lost connections and a lost answer to
COMMIT, beside the list (total, then page), a single map, its cells and one cell, the maps
part of the capabilities, and DDL. `table` is what is committed and `view` what the importer's
transaction sees. `DbPath`, the operator's choice of `re` or `pre-re`, is a constant, and the
database starts with no table or one that an import may have left (`Before`, `AnImport`). Left
out: `imported_at` and the `q` filter of the list, which choose columns and rows.

### Search, Dossier

`Search` is `search.js` from a keystroke through its timer and up to four requests to the
drawing. `Dossier` is `refresh()` of `dossier.js`: three requests at once, then perhaps the
account, then the repaint; refreshes overlap. In both a counter decides whether an answer
is still wanted.

### Service

Composes the nine modules that only read or only decide. None changes what another looks
at and every request opens connections of its own, so what they do at once they also do one
at a time: a behaviour is about one of them and the rest stands still (`about`).

### Conventions

An operator introduced by `\* Mistake:` is used by no specification. It is the definition
after it with one plausible bug in it, and `PROJECT.json` says which property of which run
catches it. Every property of every passing run has one. A property that joins several
(`QueueIsServed`, `FormKeepsItsRow`, `ScreenFollowsSession`, `MapsAreOfTheFiles`,
`AnswersWereTrue`, `PageIsOfItsSources`, `AnswerWasTrue`, `GrantWasGiven`, `StatusIsTrue`,
`DrawingIsTrue`, `FallbackIsHonest`) is the conjunction of named parts, each with its own
comment; the type invariants are parts of the first of each module.

## 4. What the runs check

| run | instance | distinct states | shows |
|---|---|---|---|
| `faults` | one server, both scripts, any one statement fails, a foreign row, an unknown character, one crash and the server back | 1,246,415 | the overlay implements `CommandQueue`; verdicts match what was observed; order within a tier; nothing queued that no script was ever there for; no path drops a claimed row; `ro_admin_sync` names only what was observed |
| `race` | two servers with Tier 1, two rows, one failing statement, one crash | 569,490 | at most once; a refusal belongs to a row the game was not touched for; verdicts are final; what a caller was told stands |
| `live` | one server, both scripts, two rows, one crash and the server back, both timers fair | 155,781 | every row is claimed, every row of a tick that lives gets a verdict |
| `fresh_writes` | two writes, four seconds, two saves under way, one failing statement | 791,158 | no fresh answer after a queued write; the inductive invariant |
| `fresh_fields` | one save under way | | divergence, section 6 |
| `form` | `give_item` and `sync_character`, two presses, two rows, three polls | 255,060 | no write is sent twice unless the game asked for it; the outcome line is true; a row is not lost from sight; one write at a time; every wait ends |
| `session_tabs` | two tabs, two sign-ins of one account or of two, one without permissions; two of: a navigation, a Retry, a failure, a token that runs out | 1,152,458 | late answers neither draw over, rename nor end a newer session; the tabs agree when quiet; a change of account is announced |
| `session_adopts` | two tabs, two tokens | | divergence, section 6 |
| `maps` | three files of at most two maps, whole, cut short, too long or misaligned, one run beside an earlier import or none | 148,744 | readers see whole imports; no file is read past its end; the exit status and every answer of two statements are true |
| `install` | four tables, two thresholds (one from the minimum, one from the poll interval), bodies at and beyond each limit | 610,010 | reports, refusals and fallbacks say what was so |
| `service` | one part at a time; three rows, four listed rows, three groups, two keystrokes, three refreshes | 2,586,372 | the eleven properties of the parts |
| `cli_exits` | one token | | divergence, section 6 |

Bounds. Two rows are the fewest with an order and a second row for a tick to confuse with
the first; two consumers are the fewest that race, and a third adds only another loser.
One crash strands a row, and its server comes back (`MaxLoads = 2`) under the same instance
or, in `race`, another; in `live` it may be gone between the guard of a POST and its INSERT, and
the row waits. One statement fails, any of them; what a second one adds on the same path (a
lost claim and then the lost verdict of the next row) is left to the theorems, which bound
neither faults nor crashes. Two writes and a window of one
second, with the clock at zero to three, give writes and syncs in the same second, in the
seconds before and after, and outside the window. `MaxZeny = 1` with gains and losses of one
reaches both clamps. Three polls reach each end of the loop: a verdict, a silent consumer, a
wait that runs out, and three GETs in a row that fail; two rows and two presses are the fewest
for a second row of one press and for two writes at a time, for which there are two slots of
flights. Two tabs and two tokens are the fewest for a token to be replaced under a request, a
route, a sign-in or an event, each of which may be the older; two slots hold a stale route and
the latest. `MaxTurns = 2` is one bound on navigations, Retries, failures and tokens that run
out together: any two of them, at any moment, a switch between its two answers included. A
switch that is replaced after its takeover needs a third tab and a third sign-in, which is left
to the theorem.

In `maps`, names that differ only in case share a place in the collation, one entry has
negative dimensions and one a negative length, and the shapes of the files put every
check of the parser on both sides. In `install` the minimum of one second binds for one tier
and `StalePolls` polls for the other; ages run from a second ahead of the clock to one past the
threshold. In `service` a page of two over three rows is the fewest for a source to be cut
and for another to hold an older row; four rows with pages of one and two give walks of
several pages with an addition and a deletion between them; three groups are staff, admin
and one that is no level of rAthena's; three refreshes overlap in every order.

Deadlock is checked in `maps` and `install`. In the others a database with all rows
finished, or whose servers have died for good, is at rest, and the bounds stop the rest.

Fairness. In `live`, a map server serves its timers in the order they fall due, so a
tick that began goes on (`WF` of `Continue`), and neither script is passed over for ever
although a tick of the other disables it (`SF` of `StartTick`). Nothing is assumed of
callers, players, crashes or statements. `EventuallyClaimed` holds for a script that is
from some moment on loaded, whatever crash it has been through; the run has no failing
statements, after which the code promises nothing. `EventuallyFinished` leaves out the row of a
tick whose server has died. In `form`, every request ends in an answer or an error and
timers fire (`WF` of `Network` and `Client`), which a browser sees to; nothing is
assumed of the consumer, the heartbeat or the operator.

## 5. What is proved

With tlapm, for every set of servers, characters, callers, groups, names and instances, and
every bound.

| theorem | module | says |
|---|---|---|
| `TypeCorrect` | `OverlayProofs` | `TypeOK` |
| `ProtocolHolds` | `OverlayProofs` | `ClaimProtocol`, the inductive invariant |
| `CommandsRunAtMostOnce` | `OverlayProofs` | `AtMostOnce` |
| `VerdictsAreObserved` | `OverlayProofs` | `ExecutedIsObserved` |
| `RefusalsAreSafeToRetry` | `OverlayProofs` | `RefusalLeavesGameAlone` |
| `VerdictsAreFinal` | `OverlayProofs` | `TerminalIsFinal` |
| `OverlayImplementsQueue` | `OverlayProofs` | `Spec => CommandQueue!Spec` under `job` |
| `GuaranteesHold` | `OverlayProofs` | `Guarantees`, the inductive invariant of the next four |
| `NobodyOvertakes`, `QueueKeepsServed` | `OverlayProofs` | `NoOvertaking`, `QueueIsServed` |
| `RepliesKeepStanding`, `SyncsWereObserved` | `OverlayProofs` | `RepliesStand`, `SyncsAreObserved` |
| `WritesAreOnRecord` | `FreshnessProofs` | `WriteIsOnRecord`, the inductive invariant |
| `FreshIsEarned` | `FreshnessProofs` | `FreshMeansNotWrittenSince` |
| `InstallSafe` | `InstallProofs` | `IInv`, the inductive invariant of the next four |
| `GuardsAskTheConsumer` | `InstallProofs` | `GuardAsksTheConsumer` |
| `QueuedRowsAreInRange` | `InstallProofs` | `QueuedIsInRange` |
| `TierReportsWereTrue`, `FallbacksAreHonest` | `InstallProofs` | `TierReportsAreTrue`, `FallbackIsHonest` |
| `ImportIsAtomic` | `MapImportProofs` | `Spec => MapTable!Spec` |
| `ExitTellsTheTable`, `CapabilitiesWereTrue` | `MapImportProofs` | `ExitIsTrue`, `CapabilityWasTrue` |
| `MapsAreRead`, `AnswersWereSo` | `MapImportProofs` | `MapsAreOfTheFiles`, `AnswersWereTrue` |
| `AnswersAboutOwnersWereTrue` | `ServiceProofs` | `AnswerWasTrue` |
| `GrantsAreGiven`, `MeIsWhatIsEnforced` | `ServiceProofs` | `GrantWasGiven`, `MeIsEnforced` |
| `WritesAreNotRepeated`, `ExitsAreTrue` | `ServiceProofs` | `OneWritePerInvocation`, `StatusIsTrue` |
| `SearchShowsTheBox`, `SearchDrawsTruly` | `ServiceProofs` | `QuietShowsTheBox`, `DrawingIsTrue` |
| `QuietDossierIsLatest` | `ServiceProofs` | `QuietPageIsLatest` |
| `WalksMissNothing` | `ServiceProofs` | `WalkMissesNothing` |
| `PagesAreOfTheirSources`, `EffectsHaveTheirCauses` | `ServiceProofs` | `PageIsOfItsSources`, `EffectHasItsCause` |
| `SendsOnce`, `TellsTheTruth` | `CommandFormProofs` | `OneRowPerIntent`, `OutcomeIsTrue` |
| `KeepsItsRow` | `CommandFormProofs` | `FormKeepsItsRow` |
| `SessionSafe` | `BrowserSessionProofs` | `IInv`, the inductive invariant of the next four |
| `ScreenIsOfItsSession`, `TabsComeToAgree` | `BrowserSessionProofs` | `ScreenFollowsSession`, `TabsAgree` |
| `LateAnswersAreHarmless` | `BrowserSessionProofs` | `LateAnswersSpareSessions` |
| `SwitchesAreAnnounced` | `BrowserSessionProofs` | `SwitchIsAnnounced` |

They rest on the ASSUMEs of the modules, which type the constants, and on nothing else. The
theorems of `ServiceProofs` are about `Service`'s `Spec`. Each is proved of the part's own
specification first (`OwnedSpec`, `CliSpec`, ...), and `PartsOfService` shows that every
behaviour of the service is one of each part, as one part moves and the others stand still.

**The claim protocol.** `AtMostOnce` alone is not inductive: it says nothing of a tick
about to act. `ClaimProtocol` adds what the code relies on at each statement. `Untouched`: an
unclaimed row has no claimant and no deed. `InstancesApart`: two live consumers of a tier
differ in `.instance`. `TickHasRow`: a tick works on a row of its own lane, so its claimant
is of its own tier, where instances differ. `OwnClaim`: before the UPDATE the row does not
carry the tick's instance; after it, if it does, the row is `processing` and the tick's own;
from `lookup` on it always is. `Progress`: how far the tick is says what the game has seen.
The step that matters is `ReadClaim`: the row read back carries this instance, so by
`OwnClaim` it is this tick's claim and by `Progress` nothing has run. Two ticks cannot hold
one row, because both would have their own instance on it. `L_Finish`, which names the row by
id alone, then always finds its own `processing` row, which is `TerminalIsFinal`.

**The refinement.** Each action maps to one step of `CommandQueue` or to none: `Enqueue`
and `ForeignInsert` to `Submit`, a `Claim` whose swap fires to `Claim`, the two `Act`
actions to `Run`, `ReadStored` to `Confirm`, `Finish` to `Finish`, everything else to a
stutter. Each needs `ClaimProtocol`, for instance that `Run` finds `runs = 0`.

**The guarantees of the queue.** `ClaimProtocol` speaks of one row and its tick. `Guarantees`
adds what relates several: no row is deleted and ids are given out in order (`RowsInOrder`),
so a row that is inserted later is never the older of two; before a claim no older row of the
lane is pending (`Errand`), which no other consumer can undo, as a row only ever leaves
`pending`; that is `NoOvertaking`. A `processing` row is in the hands of the consumer whose
instance it bears until a statement fails or a server dies (`Carried`). What a caller was told
stands (`RepliesStand`) because each of the three things a step can do to the table (`Inserts`,
`Claimed`, `Finished`) leaves every verdict and every step forward as it was.

**The install.** A report is judged against the tables as they were during the read, so the
invariant carries two sets of facts that enclose what is so now (`Memory`): what has held
throughout the read is so, and what is so has held at some instant of it. `Shown` says for
each next statement which facts the ones before have put in either set. The thresholds, the
polls and the ranges of the arguments are arbitrary; that the arithmetic of
`classify_heartbeat` says the same as `Alive` is `ThresholdIs`.

**Freshness.** The invariant says that a write that touched the game since the last
read-back has left a time in the queue not before `synced_at`. It holds from the claim on,
before the game is touched, because `written_at` counts `processing` rows and
`claimed_at` is set first; a tick of Tier 2 cannot run between, as both scripts share the
map server's thread. The strict `>` in `synced_at > written_at` then answers stale in a tie.

**The form.** `OneRowPerIntent` speaks of rows; what keeps it is what a call may rely on at
each await. `FormInv` says it of the books (the queue, its reasons and the history of
presses): while a POST is on its way, every row of its press is recorded as not persisted
(`UnsavedBut(..., 0)`); once it has inserted, every row but the new one is; while a row is
watched, every row but that one; and the line that offers "Retry" or "Check again" relies on
the same two. A row's verdict, once read, stays true (`TrueRow`), because no row that has
ended changes (`Later`), so an answer may be as old as it likes. A retry is offered only for a
row that was read `failed` and not persisted, which turns the second form into the first. New
rows are the largest (`NextId`), so the older row of a pair is the one recorded. Only the
busy form has a call under way (`BusyWhileUnderWay`), which is `OneInFlight`.

**The session.** The code guards with one number, `latestRoute`, and one comparison, of the
token. What makes that enough is `RoutesInStep`: at most one route of a tab may still draw, it
was sent with the token the tab holds, and once it asks for the capabilities `me` is of that
token too. `ViewInStep` says which views wait for such a route. Both are broken in the middle
of a handler, which is why what always holds of a tab is apart (`Sane`), and each handler is
shown to keep that and to restore the rest: `ShowLogin` by leaving no route that may draw,
`Routed` by leaving its own only. The tabs agree because of `Hears`: a tab whose token is not
the stored one has the stored one last among the events it has yet to hear, as every change of
the storage is appended for every other tab, and `expire()` in one that hears of an end
removes only what it holds itself. A 401 that ends a session was sent with the token it
removes (`EndsSession`, `Removes`), and a refused token is not valid again (`Refused`). For
the notice, `Remembers` says where the account to compare with is kept: in `me`, and from the
event until the answer in `crossTabPreviousSubject`. That account (`LastOf`) is the one last
shown or, once a switch was cut off, the one that was missed. A tab whose `me` is another than
that has the latest route on its way to the view, with the notice decided, and a route that
gives way makes `me` the one that was missed (`CutOff`). So a view drawn without the notice is
of `LastOf`, which is `shown`, and then nothing changed, or `cut`, the exception.

**Owners.** `AnswerWasTrue` speaks of the answer; between the statements the invariant is
`StoredWasTrue`: once the owner was read as not in the game, what is stored was the truth at
some instant since. A login takes the stored value over, and a save writes what is the truth
at that moment, so it stays so however often either happens.

**Access and the tool.** `LevelsWereHeld`: the level in a sign-in's token was the account's
group at some second no longer than `Ttl` before the token's end. `ToldIsPermitted`:
`/auth/me` and the gate take one decision (`PermissionsOf` is made of `IsPermitted`), so what
was said stays true for as long as the token does. For the tool, `RunStands` says what an
answer on its way tells of `served`.

**The import.** `TransactionStands`: while the importer deletes and inserts, what it has
inserted and what it has still to insert are together the maps of the files, and the
table it locks stays. The refinement maps `Delete`'s start to `Begin`, the COMMIT that
takes effect to `Commit`, any other end to `GiveUp`. For the capabilities, every table is
finite and a request has seen the table it is about to count.

**The maps.** `SpansTile`: unless some length led backwards, what the walk has read so far are
spans that lie between the main header and the offset and hold each byte once; the check for
trailing bytes makes that the file. What `layer()` makes of the files is a fold, that is, a
recursive function over sets of places. That there is such a function (`FoldExists`,
`FlatExists`) and what it holds after the first k records (`Chosen`, `Lists`) is induction over
a set of numbers (`NatSetInduction`), and `LayerChooses` and `LayerCounts` follow for any number
of files and maps. `AnImport` says what MySQL accepts of that: no two rows with one key, no
dimension below zero. The tables that are there, the importer's own view and all that a request
has seen are such (`TablesInv`). Then each cell (x, y) has a place of its own and each place is
a cell's, so that the two copies of the walkability rule count the same (`DensityIsOfCells`);
and as keys are unique each place of the ORDER BY is one row's, so that a page holds as many
rows as `LIMIT` and `OFFSET` leave (`PageCounts`).

**Pages.** `LatestIsServed`: the last keystroke waits for its timer, is being answered or is
on screen; whatever else is under way is not wanted. `PageInv`: the page is of a refresh that
is over, and once the last is over the page is of it or says that it is not.

**The lists.** A page is cut out of whatever sequence ORDER BY allows at that moment, so the
invariant speaks of places instead: `Place(r)` counts the rows that come before `r`, and
`SortedByRank` (`Ranking`) says that at place i of any sequence in order stands the row that
i - 1 others precede. `FewArePassedBy`: of the rows that were there when the walk began, those
it has gone past without meeting them are no more than the rows deleted since. A deletion
moves each later row one place forward, and at most one of them from the offset to before it;
an addition moves rows back only; a page meets every row between its offset and the next.
`DoneIsPast`: when the caller is told that a list is over, every row is before the offset,
which for each of the three ways a list has of saying so (a short page, one row more than
asked for, a total) follows from what `LIMIT` cuts.

**The timeline.** `FetchStands` says what a source that was read contributes, however the world
has gone on: rows that are still what they were, none twice, and either row n or as many as the
limit that are not older. `MergedIs` shows that sorting by date and cutting loses nothing newer
than what it keeps. The two together need one more step (`NothingNewerIsLeftOut`): if a source
was cut, its `limit` entries are all on the page or one of them was left out; in the first case
they are the whole page, by counting. For `EffectHasItsCause`, `CausesFetched`: once all sources
are read, every item of a queued command has its row among those the queue held when it was
read, no longer `pending`, because a row leaves `pending` before its item is logged and the
queue is read last. That `EffectHasItsCause` is about a page, where the command may have been
cut, is again `NothingNewerIsLeftOut`.

**Only model-checked:** the liveness properties, `EventuallyClaimed`, `EventuallyFinished` and
`EveryWaitEnds`: liveness under fairness and `ENABLED` are out of the prover's reach.

## 6. Where code and documentation disagree

Three have a run whose property TLC refutes.

* `fresh_fields`. `synced_at` is documented to cover every field in `stale_fields`. The
  read-back compares zeny alone: when it has not changed since the last save, the sync is
  recorded before its own save is written, and experience is reported as current.
* `session_adopts`. A tab on the sign-in form is to adopt another tab's sign-in. When a 401
  for a request of its former session arrives before the storage event, `api.js` asks
  `session.token()` whether the token is still current, which takes up the new one from
  storage; the event then says nothing new, and the tab stays on the form.
* `cli_exits`. Exit status 1 is documented as "the server answered outside 2xx". `_request()`
  catches `HTTPError` alone: a refused connection, a reset or a timeout ends in a traceback,
  which also exits with 1, and the server may have carried out the POST.

Three more have a property in a module and no run. To see TLC refute them, put the named
property in place of the one of the named configuration.

* `FreshRowStillMatches` (`FreshnessFields.cfg`, with `MaxWire = 2`). `stale: false` is
  documented as observed to match and not moved since. An autosave on its way when the sync
  reads back is written afterwards, and the row holds an older balance until the save of the
  sync arrives.
* `ViewSendsAsItself` (`SessionAdopts.cfg`). The forms of one account are to leave the document
  before anything can send as another. The answer to a sign-in that arrives after the tab has
  adopted another tab's session saves its token at once, and the other account's view stays
  until two more answers are in.
* `NoticeIsNeverLost` (`SessionTabs.cfg`, `PROPERTIES`). `web/js/app.js:51-52` says the notice
  of a switch belongs to the route that draws, and `web/js/app.js:254-257` that the error view
  leaves `crossTabPreviousSubject` alone "so a Retry that then succeeds can still show it". That
  is so when `auth/me` itself failed. Once it has answered, `me` and `meToken` are those of the
  other account: if the capabilities then fail, Retry finds `token === meToken`, decides no
  notice, draws the view without one and clears `crossTabPreviousSubject`. A navigation between
  the two answers does the same. With three tabs there is a third way, `web/js/app.js:335-343`:
  alice's view is shown, bob signs in in a second tab, `auth/me` answers, and before the
  capabilities do bob signs in again in a third; `handleReplaced()` overwrites
  `crossTabPreviousSubject` with `me`, so bob is compared with bob. These are what `CutOff` and
  `cut` record, and all that `SwitchIsAnnounced` leaves out, for the one account that was cut
  off: a switch to a third is announced still, and so is one whose `auth/me` failed, however
  often it is retried. An account without permissions is never given the notice; nor is the
  switch to it one that either property speaks of.

Smaller ones, seen while modelling and not the subject of a property:

* `overlay/ro_admin_overlay.txt:131-133` says a lost race means a second consumer. One
  consumer whose claim or whose read of the claim fails takes the same branch (`ReadClaim`),
  and in the second case leaves the row in `processing` for good.
* `web/js/actions.js:340-342` says a form that has left the document does not refresh its
  dossier. `pollCommand` looks at the status first: an answer `executed` does (`Lap`).
* `web/js/session.js:59-60` says `ended` means that no token is stored. The event of an
  earlier sign-out that is heard after this tab's own sign-in ends that one (`HearEnded`).
* `importers/mapcache.py` checks that an entry ends within the file, and not that its length
  is at least zero: a negative length makes the walk read an earlier place again.
  `EveryByteOnce` names the exception.
* `importers/import_maps.py` layers maps by their exact names, and the primary key of
  `ro_admin_maps` compares them in a collation: names that differ only in case fail the
  import, with the old maps kept (`Accepted`).
* The maps part of `/system/capabilities` asks for the table and then counts its rows,
  without the guard of `routers/maps.py`: a table dropped in between is a 500 (`CountMaps`).

## 7. Not modelled

The service shell (`app.py`, `config.py`, `db.py` as such, static files) is wiring; what it
decides is taken into account where it bites: one connection per statement, a refused secret
that stops the start. Of `routers/logs.py`, `items.py` and `accounts.py`, the filters,
projections and code tables are left out (`item_types` is one aggregate): they are one SELECT
each, without state or order. Password checks are right or wrong; hashing and the signature
of a token are the libraries'. Of the web client, rendering (`format.js`, `dom.js`), wording,
the item picker and the list of an account's characters, which repeat the counter of
`search.js`, and `capabilities.js`. Of the repository's scripts, the text checks of the
repository itself.
