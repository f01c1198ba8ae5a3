# Astro-Magister: models, model checking and proofs

Astro-Magister calculates horoscopes and lets a language model interpret them.
The server (`app/`, FastAPI) runs as several uvicorn workers
(`uvicorn --workers 4`, docker/docker-compose.yml:29) over PostgreSQL and, when
one is configured, a Redis; a React client (`app/frontend`) reads the
interpretations as server-sent events. Around it stand a GTK desktop program
(`astronex/`) from which the server takes the chart arithmetic, a static wiki
site and scripts.

Two things are hard here. An answer takes a minute to arrive, piece by piece,
through a provider that may repeat the prompt, think aloud, be rate limited or
break off; it passes a cache that several processes share as long as Redis
answers; and at its end it is stored in rows that other requests read, extend
and delete meanwhile, each statement in a transaction of its own. And the
arithmetic underneath, the Swiss Ephemeris library (`ext/ext64`, C, bound by
`pysw.py`), is not the pure function its callers take it for: it keeps
positions, coefficients, open files and flags from call to call, and in front
of it stands a memo that all threads of a worker share. That is what these
modules are about. Paths are relative to `src/`.

| module | what it is |
|---|---|
| `ProviderCache` | the answer cache: Redis in front of one LRU cache per worker |
| `TextCache` | what the cache promises, whatever fails; `ProviderCache` implements it |
| `Conversation` | stored interpretations, their messages, and the requests that work on them |
| `Dialogue` | what the stored rows promise; `Conversation` implements it |
| `ThinkFilter` | the removal of a reasoning model's `<think>` blocks |
| `AiStream` | the events of one AI interpretation, over both providers and the cache |
| `Sessions` | the tokens of a browser, its tabs, and the handlers that issue, rotate and revoke them |
| `SwissEph`, `EphData` | the ephemeris library as its callers use it: `EphData` the structure, files and save areas, `SwissEph` the calls |
| `EphContract` | what the callers of the library count on; `SwissEph` implements it |
| `SweDate` | the calendar of the library: Julian days, UTC, leap seconds, time zones |
| `BirthTime` | from the local time of a birth to a Julian day, over `SweDate` |
| `CalcMemo` | the memo in front of the library, the threads of a worker and their paths |
| `ProviderCache_proofs` | theorems about the cache |
| `Conversation_proofs` | theorems about the stored interpretations |
| `AiStream_proofs` | theorems about the events of a stream |
| `Sessions_proofs` | theorems about tokens, tabs and handlers |
| `SwissEph_proofs` | theorems about the ephemeris library |
| `CalcMemo_proofs`, `BirthTime_proofs` | theorems about the memo and the calendar |
| `ThinkFilter_proofs` | theorems about the filter |
| `MC*` | instances for TLC |

Run `tlc -config MCX_y.cfg MCX` and `tlapm X_proofs.tla`.

## 1. Inventory

For each part: the state it keeps, its operations, what is hard about it and
what makes it correct. "Hard" names the lines listed as hazards in
`PROJECT.json`.

**AI answer cache** (`app/services/providers/_cache.py`). State: per worker an
`OrderedDict` of entries with an expiry, guarded by an `RLock`; Redis keys with a
time to live; per worker the choice of the backend, made once at start-up.
Operations: get, set, delete, clear, inspect, each on Redis first and, depending
on the outcome, on the local cache. Hard: another thread or worker runs between
the two steps; a Redis command fails, or is applied and its reply lost; a
worker that restarts during an outage never sees Redis again; expiry, capacity.
Correct: a hit is a text stored under that key within its time to live; a
deleted entry stays deleted; the local cache keeps its bound and its order of
use; while Redis answers all workers see one cache.

**Interpretation sessions and messages** (`app/services/interpretation_store.py`,
`app/routers/interpretations.py`, `app/db/models/interpretations.py`). State: rows
of `user_interpretations` and `user_interpretation_messages`, the id sequence,
the persons they refer to. Operations: create with a list of messages
(checked for duplicates if it has a first question), append a
round of three messages, ask a follow-up question, delete, cascades of the
foreign keys. Hard: no operation is one transaction, so everything may happen
between two statements; the follow-up waits for a provider in the middle; rounds
are told apart by a number read long before it is used; and
`POST /interpretations` stores whatever list the client sends, with any
positions, roles and length. Correct: nothing
dangles; only the owner writes; a round is appended in order under one position,
behind one that is there; for a user with one tab, positions tell rounds apart.

**Think-block filter** (`_ThinkStreamFilter` in `app/services/perplexity.py`; the
regular expression `_strip_think_blocks` for answers in one piece is not modelled).
State: a buffer, whether a block is open. Hard: tags are cut anywhere by the chunks. Correct: nothing of a block is shown, all of
the rest is, little is held back.

**AI streaming** (`event_stream` in `app/routers/horoscope.py` and seven more
routers; `_sse_utils.py` holds a ninth copy that nothing calls). State: the
coroutine's own (text so far, phase), the cache entry. Operations: meta, deltas,
fallback, cache, done, save. Hard: failures at each of them, clients that go
away, two streams for one text, a restart. Correct: events in order, the text of
`done` is the text shown, what an exception cut short is not cached, only
completions are served, each stream ends.

**AI providers** (`app/services/perplexity.py`, `providers/mistral_client.py`,
chosen per request from the settings). Perplexity holds an answer back while it
repeats the prompt and asks once more if that is all of it, passes over lines it
cannot read and takes the end of the lines for the end of the answer; Mistral repeats
a rate-limited request up to three times. Part of `AiStream`.

**Accounts and tokens** (`app/services/auth.py`, `app/routers/auth.py`,
`app/services/jwt_blacklist.py`). State: users, persons, rows of refresh tokens
(without a foreign key), the blacklist of access tokens. Operations: login,
refresh, logout, logout-refresh, deletion of users. Hard: verify, revoke and
create a refresh token are three transactions, a logout is two stores. Correct: a
token is replaced once; a logout ends the session; what is revoked stays so.

`services/fastapi_users.py` is a second implementation that no router uses.

**API client** (`app/frontend/src/services/api.js`, `contexts/AuthContext.jsx`).
State: the cookies, which all tabs share; per tab one refresh in flight, shared by
every request that was answered 401. Hard: another tab, a logout or a lost answer
in between. Correct: nobody waits for a refresh that is over; a session in order is
never lost.

**Rate limits and login lock** (`app/services/auth_security.py`). Counters with a
time to live in Redis or in the worker; a lock after failed logins. Hard: each
operation is several commands.

**Wiki content** (`app/services/wiki.py`). Entries, relations;
`generate_entry_content` reads an entry, waits for the provider and writes back.
Hard: what was saved in between is overwritten.

**Client hooks** (`app/frontend/src/hooks`, `utils/sseParser.js`). The chart cache
with abort and logout, the reader of the event stream. Hard: late responses,
logout while something is in flight.

**Database sessions** (`app/db/session.py`). A pool of 5 + 10 connections; the
follow-up endpoint keeps one as long as it streams.

**Swiss Ephemeris: positions** (`ext/ext64/sweph.c`, `pysw.py`). State: one structure
`swed` per thread: the save areas of the bodies (`pldat`, `nddat`) with date,
theory and flags, the last answer per body (`savedat`), the open files with
their constants, the coefficients of a segment, obliquity and nutation, the
record of the last star, the directory. Operations: `swe_set_ephe_path`,
`swe_calc`, `swe_fixstar`. Hard: every slot is written by several functions (the
body itself, the bodies that need it, the light-time date before it) and read
wherever its date fits; a call may switch the theory, open another file, find none
and fall back, and call the library again from inside. Correct: the answer depends
on the question, the files and the directory only; the flags say which theory
it is from.

**Birth time to Julian day** (`ext/ext64/swedate.c`, `julday` in `pysw.py`, the
helpers of nine routers). No state of its own, but three calendars (the
library's two and Python's, which is Gregorian for all time), zones and leap
seconds. Hard: 1582, years before 0, midnight, the leap second itself, dates Python's `datetime`
does not have. Correct:
Julian days count days, UTC is one-to-one, a chart is computed for the instant of
the birth.

**Memo of calculations** (`pysw.py:115`). State: one `lru_cache` per function for
all threads of a worker, while the directory is set per thread. Operations: look,
calculate, keep; handlers set the directory before they ask, or after an error, and
ask again, `age_points.py` in the end for another body.
Hard: threads that miss together, an error that is kept, threads that are
replaced. Correct: an answer is the one the resources directory gives, unless
threads without it were given the error.

**No state worth a model**: chart drawing, location, theme, SEO and similar
routers (each computes an answer from its input), settings (read once), React
pages (layout), migrations, scripts, the wiki site, and the desktop program
(single-threaded; floating-point geometry). Of the ephemeris library: houses,
sidereal time and the series of Delta T (floating-point functions of their
arguments), and what no program calls (section 7).

How they interact: a chart router turns the birth into a Julian day
(`BirthTime`), asks the memo (`CalcMemo`) and through it the library (`SwissEph`)
for the positions, then asks the cache, then the rate limit, then
streams from a provider (through the filter, for Perplexity), which asks the
cache again; at the end it writes the cache and calls
`save_or_append_stream_result`. A follow-up question goes through the store, the
rate limit, the provider and the store again. Deleting a person or a user
reaches the store through the database's cascades only.

## 2. How the models correspond to the code

### ProviderCache

A thread's call on the composite cache is two steps: the primary's
(`PrimaryGet`, `PrimarySet`, `PrimaryDelete`, `PrimaryInspect`, and for clear
`PrimaryScan` and `PrimarySweep`, the SCAN and the DEL of
`RedisCacheBackend.clear`) and the fallback's (`LocalGet`, `LocalSet`,
`LocalDelete`, `LocalClear`, `LocalInspect`), each the whole critical section of
the `RLock`: prune, change, move to the end, evict. `call[t]` holds what thread
`t` carries from one to the other. A worker without Redis (`EnterLocal`) starts
at the second. Each Redis command has an outcome out of `Outcomes`: `"ok"`,
`"failed"` (not applied), `"lost"` (applied, the reply lost); the code cannot
tell the last two apart. `Restart` empties a worker's local cache and chooses its
backend again (`create_provider_cache` pings Redis once). The `OrderedDict` is a
function and a relation `before` of keys in the order of use: `popitem(last=False)`
takes the key nothing precedes. The while loop of `set` runs at most once, which
is what the theorem `LocalStaysBounded` shows. `Tick` is one unit of both clocks.

History variables: `newest` and the generation numbers in the entries say which
write a hit comes from; `floor[w][k]` is the write count when the last delete of
`k` by `w` began that reached every store `w` reads. A delete whose Redis command
failed promises nothing (the code reports it by its count only), nor does the
delete of a worker without Redis for other workers.

Left out: the digest (`make_cache_key`), sizes and previews of the overview.

### Conversation

A step is a statement that reads or a transaction that commits; READ COMMITTED
and the sessions of the service functions give no more than that. `job[k]` is the
request in slot `k`: where it is and what it has read so far. Requests are
`followup` (`Ask`, `Admit`, `ReadHistory`, `ReadPosition`, `AppendQuestion`,
`AppendPrompt`, `LoadModel`, `Stream`, `AppendAnswer`), `save` (`Save`, or
`Post` for `POST /interpretations`; `CheckPerson`, `Lookup`, then either the append
steps or `FindTwin` and `InsertSession`) and `delete` (`Remove`, `FindVictim`, `DeleteSession`).
A session is opened with a list of messages: the three of `Round` by the server, any
of `Posts` by a client, each with a role of three and any integer as position. A
position the column cannot hold (`Positions`) makes the whole insert fail.
`Twins` looks for the first message of the list that has position 1 and the role
`user`, and finds nothing when there is none: such a list is stored each time it is
sent. A row knows its place in the list (`nr`); the rows that are appended later have 0.
`append_message` fails when the session has been deleted meanwhile: the foreign
key refuses the row, and the re-read of the expired object finds nothing; and when
the next position no longer fits (`Storable`).
`DeletePerson` removes the sessions of both foreign keys. `Fail` is everything
that ends a request early: what it committed stays. `said`, `asker`, `size` and
`overlapped` are history: the answer a request is for, who made it, how many
texts its prompt holds, and whether two requests were ever in progress at once.

The promises that need one tab (`KeptInSerialUse`) speak of any lists where they can.
What a client has chosen is not held against the store: `NoTwins` is about sessions
opened with a first question, and `PromptDoubles` about those opened as the server
opens them (`Regular`). `Dialogue` is told the list with which a session opens.

Left out: listing and the detail view (they only read), titles, models, token
counts, and the connection the follow-up keeps while it streams.

### ThinkFilter

A text is a sequence of characters; an answer arrives in chunks of any sizes
(`Process(n)`), and the loop of `process` is an action per branch (`SkipBlock`,
`AwaitClose`, `EnterBlock`, `ShowRest`, `Empty`). `Visible` is the reference: the text
without its blocks, defined from its end backwards (`VisibleFrom(s)[i]` is what is
visible from place `i` on). Left out: upper and lower case.

### AiStream

All streams ask for one text, so one cache entry (`cache`) matters; `Forget` is
all of `TextCache` that a stream can notice. `phase[k]` is where the coroutine of
stream `k` stands, a step ends at an await or a yield. `Prepare` is the handler
before the stream (cache first, then rate limit), `Meta` ... `Save` the body of
`event_stream`, `OpenDisabled` ... `GiveUp` the `stream_completion` of the
provider. A chunk is a member of a small set: `Openings` are the sequences of
chunks the normalised prompt starts with, `Echoes` those that
`_looks_like_prompt_echo` recognises. `Skip` passes over a line that cannot be decoded
or has no choices; `Close` is a connection that is closed in order before all has
come, after which the stream ends like any other (`EndOfStream`, `EndInDoubt`,
`EndInEcho`), `Break` one that raises; `Flush` is what the think filter had kept back
and gives out at the end. `Awaits` is a stream that waits for Mistral. `complete` is
history: the texts of requests that ended without an exception. `Disconnect` closes the generator at a
yield; `Restart` ends all streams and may change `DISABLE_AI`, while Redis keeps
the entry. The provider is chosen before the first stream and kept: another
provider has other cache keys, so its streams do not meet these.

`age_points.py` caches and saves only a text that is not empty; the step of
`CacheResult` that leaves the cache alone and `SaveFails` contain that.

Left out: the calculation of the chart and the prompt, logging, the text of
errors.

### Sessions

A pair of tokens is a number; `token[n]` has its user and deadlines, `rows` the
refresh tokens that are stored, `jar` the pair in the cookies. `job[k]` is a request
to `/auth` in progress, with the cookies it was sent with. Its steps are the
transactions of `services/auth.py`: `Verify`, `FindUser` (which also issues the
access token), `Revoke`, `Create` for a refresh; `Check`, `Create` for a login;
`Authenticate`, `Blacklist`, `Sweep` for a logout; `Revoke` for `logout_refresh`,
which no page calls but other clients do. `Verify` and `Check` take the verdict of the
rate limit, the captcha and the password as an input. A failed insert of `Create` is
only logged, as in the code: the answer then carries no refresh token, and the
cookies hold a pair that cannot be redeemed.

A tab is `flight[t]` (`refreshPromise`) and its ordinary requests `call[c]`: `Send`,
`Answer`, after a 401 waiting for the refresh, then sent again with the cookies of
that moment. `Renewed` and `Unanswered` resolve the promise. `Activity` is
`refreshSessionForActivity`, at any time while a user name is stored. A logout
removes the name and loads the page anew whatever the answer was (`Left`); requests
of the tab that are under way then have nobody who hears them (`heard`), but their
handlers go on. `GiveUp` is a connection that breaks, `Crash` the end of a worker
between two steps; what was committed stays.

The blacklist is one for all workers: with Redis it is. Time is counted in ticks; an
access token is accepted in the tick of its `exp`, as the library does by comparing
whole seconds, and an entry of the blacklist is not kept in the tick it ends. A
token issued in the second of the logout therefore has one tick in which it is
accepted again; `RevokedStaysRevoked` names it and allows no other.

`revoked`, `ended`, `succeeded`, `overlapped`, `spoiled` are history: which access tokens
a logout has invalidated, who has logged out since the last login, which tokens a
refresh has replaced, whether two requests to `/auth` were ever in progress at once,
whether anything failed or ended a session.

Left out: registration, profiles, roles, the audit log; requests to `/auth` from
other browsers, except that a pair may outlive the cookies it was in.

### EphData and SwissEph

Numbers are abstracted to what they were computed from: a position is the set of
evaluations it was made of, each naming the body, the theory (`SWI`, the files, or
`MOS`, Moshier's series), the date, and the coefficients used (`Eval`); a result also
says from which obliquity and nutation it was made (`NoPos` has the fields). Two
answers are equal if they were made of the same; an answer made from a stale slot is
a different set.

Each C function is an operator from the structure to a result (the structure after
it, the return code, what it returned), called in the order of the code, and
`Then` puts one call after another: `sweph`, `sweplan`, `swemoon`,
`swi_moshplan`, `swi_moshmoon` fill the slots (`EphData`), `app_pos_etc_*`,
`main_planet`, `lunar_osc_elem`, `swecalc`, `swe_calc`, `swe_fixstar`,
`swe_set_ephe_path` are the calls (`SwissEph`). A step is a call of a program: the
structure belongs to one thread, which nothing interrupts. `LT(t)` is the light-time
date of `t`, for which the bodies are computed again without being kept. `client` is
the program and its installation: which bodies it asks for, which it has asked for
before it chooses its theory (`first`: the first chart of the desktop, by Moshier's
theory; `ChooseTheory` ends it), whether it sets the
directory first (the desktop does, a web thread need not), and which files there are.

`ClientsAssumption` says what installations are meant: the planet files and the lunar
files of the same dates, for every date asked or for none, asteroid files possibly
for fewer. With planet files that end within the dates asked, or without the lunar
ones, an answer does depend on the calls before it, and no program of the repository
is installed so: its directory (`astronex/resources`) has one asteroid file and the
star catalogue. It says, too, how the programs ask: stars by Moshier's theory only
(`pysw.fixstar`); and a program that has chosen its theory and asks for obliquity and
nutation (`NUT`, for local houses) asks all else by the same theory, the fictitious
body apart, and has no planet files if that theory is Moshier's, as the desktop
chooses it (`ephe_flag`, astronex/nex.py:67). `SetEphePath` does not go
from a directory with a catalogue to one without, because the record of the last star
outlives the change; the programs set one directory only.

Left out: what no program asks for: heliocentric, barycentric, topocentric and
sidereal positions, JPL files, `SEFLG_SPEED3`, the number of a non-default ephemeris,
planetary moons, closing the library. The mean apogee is asked for, by
`age_points.py` when Chiron has no position (app/routers/age_points.py:254); it takes
the way of the mean node, another polynomial in a slot of its own, and is left out,
too. All dates are within the limits of Moshier's theory and of Chiron's orbit
(ext/ext64/sweph.c:704,1051,1627,1728), beyond which a call ends with an error.

### SweDate and BirthTime

`SweDate` is `swedate.c` in integers: a Julian day is the number of its noon and the
time since midnight, in tenths of a second for UTC and in hours for births. The floor
of the C code never meets a whole number inside a day, so quotients are those of
whole days. `DeltaT` is a table, by days; the library's has a value a year (`dt[]`,
swephlib.c:2431) and interpolates. `TablesAssumption` says what the two tables are
like: at most 100 leap seconds (`NLEAP_SECONDS_SPACE`), no two within three days, each
inserted before Delta T has run a second ahead of the table; and in the years Delta T
is known of it never falls and grows by a tenth of a second a day at most. That holds
of the library's tables from 1972 until Delta T begins to fall in 2020, three years
after the last leap second. Every run of the module evaluates it for the instance's
tables.

In `BirthTime` days go by (`Midnight`; years that are not in `Walked` go by at once,
`Year`) and are counted in `number`; their names follow the lengths of the months.
What the code makes of a name is compared with the count. `Transit` and `Horoscope` are
the two ways the routers go: `to_utc_components` (transits) keeps date and hour of
UTC, `build_horoscope` (and nodes, houses, positions, age points, solar returns,
synastry, ascendant and the drawings of `horoscope_graphics.py`) the hour only.
`localize` is Python's `datetime`, which has the years 1 to 9999 of the Gregorian
calendar and raises for any other date (`Localizable`; the first and the last day are
none, because `localize` looks a day to either side); the routers then go on with
local time, except synastry, ascendant and the drawings, which answer with an error.

### CalcMemo

`Plan` is how each handler asks: through which of the three memoised functions, whether
it sets the path before an attempt, and for which body. The horoscope, synastry and
the drawings (`charts`) set the path first; positions, solar returns (up to six
attempts) and age points ask first and set the path after an error; age points, after
two errors, take another body's position (`AskOther`). Each worker serves all of them
(app/main.py:167).

An attempt (`Begin`, `Retry`) sets the path of its thread if the plan says so (`Try`);
then the request looks (`Hit`), or calculates with the path of its thread (`Calculate`)
and keeps the answer (`Keep`: nothing if another thread has kept one meanwhile,
otherwise one entry goes if the memo is full), and judges it. Which entry a full memo
gives up is left open, so that what is shown does not depend on the order of use.
`Replace` is a pool that gives a thread up and starts another, whose library has no
directory yet. `blind` is history: which questions an attempt that does not set the
path was given the error for, in which memo. The library is
`AnswerOf`, a function of directory and question: that is the contract of
`SwissEph`, and the instance is compared with `SwissEph`'s answers, the assumption
`LibraryAnswers` of `MCCalcMemo`, which every run of it evaluates. (Of the mean apogee
the instance needs a position that is not Chiron's; `SwissEph`'s mean node stands for
it.)

## 3. What is checked

| run | instance | shows |
|---|---|---|
| `cache_outage` | 2 workers, 1 thread each, 1 key, 2 texts, all outcomes, 2 writes, 1 tick | `TypeOK`, `DeleteSticks`, and `Promised`: it implements `TextCache` |
| `cache_shared` | 2 workers, 2 keys, Redis always answers | `HitIsNewest` |
| `cache_local` | 1 worker without Redis, 3 keys, room for 2 | `LocalBounded`, `RecentKept` |
| `conv` | 2 users, 2 persons and their synastry, 2 requests at once, 3 in all, 2 sessions, positions up to 2, clients' lists: empty, an answer at -1, two first questions behind a prompt at the last position, a position too large | `TypeOK`, `RoundsInOrder`, `NoGaps`, `NothingDangles`, `OnlyOwnerWrites`, and `Promised` (it implements `Dialogue`); while requests do not overlap `KeptInSerialUse` |
| `filter_stream` | all answers of up to five tokens (tags, pieces of tags, letters), all cuts into chunks | `TypeOK`, `ShowsTheVisible`, `HoldsBackLittle` |
| `stream` | 2 streams, both providers, 5 kinds of answers, cut, skipped or broken off at any chunk, 2 attempts, 1 restart | `TypeOK`, `EventsInOrder`, `DoneIsWhatWasShown`, `NoEcho`, `NoFragmentCached`, `EveryStreamEnds` |
| `sessions` | 2 tabs, a request of one of them, 2 requests to `/auth` at once, 3 pairs of tokens, 3 logins, logouts, deletions or failures | `TypeOK`, `NobodyWaitsForNothing`, `CookiesHoldTheSession`, `RevokedStaysRevoked`, `TokensEnd`, `HealthySessionSurvives`, `ReplacedOnce`; deadlock is checked |
| `eph` | 1 thread, 3 dates in 2 eras, any two bodies of a program (three for one), with and without speed, 3 installations, the desktop with its first chart | `TypeOK`, `OpenFileHasConstants`, `PositionIsOfItsDate`, `FlagTellsSource`, and `KeepsContract`: it implements `EphContract` |
| `calendar` | every year from -4712 to 10000, 33 of them day by day, births in 8 of them (1 to 10000), 3 calendars, 4 hours, 4 zones | `DaysAreCounted`, `UtcIsOneToOne`, `TransitKeepsInstant` |
| `memo` | 2 threads, all handlers, requests for the moon and Chiron, the other body in its place, memos of 1 entry | `TypeOK`, `OnlyBlindThreadsMislead`, `EveryRequestEnds` |
| `stream_served`, `birth_chart` | small instances of the same modules | the divergences of section 4 |

Why the bounds are enough. *Cache*: an operation concerns one key, and keys meet
only in the capacity and in clear, for which two or three keys are enough; two
writes are needed for an older and a newer text, two workers for a delete that
one does and the other does not see; the theorems of section 5 hold without
bounds. *Conversation*: every defect of two statements needs two requests, and a
third to have something stored before; sessions share nothing but the id
sequence, so two are enough, one deleted and one created after it; two users, so
that one asks in the other's session. The lists of the clients are the cases the
code tells apart, and the ones it does not: no message, no first question, two of
them, positions out of order, below 1, at the end of the column and beyond it.
*ThinkFilter*: the tags of the instance, three and four characters, have the
overlaps of the real ones (a common first character and no other repetition);
five tokens are two blocks and something between or a block that never closes; the
theorems have no such bounds.
*AiStream*: streams meet in the cache only, so one fills it and the other reads
it; answers with a harmless beginning, an echo, an echo with something added and
nothing at all are the cases the code distinguishes. Two attempts stand for
three: one attempt is repeated, one is the last. *Sessions*: a race for one token
needs two requests with it and hence three pairs (the one both start from, and one
for each); a logout
that leaves something behind needs a session, a second one or a failure, and the
logout: three events. An access token lives one tick and the clock makes two, so it
expires before, during and after every step; a refresh token does not expire within
the instance. The refresh of a tab is shared by its request and its activity. The
slots are interchangeable, which the symmetry uses. *SwissEph*: a call leaves
something behind for another in a slot of its own or of a body it needs, so pairs of
bodies meet in every slot, and the third body is there for the moon, which three
functions write. The number of calls is not bounded: the run visits every state
of the structure. Of the three dates two are in one era and one in another, one is
J2000, which setting the directory itself asks for, and the light-time date of one is
in the file before it. *BirthTime*: the formulas differ by era,
century and leap year, so the walked years are the turns of all of these and the
years around the table of leap seconds, and the first and last years of `datetime`;
the rest go by a year at a time. The table of
leap seconds has three years and then goes out of date, while Delta T is known of; so
every kind of day is met: before a leap second, with one, after it, and after the
table's end. *CalcMemo*: an entry that is
lost or wrong needs a thread that is between its look and its keeping while another
keeps; one entry for two questions of a memo is full.

Every property has a mutant, an operator beside the definition it changes
(`..._OffByOne`, `..._NotCleared`), under which the same run refutes it.

Deadlock is not checked where a bound or the end of all requests stops the
instance.

**Fairness** is assumed in two modules. In `AiStream` a stream that the server has
accepted goes on (`WF` of its own steps, never of the client's `Disconnect`, of
`Forget` or of `Restart`), as long as it does not wait for Mistral. The code justifies
it: httpx gives up after 60 seconds without a byte and then raises, `max_tokens` bounds
an answer, and asyncio runs every coroutine that is ready. Of Mistral nothing is
assumed: `self.timeout` (app/services/providers/mistral_client.py:99) is never used,
the SDK is given none (line 122), and the stream and the completion are awaited
without a limit; so `EveryStreamEnds` says that a stream ends or waits for Mistral for
ever. In `CalcMemo` a handler runs
to its end (`WF` of the steps of each thread's own request): it waits for nothing but
the interpreter, which gives every thread its turn. Nothing is assumed of
new requests. Which way a choice goes (an echo, a break, a failed save) is left
open.

## 4. Where code and documentation disagree

* `stream_served`: Mistral's error text is cached and served as an answer; so is the
  placeholder of `DISABLE_AI`, after a restart without it.
* `birth_chart`: eight routers (horoscope, nodes, houses, positions, age points, solar
  returns, synastry.py:120 and ascendant.py:37) and the drawings
  (app/services/horoscope_graphics.py:64) keep the hour of UTC and the local date, so a
  birth late in the evening west of Greenwich, or just after midnight in Europe, is
  charted 24 hours off (app/routers/horoscope.py:122), while
  app/schemas/age_points.py:20 promises that local time is converted to UTC.

Others were met without a run of their own.

*Conversations.* "Die Reihenfolge im Gespräch wird durch `position` (0-basiert,
aufsteigend) bestimmt" (app/db/models/interpretations.py:128), but two questions at
once get the same position (app/services/interpretation_store.py:173), and both
questions are then listed before both answers; in serial use it holds
(`KeptInSerialUse`). Two saves at once both pass the duplicate check of
`create_interpretation` and store twins; in serial use none. A save that meets a
duplicate reports its id and drops the new text; the docstring knows only "entweder
als neue Session oder ... an eine bestehende"
(app/services/interpretation_store.py:265). Lists that clients send are stored as they
are: positions, roles and gaps are theirs (app/routers/interpretations.py:118), a
follow-up question goes on behind the largest position, and a list without a first
question is stored each time it is sent, because "Duplikatschutz" compares first
questions only (app/services/interpretation_store.py:38-42).

*Answers.* A chunk with visible text and the beginning of a block shows nothing
(`return ""`, app/services/perplexity.py:153): `ShowsTheVisible` speaks of answers in
which no call dropped its output. `<think>.*?(|$)` (app/services/perplexity.py:59)
removes the opening tag only. Seven of the eight routers cache an empty answer, which
is a hit for the whole time to live; `age_points.py` does not. A connection to
Perplexity that is closed in order before `[DONE]` ends the answer, and a line that
cannot be decoded is passed over (app/services/perplexity.py:467-485): what has arrived
is then sent as done and cached (app/routers/horoscope.py:535), so `NoFragmentCached`
speaks of answers that an exception cut short. An answer that is retried starts again
behind the chunks already shown. Nothing ends a wait for Mistral: the timeout of the
client is stored and not used (app/services/providers/mistral_client.py:99).

*Sessions.* A logout whose access token has expired (60 minutes without a request)
is answered 401 before anything is invalidated: the refresh token and the cookies
stay, the page is loaded anew, asks for the profile, is answered 401 and refreshes
itself into the session it has just left; "Logout and invalidate tokens"
(app/routers/auth.py:483) describes the handler that was never reached. The model has
this step (`Authenticate` fails, `LoggedOut` leaves the cookies); `TokensEnd` speaks of
the logouts that were admitted. "Invalidate access token immediately"
(app/routers/auth.py:493) holds but for one tick: the entry of a token issued in the
second of its logout ends with the second of the token's `exp`, in which it is accepted
again.

*Positions.* Two things hold only because of how the programs ask.
`swe_fixstar` returns the flags it was asked with, also where `main_planet_bary` has
fallen back to Moshier's theory for the earth and the sun; "The caller learns from the
return flag which ephemeris was used" (ext/ext64/sweph.c:624) is said of planets, and
stars are asked by Moshier's theory only (pysw.py:140, app/routers/fixed_stars.py:35).
And a call for obliquity and nutation that changes
the theory clears the save areas, the constants of the files among them, without
closing the files (ext/ext64/sweph.c:389). The desktop can do that: its first chart is
computed by Moshier's theory (astronex/state.py:34, called at astronex/nex.py:84) and
opens the asteroid file for Chiron, and the theory is then set to the one of its files
(astronex/nex.py:86). If the local houses of a chart (pysw.py:155) are the next
question, Chiron's file stays open without its constants. Nothing reads it so, because
of what the desktop may ask next: more obliquity and nutation, which reads no file; a
body by the theory of the files, which closes them all first; or the fictitious body
by Moshier's, which reads none of them. `OpenFileHasConstants` checks that, and it
would not hold of a program that asked for Chiron by Moshier's theory then.

*Calculations.* The memo keeps errors: the handlers that set the directory only after
an error get the memo's error again when they retry, and leave it to the others
(app/routers/positions.py:101, app/services/planet_positions.py:38), also to those that
set it first; nothing calls `clear_calc_cache`. When Chiron has no position,
`age_points.py` asks for the mean apogee (the library's number 12,
app/routers/age_points.py:252-254) and lists its longitude as Chiron's: "13 planet
longitudes (Sun through Pluto, Node, Lilith, Chiron)" is what its docstring says. `planet_positions.py:13` calls flag 4 something it is not: 4 is
Moshier's theory. Python's calendar is Gregorian for all time, so a birth on 29
February 1500 raises and is taken for UTC, and the UTC dates 5 to 14 October 1582 are
read as Julian ones. `solar.py:169` turns a Julian day back by the Gregorian calendar
also before 1582. When the library finds no Koch houses, `pysw.houses` (pysw.py:144)
returns the substitute it computes beyond the northern polar circle and nothing
beyond the southern one.

## 5. What is proved

No proof uses a bound of the instances.

**The answer cache**, for all values of the constants that satisfy
`CacheAssumption`: finite keys, a key that is none of them, an empty text, `Home` a
function from threads to workers, positive time to live. Any number of workers,
threads, keys, texts, writes and ticks.

* `TypeCorrect`: `Spec => []TypeOK`, inductive as it stands. The lemmas say what
  each helper (`Entry`, `Prune`, `Evict`, `MoveToEnd`, `Wait`, `RedisWithout`,
  `LocalRemove`) returns.
* `DeletesStick`: `Spec => []DeleteSticks`. `DeleteSticks` speaks of finished
  deletes and is not inductive: a call in flight carries the mark that its last
  step will make the floor. `DeleteInv` adds `GenBound` (no entry, mark or floor is
  larger than the write count), `SweepOf` (what a clear has not swept is among
  the scanned keys or newer than its mark) and `ReachedOf` (if the Redis step of a
  delete worked, Redis holds nothing of the key that is older than the mark).
  `DeleteEffect` shows that it is preserved by anything that only removes entries
  or adds one with the next write number, and each action is shown to be of that
  form.
* `LocalStaysBounded`: `Spec => []LocalBounded`. That one eviction is enough needs
  an oldest entry, and `Oldest` exists because `before` is
  a strict order of a finite set of held keys (`BoundInv`); `MinimalElement` proves that
  such a set has a minimal element, by well-foundedness of the naturals on the
  cardinalities of the sets of predecessors.
* `RecentIsKept` (an action property): `Spec => RecentKept`. `RecentInv` adds to
  `BoundInv` that the key a worker used last comes after all others it holds; a hit
  and a store make it so (`MovedIsLast`), and what only takes entries away keeps it
  (`WithinIsLast`). An eviction takes the first of at least two (`OldestIsFirst`), so
  another one.
* `HitsAreNewest` (an action property), where Redis is configured and `Outcomes = {"ok"}`:
  `Spec => HitIsNewest`, for any number of workers. By `SharedInv` the local caches
  stay empty, because only a failed command fills them, a store is one command, and
  what Redis holds is the newest write of its key.
* `ImplementsTextCache`: `Spec => Promised`, the refinement. `kept` is mapped to what
  any store holds, `answer` to the last answer without its generation. Each step
  is mapped to `Forget`, `Store`, `Lookup`, `Tick` or a stutter.

**The stored interpretations** (`Conversation_proofs`), for all values that satisfy
`ConversationAssumption`: `NoUser` owns nothing, there are charts and answers, the
references of charts are to persons. Any number of users, persons, requests at
once, sessions and requests.

* `ConversationTypes`, `NothingEverDangles`, `OwnersOnly`, `RoundsStayInOrder`,
  `NumberingHasNoGaps`: `TypeOK`, `NothingDangles`, `OnlyOwnerWrites`,
  `RoundsInOrder` and `NoGaps` hold always. One inductive invariant, `IInv`,
  carries all five. None of them is inductive alone, since a request acts on what
  it read steps ago. `JobInv` says what a request in each phase may still rely on:
  its session was its user's and is now his or gone (`FoundJob`; `StoreInv` has that
  ids are handed out once); the position it read is 1 or follows one in use, as
  long as the session is there (`PlacedJob`); what it has stored of its round
  stands under that position (`StoredJob`); no two slots work for one request
  (`OneSlotEach`). That is all: that the position is still free is *not*
  among it, which is why `PositionOrdersRounds` fails. The lists that clients send
  may be any (`Posts` is a set of finite sequences): `NoGaps` and `RoundsInOrder` speak
  of the rounds that are appended, wherever a list let the numbering begin.
* A step has one of five effects on the store (`QuietEffect`, `StoreEffect`,
  `InsertEffect`, `DropEffect`, `TakeEffect`), each shown once to
  preserve `IInv`; every action is then shown to be of one of these forms.
  `NextPositionFollows` is the lemma on `get_next_round_position`: the largest
  position of a finite set exists (`MinimalElement`), so the next one leaves no gap behind it, also where
  it is below 1; a session without messages goes on at 1.
* `ImplementsDialogue`: `Spec => Promised`, the refinement. `IInv` does not say how
  far the round of a request is, so `RoundInv` does: the rows of a request are of
  one question (`AskedOnce`), and a request in progress has its prompt or its answer
  still to store (`Awaits`). Every step of `Next` is then one of four kinds
  (`QuietStep`, `WriteStep`, `OpenStep`, `DropStep`), and each kind is mapped: to a
  stutter, to `Begin` or `Advance`, to `Open` with the list the session is opened with,
  to `Forget` of the sessions that were there.
* `SerialUseIsKept`: `Spec => []KeptInSerialUse`; while no two requests have
  overlapped, positions order the rounds, there are no twins among the sessions with a
  first question, and in a session opened as the server opens it a prompt at most
  doubles, whatever lists clients have stored besides. `SerialInv` adds what one request at a time may rely on and two may not:
  nothing else is at work (`AloneAtWork`), the position it has read is still free
  (`FreePlace`), the duplicate it has looked for is still not there (`NoTwinYet`).
  `SizeInv` has how large the prompt of a request may be on its way from the history
  to the row (`SizedJob`): the bound is one of the next position when the history is
  read, and one of the position of the round when the prompt is stored.
  `HistoryWeighs` adds up the rows of a regular session position by position, one prompt
  and one answer for each. `Weight` is a sum over a set, a recursive function on its
  subsets; that such a function exists and that the order does not matter is
  proved by the smallest subset that contradicts it (`SumExists`, `SumSplits`). Of
  powers of 2 the provers know that 2^n is the number of subsets of a set of n
  elements, from which `PowerDoubles` follows.

**The streams** (`AiStream_proofs`), for all values that satisfy
`AiStreamAssumption`: answers are sequences, of any length and of any chunks; no text
(`NoText`) is none of the echoes; and a beginning of a text the prompt starts with is
one, too (`_looks_like_prompt_echo` compares with `startswith`, app/services/perplexity.py:62;
lower-casing letter by letter keeps this, but for a sigma at the end of a word). Any
number of streams, attempts, restarts.

* `StreamTypes`, `EventsComeInOrder`, `DoneRepeatsTheDeltas`, `NoEchoIsShown`,
  `FragmentsAreNotCached`: the five invariants of the run. None is inductive alone.
  `HeldOK` says what is held back in each phase; `ShapeOK` which events a stream has
  sent when it is in a phase, and with it that the next one is in its place;
  `ShownOK` that the deltas sent are what is collected, until a fallback answers that
  was not shown at all, and that a text of the cache goes out in one piece; `EchoOK`
  that nothing is shown while an answer is in doubt, and that one no longer in doubt
  has left the prompt for good (`LeftForGood`); `WholeOK` that what is collected when
  a stream reaches the cache is the answer of a request that ended without an exception
  (`complete`), nothing or the placeholder; `CacheOK` that the cache holds no other.
* Deltas are put together by `FlattenSeq`, a recursive function on sequences. That it
  is what it is meant to be, and that one more delta adds its text at the end, is
  proved without an induction theorem: of the lengths at which it fails the
  least one (`LeastNatural`) would not be one (`FlatExists`, `FlatUnique`,
  `FlattenAppend`).

**The filter** (`ThinkFilter_proofs`), for all values that satisfy
`ThinkFilterAssumption`: the tags are not empty. Any characters, tags of any length
and with any repetitions, answers of any length, cut in any way.

* `FilterTypes`, `LittleIsHeldBack`, `VisibleIsShown`: the three invariants of the
  run, by one invariant, `FilterInv`. `BufferInv` says that the buffer is the piece
  of the answer from some place to where it has arrived; `SeenInv` what has become of
  the part before that place (`Seen`): outside of a block the output and what was
  shown before are what is visible of it, inside of a block up to the block, and
  some of it is missing once a call has dropped its output; `LengthInv` that what is
  kept and what is shown do not overlap. That the end of the buffer which is kept
  (`Keep`) is long enough for every tag that may be cut there is `KeptIs`, and that
  the first tag in the buffer is the first one in the rest of the answer, also if
  more of the answer is still to come, `FoundIs`. `OutOfBlock`, `StillInBlock`,
  `ShownUpTo`, `IntoBlock` and `AtTheEnd` say what each branch does to `Seen`.
* `VisibleFrom` and `Places`, the reference of `ShowsTheVisible`, are recursive
  functions on the places of a text; that they are defined everywhere, and what they
  are, is proved by the last or the first place at which it would fail (`VisibleFromIs`,
  `PlacesIs`). `EmbedsIsPart` is that the earliest places are no later than any
  others, so a text found at any places is found by `IsPartOf`.

**The sessions** (`Sessions_proofs`), for all values that satisfy `SessionsAssumption`:
there is a tab, the requests to `/auth` that can be in progress at once are finitely
many (they need room among the numbers of the pairs), tokens live at least a tick. Any number of users, tabs, ordinary requests, pairs, events and
ticks.

* `SessionTypes`, `WaitersHaveARefresh`, `CookiesStayGood`, `LogoutIsFinal`,
  `NoTokenOutlivesItsUser`, `TokensAreReplacedOnce` (an action property) by one
  invariant, `IInv`. `RoomInv` counts: the pairs issued and the handlers that may still
  issue one fit into the numbers. `JobInv` has what a handler holds in each phase; `TokenInv` that a pair has an
  owner, that one which was replaced is not stored, and that the entry of a revoked
  token ends no sooner than the token, from which the one exception of `LogoutIsFinal`
  follows: the tick in which both end; `FlightInv` and `NobodyWaitsForNothing` that promises, waiting
  requests and refreshes in progress match; `Unseen` that a pair no answer has carried
  is in nobody else's hands; `SerialInv` what holds while requests to `/auth` do not
  overlap (`Alone`, and in `SerialJob` that what a handler has verified still holds
  when it stores the new token); `PeaceInv` that in peace every request is heard of
  and the token in its answer is stored.
* `HealthySessionsSurvive` (an action property) needs one invariant more, `HealthInv`:
  in peace all users are there, nothing is revoked, and without overlap (`HealthJob`)
  the handler at work does not fail, so a refused request is one whose new token has
  expired.

**The ephemeris library** (`SwissEph_proofs`), for all values that satisfy
`DatesAssumption` and `ClientsAssumption`: any dates, eras and segments, directories,
files and programs, any calls in any order.

* `SwedHasItsTypes`, `OpenFilesHaveConstants`, `SavedPositionsAreOfTheirDate`,
  `FlagsTellTheSource`: the four invariants of the run, by one inductive invariant,
  `IInv`. None is inductive alone, because what a call returns it may find in a slot
  that another call has filled for a body it needed. `OnDisk` says of the files that
  an open one is in the directory, `Consts` that a planet file and a lunar one have
  their constants with all their bodies, `Closed` that neither is open after a call by
  Moshier's theory; `DatedOK`, `TheoryOK` and `FlaggedOK` of a slot that its position
  is of its date and theory, of the files only where there are files, and that the
  answer in it is by the theory of the flags beside it; `SunOK` that the barycentric
  sun comes from the files; `SavesOK` the same of `savedat`. The part one would not
  expect is about obliquity and nutation, which may change the theory and clear the
  save areas without closing the files: it finds none open but the asteroids'
  (`NutOK`), and that file may lose its constants only where the next question by any
  body closes it (`AsteroidsOK`).
* One lemma for each function of the library, from the files upwards, says what it
  leaves to its caller: `FileStep` (a file opened, read or closed), `Looked` and
  `Moshed` (a position by the files, by Moshier's theory), `Shown` (an apparent
  position in its slot), `Left` (what a body leaves in its slot and the earth's),
  `Answered` (`swecalc`) and `Called` (`swe_calc`, `swe_fixstar`). Each names the slots
  it may change (`SameSlots` for the rest), none where a light-time date is evaluated.
  Where a function falls back in the middle, what the failed attempt left in the slots
  is part of what the lemma says. `SwitchEphemeris` says what a call of any program
  finds when it starts, after the clearing and the closing.

**The memo** (`CalcMemo_proofs`), for any finite set of questions, any threads,
directories and sizes that satisfy `CalcMemoAssumption`: any directory gives the
position of the resources or an error, which is what the library does for what the
handlers ask.

* `MemoTypes`: `Spec => []TypeOK`, with the bound of the memo: an insertion into a full
  memo takes an entry out, by the cardinalities of the held questions.
* `BlindThreadsOnlyMislead`: `Spec => []OnlyBlindThreadsMislead`, with all handlers in
  every worker. The answer is not enough as an invariant, since it was read from a memo
  that other threads fill. `SoundInv` says that every entry of a memo (`MemoSound`) and
  every answer a request carries (`Answered`) is the resources' or an error, an error
  in their place only where an attempt that does not set the path was given one
  (`blind`); that the attempts a request has behind it failed so (`Failed`), each in its
  own memo; and that an attempt that sets the path has the directory, whichever thread
  was replaced (`PathsReady`). The other body's position is then age points' alone, and
  only after both attempts for Chiron.

**The calendar** (`BirthTime_proofs`), for all values that satisfy
`BirthTimeAssumption` and `TablesAssumption`; `LastYear` may be any year where nothing
else is said.

* `DaysCount`: `swe_julday` in either calendar, and `pysw.julday` in the civil one,
  give the number of every day since the count began (`JuldayCounts`, the part of
  `DaysAreCounted` that concerns them). The invariant `DateInv` is that the formula
  gives the count, the date is legal, and the calendar in force is the one its date
  says (`InForce`). A step is a day within a month, the first of a month
  (`MonthByMonth`: the factor 30.6 of the code gives the lengths of the months from
  March on), or a year (`YearByYear`: centuries and the correction before the year
  0); `NextDay` puts them together, and the ten days of 1582 are a step of their own.
* `DaysAreNamed`: `LastYear <= 4800000` and `Spec` imply `[]DaysAreCounted`: besides
  the count, `swe_revjul` is the inverse of `swe_julday` and `swe_date_conversion`
  accepts the dates of the calendar and no others. `Named` is the second half of
  `swe_revjul`; that the factors 365.25 and 30.6001 give back year, month and day is
  `NamedIs`, for the days of March to February (`MarchOf`). In the Gregorian
  calendar the code finds the leap days left out (`Skipped`) in two steps; the first
  is the right day or the one after it (`GuessIs`), and no century without a leap
  day begins in between (`SkippedTomorrow`). `Threshold` is the 1830692 of the code,
  the first day of March 300. A day that a month does not have is the day of another
  date (`OtherName`), which is the one `swe_revjul` finds. Without a last year it
  would be wrong: from the year 4870300 on the calendar is more than a century of
  days behind, and the formula is off by one for some dates.
* `UtcIsKept`: `LastYear <= 4800000` and `Spec` imply `[]UtcIsOneToOne`, for any
  tables of leap seconds and Delta T that satisfy `TablesAssumption`, on every day whose
  neighbours Delta T is known of too (`Known`). Its first part is `LeapSeconds`.
  `Searched` says what `swe_jdet_to_utc` finds in the table when it starts a day
  early: no leap second, one that is over, or the one that is passing; UT1 is never
  further than a day from UTC (`DayOfUT1`). The two functions must agree whether the
  table is out of date, although one asks with Delta T at midnight and the other with
  that of the instant: `ReadUTC` shows that Delta T cannot reach the limit in between
  and be noticed, `ReadUT1` that after the limit no leap second is left (`NoneLeft`).
  That leap seconds are days apart and come in time is used here, and without the
  latter it would be wrong: UT1 has no 61st second to give back.
* `ZonesAreOneToOne`: `LastYear <= 4800000` and `Spec` imply `[]ZonesAreUndone`, the
  second part of `UtcIsOneToOne`: the functions of the library undo each other on all
  days up to there, and agree with the routers' `localize` on the dates that `datetime`
  has, those from year 1 to 9999 of the Gregorian calendar. It rests on `DaysAreNamed`'s
  lemmas: the day before and the day after have the numbers the code adds and takes
  away, and `swe_revjul` gives their dates.
* `TransitsKeepInstants`: `Spec => []TransitKeepsInstant`, for births from the reform on
  to the last day `datetime` can localize, by `to_utc_components`, which of the routers
  transits alone uses. Where the zone moves the date, the Julian day of the day before
  or after is the number less or more one (`LocalizedDay`), also at the borders of
  months and years.

Only model-checked: `KeepsContract`, which compares the answers of two different
histories of the library. Out of the prover's reach: `EveryStreamEnds` and
`EveryRequestEnds` (fairness).

## 6. Plan

Done: the answer cache, the store with its refinement, the streams, the sessions, the
positions of the ephemeris library, the memo, the calendar and the filter, each with
its proofs. In this order:

1. `KeepsContract` from `IInv`: that two structures which satisfy it answer a question
   with the same evaluations, function by function. What a slot may hold beyond its
   date and theory (the coefficients, obliquity and nutation of an answer) is the
   strengthening it needs.
2. `ChartCache` (`useChartCache.js`, `logoutCache.js`): fetch, abort, late response,
   logout. Promise: after a logout nothing of the session before is shown or
   cached ("Called on logout to prevent data leakage between sessions",
   useChartCache.js:176); the fetch in flight is not aborted, so this is expected
   to be refuted.
3. `Sessions` with several browsers, and an abstract specification: a token is redeemed
   at most once where requests do not overlap.
4. `LoginLock` and the rate limit, with the per-worker store when Redis is absent.
5. `ConnectionPool`: the follow-up streams against the pool, with liveness.
6. `WikiEntry`: generation against concurrent edits and deletes.
7. `StreamReader` (`sseParser.js`, `useInterpretationStream.js`) composed with
   `AiStream`: what the reader finally shows.

## 7. Not modelled

*Of the ephemeris library* (56 000 lines, most of its bulk): `swemptab.h` and parts of
`sweph.c` and `swephlib.c` are tables of coefficients and sums of series; `swehouse.c`,
the houses, is trigonometry; what could be said of them is numerical (an error bound), and
real numbers are out of reach of TLC and of these provers. `swecl.c` (eclipses,
risings), `swehel.c` (heliacal events), `swejpl.c`, `swevents.c` and the programs
`swetest.c`, `swemini.c` and the like are in the directory but nothing in the
repository calls them: `pysw.py` binds some ten functions. So the models stand for
the part with state and control, which is a small part of the lines.

*Of the application*: what section 1 lists as stateless, and what section 6 plans.
`services/fastapi_users.py` is used by no router. Two things no module has and none is
planned for: the contents of prompts and answers, and what the pages look like.
