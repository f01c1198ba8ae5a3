------------------------------- MODULE Sessions -------------------------------
(***************************************************************************)
(* The session of a browser: its pair of tokens in HttpOnly cookies, the   *)
(* tabs that share the cookies (app/frontend/src/services/api.js), and the *)
(* handlers that check, issue, rotate and revoke the tokens                *)
(* (app/routers/auth.py, app/services/auth.py,                             *)
(* app/services/jwt_blacklist.py).                                         *)
(*                                                                         *)
(* A tab refreshes its tokens when a request was answered 401, with one    *)
(* refresh for all requests that wait for it; another tab knows nothing of *)
(* it.  Each function of services/auth.py is a transaction of its own, and *)
(* handlers run in several workers, so a handler is a sequence of steps.   *)
(***************************************************************************)
EXTENDS Integers, FiniteSets

CONSTANTS
  Users,
  NoUser,      \* owner of a pair that has not been issued
  Tabs,        \* tabs of the browser, which share its cookies
  Calls,       \* ordinary requests that can be in progress at once
  Home,        \* Home[c]: the tab of request c
  Handlers,    \* requests to /auth that can be in progress at once
  None,        \* no handler
  AccessLife,  \* life of an access token, in ticks
  RefreshLife, \* life of a refresh token, in ticks
  MaxPairs,    \* bound: pairs of tokens ever issued
  MaxActs,     \* bound: logins, logouts, deletions and failures
  MaxNow       \* bound: the clock

Pairs == 1 .. MaxPairs
NoPair == 0

ASSUME SessionsAssumption ==
  /\ NoUser \notin Users
  /\ None \notin Handlers
  /\ IsFiniteSet(Handlers)
  /\ Tabs # {}
  /\ Home \in [Calls -> Tabs]
  /\ AccessLife \in Nat \ {0}
  /\ RefreshLife \in Nat \ {0}
  /\ MaxPairs \in Nat
  /\ MaxActs \in Nat
  /\ MaxNow \in Nat

VARIABLES
  users,     \* rows of users
  rows,      \* rows of refresh_tokens, by the pair the token is of
  blacklist, \* blacklist[n]: when the entry of n's access token ends, 0: none
  token,     \* token[n]: user and deadlines of the pair n
  pairs,     \* number of pairs issued so far
  now,       \* the clock
  jar,       \* the pair in the browser's cookies
  named,     \* localStorage holds a user name
  call,      \* call[c]: an ordinary request (get, post, put, ...)
  flight,    \* flight[t]: refreshPromise of tab t
  job,       \* job[k]: the request to /auth in slot k
  acts,      \* number of logins, logouts, deletions and failures so far
  revoked,   \* history: pairs whose access token a logout has invalidated
  ended,     \* history: users who have logged out since they last logged in
  succeeded, \* history: pairs that a refresh has replaced by a stored one
  overlapped,\* history: two requests to /auth, or one and the deletion of a
             \* user, have been in progress at once
  spoiled    \* history: something failed, or a session was ended

database == <<users, rows>>
issued == <<token, pairs>>
browser == <<jar, named, call, flight>>
history == <<revoked, ended, succeeded, overlapped, spoiled>>
vars == <<database, blacklist, issued, now, browser, job, acts, history>>

-----------------------------------------------------------------------------
NoToken == [user |-> NoUser, access |-> 0, refresh |-> 0]
NoCall == [phase |-> "idle", pair |-> NoPair]
NoJob == [kind |-> "none", phase |-> "idle", tab |-> CHOOSE t \in Tabs : TRUE,
          pair |-> NoPair, user |-> NoUser, new |-> NoPair, heard |-> FALSE]

\* When an entry of this moment ends: it is kept for the life of a new token.
BlacklistUntil == now + AccessLife
Blacklisted(n) == now < blacklist[n]

\* mutant: the blacklist is not asked
Accepted_NotAsked(n) ==
  n # NoPair /\ now <= token[n].access /\ token[n].user \in users
\* require_authenticated_user, _get_user_from_token: signature and exp, then
\* the blacklist, then the row of the user
Accepted(n) ==
  /\ n # NoPair
  /\ now <= token[n].access
  /\ ~Blacklisted(n)
  /\ token[n].user \in users

Expired(n) == n # NoPair /\ now > token[n].refresh
\* verify_refresh_token
Redeemable(n) == n \in rows /\ ~Expired(n)

Init ==
  /\ users = Users
  /\ rows = {}
  /\ blacklist = [n \in Pairs |-> 0]
  /\ token = [n \in Pairs |-> NoToken]
  /\ pairs = 0
  /\ now = 0
  /\ jar = NoPair
  /\ named = FALSE
  /\ call = [c \in Calls |-> NoCall]
  /\ flight = [t \in Tabs |-> None]
  /\ job = [k \in Handlers |-> NoJob]
  /\ acts = 0
  /\ revoked = {}
  /\ ended = {}
  /\ succeeded = {}
  /\ overlapped = FALSE
  /\ spoiled = FALSE

-----------------------------------------------------------------------------
(* The tab.                                                                 *)

At(k, p) == job[k].phase = p
Waiting(t) == {c \in Calls : Home[c] = t /\ call[c].phase = "waiting"}

Act == acts < MaxActs /\ acts' = acts + 1
Fault == Act /\ spoiled' = TRUE

\* Requests that may still issue a pair, for which the bound leaves room
MayIssue == {k \in Handlers : job[k].phase \in {"verify", "owner", "check"}}

\* A request to /auth with the cookies of the moment.  A tab has one refresh
\* at a time, so two at once are of two tabs, or the tab gave up the first.
Begin(k, t, kind, phase, u) ==
  /\ At(k, "idle")
  /\ kind \in {"refresh", "login"} => pairs + Cardinality(MayIssue) < MaxPairs
  /\ job' = [job EXCEPT ![k] = [kind |-> kind, phase |-> phase, tab |-> t, pair |-> jar,
                                user |-> u, new |-> NoPair, heard |-> TRUE]]
  /\ overlapped' = (overlapped \/
       \E i \in Handlers : /\ job[i].phase # "idle"
                           /\ ~(kind = "refresh" /\ job[i].kind = "refresh"
                                /\ job[i].tab = t /\ job[i].heard))

\* mutant: every request that was answered 401 refreshes on its own
Refresh_EachOne(t) ==
  \E k \in Handlers : Begin(k, t, "refresh", "verify", NoUser)
                      /\ flight' = [flight EXCEPT ![t] = k]
\* refreshAccessToken: join the refresh of the tab, or begin one
Refresh(t) ==
  \/ flight[t] # None /\ UNCHANGED <<flight, job, overlapped>>
  \/ /\ flight[t] = None
     /\ \E k \in Handlers : Begin(k, t, "refresh", "verify", NoUser)
                            /\ flight' = [flight EXCEPT ![t] = k]

\* get, post, put, del, postStream, postWithSignal
Send(c) ==
  /\ call[c].phase \in {"idle", "refused"}
  /\ call' = [call EXCEPT ![c] = [phase |-> "sent", pair |-> jar]]
  /\ UNCHANGED <<database, blacklist, issued, now, acts, jar, named, flight, job, history>>

\* The answer of an ordinary request.  The 401 of a request that was sent
\* again is final; that of loadProfile removes the user name.
Answer(c) ==
  /\ call[c].phase \in {"sent", "resent"}
  /\ \/ /\ Accepted(call[c].pair)
        /\ call' = [call EXCEPT ![c] = NoCall]
        /\ UNCHANGED <<named, flight, job, overlapped>>
     \/ /\ ~Accepted(call[c].pair) /\ call[c].phase = "resent"
        /\ call' = [call EXCEPT ![c] = [phase |-> "refused", pair |-> NoPair]]
        /\ named' \in {named, FALSE}
        /\ UNCHANGED <<flight, job, overlapped>>
     \/ /\ ~Accepted(call[c].pair) /\ call[c].phase = "sent"
        /\ call' = [call EXCEPT ![c].phase = "waiting"]
        /\ Refresh(Home[c])
        /\ UNCHANGED named
  /\ UNCHANGED <<database, blacklist, issued, now, acts, jar, revoked, ended, succeeded, spoiled>>

\* The connection of an ordinary request breaks.
Drop(c) ==
  /\ call[c].phase \in {"sent", "resent"}
  /\ call' = [call EXCEPT ![c] = NoCall]
  /\ UNCHANGED <<database, blacklist, issued, now, acts, jar, named, flight, job, history>>

\* refreshSessionForActivity; when the last refresh was is left open.
Activity(t) ==
  /\ named
  /\ Refresh(t)
  /\ UNCHANGED <<database, blacklist, issued, now, acts, jar, named, call,
                 revoked, ended, succeeded, spoiled>>

Login(k, t, u) ==
  /\ Begin(k, t, "login", "check", u)
  /\ Act
  /\ UNCHANGED <<database, blacklist, issued, now, browser, revoked, ended, succeeded, spoiled>>

Logout(k, t) ==
  /\ Begin(k, t, "logout", "authenticate", NoUser)
  /\ spoiled' = TRUE
  /\ Act
  /\ UNCHANGED <<database, blacklist, issued, now, browser, revoked, ended, succeeded>>

\* logout_refresh, for a client that leaves a session without logging out
Leave(k, t) ==
  /\ Begin(k, t, "leave", "revoke", NoUser)
  /\ spoiled' = TRUE
  /\ Act
  /\ UNCHANGED <<database, blacklist, issued, now, browser, revoked, ended, succeeded>>

-----------------------------------------------------------------------------
(* The handlers.                                                            *)

\* issue_access_token; the refresh token of the pair follows later
Issue(k, u, phase) ==
  /\ pairs' = pairs + 1
  /\ token' = [token EXCEPT ![pairs + 1] =
                 [user |-> u, access |-> now + AccessLife, refresh |-> now + RefreshLife]]
  /\ job' = [job EXCEPT ![k] = [@ EXCEPT !.user = u, !.new = pairs + 1, !.phase = phase]]

Move(k, phase) == job' = [job EXCEPT ![k].phase = phase]

\* The rate limit, then verify_refresh_token.  A refusal for another reason
\* than a token that is not there ends the session without anyone's fault.
Verify(k, admitted) ==
  /\ At(k, "verify")
  /\ \/ /\ admitted
        /\ Move(k, IF Redeemable(job[k].pair) THEN "owner" ELSE "failed")
        /\ spoiled' = (spoiled \/ Expired(job[k].pair))
        /\ UNCHANGED acts
     \/ ~admitted /\ Move(k, "failed") /\ Fault
  /\ UNCHANGED <<database, blacklist, issued, now, browser, revoked, ended, succeeded, overlapped>>

\* get_user_by_id_async, issue_access_token
FindUser(k) ==
  /\ At(k, "owner")
  /\ LET u == token[job[k].pair].user IN
     \/ u \in users /\ Issue(k, u, "revoke")
     \/ u \notin users /\ Move(k, "failed") /\ UNCHANGED issued
  /\ UNCHANGED <<database, blacklist, now, acts, browser, history>>

\* mutant: the old token is not revoked
Revoke_Kept(k) ==
  /\ At(k, "revoke")
  /\ Move(k, IF job[k].kind = "leave" THEN "answered" ELSE "create")
  /\ UNCHANGED <<database, blacklist, issued, now, acts, browser, history>>
\* revoke_refresh_token
Revoke(k) ==
  /\ At(k, "revoke")
  /\ rows' = rows \ {job[k].pair}
  /\ Move(k, IF job[k].kind = "leave" THEN "answered" ELSE "create")
  /\ UNCHANGED <<users, blacklist, issued, now, acts, browser, history>>

\* mutant: the token that was sent is stored again
Create_SentAgain(k) ==
  /\ At(k, "create")
  /\ rows' = rows \cup {job[k].pair}
  /\ Move(k, "answered")
  /\ UNCHANGED <<users, blacklist, issued, now, acts, browser, history>>
\* create_refresh_token: a failed insert is logged, the answer then names no
\* refresh token
Create(k) ==
  /\ At(k, "create")
  /\ \/ /\ rows' = rows \cup {job[k].new}
        /\ succeeded' = succeeded \cup (IF job[k].kind = "refresh" THEN {job[k].pair} ELSE {})
        /\ UNCHANGED <<acts, spoiled>>
     \/ Fault /\ UNCHANGED <<rows, succeeded>>
  /\ Move(k, "answered")
  /\ UNCHANGED <<users, blacklist, issued, now, browser, revoked, ended, overlapped>>

\* login up to issue_access_token: lock, rate limit, captcha and password,
\* which admitted stands for
Check(k, admitted) ==
  /\ At(k, "check")
  /\ \/ admitted /\ job[k].user \in users
        /\ Issue(k, job[k].user, "create")
        /\ ended' = ended \ {job[k].user}
     \/ ~(admitted /\ job[k].user \in users)
        /\ Move(k, "failed") /\ UNCHANGED <<issued, ended>>
  /\ UNCHANGED <<database, blacklist, now, acts, browser, revoked, succeeded, overlapped, spoiled>>

\* logout: require_authenticated_user ...
Authenticate(k) ==
  /\ At(k, "authenticate")
  /\ \/ /\ Accepted(job[k].pair)
        /\ job' = [job EXCEPT ![k] = [@ EXCEPT !.phase = "blacklist",
                                               !.user = token[job[k].pair].user]]
     \/ ~Accepted(job[k].pair) /\ Move(k, "failed")
  /\ UNCHANGED <<database, blacklist, issued, now, acts, browser, history>>

\* ... blacklist_token, for a token that has not expired in the meantime
Blacklist(k) ==
  LET n == job[k].pair IN
  /\ At(k, "blacklist")
  /\ \/ /\ now <= token[n].access
        /\ blacklist' = [blacklist EXCEPT ![n] = BlacklistUntil]
        /\ revoked' = revoked \cup {n}
     \/ now > token[n].access /\ UNCHANGED <<blacklist, revoked>>
  /\ Move(k, "sweep")
  /\ UNCHANGED <<database, issued, now, acts, browser, ended, succeeded, overlapped, spoiled>>

\* mutant: logout revokes the refresh token of this browser only
Sweep_One(k) ==
  /\ At(k, "sweep")
  /\ rows' = rows \ {job[k].pair}
  /\ ended' = ended \cup {job[k].user}
  /\ Move(k, "answered")
  /\ UNCHANGED <<users, blacklist, issued, now, acts, browser, revoked, succeeded, overlapped, spoiled>>
\* ... revoke_user_refresh_tokens
Sweep(k) ==
  /\ At(k, "sweep")
  /\ rows' = {n \in rows : token[n].user # job[k].user}
  /\ ended' = ended \cup {job[k].user}
  /\ Move(k, "answered")
  /\ UNCHANGED <<users, blacklist, issued, now, acts, browser, revoked, succeeded, overlapped, spoiled>>

\* One transaction; persons and profiles are no concern of a session.
RemoveUsers(U) ==
  /\ users' = users \ U
  /\ rows' = {n \in rows : token[n].user \notin U}

\* admin_delete_user, delete_old_users_with_empty_profile
DeleteUsers(U) ==
  /\ U # {} /\ U \subseteq users
  /\ RemoveUsers(U)
  /\ overlapped' = (overlapped \/ \E k \in Handlers : ~At(k, "idle"))
  /\ spoiled' = TRUE
  /\ Act
  /\ UNCHANGED <<blacklist, issued, now, browser, job, revoked, ended, succeeded>>

-----------------------------------------------------------------------------
(* The end of a request to /auth, as the tab sees it.                       *)

Done(k) == job' = [job EXCEPT ![k] = NoJob]

\* refreshPromise is resolved: who waited sends again with the new cookies,
\* or hands on its 401.
Resolve(t, phase, n) ==
  /\ flight' = [flight EXCEPT ![t] = None]
  /\ call' = [c \in Calls |->
                IF c \notin Waiting(t) THEN call[c]
                ELSE [phase |-> phase, pair |-> n]]

\* mutant: the answer arrives, the cookies stay as they are
Renewed_OldCookies(k) ==
  /\ At(k, "answered") /\ job[k].heard /\ job[k].kind = "refresh"
  /\ Resolve(job[k].tab, "resent", jar)
  /\ Done(k)
  /\ UNCHANGED <<database, blacklist, issued, now, acts, jar, named, history>>
Renewed(k) ==
  /\ At(k, "answered") /\ job[k].heard /\ job[k].kind = "refresh"
  /\ jar' = job[k].new
  /\ Resolve(job[k].tab, "resent", job[k].new)
  /\ Done(k)
  /\ UNCHANGED <<database, blacklist, issued, now, acts, named, history>>

LoggedIn(k) ==
  /\ At(k, "answered") /\ job[k].heard /\ job[k].kind = "login"
  /\ jar' = job[k].new
  /\ named' = TRUE
  /\ Done(k)
  /\ UNCHANGED <<database, blacklist, issued, now, acts, call, flight, history>>

\* logout of the page: whatever the answer, the user name is removed and the
\* page is loaded anew; only the answer of the whole handler clears the cookies.
Left(k, cleared) ==
  LET t == job[k].tab IN
  /\ jar' = IF cleared THEN NoPair ELSE jar
  /\ named' = FALSE
  /\ flight' = [flight EXCEPT ![t] = None]
  /\ call' = [c \in Calls |-> IF Home[c] = t THEN NoCall ELSE call[c]]

Silence(k, j) ==
  job' = [i \in Handlers |->
            IF i = k THEN j
            ELSE IF job[i].tab = job[k].tab THEN [job[i] EXCEPT !.heard = FALSE]
            ELSE job[i]]

LoggedOut(k) ==
  /\ At(k, "answered") \/ At(k, "failed")
  /\ job[k].heard /\ job[k].kind \in {"logout", "leave"}
  /\ Left(k, At(k, "answered"))
  /\ Silence(k, NoJob)
  /\ UNCHANGED <<database, blacklist, issued, now, acts, history>>

\* mutant: the promise stays when the refresh has failed
Unanswered_Forgotten(k, j) ==
  \/ /\ job[k].kind = "refresh"
     /\ job' = [job EXCEPT ![k] = j]
     /\ UNCHANGED browser
  \/ /\ job[k].kind = "login"
     /\ job' = [job EXCEPT ![k] = j]
     /\ UNCHANGED browser
  \/ /\ job[k].kind \in {"logout", "leave"}
     /\ Left(k, FALSE)
     /\ Silence(k, j)
\* The tab gets no answer, or one that is not ok; the handler is j from now on.
Unanswered(k, j) ==
  \/ /\ job[k].kind = "refresh"
     /\ Resolve(job[k].tab, "refused", NoPair)
     /\ named' \in IF Waiting(job[k].tab) = {} THEN {named} ELSE {named, FALSE}
     /\ job' = [job EXCEPT ![k] = j]
     /\ UNCHANGED jar
  \/ /\ job[k].kind = "login"
     /\ job' = [job EXCEPT ![k] = j]
     /\ UNCHANGED browser
  \/ /\ job[k].kind \in {"logout", "leave"}
     /\ Left(k, FALSE)
     /\ Silence(k, j)

Refused(k) ==
  /\ At(k, "failed") /\ job[k].heard /\ job[k].kind \in {"refresh", "login"}
  /\ Unanswered(k, NoJob)
  /\ UNCHANGED <<database, blacklist, issued, now, acts, history>>

\* The connection breaks; the handler does not notice.
GiveUp(k) ==
  /\ ~At(k, "idle") /\ job[k].heard
  /\ Unanswered(k, [job[k] EXCEPT !.heard = FALSE])
  /\ Fault
  /\ UNCHANGED <<database, blacklist, issued, now, revoked, ended, succeeded, overlapped>>

\* The worker is killed or the handler raises: what was committed stays.
Crash(k) ==
  /\ ~At(k, "idle")
  /\ IF job[k].heard THEN Unanswered(k, NoJob) ELSE Done(k) /\ UNCHANGED browser
  /\ Fault
  /\ UNCHANGED <<database, blacklist, issued, now, revoked, ended, succeeded, overlapped>>

\* An answer nobody waits for
Ignored(k) ==
  /\ At(k, "answered") \/ At(k, "failed")
  /\ ~job[k].heard
  /\ Done(k)
  /\ UNCHANGED <<database, blacklist, issued, now, acts, browser, history>>

Tick ==
  /\ now < MaxNow
  /\ now' = now + 1
  /\ UNCHANGED <<database, blacklist, issued, browser, job, acts, history>>

-----------------------------------------------------------------------------
Handle(k) ==
  \/ \E admitted \in BOOLEAN : Verify(k, admitted) \/ Check(k, admitted)
  \/ FindUser(k) \/ Revoke(k) \/ Create(k)
  \/ Authenticate(k) \/ Blacklist(k) \/ Sweep(k)
  \/ Renewed(k) \/ LoggedIn(k) \/ LoggedOut(k) \/ Refused(k) \/ Ignored(k)

Start(k) ==
  \E t \in Tabs : (\E u \in Users : Login(k, t, u)) \/ Logout(k, t) \/ Leave(k, t)

Next ==
  \/ \E k \in Handlers : Start(k) \/ Handle(k) \/ GiveUp(k) \/ Crash(k)
  \/ \E c \in Calls : Send(c) \/ Answer(c) \/ Drop(c)
  \/ \E t \in Tabs : Activity(t)
  \/ \E U \in SUBSET Users : DeleteUsers(U)
  \/ Tick

Spec == Init /\ [][Next]_vars

-----------------------------------------------------------------------------
(* Properties.                                                              *)

Kinds == {"none", "refresh", "login", "logout", "leave"}
JobPhases == {"idle", "verify", "owner", "revoke", "create", "check", "authenticate",
              "blacklist", "sweep", "answered", "failed"}

\* Every variable has its type; only pairs that were issued are in use, and a
\* tab waits for a refresh of its own.
TypeOK ==
  /\ users \subseteq Users
  /\ rows \subseteq 1 .. pairs
  /\ blacklist \in [Pairs -> Nat]
  /\ token \in [Pairs -> [user : Users \cup {NoUser}, access : Nat, refresh : Nat]]
  /\ pairs \in 0 .. MaxPairs
  /\ now \in 0 .. MaxNow
  /\ jar \in 0 .. pairs
  /\ named \in BOOLEAN
  /\ call \in [Calls -> [phase : {"idle", "sent", "waiting", "resent", "refused"},
                         pair : 0 .. pairs]]
  /\ flight \in [Tabs -> Handlers \cup {None}]
  /\ job \in [Handlers -> [kind : Kinds, phase : JobPhases, tab : Tabs, pair : 0 .. pairs,
                           user : Users \cup {NoUser}, new : 0 .. pairs, heard : BOOLEAN]]
  /\ revoked \subseteq 1 .. pairs
  /\ acts \in 0 .. MaxActs
  /\ ended \subseteq Users
  /\ succeeded \subseteq 0 .. pairs
  /\ overlapped \in BOOLEAN /\ spoiled \in BOOLEAN

\* A promise of a refresh is that of a refresh the tab still hears of, and
\* every request that waits has such a promise: nobody waits for nothing.
NobodyWaitsForNothing ==
  /\ \A t \in Tabs : flight[t] # None =>
       LET j == job[flight[t]] IN
       j.kind = "refresh" /\ j.phase # "idle" /\ j.tab = t /\ j.heard
  /\ \A c \in Calls : call[c].phase = "waiting" => flight[Home[c]] # None

\* Unless something fails or a session is ended, the cookies hold a refresh
\* token that is stored, or a request is about to replace it: the late answer
\* of one tab never puts back a token that the other has used up.
CookiesHoldTheSession ==
  ~spoiled /\ jar # NoPair =>
    \/ jar \in rows
    \/ \E k \in Handlers : /\ job[k].kind = "refresh" /\ job[k].heard
                           /\ job[k].pair = jar
                           /\ job[k].phase \in {"create", "answered"}

\* With one request to /auth at a time no ordinary request of a browser with a
\* session is refused, except when its new access token expires before use:
\* every tab gets on by itself.
HealthySessionSurvives ==
  [][\A c \in Calls :
       /\ call[c].phase # "refused" /\ call'[c].phase = "refused"
       /\ call[c].pair # NoPair
       => \/ spoiled' \/ overlapped'
          \/ call[c].phase = "resent" /\ now > token[call[c].pair].access]_vars

\* "Invalidate access token immediately" (app/routers/auth.py:493): a token that
\* a logout has invalidated is not accepted again, with one exception.  A token
\* that was issued in the very second of the logout outlasts its entry by the
\* rest of the second of its exp, and is accepted then.
RevokedStaysRevoked ==
  \A n \in revoked : Accepted(n) => now = token[n].access /\ token[n].access = blacklist[n]

\* "Logout and invalidate tokens (blacklist access token, revoke refresh
\* tokens)": with one request to /auth at a time, no refresh token of a user
\* is left on any device from his logout to his next login, and none when he
\* is deleted, although no foreign key sees to it.
TokensEnd ==
  ~overlapped => \A n \in rows : token[n].user \in users \ ended

\* With one request to /auth at a time a refresh token is replaced by one that
\* is stored at most once, also when handlers crashed and tabs tried again.
ReplacedOnce ==
  [][\A k \in Handlers :
       /\ job[k].phase = "create" /\ job[k].kind = "refresh"
       /\ rows' # rows
       => overlapped \/ job[k].pair \notin succeeded]_vars
=============================================================================
