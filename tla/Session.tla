------------------------------- MODULE Session ------------------------------
(***************************************************************************)
(* The session of one user in one browser: axios interceptors of every     *)
(* tab (api-client.ts), the refresh at page load (auth-provider.tsx), the  *)
(* cookies its tabs share, the route handler that keeps them, and the      *)
(* rotation of refresh tokens by AuthService.                              *)
(*                                                                         *)
(* An access token and a refresh token are issued together and share a     *)
(* number; 0 is no token.  A refresh is several queries with no lock       *)
(* between them, and the server goes on with one the browser has given up. *)
(* A tab's JavaScript runs to completion, so everything between two awaits *)
(* of it is one step.  The user does not sign out or in again, and tabs    *)
(* are not closed.                                                         *)
(***************************************************************************)
EXTENDS Naturals, FiniteSets

CONSTANTS
    Tab,               \* tabs of the browser
    Call,              \* API calls its pages make
    TabOf,             \* the tab each call is made in
    MaxMishaps         \* bound: lost or refused answers, steps of other devices

ASSUME SessionAssumption ==
    /\ TabOf \in [Call -> Tab]
    /\ Tab \cap Call = {}
    /\ MaxMishaps \in Nat

VARIABLES
    issued,            \* token pairs issued so far
    live,              \* auth.refresh_tokens that are not revoked
    aged,              \* refresh tokens past their expires_at
    fresh,             \* access tokens that have not expired
    active,            \* users.is_active
    rt, at,            \* cookies nettapu_rt and nettapu_at
    tab,               \* accessToken and isRefreshing of every tab
    call,              \* where every API call is
    flight,            \* POST /api/auth/session/refresh of a call, or of a page load
    job,               \* what the servers do about it
    alarm,             \* history: reuse of a refresh token was detected
    overlap,           \* history: refreshes not kept apart by one isRefreshing met
    raced,             \* history: two refreshes passed the look-up with one token
    mishaps            \* mishaps so far

server == <<issued, live, aged, fresh, active>>
cookies == <<rt, at>>
history == <<alarm, overlap, raced, mishaps>>
vars == <<server, cookies, tab, call, flight, job, history>>

-----------------------------------------------------------------------------
Client == Call \cup Tab
Token  == 0..issued

(* "waiting" is a place in failedQueue; "refreshing" owns the refresh.     *)
ApiCall == [at : {"idle", "sent", "denied", "waiting", "refreshing", "done", "failed"},
            token : Nat, retried : BOOLEAN]

(* A client refreshes once at most: a call is retried once, a page loads    *)
(* once.  Its request is open until its reply is handled, or broken.       *)
Served  == {"replayed", "valid", "revoked", "checked"}
Replies == {"ok", "refused", "failed"}

Refresh == [at : {"none", "sent"} \cup Served \cup Replies, old : Nat, new : Nat]

InTheAir(f) == flight[f] # "none"

TypeOK ==
    /\ issued \in Nat /\ active \in BOOLEAN
    /\ live \subseteq 1..issued /\ aged \subseteq 1..issued /\ fresh \subseteq 1..issued
    /\ rt \in Token /\ at \in Token
    /\ tab \in [Tab -> [open : BOOLEAN, token : Token, refreshing : BOOLEAN]]
    /\ call \in [Call -> ApiCall]
    /\ flight \in [Client -> {"none", "open", "broken"}]
    /\ job \in [Client -> Refresh]
    /\ alarm \in BOOLEAN /\ overlap \in BOOLEAN /\ raced \in BOOLEAN
    /\ mishaps \in 0..MaxMishaps
    /\ \A c \in Call :
        /\ call[c].at = "refreshing" <=> InTheAir(c)
        /\ call[c].at \in {"waiting", "refreshing"} => tab[TabOf[c]].refreshing

(* The user has just signed in.                                            *)
Init ==
    /\ issued = 1 /\ live = {1} /\ aged = {} /\ fresh = {1} /\ active = TRUE
    /\ rt = 1 /\ at = 1
    /\ tab = [t \in Tab |-> [open |-> FALSE, token |-> 0, refreshing |-> FALSE]]
    /\ call = [c \in Call |-> [at |-> "idle", token |-> 0, retried |-> FALSE]]
    /\ flight = [f \in Client |-> "none"]
    /\ job = [f \in Client |-> [at |-> "none", old |-> 0, new |-> 0]]
    /\ alarm = FALSE /\ overlap = FALSE /\ raced = FALSE /\ mishaps = 0

-----------------------------------------------------------------------------
(* nettapu_at has the access token's own maxAge.                           *)
AccessCookie == IF at \in fresh THEN at ELSE 0

(* The interceptors of one tab keep its calls' refreshes apart; nothing    *)
(* else is kept apart.                                                     *)
KeptApart(f, g) == f \in Call /\ g \in Call /\ TabOf[f] = TabOf[g]

StartRefresh(f) ==
    /\ flight' = [flight EXCEPT ![f] = "open"]
    /\ job' = [job EXCEPT ![f] = [at |-> "sent", old |-> rt, new |-> 0]]
    /\ overlap' = (overlap \/ \E g \in Client \ {f} : InTheAir(g) /\ ~KeptApart(f, g))

(* hydrate(): the page goes on with the access token of the cookie, or     *)
(* refreshes at once.                                                      *)
OpenTab(t) ==
    /\ ~tab[t].open
    /\ tab' = [tab EXCEPT ![t].open = TRUE, ![t].token = AccessCookie]
    /\ IF AccessCookie # 0 THEN UNCHANGED <<flight, job, overlap>>
                           ELSE StartRefresh(t)
    /\ UNCHANGED <<server, cookies, call, alarm, raced, mishaps>>

(* The request interceptor attaches the store's token, else the cookie's.  *)
Send(c) ==
    LET mine == tab[TabOf[c]].token
    IN  /\ call[c].at = "idle"
        /\ tab[TabOf[c]].open
        /\ call' = [call EXCEPT ![c].at = "sent",
                                ![c].token = IF mine # 0 THEN mine ELSE AccessCookie]
        /\ UNCHANGED <<server, cookies, tab, flight, job, history>>

(* The API answers, or fails for a reason that is not the token.           *)
Answer(c) ==
    /\ call[c].at = "sent"
    /\ \/ call[c].token \in fresh /\ call' = [call EXCEPT ![c].at = "done"]
       \/ call[c].token \notin fresh /\ call' = [call EXCEPT ![c].at = "denied"]
       \/ call' = [call EXCEPT ![c].at = "failed"]
    /\ UNCHANGED <<server, cookies, tab, flight, job, history>>

(* A seeded bug: every call that is denied refreshes for itself.           *)
HandleAlone(c) ==
    /\ call[c].at = "denied"
    /\ IF call[c].retried
       THEN /\ call' = [call EXCEPT ![c].at = "failed"]
            /\ UNCHANGED <<tab, flight, job, overlap>>
       ELSE /\ call' = [call EXCEPT ![c].at = "refreshing", ![c].retried = TRUE]
            /\ tab' = [tab EXCEPT ![TabOf[c]].refreshing = TRUE]
            /\ StartRefresh(c)
    /\ UNCHANGED <<server, cookies, alarm, raced, mishaps>>

(* The response interceptor on a 401: a call that was retried fails, one   *)
(* that finds a refresh under way waits for it, any other refreshes.       *)
HandleDenied(c) ==
    LET t == TabOf[c]
    IN  /\ call[c].at = "denied"
        /\ IF call[c].retried \/ tab[t].refreshing
           THEN /\ call' = [call EXCEPT ![c].at = IF call[c].retried THEN "failed" ELSE "waiting"]
                /\ UNCHANGED <<tab, flight, job, overlap>>
           ELSE /\ call' = [call EXCEPT ![c].at = "refreshing", ![c].retried = TRUE]
                /\ tab' = [tab EXCEPT ![t].refreshing = TRUE]
                /\ StartRefresh(c)
        /\ UNCHANGED <<server, cookies, alarm, raced, mishaps>>

-----------------------------------------------------------------------------
(* The job of f goes on from one place to another.                          *)
Step(f, from, to) == job[f].at = from /\ job' = [job EXCEPT ![f].at = to]

(* The route handler answers itself when it is sent no cookie.             *)
NoCookie(f) ==
    /\ job[f].old = 0
    /\ Step(f, "sent", "failed")
    /\ UNCHANGED <<server, cookies, tab, call, flight, history>>

(* Another refresh has looked the token up and not yet revoked it.         *)
Passed(g, old) == job[g].at = "valid" /\ job[g].old = old

(* AuthService.refresh: the token is looked up, revoked and replaced.      *)
LookUp(f) ==
    LET old == job[f].old
    IN  /\ old # 0
        /\ Step(f, "sent", IF old \notin live THEN "replayed"
                           ELSE IF old \in aged THEN "refused" ELSE "valid")
        /\ raced' = (raced \/ \E g \in Client : job'[f].at = "valid" /\ Passed(g, old))
        /\ UNCHANGED <<server, cookies, tab, call, flight, alarm, overlap, mishaps>>

(* Reuse detected: every session of the user is revoked.                   *)
RevokeAll(f) ==
    /\ Step(f, "replayed", "refused")
    /\ live' = {}
    /\ alarm' = TRUE
    /\ UNCHANGED <<issued, aged, fresh, active, cookies, tab, call, flight, overlap, raced, mishaps>>

(* A seeded bug: the old token is not revoked.                             *)
RotateKeepOld(f) ==
    /\ Step(f, "valid", "revoked")
    /\ UNCHANGED <<server, cookies, tab, call, flight, history>>

Rotate(f) ==
    /\ Step(f, "valid", "revoked")
    /\ live' = live \ {job[f].old}
    /\ UNCHANGED <<issued, aged, fresh, active, cookies, tab, call, flight, history>>

(* A deactivated account is refused when its token is revoked already.     *)
CheckUser(f) ==
    /\ Step(f, "revoked", IF active THEN "checked" ELSE "refused")
    /\ UNCHANGED <<server, cookies, tab, call, flight, history>>

Issue(f) ==
    /\ job[f].at = "checked"
    /\ issued' = issued + 1
    /\ live' = live \cup {issued + 1}
    /\ fresh' = fresh \cup {issued + 1}
    /\ job' = [job EXCEPT ![f].at = "ok", ![f].new = issued + 1]
    /\ UNCHANGED <<aged, active, cookies, tab, call, flight, history>>

(* What the client hears: the route's answer, or that its request broke.   *)
Replied(f) == flight[f] = "broken" \/ (flight[f] = "open" /\ job[f].at \in Replies)

Heard(f) == IF flight[f] = "broken" THEN "failed" ELSE job[f].at

Given(f) == IF Heard(f) = "ok" THEN job[f].new ELSE 0

(* The route sets the cookies of a new pair, and deletes them all on any   *)
(* other answer of the API.                                                *)
TakeCookies(f) ==
    CASE job[f].at = "ok"      -> rt' = job[f].new /\ at' = job[f].new
      [] job[f].at = "refused" -> rt' = 0 /\ at' = 0
      [] OTHER                 -> UNCHANGED cookies

(* The client takes the reply's cookies; clearTokens deletes nettapu_at.   *)
SetCookies(f) ==
    IF Heard(f) = "failed" THEN rt' = rt /\ at' = 0 ELSE TakeCookies(f)

(* A seeded bug: only the owner of the refresh goes on.                    *)
OwnerAlone(c) == {c}

(* The owner of the refresh, and the calls that wait for it.               *)
Woken(c) == {c} \cup {d \in Call : TabOf[d] = TabOf[c] /\ call[d].at = "waiting"}

(* A seeded bug: isRefreshing is not reset after a failure.                *)
FinishStillRefreshing(c) ==
    /\ Replied(c)
    /\ SetCookies(c)
    /\ tab' = [tab EXCEPT ![TabOf[c]].token = Given(c), ![TabOf[c]].refreshing = Given(c) = 0]
    /\ call' = [d \in Call |->
          IF d \notin Woken(c) THEN call[d]
          ELSE IF Given(c) # 0 THEN [call[d] EXCEPT !.at = "sent", !.token = Given(c)]
                               ELSE [call[d] EXCEPT !.at = "failed"]]
    /\ flight' = [flight EXCEPT ![c] = "none"]
    /\ UNCHANGED <<server, job, history>>

(* The reply reaches the call that owns the refresh: setTokens or          *)
(* clearTokens, processQueue, and the owner is sent again or fails.        *)
FinishRefresh(c) ==
    /\ Replied(c)
    /\ SetCookies(c)
    /\ tab' = [tab EXCEPT ![TabOf[c]].token = Given(c), ![TabOf[c]].refreshing = FALSE]
    /\ call' = [d \in Call |->
          IF d \notin Woken(c) THEN call[d]
          ELSE IF Given(c) # 0 THEN [call[d] EXCEPT !.at = "sent", !.token = Given(c)]
                               ELSE [call[d] EXCEPT !.at = "failed"]]
    /\ flight' = [flight EXCEPT ![c] = "none"]
    /\ UNCHANGED <<server, job, history>>

(* The reply reaches the page load.                                        *)
FinishHydrate(t) ==
    /\ Replied(t)
    /\ SetCookies(t)
    /\ tab' = [tab EXCEPT ![t].token = Given(t)]
    /\ flight' = [flight EXCEPT ![t] = "none"]
    /\ UNCHANGED <<server, call, job, history>>

-----------------------------------------------------------------------------
(* Every access token lives fifteen minutes, so they expire in turn.       *)
AccessExpires(n) ==
    /\ n \in fresh
    /\ \A m \in fresh : n <= m
    /\ fresh' = fresh \ {n}
    /\ UNCHANGED <<issued, live, aged, active, cookies, tab, call, flight, job, history>>

(* Every refresh token lives seven days, far longer than its access token  *)
(* and not as long as its cookie.                                          *)
RefreshExpires(n) ==
    /\ n \notin aged \cup fresh
    /\ \A m \in 1..(n - 1) : m \in aged
    /\ aged' = aged \cup {n}
    /\ UNCHANGED <<issued, live, fresh, active, cookies, tab, call, flight, job, history>>

Mishap ==
    /\ mishaps < MaxMishaps
    /\ mishaps' = mishaps + 1

(* The connection breaks, between the browser and the route or between the *)
(* route and the API: the browser gives up, the API does not.  Of a reply  *)
(* that is there the headers may have come, and with them the cookies.     *)
BreakOff(f) ==
    /\ Mishap
    /\ flight[f] = "open"
    /\ flight' = [flight EXCEPT ![f] = "broken"]
    /\ UNCHANGED cookies \/ TakeCookies(f)
    /\ UNCHANGED <<server, tab, call, job, alarm, overlap, raced>>

(* The API refuses for a reason that is not the token (the throttle, a     *)
(* query that fails), or it dies and the route's fetch throws.  What has   *)
(* been done stays done.                                                   *)
ApiFails(f) ==
    /\ Mishap
    /\ job[f].at \in {"sent"} \cup Served
    /\ job[f].old # 0
    /\ \E reply \in {"refused", "failed"} : job' = [job EXCEPT ![f].at = reply]
    /\ UNCHANGED <<server, cookies, tab, call, flight, alarm, overlap, raced>>

(* Every session is revoked from elsewhere: the password is changed on     *)
(* another device, or an administrator resets it or freezes the account.   *)
RevokeElsewhere ==
    /\ Mishap
    /\ live' = {}
    /\ UNCHANGED <<issued, aged, fresh, active, cookies, tab, call, flight, job,
                   alarm, overlap, raced>>

(* toggleUserActive, whose revocation is the next step, if it happens.     *)
ToggleActive ==
    /\ Mishap
    /\ active' = ~active
    /\ UNCHANGED <<issued, live, aged, fresh, cookies, tab, call, flight, job,
                   alarm, overlap, raced>>

-----------------------------------------------------------------------------
Serve(f) ==
    \/ NoCookie(f) \/ LookUp(f) \/ RevokeAll(f)
    \/ Rotate(f) \/ CheckUser(f) \/ Issue(f)

Proceed(c) == Answer(c) \/ HandleDenied(c) \/ FinishRefresh(c)

Next ==
    \/ \E t \in Tab : OpenTab(t) \/ FinishHydrate(t)
    \/ \E c \in Call : Send(c) \/ Proceed(c)
    \/ \E f \in Client : Serve(f) \/ BreakOff(f) \/ ApiFails(f)
    \/ \E n \in 1..issued : AccessExpires(n) \/ RefreshExpires(n)
    \/ RevokeElsewhere \/ ToggleActive

Spec == Init /\ [][Next]_vars

(* A request that was made is served, and its answer is handled.           *)
Fairness ==
    /\ \A f \in Client : WF_vars(Serve(f))
    /\ \A c \in Call : WF_vars(Proceed(c))

FairSpec == Spec /\ Fairness

-----------------------------------------------------------------------------
(* However many calls of a tab are denied at once, late or again, they     *)
(* cost the user nothing.  As long as no refreshes of two tabs, or of a    *)
(* call and a page load, met, no request broke, the API refused for no     *)
(* reason of its own and nothing was done elsewhere, reuse is never        *)
(* detected, one refresh token is good, and between refreshes the cookie   *)
(* holds it, unless it was deleted after its seven days.                   *)
SessionSurvives ==
    ~overlap /\ mishaps = 0 =>
        /\ ~alarm
        /\ (\A f \in Client : ~InTheAir(f)) =>
              \E n \in live : rt = n \/ (rt = 0 /\ n \in aged)

(* One sign-in is one session: two refresh tokens are good only after two  *)
(* refreshes that both looked one token up before either revoked it.       *)
(* Otherwise there is one at most, whichever tabs and page loads refresh   *)
(* at once, whatever the server goes on with when the browser has given    *)
(* up, and wherever it breaks off.                                         *)
OneSession == ~raced => \A m, n \in live : m = n

(* A refresh token that is good keeps its cookie.  It does not: the route  *)
(* deletes the cookies on any answer of the API but a success, the         *)
(* throttle's and a failed query's included.  TLC finds it violated; no    *)
(* run checks it.                                                          *)
GoodCookieKept == [][~(rt \in live \ aged /\ rt' = 0)]_vars

(* No two refresh tokens are good.  They are after two tabs looked one up  *)
(* at once, or after one tab did whose first refresh was broken off, since *)
(* the look-up and the revocation are two queries with no lock.  TLC finds *)
(* it violated; no run checks it.                                          *)
NeverTwoGood == \A m, n \in live : m = n

(* isRefreshing is never left set with no refresh under way, or every call *)
(* the tab is denied from then on would wait in a queue nobody processes.  *)
QueueHasAnOwner ==
    \A t \in Tab : tab[t].refreshing => \E c \in Call : TabOf[c] = t /\ InTheAir(c)

(* Every call is answered or fails: none waits for ever in a queue nobody  *)
(* will process.                                                           *)
CallsSettle ==
    \A c \in Call : call[c].at = "sent" ~> call[c].at \in {"done", "failed"}
=============================================================================
