--------------------------- MODULE Session_proofs ---------------------------
(***************************************************************************)
(* One tab's refresh queue keeps the session, for any number of tabs and   *)
(* calls and any expiry of tokens, and only a race of two look-ups makes   *)
(* two sessions of one.                                                    *)
(*                                                                         *)
(* A call is refreshing only while its tab says so, so a tab's calls never *)
(* refresh at once (OneRefresh); as long as no other refresh met theirs    *)
(* and nothing went wrong, the one in the air is the only one served, and  *)
(* holds the very token of the cookie, which is good until it is rotated   *)
(* or expires, and its successor is good from then on (Good).              *)
(***************************************************************************)
EXTENDS Session, TLAPS

(* No two calls of a tab refresh at once.                                  *)
OneRefresh ==
    \A c, d \in Call :
        call[c].at = "refreshing" /\ call[d].at = "refreshing" /\ TabOf[c] = TabOf[d] => c = d

(* The pair a refresh was given has been issued.                           *)
NewIsIssued == \A f \in Client : job[f].new \in Token

(* A page that has not loaded has not refreshed.                           *)
NotYet == \A t \in Tab : ~tab[t].open => ~InTheAir(t)

(* Unless they have met, refreshes in the air are kept apart.              *)
Apart ==
    ~overlap => \A f, g \in Client : InTheAir(f) /\ InTheAir(g) /\ f # g => KeptApart(f, g)

(* Before the first mishap the account is active and every refresh that is *)
(* served is one a client waits for.                                       *)
Attended ==
    mishaps = 0 =>
        /\ active
        /\ \A f \in Client : /\ job[f].at \in {"sent"} \cup Served => flight[f] = "open"
                             /\ flight[f] # "broken"

(* The good token is the cookie's, or its seven days were over.            *)
Kept == \E n \in live : rt = n \/ (rt = 0 /\ n \in aged)

(* What a refresh has in hand while nothing went wrong.                    *)
Right(f) ==
    /\ job[f].at \in {"sent", "valid", "revoked", "checked"} \cup Replies
    /\ job[f].at = "sent" => job[f].old = rt /\ Kept
    /\ job[f].at = "ok" => job[f].new \in live
    /\ job[f].at = "refused" => \E n \in live : n \in aged
    /\ job[f].at = "failed" => rt = 0 /\ Kept

Good == ~overlap /\ mishaps = 0 => \A f \in Client : InTheAir(f) => Right(f)

Shape == TypeOK /\ OneRefresh /\ NewIsIssued /\ NotYet
Lone  == Apart /\ Attended /\ Good /\ SessionSurvives
IInv  == Shape /\ Lone

LEMMA InitInv == Init => IInv
<1> SUFFICES ASSUME Init PROVE IInv
  OBVIOUS
<1>1. /\ flight \in [Client -> {"none", "open", "broken"}]
      /\ job \in [Client -> Refresh]
      /\ call \in [Call -> ApiCall]
  BY DEF Init, ApiCall, Refresh
<1>2. /\ issued \in Nat /\ 0 \in Token /\ 1 \in Token /\ 1 \in 1..issued
      /\ 0 \in 0..MaxMishaps
  BY SessionAssumption DEF Init, Token
<1>3. \A c \in Call : ~InTheAir(c) /\ call[c].at = "idle"
  BY DEF Init, InTheAir, Client
<1>4. TypeOK
  BY <1>1, <1>2, <1>3 DEF Init, TypeOK
<1>5. OneRefresh /\ NewIsIssued /\ NotYet
  BY DEF Init, OneRefresh, NewIsIssued, NotYet, InTheAir, Token, Client
<1>6. Apart /\ Good /\ SessionSurvives
  BY DEF Init, Apart, Good, SessionSurvives, InTheAir
<1>7. Attended
  BY DEF Init, Attended, Served
<1> QED
  BY <1>4, <1>5, <1>6, <1>7 DEF IInv, Shape, Lone

(* While nothing met, one refresh at most is in the air.                   *)
LEMMA Alone ==
    ASSUME IInv, ~overlap, NEW f \in Client, NEW g \in Client, InTheAir(f), InTheAir(g)
    PROVE  f = g
<1>1. SUFFICES ASSUME f # g PROVE FALSE
  OBVIOUS
<1>2. KeptApart(f, g)
  BY <1>1 DEF IInv, Lone, Apart
<1>3. f \in Call /\ g \in Call /\ TabOf[f] = TabOf[g]
  BY <1>2 DEF KeptApart
<1>4. call[f].at = "refreshing" /\ call[g].at = "refreshing"
  BY <1>3 DEF IInv, Shape, TypeOK
<1> QED
  BY <1>1, <1>3, <1>4 DEF IInv, Shape, OneRefresh

-----------------------------------------------------------------------------
(* Steps that touch neither a refresh nor the queues of the tabs: calls    *)
(* that are sent and answered, tokens that expire, other devices.          *)
LEMMA QuietStep ==
    ASSUME IInv, UNCHANGED <<issued, cookies, flight, job, alarm, overlap, raced>>,
           \/ UNCHANGED <<live, active, mishaps>>
           \/ /\ mishaps' = mishaps + 1 /\ mishaps < MaxMishaps
              /\ live' \subseteq live /\ active' \in BOOLEAN,
           aged \subseteq aged', aged' \subseteq 1..issued, fresh' \subseteq fresh,
           tab' \in [Tab -> [open : BOOLEAN, token : Token, refreshing : BOOLEAN]],
           \A t \in Tab : /\ tab'[t].refreshing = tab[t].refreshing
                          /\ tab[t].open => tab'[t].open,
           call' \in [Call -> ApiCall],
           \A c \in Call : /\ call'[c].at = "refreshing" <=> call[c].at = "refreshing"
                           /\ call'[c].at = "waiting" => \/ call[c].at = "waiting"
                                                         \/ tab[TabOf[c]].refreshing
    PROVE  IInv'
<1> USE DEF IInv, Shape, Lone
<1>1. /\ mishaps' \in 0..MaxMishaps
      /\ mishaps' = 0 => mishaps = 0 /\ live' = live /\ active' = active
      /\ active' \in BOOLEAN /\ live' \subseteq 1..issued
  <2>1. mishaps \in 0..MaxMishaps /\ active \in BOOLEAN /\ live \subseteq 1..issued
    BY DEF TypeOK
  <2>2. active' \in BOOLEAN /\ live' \subseteq 1..issued
    BY <2>1
  <2>3. mishaps' = mishaps \/ (mishaps' = mishaps + 1 /\ mishaps < MaxMishaps)
    OBVIOUS
  <2>4. mishaps' \in 0..MaxMishaps /\ (mishaps' = 0 => mishaps' = mishaps)
    BY <2>1, <2>3, SessionAssumption
  <2>5. mishaps' = 0 => live' = live /\ active' = active
    BY <2>1, SessionAssumption
  <2> QED
    BY <2>2, <2>4, <2>5
<1>2. \A f \in Client : InTheAir(f)' <=> InTheAir(f)
  BY DEF InTheAir
<1>3. TypeOK'
  BY <1>1, <1>2, SessionAssumption DEF TypeOK, Token, cookies, Client
<1>4. OneRefresh' /\ NewIsIssued' /\ NotYet'
  BY <1>2 DEF OneRefresh, NewIsIssued, NotYet, Token, Client
<1>5. Apart' /\ Attended'
  BY <1>1, <1>2 DEF Apart, KeptApart, Attended
<1>6. mishaps' = 0 /\ Kept => Kept'
  BY <1>1 DEF Kept, cookies
<1>7. Good'
  BY <1>1, <1>2, <1>6 DEF Good, Right, cookies
<1>8. SessionSurvives'
  BY <1>1, <1>2 DEF SessionSurvives, cookies
<1> QED
  BY <1>3, <1>4, <1>5, <1>7, <1>8

LEMMA QuietSteps ==
    ASSUME IInv,
           \/ UNCHANGED vars
           \/ \E c \in Call : Send(c) \/ Answer(c)
           \/ \E n \in 1..issued : AccessExpires(n) \/ RefreshExpires(n)
           \/ RevokeElsewhere \/ ToggleActive
    PROVE  IInv'
<1> USE DEF IInv, Shape
<1>1. CASE UNCHANGED vars
  BY <1>1, QuietStep DEF vars, server, history, TypeOK
<1>2. ASSUME NEW c \in Call, Send(c) PROVE IInv'
  <2> DEFINE n == IF tab[TabOf[c]].token # 0 THEN tab[TabOf[c]].token ELSE AccessCookie
  <2>1. n \in Nat /\ call' = [call EXCEPT ![c].at = "sent", ![c].token = n]
    <3>1. TabOf[c] \in Tab
      BY SessionAssumption
    <3>2. tab[TabOf[c]].token \in Token /\ AccessCookie \in Token /\ Token \subseteq Nat
      BY <3>1 DEF TypeOK, AccessCookie, Token
    <3> QED
      BY <1>2, <3>2 DEF Send
  <2> HIDE DEF n
  <2>2. call' \in [Call -> ApiCall] /\ call[c].at = "idle"
    BY <1>2, <2>1 DEF Send, TypeOK, ApiCall
  <2>3. \A d \in Call : call'[d].at = IF d = c THEN "sent" ELSE call[d].at
    BY <2>1 DEF TypeOK, ApiCall
  <2> QED
    BY <1>2, <2>2, <2>3, QuietStep DEF Send, server, history, TypeOK
<1>3. ASSUME NEW c \in Call, Answer(c) PROVE IInv'
  <2>1. PICK place \in {"done", "denied", "failed"} : call' = [call EXCEPT ![c].at = place]
    BY <1>3 DEF Answer
  <2>2. call' \in [Call -> ApiCall] /\ call[c].at = "sent"
    BY <1>3, <2>1 DEF Answer, TypeOK, ApiCall
  <2>3. \A d \in Call : call'[d].at = IF d = c THEN place ELSE call[d].at
    BY <2>1 DEF TypeOK, ApiCall
  <2> QED
    BY <1>3, <2>2, <2>3, QuietStep DEF Answer, server, history, TypeOK
<1>4. ASSUME NEW n \in 1..issued, AccessExpires(n) \/ RefreshExpires(n) PROVE IInv'
  BY <1>4, QuietStep DEF AccessExpires, RefreshExpires, history, TypeOK
<1>5. CASE RevokeElsewhere \/ ToggleActive
  BY <1>5, QuietStep DEF RevokeElsewhere, ToggleActive, Mishap, TypeOK
<1> QED
  BY <1>1, <1>2, <1>3, <1>4, <1>5

-----------------------------------------------------------------------------
(* A refresh is begun.                                                     *)
LEMMA StartInv ==
    ASSUME IInv, NEW f \in Client, StartRefresh(f), ~InTheAir(f),
           \A c \in Call : f \in Call /\ TabOf[c] = TabOf[f] => ~InTheAir(c),
           UNCHANGED <<server, cookies, alarm, raced, mishaps>>
    PROVE  /\ (NewIsIssued /\ Lone)'
           /\ flight' \in [Client -> {"none", "open", "broken"}]
           /\ job' \in [Client -> Refresh]
           /\ overlap' \in BOOLEAN
           /\ \A g \in Client : InTheAir(g)' <=> (g = f \/ InTheAir(g))
<1> USE DEF IInv, Shape, Lone
<1>1. /\ flight'[f] = "open"
      /\ \A g \in Client : g # f => flight'[g] = flight[g]
      /\ flight' \in [Client -> {"none", "open", "broken"}]
  BY DEF StartRefresh, TypeOK
<1>2. /\ job'[f].at = "sent" /\ job'[f].old = rt /\ job'[f].new = 0
      /\ \A g \in Client : g # f => job'[g] = job[g]
      /\ job' \in [Client -> Refresh]
  <2>1. [at |-> "sent", old |-> rt, new |-> 0] \in Refresh
    BY DEF TypeOK, Token, Refresh
  <2> QED
    BY <2>1 DEF StartRefresh, TypeOK
<1>3. overlap' <=> overlap \/ \E g \in Client \ {f} : InTheAir(g) /\ ~KeptApart(f, g)
  BY DEF StartRefresh
<1>4. overlap' \in BOOLEAN
  BY DEF StartRefresh, TypeOK
<1>5. NewIsIssued'
  BY <1>2 DEF NewIsIssued, Token, server, TypeOK
<1>6. \A g \in Client : InTheAir(g)' <=> (g = f \/ InTheAir(g))
  BY <1>1 DEF InTheAir
<1>7. ASSUME ~overlap', NEW g \in Client, g # f PROVE ~InTheAir(g)
  BY <1>3, <1>7 DEF KeptApart
<1>8. Apart'
  BY <1>6, <1>7 DEF Apart
<1>9. Attended'
  BY <1>1, <1>2 DEF Attended, server
<1>10. ~overlap' /\ mishaps' = 0 => Kept' /\ ~alarm
  BY <1>3, <1>7 DEF SessionSurvives, Kept, server, cookies
<1>11. Good'
  BY <1>2, <1>6, <1>7, <1>10 DEF Good, Right, server, cookies, Served, Replies
<1>12. SessionSurvives'
  BY <1>6, <1>10 DEF SessionSurvives
<1> QED
  BY <1>1, <1>2, <1>4, <1>5, <1>6, <1>8, <1>9, <1>11, <1>12

LEMMA OpenTabInv ==
    ASSUME IInv, NEW t \in Tab, OpenTab(t)
    PROVE  IInv'
<1> USE DEF IInv, Shape
<1>1. ~InTheAir(t) /\ t \in Client /\ t \notin Call
  BY SessionAssumption DEF OpenTab, NotYet, Client
<1>2. tab' = [tab EXCEPT ![t].open = TRUE, ![t].token = AccessCookie]
  BY DEF OpenTab
<1>3. AccessCookie \in Token
  BY DEF AccessCookie, TypeOK, Token
<1>4. tab' \in [Tab -> [open : BOOLEAN, token : Token, refreshing : BOOLEAN]]
  BY <1>2, <1>3 DEF TypeOK
<1>5. \A u \in Tab : /\ tab'[u].refreshing = tab[u].refreshing
                     /\ tab'[u].open = (u = t \/ tab[u].open)
  BY <1>2 DEF TypeOK
<1>6. CASE AccessCookie # 0
  BY <1>4, <1>5, <1>6, QuietStep DEF OpenTab, server, TypeOK
<1>7. CASE AccessCookie = 0
  <2>1. StartRefresh(t) /\ UNCHANGED <<server, cookies, call, alarm, raced, mishaps>>
    BY <1>7 DEF OpenTab
  <2>2. /\ (NewIsIssued /\ Lone)'
        /\ flight' \in [Client -> {"none", "open", "broken"}] /\ job' \in [Client -> Refresh]
        /\ overlap' \in BOOLEAN
        /\ \A g \in Client : InTheAir(g)' <=> (g = t \/ InTheAir(g))
    BY <1>1, <2>1, StartInv
  <2>3. \A c \in Call : InTheAir(c)' <=> InTheAir(c)
    BY <1>1, <2>2 DEF Client
  <2>4. TypeOK'
    BY <1>4, <1>5, <2>1, <2>2, <2>3, SessionAssumption DEF TypeOK, Token, server, cookies
  <2>5. OneRefresh' /\ NotYet'
    BY <1>5, <2>1, <2>2 DEF OneRefresh, NotYet, Client
  <2> QED
    BY <2>2, <2>4, <2>5
<1> QED
  BY <1>6, <1>7

LEMMA HandleDeniedInv ==
    ASSUME IInv, NEW c \in Call, HandleDenied(c)
    PROVE  IInv'
<1> USE DEF IInv, Shape
<1> DEFINE t == TabOf[c]
<1>1. t \in Tab /\ c \in Client /\ c \notin Tab
  BY SessionAssumption DEF Client
<1>2. call[c].at = "denied" /\ ~InTheAir(c)
  BY DEF HandleDenied, TypeOK
<1>3. CASE call[c].retried \/ tab[t].refreshing
  <2>1. PICK place \in {"failed", "waiting"} :
            /\ call' = [call EXCEPT ![c].at = place]
            /\ place = "waiting" => tab[t].refreshing
    BY <1>3 DEF HandleDenied
  <2>2. UNCHANGED <<tab, flight, job, overlap, server, cookies, alarm, raced, mishaps>>
    BY <1>3 DEF HandleDenied
  <2>3. call' \in [Call -> ApiCall]
    BY <2>1 DEF TypeOK, ApiCall
  <2>4. \A d \in Call : call'[d].at = IF d = c THEN place ELSE call[d].at
    BY <2>1 DEF TypeOK, ApiCall
  <2> QED
    BY <1>2, <2>1, <2>2, <2>3, <2>4, QuietStep DEF server, TypeOK
<1>4. CASE ~(call[c].retried \/ tab[t].refreshing)
  <2>1. /\ call' = [call EXCEPT ![c].at = "refreshing", ![c].retried = TRUE]
        /\ tab' = [tab EXCEPT ![t].refreshing = TRUE]
        /\ StartRefresh(c)
        /\ UNCHANGED <<server, cookies, alarm, raced, mishaps>>
    BY <1>4 DEF HandleDenied
  <2>2. \A d \in Call : TabOf[d] = t => ~InTheAir(d) /\ call[d].at # "refreshing"
    BY <1>4 DEF TypeOK
  <2>3. /\ (NewIsIssued /\ Lone)'
        /\ flight' \in [Client -> {"none", "open", "broken"}] /\ job' \in [Client -> Refresh]
        /\ overlap' \in BOOLEAN
        /\ \A g \in Client : InTheAir(g)' <=> (g = c \/ InTheAir(g))
    BY <1>1, <1>2, <2>1, <2>2, StartInv
  <2>4. tab' \in [Tab -> [open : BOOLEAN, token : Token, refreshing : BOOLEAN]]
    BY <1>1, <2>1 DEF TypeOK
  <2>5. call' \in [Call -> ApiCall]
    BY <2>1 DEF TypeOK, ApiCall
  <2>6. /\ \A d \in Call : call'[d].at = IF d = c THEN "refreshing" ELSE call[d].at
        /\ \A u \in Tab : /\ tab'[u].refreshing = (u = t \/ tab[u].refreshing)
                          /\ tab'[u].open = tab[u].open
    BY <1>1, <2>1 DEF TypeOK, ApiCall
  <2>7. \A d \in Call :
            /\ call'[d].at = "refreshing" <=> InTheAir(d)'
            /\ call'[d].at \in {"waiting", "refreshing"} => tab'[TabOf[d]].refreshing
    BY <2>3, <2>6, SessionAssumption DEF TypeOK, Client
  <2>8. TypeOK'
    BY <2>1, <2>3, <2>4, <2>5, <2>7 DEF TypeOK, Token, server, cookies
  <2>9. OneRefresh'
    BY <2>2, <2>6 DEF OneRefresh
  <2>10. NotYet'
    BY <1>1, <2>3, <2>6 DEF NotYet, Client
  <2> QED
    BY <2>3, <2>8, <2>9, <2>10
<1> QED
  BY <1>3, <1>4

-----------------------------------------------------------------------------
(* A refresh that is served while nothing went wrong is the one in the air.*)
LEMMA ServedIsRight ==
    ASSUME IInv, NEW f \in Client, job[f].at \in {"sent"} \cup Served
    PROVE  /\ mishaps = 0 => InTheAir(f) /\ active
           /\ ~overlap /\ mishaps = 0 => Right(f) /\ ~alarm
BY DEF IInv, Lone, Attended, Good, SessionSurvives, InTheAir

(* What the servers may leave of it.                                       *)
Fit(m, good) ==
    \/ m.at \in {"valid", "revoked", "checked"}
    \/ m.at = "ok" /\ m.new \in good
    \/ m.at = "refused" /\ \E n \in good : n \in aged
    \/ m.at = "failed" /\ rt = 0 /\ \E n \in good : n \in aged

LEMMA JobInv ==
    ASSUME IInv, NEW f \in Client, job[f].at \in {"sent"} \cup Served,
           NEW m \in Refresh, job' = [job EXCEPT ![f] = m],
           issued' \in Nat, issued <= issued',
           live' \subseteq 1..issued', fresh' \subseteq 1..issued', m.new \in 0..issued',
           UNCHANGED <<aged, active, cookies, tab, call, flight, overlap>>,
           alarm' \in BOOLEAN, raced' \in BOOLEAN,
           mishaps' \in 0..MaxMishaps, mishaps' = 0 => mishaps = 0,
           ~overlap /\ mishaps' = 0 => ~alarm' /\ Fit(m, live')
    PROVE  IInv'
<1> USE DEF IInv, Shape, Lone
<1>1. \A g \in Client : job'[g] = IF g = f THEN m ELSE job[g]
  BY DEF TypeOK
<1>2. \A g \in Client : InTheAir(g)' <=> InTheAir(g)
  BY DEF InTheAir
<1>3. Token \subseteq Token' /\ 1..issued \subseteq 1..issued'
  BY DEF Token, TypeOK
<1>4. tab' \in [Tab -> [open : BOOLEAN, token : Token', refreshing : BOOLEAN]]
  BY <1>3 DEF TypeOK
<1>5. \A c \in Call : InTheAir(c)' <=> InTheAir(c)
  BY <1>2 DEF Client
<1>6. /\ issued' \in Nat /\ active' \in BOOLEAN
      /\ live' \subseteq 1..issued' /\ aged' \subseteq 1..issued' /\ fresh' \subseteq 1..issued'
      /\ rt' \in Token' /\ at' \in Token'
  BY <1>3 DEF TypeOK, cookies
<1>7. TypeOK'
  BY <1>4, <1>5, <1>6 DEF TypeOK
<1>8. OneRefresh' /\ NotYet'
  BY <1>2 DEF OneRefresh, NotYet, Client
<1>9. NewIsIssued'
  BY <1>1, <1>3 DEF NewIsIssued, Token
<1>10. Apart'
  BY <1>2 DEF Apart, KeptApart
<1>11. Attended'
  BY <1>1 DEF Attended
<1>12. ~overlap => \A g \in Client : InTheAir(g) /\ InTheAir(f) => g = f
  BY Alone
<1>13. mishaps' = 0 => InTheAir(f)
  BY ServedIsRight
<1>14. ~overlap' /\ mishaps' = 0 => Right(f)'
  <2> SUFFICES ASSUME ~overlap', mishaps' = 0 PROVE Right(f)'
    OBVIOUS
  <2>1. job'[f] = m /\ Fit(m, live') /\ UNCHANGED <<rt, aged>>
    BY <1>1 DEF cookies
  <2> QED
    BY <2>1 DEF Fit, Right, Kept, Replies
<1>15. Good'
  BY <1>2, <1>12, <1>13, <1>14 DEF Good
<1>16. SessionSurvives'
  BY <1>2, <1>13 DEF SessionSurvives
<1> QED
  BY <1>7, <1>8, <1>9, <1>10, <1>11, <1>15, <1>16

(* The servers' steps that only move a refresh on.                         *)
LEMMA MoveInv ==
    ASSUME IInv, NEW f \in Client, NEW from \in {"sent"} \cup Served,
           NEW to \in Served \cup Replies, Step(f, from, to),
           live' \subseteq live, alarm' \in BOOLEAN, raced' \in BOOLEAN,
           UNCHANGED <<issued, aged, fresh, active, cookies, tab, call, flight, overlap>>,
           mishaps' \in 0..MaxMishaps, mishaps' = 0 => mishaps = 0,
           ~overlap /\ mishaps' = 0 =>
               /\ ~alarm'
               /\ \/ to \in {"valid", "revoked", "checked"}
                  \/ to = "refused" /\ \E n \in live' : n \in aged
                  \/ to = "failed" /\ rt = 0 /\ \E n \in live' : n \in aged
    PROVE  IInv'
<1>1. /\ issued \in Nat /\ live \subseteq 1..issued /\ fresh \subseteq 1..issued
      /\ job \in [Client -> Refresh] /\ job[f] \in Refresh /\ job[f].new \in 0..issued
  BY DEF IInv, Shape, TypeOK, NewIsIssued, Token
<1> DEFINE m == [job[f] EXCEPT !.at = to]
<1>2. job[f].at = from /\ job' = [job EXCEPT ![f] = m]
  BY <1>1 DEF Step
<1>3. m \in Refresh /\ m.at = to /\ m.new = job[f].new
  BY <1>1 DEF Refresh
<1> HIDE DEF m
<1>4. ~overlap /\ mishaps' = 0 => ~alarm' /\ Fit(m, live')
  BY <1>3 DEF Fit
<1>5. /\ issued' \in Nat /\ issued <= issued'
      /\ live' \subseteq 1..issued' /\ fresh' \subseteq 1..issued' /\ m.new \in 0..issued'
  BY <1>1, <1>3
<1> QED
  BY <1>2, <1>3, <1>4, <1>5, JobInv

LEMMA ServeInv ==
    ASSUME IInv, NEW f \in Client, Serve(f) \/ ApiFails(f)
    PROVE  IInv'
<1>1. /\ issued \in Nat /\ live \subseteq 1..issued /\ fresh \subseteq 1..issued
      /\ alarm \in BOOLEAN /\ raced \in BOOLEAN /\ mishaps \in 0..MaxMishaps
      /\ job \in [Client -> Refresh] /\ job[f] \in Refresh
  BY DEF IInv, Shape, TypeOK
<1>2. CASE NoCookie(f)
  <2>1. /\ Step(f, "sent", "failed") /\ job[f].at = "sent" /\ job[f].old = 0
        /\ UNCHANGED <<server, cookies, tab, call, flight, history>>
    BY <1>2 DEF NoCookie, Step
  <2>2. ~overlap /\ mishaps = 0 => ~alarm /\ rt = 0 /\ Kept
    BY <2>1, ServedIsRight DEF Right
  <2>3. rt = 0 /\ Kept => \E n \in live : n \in aged
    BY <1>1 DEF Kept
  <2>4. "sent" \in {"sent"} \cup Served /\ "failed" \in Served \cup Replies
    BY DEF Replies
  <2> QED
    BY <1>1, <2>1, <2>2, <2>3, <2>4, MoveInv DEF server, history
<1>3. CASE LookUp(f)
  <2> DEFINE old == job[f].old
             place == IF old \notin live THEN "replayed"
                      ELSE IF old \in aged THEN "refused" ELSE "valid"
  <2>1. /\ Step(f, "sent", place) /\ job[f].at = "sent" /\ old # 0
        /\ UNCHANGED <<server, cookies, tab, call, flight, alarm, overlap, mishaps>>
    BY <1>3 DEF LookUp, Step
  <2>2. raced' \in BOOLEAN
    BY <1>1, <1>3 DEF LookUp
  <2>3. ~overlap /\ mishaps = 0 => ~alarm /\ old = rt /\ Kept
    BY <2>1, ServedIsRight DEF Right
  <2>4. old = rt /\ Kept => old \in live
    BY <2>1 DEF Kept
  <2>5. place \in {"replayed", "refused", "valid"}
        /\ (old \in live => place \in {"refused", "valid"})
        /\ (place = "refused" => old \in live /\ old \in aged)
    OBVIOUS
  <2> HIDE DEF old, place
  <2>6. "sent" \in {"sent"} \cup Served /\ place \in Served \cup Replies
    BY <2>5 DEF Served, Replies
  <2>7. ~overlap /\ mishaps' = 0 =>
            /\ ~alarm'
            /\ \/ place \in {"valid", "revoked", "checked"}
               \/ place = "refused" /\ \E n \in live' : n \in aged
    BY <2>1, <2>3, <2>4, <2>5 DEF server
  <2> QED
    BY <1>1, <2>1, <2>2, <2>6, <2>7, MoveInv DEF server
<1>4. CASE RevokeAll(f)
  <2>1. /\ Step(f, "replayed", "refused") /\ job[f].at = "replayed" /\ live' = {} /\ alarm' = TRUE
        /\ UNCHANGED <<issued, aged, fresh, active, cookies, tab, call, flight, overlap, raced,
                       mishaps>>
    BY <1>4 DEF RevokeAll, Step
  <2>2. "replayed" \in {"sent"} \cup Served /\ "refused" \in Served \cup Replies
    BY DEF Served, Replies
  <2>3. ~(~overlap /\ mishaps = 0)
    BY <2>1, <2>2, ServedIsRight DEF Right, Replies
  <2> QED
    BY <1>1, <2>1, <2>2, <2>3, MoveInv
<1>5. CASE Rotate(f)
  <2>1. /\ Step(f, "valid", "revoked") /\ job[f].at = "valid" /\ live' \subseteq live
        /\ UNCHANGED <<issued, aged, fresh, active, cookies, tab, call, flight, history>>
    BY <1>5 DEF Rotate, Step
  <2>2. "valid" \in {"sent"} \cup Served /\ "revoked" \in Served \cup Replies
    BY DEF Served
  <2>3. ~overlap /\ mishaps = 0 => ~alarm
    BY <2>1, <2>2, ServedIsRight
  <2> QED
    BY <1>1, <2>1, <2>2, <2>3, MoveInv DEF history
<1>6. CASE CheckUser(f)
  <2> DEFINE place == IF active THEN "checked" ELSE "refused"
  <2>1. /\ Step(f, "revoked", place) /\ job[f].at = "revoked"
        /\ UNCHANGED <<server, cookies, tab, call, flight, history>>
    BY <1>6 DEF CheckUser, Step
  <2>2. "revoked" \in {"sent"} \cup Served /\ place \in Served \cup Replies
    BY DEF Served, Replies
  <2>3. ~overlap /\ mishaps = 0 => ~alarm /\ place = "checked"
    BY <2>1, <2>2, ServedIsRight
  <2> HIDE DEF place
  <2> QED
    BY <1>1, <2>1, <2>2, <2>3, MoveInv DEF server, history
<1>7. CASE Issue(f)
  <2> DEFINE m == [job[f] EXCEPT !.at = "ok", !.new = issued + 1]
  <2>1. /\ job[f].at = "checked" /\ job[f].at \in {"sent"} \cup Served
        /\ issued' = issued + 1
        /\ live' = live \cup {issued + 1} /\ fresh' = fresh \cup {issued + 1}
        /\ UNCHANGED <<aged, active, cookies, tab, call, flight, history>>
    BY <1>7 DEF Issue, Served
  <2>2. m \in Refresh /\ m.at = "ok" /\ m.new = issued + 1 /\ job' = [job EXCEPT ![f] = m]
    <3>1. m \in Refresh /\ m.at = "ok" /\ m.new = issued + 1
      <4> DEFINE S == {"none", "sent"} \cup Served \cup Replies
                 n == issued + 1
      <4>1. job[f] \in [at : S, old : Nat, new : Nat] /\ n \in Nat
        BY <1>1 DEF Refresh
      <4>2. "ok" \in S
        BY DEF Replies
      <4>3. m = [job[f] EXCEPT !.at = "ok", !.new = n]
        OBVIOUS
      <4> HIDE DEF S, n, m
      <4>4. m \in [at : S, old : Nat, new : Nat] /\ m.at = "ok" /\ m.new = n
        BY <4>1, <4>2, <4>3
      <4> QED
        BY <4>4 DEF S, n, Refresh
    <3>2. job' = [job EXCEPT ![f] = m]
      BY <1>7 DEF Issue
    <3> QED
      BY <3>1, <3>2
  <2> HIDE DEF m
  <2>3. ~overlap /\ mishaps = 0 => ~alarm
    BY <2>1, ServedIsRight
  <2>4. issued' \in Nat /\ issued <= issued' /\ m.new \in 1..issued' /\ m.new \in 0..issued'
        /\ 1..issued \subseteq 1..issued'
    BY <1>1, <2>1, <2>2
  <2>5. live' = live \cup {m.new} /\ fresh' = fresh \cup {m.new}
    BY <2>1, <2>2
  <2>6. live' \subseteq 1..issued' /\ fresh' \subseteq 1..issued' /\ m.new \in live'
    BY <1>1, <2>4, <2>5
  <2>7. Fit(m, live')
    BY <2>2, <2>6 DEF Fit
  <2> QED
    BY <1>1, <2>1, <2>2, <2>3, <2>4, <2>6, <2>7, JobInv DEF history
<1>8. CASE ApiFails(f)
  <2>1. PICK reply \in {"refused", "failed"} : job' = [job EXCEPT ![f].at = reply]
    BY <1>8 DEF ApiFails
  <2>2. /\ Step(f, job[f].at, reply) /\ job[f].at \in {"sent"} \cup Served
        /\ reply \in Served \cup Replies
        /\ UNCHANGED <<server, cookies, tab, call, flight, alarm, overlap, raced>>
    BY <1>8, <2>1 DEF ApiFails, Step, Replies
  <2>3. mishaps' \in 0..MaxMishaps /\ mishaps' # 0
    BY <1>1, <1>8, SessionAssumption DEF ApiFails, Mishap
  <2> QED
    BY <1>1, <2>2, <2>3, MoveInv DEF server
<1> QED
  BY <1>2, <1>3, <1>4, <1>5, <1>6, <1>7, <1>8 DEF Serve

(* Cookies are only ever set to what was issued.                           *)
LEMMA CookiesAreTokens ==
    ASSUME Shape, NEW f \in Client, UNCHANGED cookies \/ TakeCookies(f) \/ SetCookies(f)
    PROVE  rt' \in Token /\ at' \in Token
<1>1. rt \in Token /\ at \in Token /\ job[f].new \in Token /\ 0 \in Token
  BY DEF Shape, TypeOK, NewIsIssued, Token
<1>2. UNCHANGED cookies => rt' = rt /\ at' = at
  BY DEF cookies
<1>3. TakeCookies(f) =>
          \/ UNCHANGED cookies
          \/ rt' \in {job[f].new, 0} /\ at' \in {job[f].new, 0}
  <2>1. CASE job[f].at = "ok"
    BY <2>1 DEF TakeCookies
  <2>2. CASE job[f].at = "refused"
    BY <2>2 DEF TakeCookies
  <2>3. CASE job[f].at \notin {"ok", "refused"}
    BY <2>3 DEF TakeCookies
  <2> QED
    BY <2>1, <2>2, <2>3
<1>4. SetCookies(f) => (rt' = rt /\ at' = 0) \/ TakeCookies(f)
  BY DEF SetCookies
<1> QED
  BY <1>1, <1>2, <1>3, <1>4

LEMMA BreakOffInv ==
    ASSUME IInv, NEW f \in Client, BreakOff(f)
    PROVE  IInv'
<1> USE DEF IInv, Shape, Lone
<1>1. /\ flight' = [flight EXCEPT ![f] = "broken"] /\ flight[f] = "open"
      /\ UNCHANGED <<server, tab, call, job, alarm, overlap, raced>>
      /\ rt' \in Token /\ at' \in Token
  BY CookiesAreTokens DEF BreakOff
<1>2. mishaps' \in 0..MaxMishaps /\ mishaps' # 0
  BY SessionAssumption DEF BreakOff, Mishap, TypeOK
<1>3. /\ flight' \in [Client -> {"none", "open", "broken"}]
      /\ \A g \in Client : InTheAir(g)' <=> InTheAir(g)
  BY <1>1 DEF TypeOK, InTheAir
<1>4. TypeOK'
  BY <1>1, <1>2, <1>3, SessionAssumption DEF TypeOK, Token, server, Client
<1>5. OneRefresh' /\ NewIsIssued' /\ NotYet' /\ Apart'
  BY <1>1, <1>3 DEF OneRefresh, NewIsIssued, NotYet, Apart, KeptApart, Token, server, Client
<1>6. Attended' /\ Good' /\ SessionSurvives'
  BY <1>2 DEF Attended, Good, SessionSurvives
<1> QED
  BY <1>4, <1>5, <1>6

-----------------------------------------------------------------------------
(* A reply arrives: the refresh is over, and nobody waits for it any more. *)
LEMMA LandInv ==
    ASSUME IInv, NEW f \in Client, Replied(f), SetCookies(f),
           flight' = [flight EXCEPT ![f] = "none"], UNCHANGED <<server, job, history>>
    PROVE  /\ flight' \in [Client -> {"none", "open", "broken"}]
           /\ rt' \in Token /\ at' \in Token
           /\ Given(f) \in Token
           /\ \A g \in Client : InTheAir(g)' <=> (g # f /\ InTheAir(g))
           /\ (NewIsIssued /\ Lone)'
<1> USE DEF IInv, Shape, Lone
<1>1. /\ flight' \in [Client -> {"none", "open", "broken"}]
      /\ \A g \in Client : flight'[g] = IF g = f THEN "none" ELSE flight[g]
  BY DEF TypeOK
<1>2. \A g \in Client : InTheAir(g)' <=> (g # f /\ InTheAir(g))
  BY <1>1 DEF InTheAir
<1>3. rt' \in Token /\ at' \in Token
  BY CookiesAreTokens
<1>4. Given(f) \in Token
  BY DEF Given, NewIsIssued, TypeOK, Token
<1>5. NewIsIssued'
  BY DEF NewIsIssued, Token, server
<1>6. InTheAir(f)
  BY DEF Replied, InTheAir
<1>7. Apart'
  BY <1>2 DEF Apart, KeptApart, history
<1>8. ~overlap => \A g \in Client : ~InTheAir(g)'
  BY <1>2, <1>6, Alone
<1>9. Good'
  BY <1>8 DEF Good, history
<1>10. ASSUME mishaps = 0
       PROVE  flight[f] = "open" /\ job[f].at \in Replies /\ Heard(f) = job[f].at
  BY <1>10 DEF Attended, Replied, Heard
<1>11. Attended'
  BY <1>1, <1>10 DEF Attended, server, history, Replies, Served
<1>12. ASSUME ~overlap, mishaps = 0 PROVE ~alarm /\ Kept'
  <2>1. Right(f) /\ ~alarm
    BY <1>6, <1>12 DEF Good, SessionSurvives
  <2>2. live' = live /\ aged' = aged
    BY DEF server
  <2>3. CASE job[f].at = "ok"
    <3>1. rt' = job[f].new /\ job[f].new \in live
      BY <1>10, <1>12, <2>1, <2>3 DEF SetCookies, TakeCookies, Right
    <3> QED
      BY <2>1, <2>2, <3>1 DEF Kept
  <2>4. CASE job[f].at = "refused"
    <3>1. rt' = 0 /\ \E n \in live : n \in aged
      BY <1>10, <1>12, <2>1, <2>4 DEF SetCookies, TakeCookies, Right
    <3> QED
      BY <2>1, <2>2, <3>1 DEF Kept
  <2>5. CASE job[f].at = "failed"
    <3>1. rt' = rt /\ Kept
      BY <1>10, <1>12, <2>1, <2>5 DEF SetCookies, Right
    <3> QED
      BY <2>1, <2>2, <3>1 DEF Kept
  <2> QED
    BY <1>10, <1>12, <2>3, <2>4, <2>5 DEF Replies
<1>13. SessionSurvives'
  BY <1>12 DEF SessionSurvives, Kept, history
<1> QED
  BY <1>1, <1>2, <1>3, <1>4, <1>5, <1>7, <1>9, <1>11, <1>13

LEMMA FinishHydrateInv ==
    ASSUME IInv, NEW t \in Tab, FinishHydrate(t)
    PROVE  IInv'
<1> USE DEF IInv, Shape
<1>1. t \in Client /\ t \notin Call
  BY SessionAssumption DEF Client
<1>2. /\ flight' \in [Client -> {"none", "open", "broken"}]
      /\ rt' \in Token /\ at' \in Token /\ Given(t) \in Token
      /\ \A g \in Client : InTheAir(g)' <=> (g # t /\ InTheAir(g))
      /\ (NewIsIssued /\ Lone)'
  BY <1>1, LandInv DEF FinishHydrate
<1>3. UNCHANGED <<server, call, job, history>> /\ tab' = [tab EXCEPT ![t].token = Given(t)]
  BY DEF FinishHydrate
<1>4. tab' \in [Tab -> [open : BOOLEAN, token : Token, refreshing : BOOLEAN]]
      /\ \A u \in Tab : tab'[u].refreshing = tab[u].refreshing /\ tab'[u].open = tab[u].open
  BY <1>2, <1>3 DEF TypeOK
<1>5. \A c \in Call : InTheAir(c)' <=> InTheAir(c)
  BY <1>1, <1>2 DEF Client
<1>6. TypeOK'
  BY <1>2, <1>3, <1>4, <1>5, SessionAssumption DEF TypeOK, Token, server, history
<1>7. OneRefresh' /\ NotYet'
  BY <1>2, <1>3, <1>4 DEF OneRefresh, NotYet, Client
<1> QED
  BY <1>2, <1>6, <1>7

LEMMA FinishRefreshInv ==
    ASSUME IInv, NEW c \in Call, FinishRefresh(c)
    PROVE  IInv'
<1> USE DEF IInv, Shape
<1> DEFINE t == TabOf[c]
<1>1. t \in Tab /\ c \in Client /\ c \notin Tab
  BY SessionAssumption DEF Client
<1>2. /\ flight' \in [Client -> {"none", "open", "broken"}]
      /\ rt' \in Token /\ at' \in Token /\ Given(c) \in Token
      /\ \A g \in Client : InTheAir(g)' <=> (g # c /\ InTheAir(g))
      /\ (NewIsIssued /\ Lone)'
  BY <1>1, LandInv DEF FinishRefresh
<1>3. /\ UNCHANGED <<server, job, history>>
      /\ tab' = [tab EXCEPT ![t].token = Given(c), ![t].refreshing = FALSE]
      /\ call' = [d \in Call |->
             IF d \notin Woken(c) THEN call[d]
             ELSE IF Given(c) # 0 THEN [call[d] EXCEPT !.at = "sent", !.token = Given(c)]
                                  ELSE [call[d] EXCEPT !.at = "failed"]]
  BY DEF FinishRefresh
<1>4. /\ tab' \in [Tab -> [open : BOOLEAN, token : Token, refreshing : BOOLEAN]]
      /\ \A u \in Tab : /\ tab'[u].refreshing <=> u # t /\ tab[u].refreshing
                        /\ tab'[u].open = tab[u].open
  <2> DEFINE n == Given(c)
             r == [tab[t] EXCEPT !.token = n, !.refreshing = FALSE]
  <2>1. tab \in [Tab -> [open : BOOLEAN, token : Token, refreshing : BOOLEAN]] /\ n \in Token
    BY <1>2 DEF TypeOK
  <2>2. tab' = [tab EXCEPT ![t].token = n, ![t].refreshing = FALSE]
    BY <1>3
  <2> HIDE DEF n, t
  <2>3. /\ r \in [open : BOOLEAN, token : Token, refreshing : BOOLEAN]
        /\ r.refreshing = FALSE /\ r.open = tab[t].open
    BY <1>1, <2>1
  <2>4. tab' = [tab EXCEPT ![t] = r]
    BY <1>1, <2>1, <2>2
  <2> HIDE DEF r
  <2>5. \A u \in Tab : tab'[u] = IF u = t THEN r ELSE tab[u]
    BY <2>1, <2>4
  <2> QED
    BY <1>1, <2>1, <2>3, <2>4, <2>5
<1>5. \A d \in Call :
          /\ call'[d] \in ApiCall
          /\ d \notin Woken(c) => call'[d] = call[d]
          /\ d \in Woken(c) => call'[d].at \in {"sent", "failed"}
  <2>1. Given(c) \in Nat
    BY <1>2 DEF Token, TypeOK
  <2> SUFFICES ASSUME NEW d \in Call
               PROVE  /\ call'[d] \in ApiCall
                      /\ d \notin Woken(c) => call'[d] = call[d]
                      /\ d \in Woken(c) => call'[d].at \in {"sent", "failed"}
    OBVIOUS
  <2>2. call[d] \in ApiCall
    BY DEF TypeOK
  <2>3. /\ [call[d] EXCEPT !.at = "sent", !.token = Given(c)] \in ApiCall
        /\ [call[d] EXCEPT !.at = "sent", !.token = Given(c)].at = "sent"
        /\ [call[d] EXCEPT !.at = "failed"] \in ApiCall
        /\ [call[d] EXCEPT !.at = "failed"].at = "failed"
    BY <2>1, <2>2 DEF ApiCall
  <2> QED
    BY <1>3, <2>2, <2>3
<1>6. call' \in [Call -> ApiCall]
  BY <1>3, <1>5
<1>7. call[c].at = "refreshing" /\ InTheAir(c)
  BY <1>1 DEF FinishRefresh, Replied, InTheAir, TypeOK
<1>8. \A d \in Call : d \in Woken(c) <=> d = c \/ (TabOf[d] = t /\ call[d].at = "waiting")
  BY DEF Woken
<1>9. ASSUME NEW d \in Call
      PROVE  /\ call'[d].at = "refreshing" <=> InTheAir(d)'
             /\ call'[d].at \in {"waiting", "refreshing"} => tab'[TabOf[d]].refreshing
  <2>1. d \in Client /\ TabOf[d] \in Tab
    BY SessionAssumption DEF Client
  <2>2. CASE d \in Woken(c)
    BY <1>2, <1>5, <1>8, <2>1, <2>2 DEF TypeOK
  <2>3. CASE d \notin Woken(c)
    BY <1>2, <1>4, <1>5, <1>7, <1>8, <2>1, <2>3 DEF TypeOK, OneRefresh
  <2> QED
    BY <2>2, <2>3
<1>10. TypeOK'
  BY <1>2, <1>3, <1>4, <1>6, <1>9 DEF TypeOK, Token, server, history
<1>11. OneRefresh'
  BY <1>5 DEF OneRefresh
<1>12. NotYet'
  BY <1>2, <1>4 DEF NotYet, Client
<1> QED
  BY <1>2, <1>10, <1>11, <1>12

LEMMA StepInv == IInv /\ [Next]_vars => IInv'
<1> SUFFICES ASSUME IInv, [Next]_vars PROVE IInv'
  OBVIOUS
<1> QED
  BY QuietSteps, OpenTabInv, HandleDeniedInv, ServeInv, BreakOffInv, FinishHydrateInv,
     FinishRefreshInv DEF Next, Proceed

LEMMA Inductive == Spec => []IInv
<1>1. Init => IInv
  BY InitInv
<1>2. IInv /\ [Next]_vars => IInv'
  BY StepInv
<1> QED
  BY <1>1, <1>2, PTL DEF Spec

-----------------------------------------------------------------------------
(* One session: of the refreshes that passed the look-up one at most is    *)
(* under way, and until it is given its pair it holds the only token that  *)
(* is good, or there is none.                                              *)
Passing == {"valid", "revoked", "checked"}

Single ==
    ~raced =>
        /\ \A m, n \in live : m = n
        /\ \A f, g \in Client : job[f].at \in Passing /\ job[g].at \in Passing => f = g
        /\ \A f \in Client :
            /\ job[f].at = "valid" => live \subseteq {job[f].old}
            /\ job[f].at \in {"revoked", "checked"} => live = {}

(* Steps that neither pass the look-up, rotate nor issue.                  *)
LEMMA SingleKept ==
    ASSUME Single, live' \subseteq live, raced' = raced,
           \A f \in Client : job'[f] = job[f] \/ job'[f].at \notin Passing
    PROVE  Single'
BY DEF Single, Passing

LEMMA SingleServed ==
    ASSUME IInv, Single, NEW f \in Client, Serve(f) \/ ApiFails(f)
    PROVE  Single'
<1>1. job \in [Client -> Refresh] /\ job[f] \in Refresh /\ raced \in BOOLEAN
  BY DEF IInv, Shape, TypeOK
<1>2. ASSUME NEW from, NEW to, Step(f, from, to)
      PROVE  /\ job[f].at = from /\ job'[f].at = to /\ job'[f].old = job[f].old
             /\ \A g \in Client : g # f => job'[g] = job[g]
  BY <1>1, <1>2 DEF Step, Refresh
<1>3. CASE NoCookie(f)
  <2>1. Step(f, "sent", "failed") /\ live' = live /\ raced' = raced
    BY <1>3 DEF NoCookie, server, history
  <2>2. \A g \in Client : job'[g] = job[g] \/ job'[g].at \notin Passing
    BY <1>2, <2>1 DEF Passing
  <2> QED
    BY <2>1, <2>2, SingleKept
<1>4. CASE LookUp(f)
  <2> DEFINE old == job[f].old
             place == IF old \notin live THEN "replayed"
                      ELSE IF old \in aged THEN "refused" ELSE "valid"
  <2>1. Step(f, "sent", place) /\ live' = live
        /\ raced' = (raced \/ \E g \in Client : job'[f].at = "valid" /\ Passed(g, old))
    BY <1>4 DEF LookUp, server
  <2>2. place \in {"replayed", "refused", "valid"}
        /\ (place = "valid" => old \in live)
    OBVIOUS
  <2> HIDE DEF place
  <2>3. /\ job[f].at = "sent" /\ job'[f].at = place /\ job'[f].old = old
        /\ \A g \in Client : g # f => job'[g] = job[g]
    BY <1>2, <2>1, <2>2
  <2>4. CASE place # "valid"
    <3>1. raced' = raced /\ \A g \in Client : job'[g] = job[g] \/ job'[g].at \notin Passing
      BY <1>1, <2>1, <2>2, <2>3, <2>4 DEF Passing
    <3> QED
      BY <2>1, <3>1, SingleKept
  <2>5. CASE place = "valid"
    <3> SUFFICES ASSUME ~raced' PROVE Single'
      BY DEF Single
    <3>1. ~raced /\ \A g \in Client : ~Passed(g, old)
      BY <2>1, <2>3, <2>5
    <3>2. \A g \in Client : job[g].at \notin Passing
      BY <2>2, <2>5, <3>1 DEF Single, Passed, Passing
    <3>3. \A g \in Client : g # f => job'[g].at \notin Passing
      BY <2>3, <3>2
    <3>4. /\ \A m, n \in live' : m = n
          /\ live' \subseteq {job'[f].old}
      BY <2>1, <2>2, <2>3, <2>5, <3>1 DEF Single
    <3> QED
      BY <2>3, <2>5, <3>3, <3>4 DEF Single, Passing
  <2> QED
    BY <2>4, <2>5
<1>5. CASE RevokeAll(f)
  <2>1. Step(f, "replayed", "refused") /\ live' = {} /\ raced' = raced
    BY <1>5 DEF RevokeAll
  <2>2. \A g \in Client : job'[g] = job[g] \/ job'[g].at \notin Passing
    BY <1>2, <2>1 DEF Passing
  <2> QED
    BY <2>1, <2>2, SingleKept
<1>6. CASE Rotate(f)
  <2>1. Step(f, "valid", "revoked") /\ live' = live \ {job[f].old} /\ raced' = raced
    BY <1>6 DEF Rotate, history
  <2>2. /\ job[f].at = "valid" /\ job'[f].at = "revoked"
        /\ \A g \in Client : g # f => job'[g] = job[g]
    BY <1>2, <2>1
  <2> QED
    BY <2>1, <2>2 DEF Single, Passing
<1>7. CASE CheckUser(f)
  <2> DEFINE place == IF active THEN "checked" ELSE "refused"
  <2>1. Step(f, "revoked", place) /\ live' = live /\ raced' = raced
    BY <1>7 DEF CheckUser, server, history
  <2>2. place \in {"checked", "refused"}
    OBVIOUS
  <2> HIDE DEF place
  <2>3. /\ job[f].at = "revoked" /\ job'[f].at = place
        /\ \A g \in Client : g # f => job'[g] = job[g]
    BY <1>2, <2>1, <2>2
  <2> QED
    BY <2>1, <2>2, <2>3 DEF Single, Passing
<1>8. CASE Issue(f)
  <2>1. /\ job[f].at = "checked" /\ live' = live \cup {issued + 1} /\ raced' = raced
        /\ \A g \in Client : g # f => job'[g] = job[g]
        /\ job'[f].at = "ok"
    BY <1>1, <1>8 DEF Issue, Refresh, history
  <2> QED
    BY <2>1 DEF Single, Passing
<1>9. CASE ApiFails(f)
  <2>1. /\ live' = live /\ raced' = raced
        /\ \A g \in Client : g # f => job'[g] = job[g]
        /\ job'[f].at \in {"refused", "failed"}
    BY <1>1, <1>9 DEF ApiFails, server, Refresh
  <2>2. \A g \in Client : job'[g] = job[g] \/ job'[g].at \notin Passing
    BY <2>1 DEF Passing
  <2> QED
    BY <2>1, <2>2, SingleKept
<1> QED
  BY <1>3, <1>4, <1>5, <1>6, <1>7, <1>8, <1>9 DEF Serve

LEMMA SingleStep == IInv /\ Single /\ [Next]_vars => Single'
<1> SUFFICES ASSUME IInv, Single, [Next]_vars PROVE Single'
  OBVIOUS
<1>1. job \in [Client -> Refresh]
  BY DEF IInv, Shape, TypeOK
<1>2. ASSUME UNCHANGED <<job, raced>>, live' \subseteq live
      PROVE  Single'
  BY <1>2, SingleKept
<1>3. ASSUME NEW f \in Client, StartRefresh(f), live' = live, raced' = raced
      PROVE  Single'
  <2>1. \A g \in Client : job'[g] = job[g] \/ job'[g].at = "sent"
    BY <1>1, <1>3 DEF StartRefresh
  <2>2. \A g \in Client : job'[g] = job[g] \/ job'[g].at \notin Passing
    BY <2>1 DEF Passing
  <2> QED
    BY <1>3, <2>2, SingleKept
<1>4. CASE UNCHANGED vars
  BY <1>2, <1>4 DEF vars, server, history
<1>5. ASSUME NEW t \in Tab, OpenTab(t) PROVE Single'
  BY <1>2, <1>3, <1>5 DEF OpenTab, server, Client
<1>6. ASSUME NEW t \in Tab, FinishHydrate(t) PROVE Single'
  BY <1>2, <1>6 DEF FinishHydrate, server, history
<1>7. ASSUME NEW c \in Call, Send(c) \/ Answer(c) PROVE Single'
  BY <1>2, <1>7 DEF Send, Answer, server, history
<1>8. ASSUME NEW c \in Call, HandleDenied(c) PROVE Single'
  BY <1>2, <1>3, <1>8 DEF HandleDenied, server, Client
<1>9. ASSUME NEW c \in Call, FinishRefresh(c) PROVE Single'
  BY <1>2, <1>9 DEF FinishRefresh, server, history
<1>10. ASSUME NEW n \in 1..issued, AccessExpires(n) \/ RefreshExpires(n) PROVE Single'
  BY <1>2, <1>10 DEF AccessExpires, RefreshExpires, history
<1>11. ASSUME NEW f \in Client, BreakOff(f) PROVE Single'
  BY <1>2, <1>11 DEF BreakOff, server
<1>12. CASE RevokeElsewhere \/ ToggleActive
  BY <1>2, <1>12 DEF RevokeElsewhere, ToggleActive
<1> QED
  BY <1>4, <1>5, <1>6, <1>7, <1>8, <1>9, <1>10, <1>11, <1>12, SingleServed
     DEF Next, Proceed

-----------------------------------------------------------------------------
(* Steps that leave the flags of the tabs alone keep every owner, or give  *)
(* up a refresh no call owns.                                              *)
LEMMA OwnerKept ==
    ASSUME QueueHasAnOwner, NEW NotCalls, NotCalls \cap Call = {},
           \A t \in Tab : tab'[t].refreshing = tab[t].refreshing,
           \A f \in Client : f \notin NotCalls /\ InTheAir(f) => InTheAir(f)'
    PROVE  QueueHasAnOwner'
BY DEF QueueHasAnOwner, Client

LEMMA OwnerStep == IInv /\ QueueHasAnOwner /\ [Next]_vars => QueueHasAnOwner'
<1> SUFFICES ASSUME IInv, QueueHasAnOwner, [Next]_vars PROVE QueueHasAnOwner'
  OBVIOUS
<1>1. /\ flight \in [Client -> {"none", "open", "broken"}]
      /\ Call \subseteq Client /\ Tab \subseteq Client
      /\ tab \in [Tab -> [open : BOOLEAN, token : Token, refreshing : BOOLEAN]]
      /\ \A c \in Call : TabOf[c] \in Tab
      /\ Tab \cap Call = {}
  BY SessionAssumption DEF IInv, Shape, TypeOK, Client
<1>2. ASSUME UNCHANGED <<tab, flight>> PROVE QueueHasAnOwner'
  BY <1>2 DEF QueueHasAnOwner, InTheAir
<1>3. ASSUME NEW f \in Client, StartRefresh(f)
      PROVE  InTheAir(f)' /\ \A g \in Client : InTheAir(g) => InTheAir(g)'
  BY <1>1, <1>3 DEF StartRefresh, InTheAir
<1>4. CASE UNCHANGED vars
  BY <1>2, <1>4 DEF vars
<1>5. ASSUME NEW t \in Tab, OpenTab(t) PROVE QueueHasAnOwner'
  <2>1. \A u \in Tab : tab'[u].refreshing = tab[u].refreshing
    BY <1>1, <1>5 DEF OpenTab
  <2>2. UNCHANGED flight \/ StartRefresh(t)
    BY <1>5 DEF OpenTab
  <2>3. \A f \in Client : InTheAir(f) => InTheAir(f)'
    BY <1>1, <1>3, <2>2 DEF InTheAir
  <2>4. {} \cap Call = {}
    OBVIOUS
  <2> QED
    BY <2>1, <2>3, <2>4, OwnerKept
<1>6. ASSUME NEW t \in Tab, FinishHydrate(t) PROVE QueueHasAnOwner'
  <2>1. \A u \in Tab : tab'[u].refreshing = tab[u].refreshing
    BY <1>1, <1>6 DEF FinishHydrate
  <2>2. \A f \in Client : f \notin {t} /\ InTheAir(f) => InTheAir(f)'
    BY <1>1, <1>6 DEF FinishHydrate, InTheAir
  <2>3. {t} \cap Call = {}
    BY <1>1
  <2> QED
    BY <2>1, <2>2, <2>3, OwnerKept
<1>7. ASSUME NEW c \in Call, Send(c) \/ Answer(c) PROVE QueueHasAnOwner'
  BY <1>2, <1>7 DEF Send, Answer
<1>8. ASSUME NEW c \in Call, HandleDenied(c) PROVE QueueHasAnOwner'
  <2>1. CASE UNCHANGED <<tab, flight>>
    BY <1>2, <2>1
  <2>2. CASE /\ tab' = [tab EXCEPT ![TabOf[c]].refreshing = TRUE]
             /\ StartRefresh(c)
    <3>1. InTheAir(c)' /\ \A f \in Client : InTheAir(f) => InTheAir(f)'
      BY <1>1, <1>3, <2>2
    <3>2. \A u \in Tab : u # TabOf[c] => tab'[u].refreshing = tab[u].refreshing
      BY <1>1, <2>2
    <3> QED
      BY <1>1, <3>1, <3>2 DEF QueueHasAnOwner
  <2> QED
    BY <1>8, <2>1, <2>2 DEF HandleDenied
<1>9. ASSUME NEW c \in Call, FinishRefresh(c) PROVE QueueHasAnOwner'
  <2>1. \A u \in Tab : IF u = TabOf[c] THEN ~tab'[u].refreshing
                                       ELSE tab'[u].refreshing = tab[u].refreshing
    BY <1>1, <1>9 DEF FinishRefresh
  <2>2. \A d \in Call : d # c /\ InTheAir(d) => InTheAir(d)'
    BY <1>1, <1>9 DEF FinishRefresh, InTheAir
  <2> QED
    BY <1>1, <2>1, <2>2 DEF QueueHasAnOwner
<1>10. ASSUME NEW f \in Client, BreakOff(f) PROVE QueueHasAnOwner'
  <2>1. \A t \in Tab : tab'[t].refreshing = tab[t].refreshing
    BY <1>10 DEF BreakOff
  <2>2. \A g \in Client : g \notin {} /\ InTheAir(g) => InTheAir(g)'
    BY <1>1, <1>10 DEF BreakOff, InTheAir
  <2>3. {} \cap Call = {}
    OBVIOUS
  <2> QED
    BY <2>1, <2>2, <2>3, OwnerKept
<1>11. ASSUME NEW f \in Client, Serve(f) \/ ApiFails(f) PROVE QueueHasAnOwner'
  BY <1>2, <1>11
     DEF Serve, NoCookie, LookUp, RevokeAll, Rotate, CheckUser, Issue, ApiFails
<1>12. ASSUME NEW n \in 1..issued, AccessExpires(n) \/ RefreshExpires(n) PROVE QueueHasAnOwner'
  BY <1>2, <1>12 DEF AccessExpires, RefreshExpires
<1>13. CASE RevokeElsewhere \/ ToggleActive
  BY <1>2, <1>13 DEF RevokeElsewhere, ToggleActive
<1> QED
  BY <1>4, <1>5, <1>6, <1>7, <1>8, <1>9, <1>10, <1>11, <1>12, <1>13 DEF Next, Proceed

-----------------------------------------------------------------------------
(* Every reachable state is well typed: a call refreshes exactly while its *)
(* refresh is in the air, and nobody waits in a tab that is not            *)
(* refreshing.                                                             *)
THEOREM SessionTypesAlways == Spec => []TypeOK
<1>1. IInv => TypeOK
  BY DEF IInv, Shape
<1> QED
  BY <1>1, Inductive, PTL

(* The queue of a tab is enough to keep its calls from using a refresh     *)
(* token twice, for any number of tabs and calls.  Unless a refresh it     *)
(* does not know of met its own, a request broke, the API refused it for a *)
(* reason of its own or something was done elsewhere, the user stays       *)
(* signed in until the token's seven days are over.                        *)
THEOREM SessionSurvivesAlways == Spec => []SessionSurvives
<1>1. IInv => SessionSurvives
  BY DEF IInv, Lone
<1> QED
  BY <1>1, Inductive, PTL

(* One sign-in is one session for any number of tabs and calls, wherever   *)
(* refreshes break off or fail and whatever servers go on with: two good   *)
(* tokens are left only by two look-ups of one token before either revoked *)
(* it.                                                                     *)
THEOREM OneSessionAlways == Spec => []OneSession
<1>1. Init => Single
  BY DEF Init, Single, Passing
<1>2. Single => OneSession
  BY DEF Single, OneSession
<1> QED
  BY <1>1, <1>2, Inductive, SingleStep, PTL DEF Spec

(* In any number of tabs the flag that makes denied calls wait is set only *)
(* while a call of the tab has a refresh in the air, whose end resets it   *)
(* and wakes them: no queue is left without an owner.                      *)
THEOREM QueueHasAnOwnerAlways == Spec => []QueueHasAnOwner
<1>1. Init => QueueHasAnOwner
  BY DEF Init, QueueHasAnOwner
<1> QED
  BY <1>1, Inductive, OwnerStep, PTL DEF Spec
=============================================================================
