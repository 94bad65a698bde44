------------------------------ MODULE Nav20Web ------------------------------
(***************************************************************************)
(* IdmNavigator20WebClient (idm_heatpump/web.py): tasks that read the PHP  *)
(* pages of a Navigator 2.0 over one HTTP session.  A login looks for the  *)
(* variant of the form the firmware wants and for the pages it serves, and *)
(* holds self._lock; reads do not, and log in again when a token or the    *)
(* session has expired.  A login that fails calls close().                 *)
(*                                                                         *)
(* A step is what a task does between two suspensions; job[t].at names the *)
(* await at which task t is suspended.  The operators pass on j, the       *)
(* task's own state, and w, the client's, until Commit.                    *)
(***************************************************************************)
EXTENDS Naturals, Sequences, FiniteSets

CONSTANTS
    Task,             \* the tasks that use the client
    Calls,            \* the calls each task makes: [Task -> SUBSET CallKinds]
    Pages,            \* the endpoints, by the order they are probed and read in
    Forms, Fields,    \* login paths, and field names tried on each of them
    Accepts,          \* the variant this firmware accepts
    ExternalSession,  \* was the HTTP session passed in by the caller?
    Controllers,      \* those the client may meet, see Box
    MaxCancels,       \* bound: cancellations in a behaviour
    NoTask

CallKinds == {"login", "read", "statistics", "clock", "close"}
Variants == Forms * Fields

(* A controller.  pin: is the configured PIN right?  refusals: how does it *)
(* refuse a session, by a status 401 or by its login page?  front: which   *)
(* of the two start pages does it serve to anybody?  odd: may it answer a  *)
(* login it does not understand with any other text, as a 404 page is?     *)
Box == [pin : BOOLEAN, refusals : (SUBSET {"denied", "form"}) \ {{}},
        front : SUBSET {1, 2}, odd : BOOLEAN]

ASSUME Nav20Assumption ==
    /\ Pages \subseteq Nat /\ IsFiniteSet(Pages) /\ Pages # {}
    /\ Forms \in Nat \ {0} /\ Fields \in Nat \ {0}
    /\ Accepts \in 1 .. Variants
    /\ ExternalSession \in BOOLEAN
    /\ Controllers \subseteq Box
    /\ MaxCancels \in Nat
    /\ Calls \in [Task -> SUBSET CallKinds]
    /\ NoTask \notin Task

VARIABLES
    job,      \* each task's call: where it is, and the locals of its coroutine
    web,      \* the client's own state
    holder,   \* the task that holds self._lock
    waiters,  \* the tasks queued for self._lock
    cookie,   \* does the controller know our session?
    box,      \* the controller
    up,       \* is it reachable?
    calm,     \* nothing but one expiry has disturbed the task's call, see Begin
    spare,    \* not even that one
    torn,     \* a close() met a login under way, or dropped a later session
    cancels   \* cancellations so far

history == <<calm, spare, torn>>
vars == <<job, web, holder, waiters, cookie, box, up, history, cancels>>

LoginSteps == {"initial", "post", "probe"}

(* form is _login_form_returned, denied says that _auth_error is set.      *)
Web == [session : {"none", "own", "closing", "external"},
        token : {"none", "good", "stale"},
        paths : SUBSET Pages, probes : SUBSET Pages,
        form : BOOLEAN, denied : BOOLEAN]

(* at: the await.  goal: what the login is for.  k: the variable of the    *)
(* login's loops.  todo: pages still to read.  found: pages the login has  *)
(* confirmed.  probed: use_probe_responses.  csrf, auth: a login was made  *)
(* again for it.  answered: a statistics page was.  live: the session of   *)
(* the request under way is still open.  logins: made by this call.        *)
Job == [at : {"idle", "lock", "get", "put", "closing"} \cup LoginSteps,
        call : CallKinds, goal : {"first", "csrf", "auth"},
        k : 0 .. Variants + Fields + Cardinality(Pages),
        todo : SUBSET Pages, found : SUBSET Pages,
        probed : BOOLEAN, csrf : BOOLEAN, auth : BOOLEAN, answered : BOOLEAN,
        live : BOOLEAN, logins : 0 .. 3,
        result : {"none", "ok", "pin", "csrf", "failed", "broken", "cancelled"}]

TypeOK ==
    /\ job \in [Task -> Job]
    /\ web \in Web
    /\ holder \in Task \cup {NoTask}
    /\ waiters \in Seq(Task)
    /\ {cookie, up, torn} \subseteq BOOLEAN
    /\ box \in Controllers
    /\ calm \in [Task -> BOOLEAN] /\ spare \in [Task -> BOOLEAN]
    /\ cancels \in 0 .. MaxCancels

Fresh == [at |-> "idle", call |-> "login", goal |-> "first", k |-> 0,
          todo |-> {}, found |-> {}, probed |-> FALSE, csrf |-> FALSE,
          auth |-> FALSE, answered |-> FALSE, live |-> FALSE, logins |-> 0,
          result |-> "ok"]

Init ==
    /\ job = [t \in Task |-> Fresh]
    /\ web = [session |-> IF ExternalSession THEN "external" ELSE "none",
              token |-> "none", paths |-> {}, probes |-> {},
              form |-> FALSE, denied |-> FALSE]
    /\ holder = NoTask
    /\ waiters = <<>>
    /\ cookie = FALSE
    /\ box \in Controllers
    /\ up \in BOOLEAN
    /\ calm = [t \in Task |-> FALSE]
    /\ spare = [t \in Task |-> FALSE]
    /\ torn = FALSE
    /\ cancels = 0

-----------------------------------------------------------------------------
(* The end of a step.  A session that is closed takes its requests along.  *)

Open(w) == w.session \in {"own", "external"}

Commit(t, j, w) ==
    /\ web' = w
    /\ job' = [u \in Task |->
                 IF u = t THEN j
                 ELSE [job[u] EXCEPT !.live = @ /\ (Open(w) \/ ~Open(web))]]

Ended(j, r) == [Fresh EXCEPT !.call = j.call, !.result = r]

(* A call of read_data() that ends forgets the answers to the probes.      *)
Return(t, j, w, r) ==
    Commit(t, Ended(j, r),
           IF j.call = "read" THEN [w EXCEPT !.probes = {}] ELSE w)

-----------------------------------------------------------------------------
(* read_data() and read_statistics(): on to the next page.  Pages answered *)
(* by the login's probes need no request.                                  *)

First(S) == CHOOSE p \in S : \A q \in S : p <= q

PagesDone(t, j, w) ==
    Return(t, j, w, IF j.call = "statistics" /\ ~j.answered THEN "failed" ELSE "ok")

NextPage(t, j, w) ==
    LET asked == IF j.probed THEN j.todo \ w.probes ELSE j.todo
        popped == {p \in j.todo \ asked : \A q \in asked : p < q}
    IN  \/ asked = {} /\ PagesDone(t, j, w)
        \/ /\ asked # {} /\ Open(w)
           /\ Commit(t, [j EXCEPT !.at = "get", !.live = TRUE, !.k = 0,
                                  !.goal = "first", !.todo = @ \ popped],
                     [w EXCEPT !.probes = @ \ popped])
        \/ /\ asked # {} /\ ~Open(w)
           /\ \/ j.call = "statistics" /\ w.session = "none" /\ PagesDone(t, j, w)
              \/ ~(j.call = "statistics" /\ w.session = "none") /\ Return(t, j, w, "failed")

(* read_statistics() skips a page whose re-login failed, unless the PIN is *)
(* to blame.                                                               *)
SkipPage(t, j, w) == NextPage(t, [j EXCEPT !.todo = @ \ {First(@)}], w)

-----------------------------------------------------------------------------
(* close(), after which the call raises r, or is done.                     *)

AfterClose(t, j, w, r) ==
    \/ j.call = "statistics" /\ j.goal = "auth" /\ r = "failed" /\ SkipPage(t, j, w)
    \/ ~(j.call = "statistics" /\ j.goal = "auth" /\ r = "failed") /\ Return(t, j, w, r)

Forgets(w) == [w EXCEPT !.token = "none", !.paths = {}, !.probes = {},
                        !.form = FALSE, !.denied = FALSE]

KeepsThePaths(t, j, w, r) ==   \* mutant: the session is dropped, the paths are kept
    \/ w.session \in {"none", "external"} /\ AfterClose(t, j, w, r)
    \/ w.session \in {"own", "closing"} /\ AfterClose(t, j, [w EXCEPT !.session = "none"], r)

Close(t, j, w, r) ==
    \/ w.session \in {"none", "external"} /\ AfterClose(t, j, Forgets(w), r)
    \/ /\ w.session \in {"own", "closing"}
       /\ AfterClose(t, j, [Forgets(w) EXCEPT !.session = "none"], r)
    \/ /\ w.session = "own"
       /\ Commit(t, [j EXCEPT !.at = "closing", !.result = r],
                 [Forgets(w) EXCEPT !.session = "closing"])

-----------------------------------------------------------------------------
(* login(), under the lock, up to its end.                                 *)

AfterLogin(t, j, w) ==
    \/ j.call = "login" /\ Return(t, j, w, "ok")
    \/ /\ j.call = "clock"
       /\ \/ Open(w) /\ Commit(t, [j EXCEPT !.at = "put", !.live = TRUE], w)
          \/ ~Open(w) /\ Return(t, j, w, "failed")
    \/ /\ j.call = "read" /\ w.session = "none"
       /\ \/ j.goal = "first" /\ Commit(t, Ended(j, "failed"), w)
          \/ j.goal # "first" /\ NextPage(t, [j EXCEPT !.probed = TRUE], w)
    \/ /\ j.call = "read" /\ w.session # "none"
       /\ NextPage(t, [j EXCEPT !.probed = TRUE,
                                !.todo = IF j.goal = "first" THEN w.paths ELSE @], w)
    \/ j.call = "statistics" /\ NextPage(t, j, w)

BlamesTheNetwork(t, j, w) ==   \* mutant: the answer 401 to the login is not kept
    \/ j.found = {} /\ Close(t, j, w, "failed")
    \/ j.found # {} /\ AfterLogin(t, [j EXCEPT !.found = {}], [w EXCEPT !.paths = j.found])

LoginEnds(t, j, w) ==
    \/ /\ j.found = {}
       /\ Close(t, j, w, IF w.denied \/ w.form THEN "pin" ELSE "failed")
    \/ /\ j.found # {}
       /\ AfterLogin(t, [j EXCEPT !.found = {}], [w EXCEPT !.paths = j.found])

(* The k-th request of a loop of the login.  Without a session each raises *)
(* an IdmWebError, which the loops swallow; on one that is being closed a  *)
(* RuntimeError ("broken"), which neither they nor read_statistics() do.   *)
LoginRequest(t, j, w, where, k) ==
    \/ Open(w) /\ Commit(t, [j EXCEPT !.at = where, !.live = TRUE, !.k = k], w)
    \/ w.session = "none" /\ where # "initial" /\ LoginEnds(t, j, w)
    \/ w.session = "none" /\ where = "initial" /\ Close(t, j, w, "failed")
    \/ w.session = "closing" /\ Close(t, j, w, "broken")

EnterLogin(t, j, w) ==
    /\ cookie' = (cookie /\ w.session # "none")
    /\ LoginRequest(t, [j EXCEPT !.logins = @ + 1],
                    IF w.session = "none" THEN [w EXCEPT !.session = "own"] ELSE w,
                    "initial", 1)

(* The lock is held in the requests of a login and in its close().         *)
Owns(j) == j.at \in LoginSteps \/ (j.at = "closing" /\ j.call # "close")

LockFollows(t) ==
    holder' = IF Owns(job'[t]) THEN t ELSE IF holder = t THEN NoTask ELSE holder

Login(t, j, w) ==
    \/ holder = NoTask /\ waiters = <<>> /\ EnterLogin(t, j, w) /\ UNCHANGED waiters
    \/ /\ ~(holder = NoTask /\ waiters = <<>>)
       /\ Commit(t, [j EXCEPT !.at = "lock"], w)
       /\ waiters' = Append(waiters, t)
       /\ UNCHANGED cookie

-----------------------------------------------------------------------------
(* The calls.                                                              *)

Started(t, c) ==
    [Fresh EXCEPT !.call = c, !.result = "none",
                  !.todo = IF c = "statistics" THEN Pages ELSE {}]

(* A call is calm while the controller stays reachable and nobody cancels  *)
(* or closes, as long as no more than one expiry concerns it and none      *)
(* meets an unconfirmed login, and if no close() has met a login.          *)
Begin(t, c) ==
    /\ job[t].at = "idle"
    /\ c \in Calls[t]
    /\ calm' = [calm EXCEPT ![t] = up /\ ~torn /\ \A u \in Task : job[u].at # "idle" => calm[u]]
    /\ spare' = [spare EXCEPT ![t] = (cookie /\ web.token # "stale") \/ web.paths = {}]
    /\ UNCHANGED <<box, up, torn, cancels>>

Disturbed == calm' = [t \in Task |-> FALSE] /\ UNCHANGED <<box, spare>>

(* connect(), login(), and set_datetime(), which logs in every time.       *)
BeginLogin(t) ==
    \E c \in {"login", "clock"} :
        /\ Begin(t, c)
        /\ Login(t, Started(t, c), web)
        /\ LockFollows(t)

BeginRead(t) ==
    /\ Begin(t, "read")
    /\ \/ /\ web.paths = {}
          /\ Login(t, Started(t, "read"), web)
       \/ /\ web.paths # {}
          /\ UNCHANGED <<waiters, cookie>>
          /\ \/ web.session = "none" /\ Return(t, Started(t, "read"), web, "failed")
             \/ /\ web.session # "none"
                /\ NextPage(t, [Started(t, "read") EXCEPT !.todo = web.paths],
                            [web EXCEPT !.probes = {}])
    /\ LockFollows(t)

BeginStatistics(t) ==
    /\ Begin(t, "statistics")
    /\ \/ web.paths = {} /\ Login(t, Started(t, "statistics"), web)
       \/ /\ web.paths # {}
          /\ NextPage(t, Started(t, "statistics"), web)
          /\ UNCHANGED <<waiters, cookie>>
    /\ LockFollows(t)

(* close() takes no lock.                                                  *)
CloseClient(t) ==
    /\ job[t].at = "idle"
    /\ "close" \in Calls[t]
    /\ Close(t, Started(t, "close"), web, "ok")
    /\ torn' = (torn \/ \E u \in Task : job[u].at \in LoginSteps)
    /\ Disturbed
    /\ UNCHANGED <<holder, waiters, cookie, up, cancels>>

Granted(t) ==
    /\ holder = NoTask
    /\ waiters # <<>>
    /\ t = Head(waiters)
    /\ EnterLogin(t, job[t], web)
    /\ LockFollows(t)
    /\ waiters' = Tail(waiters)
    /\ UNCHANGED <<box, up, history, cancels>>

-----------------------------------------------------------------------------
(* The answers of the controller, or what _request_text raises.            *)

Reached(t) == job[t].live /\ up

GetAnswers(t) ==
    IF ~Reached(t) THEN {"error"}
    ELSE IF ~cookie THEN box.refusals
    ELSE IF web.token = "stale" THEN {"csrf"} ELSE {"data"}

FormOf(k) == (k - 1) \div Fields

Declined(t) ==
    IF ~box.pin THEN box.refusals \cup (IF "form" \in box.refusals THEN {"authreq"} ELSE {})
    ELSE IF FormOf(job[t].k) = FormOf(Accepts) THEN {"empty", "authreq"}
    ELSE {"empty", "form"}

PostAnswers(t) ==
    IF ~Reached(t) THEN {"error"}
    ELSE IF box.pin /\ job[t].k = Accepts THEN {"accepted"}
    ELSE Declined(t) \cup (IF box.odd THEN {"other"} ELSE {})

Answered(t) ==
    /\ LockFollows(t)
    /\ UNCHANGED <<box, up, history, cancels>>

(* _initial_get(): two pages, of which one has to answer with status 200;  *)
(* any other status counts as not reachable.  The token of a login page is *)
(* left out: the answer to the login brings the one in use.                *)
InitialAnswer(t) ==
    /\ job[t].at = "initial"
    /\ UNCHANGED <<waiters, cookie>>
    /\ LET j == job[t]
           served == Reached(t) /\ j.k \in box.front
       IN
        \/ /\ served
           /\ LoginRequest(t, j, [web EXCEPT !.token = "none", !.form = FALSE,
                                             !.denied = FALSE], "post", 1)
        \/ ~served /\ j.k = 1 /\ LoginRequest(t, j, web, "initial", 2)
        \/ ~served /\ j.k = 2 /\ Close(t, j, web, "failed")
    /\ Answered(t)

(* _try_login(): a form that comes back sends it to the next path, a       *)
(* refusal or an empty answer to the next field name, and any other text   *)
(* is taken for success, whatever its status ("other" brings no token and  *)
(* no session); the probes follow in any case.                             *)
TriesOn(t, w, k) ==
    \/ k <= Variants /\ LoginRequest(t, job[t], w, "post", k)
    \/ k > Variants /\ LoginRequest(t, job[t], [w EXCEPT !.probes = {}], "probe", 1)

PostAnswer(t) ==
    /\ job[t].at = "post"
    /\ UNCHANGED waiters
    /\ LET k == job[t].k IN
        \E a \in PostAnswers(t) :
            /\ cookie' = (cookie \/ a = "accepted")
            /\ \/ /\ a = "accepted"
                  /\ LoginRequest(t, job[t], [web EXCEPT !.token = "good", !.form = FALSE,
                                                         !.probes = {}], "probe", 1)
               \/ /\ a = "other"
                  /\ LoginRequest(t, job[t], [web EXCEPT !.form = FALSE, !.probes = {}],
                                  "probe", 1)
               \/ a = "form" /\ TriesOn(t, [web EXCEPT !.form = TRUE], (FormOf(k) + 1) * Fields + 1)
               \/ a = "authreq" /\ TriesOn(t, [web EXCEPT !.form = TRUE], k + 1)
               \/ a = "denied" /\ TriesOn(t, [web EXCEPT !.form = TRUE, !.denied = TRUE], k + 1)
               \/ a \in {"empty", "error"} /\ TriesOn(t, web, k + 1)
    /\ Answered(t)

(* _probe_data_endpoints(): the pages that answer with data are usable.    *)
ProbeAnswer(t) ==
    /\ job[t].at = "probe"
    /\ UNCHANGED <<waiters, cookie>>
    /\ \E a \in GetAnswers(t) :
        LET page == First({p \in Pages : Cardinality({q \in Pages : q < p}) = job[t].k - 1})
            j == IF a = "data" THEN [job[t] EXCEPT !.found = @ \cup {page}] ELSE job[t]
            w == [web EXCEPT !.probes = IF a = "data" THEN @ \cup {page} ELSE @,
                             !.form = @ \/ a \in {"form", "denied", "csrf"},
                             !.denied = @ \/ a \in {"denied", "csrf"}]
        IN  \/ j.k < Cardinality(Pages) /\ LoginRequest(t, j, w, "probe", j.k + 1)
            \/ j.k = Cardinality(Pages) /\ LoginEnds(t, j, w)
    /\ Answered(t)

LogsInForEver(t, goal) ==      \* mutant: the retry is not remembered
    LET w == [web EXCEPT !.token = "none", !.paths = IF goal = "auth" THEN {} ELSE @]
    IN  Login(t, [job[t] EXCEPT !.goal = goal], w)
NeverLogsIn(t, goal) ==        \* mutant: an expired session is not renewed
    /\ Return(t, job[t], web, "failed")
    /\ UNCHANGED <<waiters, cookie>>

(* read_data(): a rejected token and a login page ask for one login each.  *)
LoginAgain(t, goal) ==
    LET w == [web EXCEPT !.token = "none", !.paths = IF goal = "auth" THEN {} ELSE @]
    IN  Login(t, [job[t] EXCEPT !.goal = goal, !.csrf = @ \/ goal = "csrf",
                                !.auth = @ \/ goal = "auth"], w)

Fails(t, r) == Return(t, job[t], web, r) /\ UNCHANGED <<waiters, cookie>>

PageRead(t) ==
    /\ UNCHANGED <<waiters, cookie>>
    /\ NextPage(t, [job[t] EXCEPT !.todo = @ \ {First(@)}, !.answered = TRUE], web)

GetAnswer(t) ==
    /\ job[t].at = "get"
    /\ job[t].call = "read"
    /\ \E a \in GetAnswers(t) :
        \/ a = "data" /\ PageRead(t)
        \/ a = "csrf" /\ ~job[t].csrf /\ LoginAgain(t, "csrf")
        \/ a = "csrf" /\ job[t].csrf /\ Fails(t, "csrf")
        \/ a = "form" /\ ~job[t].auth /\ LoginAgain(t, "auth")
        \/ a = "form" /\ job[t].auth /\ Fails(t, "pin")
        \/ a = "denied" /\ Fails(t, "pin")
        \/ a = "error" /\ Fails(t, "failed")
    /\ Answered(t)

StatisticsLoginAgain(t) ==
    Login(t, [job[t] EXCEPT !.goal = "auth", !.auth = TRUE], web)

(* read_statistics(): any rejection asks for the one login, any other      *)
(* error skips the page.  It keeps token and paths until then.             *)
StatisticsAnswer(t) ==
    /\ job[t].at = "get"
    /\ job[t].call = "statistics"
    /\ \E a \in GetAnswers(t) :
        \/ a = "data" /\ PageRead(t)
        \/ /\ a \in {"csrf", "form", "denied"} /\ ~job[t].auth
           /\ StatisticsLoginAgain(t)
        \/ a \in {"csrf", "form", "denied"} /\ job[t].auth /\ Fails(t, "pin")
        \/ a = "error" /\ SkipPage(t, job[t], web) /\ UNCHANGED <<waiters, cookie>>
    /\ Answered(t)

(* set_datetime(): one PUT, of whose answer it only looks at the status:   *)
(* a login page counts as success.                                         *)
PutAnswer(t) ==
    /\ job[t].at = "put"
    /\ \E a \in GetAnswers(t) :
        Fails(t, IF a \in {"data", "form"} THEN "ok" ELSE IF a = "error" THEN "failed"
                 ELSE IF a = "csrf" THEN "csrf" ELSE "pin")
    /\ Answered(t)

(* The finally of close(): it drops the session the client refers to.      *)
SessionClosed(t) ==
    /\ job[t].at = "closing"
    /\ AfterClose(t, job[t], [web EXCEPT !.session = "none"], job[t].result)
    /\ torn' = (torn \/ web.session = "own")
    /\ LockFollows(t)
    /\ UNCHANGED <<waiters, cookie, box, up, calm, spare, cancels>>

-----------------------------------------------------------------------------
(* Cancellation, and the controller.                                       *)

Cancel(t) ==
    /\ job[t].at # "idle"
    /\ cancels < MaxCancels
    /\ cancels' = cancels + 1
    /\ \/ job[t].at # "lock" /\ UNCHANGED waiters
       \/ \E i \in 1 .. Len(waiters) :
              /\ job[t].at = "lock" /\ waiters[i] = t
              /\ waiters' = [n \in 1 .. Len(waiters) - 1 |->
                                IF n < i THEN waiters[n] ELSE waiters[n + 1]]
    /\ \/ job[t].at \in LoginSteps /\ Close(t, job[t], web, "cancelled")
       \/ job[t].at \in {"lock", "put"} /\ Commit(t, Ended(job[t], "cancelled"), web)
       \/ job[t].at = "get" /\ Return(t, job[t], web, "cancelled")
       \/ /\ job[t].at = "closing"
          /\ Return(t, job[t], [web EXCEPT !.session = "none"], "cancelled")
    /\ LockFollows(t)
    /\ Disturbed
    /\ torn' = (torn \/ (job[t].at = "closing" /\ web.session = "own"))
    /\ UNCHANGED <<cookie, up>>

GoesDown ==
    /\ up
    /\ up' = FALSE
    /\ Disturbed
    /\ UNCHANGED <<job, web, holder, waiters, cookie, torn, cancels>>

ComesUp ==
    /\ ~up
    /\ up' = TRUE
    /\ UNCHANGED <<job, web, holder, waiters, cookie, box, history, cancels>>

(* A login that looks for its first page: the controller has accepted it,  *)
(* but nothing the client knows says so.                                   *)
Unconfirmed(j) == j.at = "probe" /\ j.found = {}

(* The controller forgets the session, or replaces its token.  If a login  *)
(* is unconfirmed, it fails, and blames the PIN: no call stays calm.       *)
Expire ==
    /\ cookie
    /\ spare' = [t \in Task |-> FALSE]
    /\ calm' = [t \in Task |-> calm[t] /\ spare[t]
                                  /\ \A u \in Task : ~Unconfirmed(job[u])]
    /\ \/ cookie' = FALSE /\ UNCHANGED web
       \/ web.token = "good" /\ web' = [web EXCEPT !.token = "stale"] /\ UNCHANGED cookie
    /\ UNCHANGED <<job, holder, waiters, box, up, torn, cancels>>

Next ==
    \/ \E t \in Task :
        \/ BeginLogin(t) \/ BeginRead(t) \/ BeginStatistics(t) \/ CloseClient(t)
        \/ Granted(t)
        \/ InitialAnswer(t) \/ PostAnswer(t) \/ ProbeAnswer(t)
        \/ GetAnswer(t) \/ StatisticsAnswer(t) \/ PutAnswer(t)
        \/ SessionClosed(t)
        \/ Cancel(t)
    \/ GoesDown \/ ComesUp \/ Expire

Spec == Init /\ [][Next]_vars

-----------------------------------------------------------------------------
(* What the client promises.                                               *)

(* A read logs in at most three times: at its beginning, for a rejected    *)
(* token and for an expired session; statistics at most twice (read_data,  *)
(* read_statistics).                                                       *)
LoginsBounded ==
    \A t \in Task :
        job[t].logins <= IF job[t].call = "read" THEN 3
                         ELSE IF job[t].call = "statistics" THEN 2 ELSE 1

(* The client's state has its type, and re-logins come to an end.          *)
Inv == TypeOK /\ LoginsBounded

(* Confirmed pages are only kept together with a session to read them on:  *)
(* otherwise every later read finds pages, does not log in, and fails      *)
(* (read_data, login, close); unless a close() ran during a login, or was  *)
(* still under way when one began.                                         *)
PathsNeedASession == ~torn /\ web.paths # {} => Open(web)

(* With the right PIN, reads succeed, however many run at once and         *)
(* whatever one of them drops to log in again, if no more than one expiry  *)
(* happens in each (read_data, read_statistics, login).  The controller    *)
(* serves a start page, shows its login page when a session has expired,   *)
(* and answers a login it does not understand with nothing or its form.    *)
(* One expiry it does not survive: that between the answer that accepts    *)
(* a login, of any task, and the first page the login confirms             *)
(* (Unconfirmed); login() then blames the PIN.                             *)
HealthyReadsSucceed ==
    \A t \in Task :
        box.front # {} /\ box.pin /\ "denied" \notin box.refusals /\ ~box.odd
        /\ calm[t] /\ job[t].at = "idle" /\ job[t].call \in {"read", "statistics"}
            => job[t].result = "ok"

(* A wrong PIN is reported as such, not as a failed detection, however the *)
(* firmware says so, if it serves a start page (login, _try_login,         *)
(* _probe_data_endpoints).                                                 *)
WrongPinIsNamed ==
    \A t \in Task :
        box.front # {} /\ ~box.pin /\ calm[t] /\ job[t].at = "idle" /\ job[t].call # "close"
            => job[t].result = "pin"
=============================================================================
