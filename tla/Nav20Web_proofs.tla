--------------------------- MODULE Nav20Web_proofs ---------------------------
(***************************************************************************)
(* Proofs about Nav20Web, for any number of tasks, any calls, pages, forms *)
(* and fields of the login, controllers and cancellations.                 *)
(***************************************************************************)
EXTENDS Nav20Web, FiniteSetTheorems, SequenceTheorems, TLAPS

Results == {"none", "ok", "pin", "csrf", "failed", "broken", "cancelled"}

(* How many logins a call may make: one, and one for each it was allowed   *)
(* to make again.                                                          *)
Again(b) == IF b THEN 1 ELSE 0
Budget(j) == IF j.call = "read" THEN 1 + Again(j.csrf) + Again(j.auth)
             ELSE IF j.call = "statistics" THEN 1 + Again(j.auth) ELSE 1

Able(j) ==
    /\ j \in Job
    /\ j.logins <= Budget(j)
    /\ j.call = "statistics" => ~j.probed

(* What the await of a task says of its call.                              *)
Fit(j) ==
    /\ Able(j)
    /\ j.at = "lock" => j.logins < Budget(j)
    /\ j.at \in LoginSteps \cup {"lock"} => j.call # "close"
    /\ j.at = "get" => j.call \in {"read", "statistics"} /\ j.todo # {}
    /\ j.at = "put" => j.call = "clock"
    /\ j.at = "initial" => j.k \in {1, 2}
    /\ j.at = "post" => j.k \in 1 .. Variants
    /\ j.at = "probe" => j.k \in 1 .. Cardinality(Pages)

-----------------------------------------------------------------------------
(* The constants.                                                          *)

LEMMA Sizes ==
  /\ Variants \in Nat \ {0} /\ Fields \in Nat \ {0} /\ Cardinality(Pages) \in Nat \ {0}
  /\ {1, 2} \subseteq 0 .. Variants + Fields + Cardinality(Pages)
  /\ 1 .. Variants \subseteq 0 .. Variants + Fields + Cardinality(Pages)
  /\ 1 .. Cardinality(Pages) \subseteq 0 .. Variants + Fields + Cardinality(Pages)
<1>1. Cardinality(Pages) \in Nat /\ Cardinality(Pages) # 0
    BY Nav20Assumption, FS_CardinalityType, FS_EmptySet
<1>2. Variants \in Nat /\ Variants # 0
    <2>1. \A m, n \in Nat : m * n \in Nat /\ (m * n = 0 => m = 0 \/ n = 0)
        OBVIOUS
    <2> QED BY <2>1, Nav20Assumption DEF Variants
<1>3. Fields \in Nat \ {0}
    BY Nav20Assumption
<1> HIDE DEF Variants
<1> QED BY <1>1, <1>2, <1>3

-----------------------------------------------------------------------------
(* The end of a step.                                                      *)

Lands(t) ==
    /\ job' \in [Task -> Job]
    /\ web' \in Web
    /\ \A u \in Task \ {t} :
          job'[u] = [job[u] EXCEPT !.live = @ /\ (Open(web') \/ ~Open(web))]

LEMMA CommitDoes ==
  ASSUME job \in [Task -> Job], NEW t \in Task, NEW j \in Job, NEW w \in Web, Commit(t, j, w)
  PROVE  Lands(t) /\ job'[t] = j /\ web' = w
<1>1. /\ web' = w
      /\ job' = [u \in Task |->
                    IF u = t THEN j
                    ELSE [job[u] EXCEPT !.live = @ /\ (Open(w) \/ ~Open(web))]]
    BY DEF Commit
<1>2. \A u \in Task : [job[u] EXCEPT !.live = @ /\ (Open(w) \/ ~Open(web))] \in Job
    BY DEF Job, Open
<1> QED BY <1>1, <1>2 DEF Lands

LEMMA OthersKeep ==
  ASSUME job \in [Task -> Job], NEW t, Lands(t), NEW u \in Task, u # t
  PROVE  /\ job'[u].at = job[u].at /\ job'[u].call = job[u].call /\ job'[u].goal = job[u].goal
         /\ job'[u].k = job[u].k /\ job'[u].todo = job[u].todo /\ job'[u].found = job[u].found
         /\ job'[u].probed = job[u].probed /\ job'[u].csrf = job[u].csrf
         /\ job'[u].auth = job[u].auth /\ job'[u].answered = job[u].answered
         /\ job'[u].logins = job[u].logins /\ job'[u].result = job[u].result
         /\ job'[u].live = (job[u].live /\ (Open(web') \/ ~Open(web)))
<1>1. job[u] \in Job
    OBVIOUS
<1>2. job'[u] = [job[u] EXCEPT !.live = @ /\ (Open(web') \/ ~Open(web))]
    BY DEF Lands
<1> QED BY <1>1, <1>2 DEF Job

LEMMA FreshIs ==
  /\ Fresh \in Job
  /\ Fresh.at = "idle" /\ Fresh.goal = "first" /\ Fresh.k = 0 /\ Fresh.todo = {}
  /\ Fresh.found = {} /\ ~Fresh.probed /\ ~Fresh.csrf /\ ~Fresh.auth /\ ~Fresh.answered
  /\ ~Fresh.live /\ Fresh.logins = 0 /\ Fresh.result = "ok"
<1>1. 0 \in 0 .. Variants + Fields + Cardinality(Pages) /\ 0 \in 0 .. 3
    BY Sizes
<1> QED BY <1>1 DEF Fresh, Job, CallKinds

LEMMA EndedIs ==
  ASSUME NEW j \in Job, NEW r \in Results
  PROVE  LET i == Ended(j, r) IN
         /\ Fit(i)
         /\ i.at = "idle" /\ i.call = j.call /\ i.result = r /\ i.found = {} /\ i.goal = "first"
<1> DEFINE i == Ended(j, r)
<1>1. /\ i \in Job
      /\ i.at = "idle" /\ i.call = j.call /\ i.result = r /\ i.found = {} /\ i.goal = "first"
      /\ ~i.probed /\ ~i.csrf /\ ~i.auth /\ i.logins = 0
    BY FreshIs DEF Ended, Job, Results
<1> HIDE DEF i
<1> QED BY <1>1 DEF Fit, Able, Budget, Again, LoginSteps, i

-----------------------------------------------------------------------------
(* The inductive invariant, in its parts.                                  *)

Active(t) == job[t].at # "idle"

(* The lock is held exactly in the requests of a login and in the close()  *)
(* that ends one; a task is queued for it once, and only while it waits.   *)
LockInv ==
    /\ \A t \in Task : Owns(job[t]) <=> holder = t
    /\ \A n \in 1 .. Len(waiters) : job[waiters[n]].at = "lock"
    /\ \A m, n \in 1 .. Len(waiters) : waiters[m] = waiters[n] => m = n

(* A session is being closed by some task, never the caller's, and by the  *)
(* end of a login only while no later one has been opened.                 *)
SessionInv ==
    /\ web.session = "closing" => \E t \in Task : job[t].at = "closing"
    /\ \A t \in Task : job[t].at = "closing" =>
          /\ web.session # "external"
          /\ job[t].call # "close" => web.session # "own"

(* As long as no close() has met a login, a login has an open session, and *)
(* so have the confirmed pages.                                            *)
OpenInv ==
    ~torn =>
       /\ web.paths # {} => Open(web)
       /\ \A t \in Task : job[t].at \in LoginSteps => job[t].live /\ Open(web)

CalmInv ==
    \A t \in Task : calm[t] /\ Active(t) =>
        up /\ ~torn /\ \A u \in Task : Active(u) => job[u].call # "close"

IInv ==
    /\ TypeOK
    /\ \A t \in Task : Fit(job[t])
    /\ LockInv /\ SessionInv /\ OpenInv /\ CalmInv

(* With a wrong PIN there is never a session that a page could be read on, *)
(* and a calm login, of a controller that serves a start page, finds it    *)
(* and knows from an answer that the PIN is to blame.                      *)
WrongPinInv ==
    ~box.pin =>
       /\ ~cookie /\ web.paths = {}
       /\ \A t \in Task :
             /\ job[t].found = {} /\ job[t].goal = "first" /\ job[t].at \notin {"get", "put"}
             /\ calm[t] /\ box.front # {} =>
                   /\ job[t].at = "initial" => job[t].k = 1 \/ 1 \notin box.front
                   /\ job[t].at \in {"post", "probe"} /\ job[t].k > 1 => web.form
                   /\ job[t].at \in {"idle", "closing"} /\ job[t].call # "close"
                         => job[t].result = "pin"

Watched == \E t \in Task : calm[t] /\ Active(t)
Valid == cookie /\ web.token # "stale"

(* While a calm call runs, nobody closes, requests have their session, and *)
(* logins end well: they find a start page, do not step over the variant   *)
(* the firmware accepts, and confirm the first page they probe.            *)
Orderly(t) ==
    /\ job[t].at # "closing"
    /\ job[t].at = "get" => job[t].live /\ Open(web)
    /\ job[t].at = "initial" => job[t].k = 1 \/ 1 \notin box.front
    /\ job[t].at = "post" => job[t].k <= Accepts
    /\ job[t].at = "probe" => (Unconfirmed(job[t]) => Valid) /\ (job[t].k > 1 => job[t].found # {})

Reader(t) == calm[t] /\ job[t].call \in {"read", "statistics"}

(* A calm read logs in again for the one expiry only.                      *)
Reading(t) ==
    /\ job[t].csrf \/ job[t].auth => ~spare[t]
    /\ job[t].at \in {"get", "probe"} /\ (job[t].csrf \/ job[t].auth \/ spare[t]) => Valid
    /\ job[t].call = "statistics" => job[t].answered \/ job[t].todo # {}

Healthy == box.front # {} /\ box.pin /\ "denied" \notin box.refusals /\ ~box.odd

HealthyInv ==
    Healthy =>
       /\ Watched => \A t \in Task : Orderly(t)
       /\ \A t \in Task : Reader(t) =>
             IF Active(t) THEN Reading(t) ELSE job[t].result = "ok"

-----------------------------------------------------------------------------
(* The operators of which the actions are made: where they bring task t,   *)
(* whose call is c, from the client's state w.                             *)

SameButProbes(v, w) ==
    /\ v.session = w.session /\ v.token = w.token /\ v.paths = w.paths
    /\ v.form = w.form /\ v.denied = w.denied

Landed(t, c, w) ==
    /\ Lands(t)
    /\ Fit(job'[t])
    /\ job'[t].call = c
    /\ job'[t].at \in LoginSteps \cup {"get", "put"} => job'[t].live /\ Open(web')
    /\ IF job'[t].at = "closing" THEN w.session = "own" /\ web'.session = "closing"
       ELSE web'.session = w.session \/ (w.session \in {"own", "closing"} /\ web'.session = "none")
    /\ web'.paths # {} => web'.session = w.session

LEMMA ReturnDoes ==
  ASSUME job \in [Task -> Job], NEW t \in Task, NEW j \in Job, NEW w \in Web, NEW r \in Results,
         Return(t, j, w, r)
  PROVE  /\ Lands(t) /\ job'[t] = Ended(j, r) /\ SameButProbes(web', w)
         /\ j.call # "read" => web' = w
<1> DEFINE v == IF j.call = "read" THEN [w EXCEPT !.probes = {}] ELSE w
<1>1. Ended(j, r) \in Job
    BY EndedIs DEF Fit, Able
<1>2. v \in Web /\ SameButProbes(v, w) /\ (j.call # "read" => v = w)
    BY DEF Web, SameButProbes
<1>3. Commit(t, Ended(j, r), v)
    BY Zenon DEF Return
<1> HIDE DEF v
<1> QED BY <1>1, <1>2, <1>3, CommitDoes

LEMMA ReturnLands ==
  ASSUME job \in [Task -> Job], NEW t \in Task, NEW j \in Job, NEW w \in Web, NEW r \in Results,
         Return(t, j, w, r)
  PROVE  /\ Landed(t, j.call, w)
         /\ job'[t].at = "idle" /\ job'[t].result = r /\ job'[t].found = {}
         /\ job'[t].goal = "first"
<1>1. /\ Lands(t) /\ job'[t] = Ended(j, r) /\ SameButProbes(web', w)
    BY ReturnDoes
<1>2. /\ Fit(job'[t]) /\ job'[t].call = j.call
      /\ job'[t].at = "idle" /\ job'[t].result = r /\ job'[t].found = {}
      /\ job'[t].goal = "first"
    BY <1>1, EndedIs
<1> QED BY <1>1, <1>2 DEF Landed, SameButProbes, LoginSteps

(* The request for the first of the pages S.                               *)
Asking(j, S) ==
    [j EXCEPT !.at = "get", !.live = TRUE, !.k = 0, !.goal = "first", !.todo = S]

LEMMA AskingFits ==
  ASSUME NEW j, Able(j), j.call \in {"read", "statistics"}, NEW S \in SUBSET Pages, S # {}
  PROVE  LET i == Asking(j, S) IN
         /\ Fit(i) /\ i.at = "get" /\ i.call = j.call /\ i.live /\ i.todo = S
         /\ i.goal = "first" /\ i.csrf = j.csrf /\ i.auth = j.auth
         /\ i.answered = j.answered /\ i.found = j.found
<1> DEFINE i == Asking(j, S)
<1>1. 0 \in 0 .. Variants + Fields + Cardinality(Pages)
    BY Sizes
<1>2. j \in Job
    BY DEF Able
<1>3. /\ i \in Job /\ i.at = "get" /\ i.call = j.call /\ i.live /\ i.todo = S
      /\ i.goal = "first" /\ i.csrf = j.csrf /\ i.auth = j.auth
      /\ i.answered = j.answered /\ i.found = j.found
      /\ i.probed = j.probed /\ i.logins = j.logins
    BY <1>1, <1>2 DEF Job, Asking
<1> HIDE DEF i
<1>4. Fit(i)
    BY <1>3 DEF Fit, Able, Budget, Again, LoginSteps
<1> QED BY <1>3, <1>4 DEF i

LEMMA NextPageDoes ==
  ASSUME job \in [Task -> Job], NEW t \in Task, NEW j, Able(j), NEW w \in Web,
         j.call \in {"read", "statistics"}, NextPage(t, j, w)
  PROVE  /\ Lands(t) /\ SameButProbes(web', w)
         /\ \/ \E r \in {"ok", "failed"} :
                  /\ job'[t] = Ended(j, r)
                  /\ Open(w) /\ r = "failed" =>
                        j.call = "statistics" /\ ~j.answered /\ j.todo = {}
            \/ Open(w) /\ \E S \in SUBSET Pages : S # {} /\ job'[t] = Asking(j, S)
<1> DEFINE asked == IF j.probed THEN j.todo \ w.probes ELSE j.todo
           popped == {p \in j.todo \ asked : \A q \in asked : p < q}
           S == j.todo \ popped
<1>0. /\ j \in Job /\ j.todo \subseteq Pages
      /\ (j.call = "statistics" => ~j.probed)
    BY DEF Able, Job
<1>1. asked \subseteq S /\ S \subseteq Pages /\ (j.call = "statistics" => asked = j.todo)
    BY <1>0
<1>2. ASSUME PagesDone(t, j, w), asked = {} \/ ~Open(w)
      PROVE  /\ Lands(t) /\ SameButProbes(web', w)
             /\ \E r \in {"ok", "failed"} :
                  /\ job'[t] = Ended(j, r)
                  /\ Open(w) /\ r = "failed" =>
                        j.call = "statistics" /\ ~j.answered /\ j.todo = {}
  <2> DEFINE r == IF j.call = "statistics" /\ ~j.answered THEN "failed" ELSE "ok"
  <2>1. r \in {"ok", "failed"} /\ r \in Results
      BY DEF Results
  <2>2. Return(t, j, w, r)
      BY <1>2, Zenon DEF PagesDone
  <2>3. r = "failed" => j.call = "statistics" /\ ~j.answered
      OBVIOUS
  <2> HIDE DEF r
  <2>4. Lands(t) /\ job'[t] = Ended(j, r) /\ SameButProbes(web', w)
      BY <1>0, <2>1, <2>2, ReturnDoes
  <2> HIDE DEF asked
  <2> QED BY <1>1, <1>2, <2>1, <2>3, <2>4
<1>3. ASSUME Return(t, j, w, "failed"), ~Open(w)
      PROVE  /\ Lands(t) /\ SameButProbes(web', w) /\ job'[t] = Ended(j, "failed")
    BY <1>0, <1>3, ReturnDoes DEF Results
<1>4. ASSUME asked # {}, Open(w),
             Commit(t, Asking(j, S), [w EXCEPT !.probes = @ \ popped])
      PROVE  /\ Lands(t) /\ SameButProbes(web', w)
             /\ job'[t] = Asking(j, S) /\ S \in SUBSET Pages /\ S # {}
  <2> DEFINE v == [w EXCEPT !.probes = @ \ popped]
  <2>1. S \in SUBSET Pages /\ S # {}
      BY <1>1, <1>4
  <2>2. v \in Web /\ SameButProbes(v, w)
      BY DEF Web, SameButProbes
  <2>3. Commit(t, Asking(j, S), v)
      BY <1>4, Zenon
  <2> HIDE DEF S, v
  <2>4. Asking(j, S) \in Job
      BY <2>1, AskingFits DEF Fit, Able
  <2> QED BY <2>1, <2>2, <2>3, <2>4, CommitDoes
<1>5. \/ asked = {} /\ PagesDone(t, j, w)
      \/ asked # {} /\ Open(w) /\ Commit(t, Asking(j, S), [w EXCEPT !.probes = @ \ popped])
      \/ ~Open(w) /\ PagesDone(t, j, w)
      \/ ~Open(w) /\ Return(t, j, w, "failed")
  <2>1. [j EXCEPT !.at = "get", !.live = TRUE, !.k = 0, !.goal = "first", !.todo = @ \ popped]
          = Asking(j, S)
      BY <1>0 DEF Asking, Job
  <2> QED BY <2>1, Zenon DEF NextPage
<1> HIDE DEF asked, popped, S
<1> QED BY <1>2, <1>3, <1>4, <1>5

LEMMA NextPageLands ==
  ASSUME job \in [Task -> Job], NEW t \in Task, NEW j, Able(j), NEW w \in Web,
         j.call \in {"read", "statistics"}, NextPage(t, j, w)
  PROVE  Landed(t, j.call, w) /\ job'[t].at \in {"idle", "get"}
<1>1. j \in Job
    BY DEF Able
<1>2. Lands(t) /\ SameButProbes(web', w)
    BY NextPageDoes
<1>3. CASE \E r \in {"ok", "failed"} : job'[t] = Ended(j, r)
  <2>1. PICK r \in {"ok", "failed"} : job'[t] = Ended(j, r)
      BY <1>3
  <2>2. Fit(job'[t]) /\ job'[t].at = "idle" /\ job'[t].call = j.call
      BY <1>1, <2>1, EndedIs DEF Results
  <2> QED BY <1>2, <2>2 DEF Landed, SameButProbes, LoginSteps
<1>4. CASE Open(w) /\ \E S \in SUBSET Pages : S # {} /\ job'[t] = Asking(j, S)
  <2>1. PICK S \in SUBSET Pages : S # {} /\ job'[t] = Asking(j, S)
      BY <1>4
  <2>2. Fit(job'[t]) /\ job'[t].at = "get" /\ job'[t].call = j.call /\ job'[t].live
      BY <2>1, AskingFits
  <2> QED BY <1>2, <1>4, <2>2 DEF Landed, SameButProbes, Open
<1> QED BY <1>3, <1>4, NextPageDoes

(* Reading on with an open session: the call goes on to a page, or it ends *)
(* well.                                                                   *)
ReadsOn(t, j, w) ==
    /\ SameButProbes(web', w)
    /\ job'[t].at \in {"idle", "get", "put"}
    /\ job'[t].at = "get" =>
          /\ job'[t].csrf = j.csrf /\ job'[t].auth = j.auth
          /\ job'[t].todo # {}
    /\ job'[t].at = "idle" /\ j.call \in {"read", "statistics"}
       /\ (j.call = "statistics" => j.answered \/ j.todo # {})
          => job'[t].result = "ok"

LEMMA NextPageReadsOn ==
  ASSUME job \in [Task -> Job], NEW t \in Task, NEW j, Able(j), NEW w \in Web, Open(w),
         j.call \in {"read", "statistics"}, NextPage(t, j, w)
  PROVE  ReadsOn(t, j, w)
<1>1. j \in Job
    BY DEF Able
<1>2. Lands(t) /\ SameButProbes(web', w)
    BY NextPageDoes
<1>3. CASE \E r \in {"ok", "failed"} :
              /\ job'[t] = Ended(j, r)
              /\ Open(w) /\ r = "failed" => j.call = "statistics" /\ ~j.answered /\ j.todo = {}
  <2>1. PICK r \in {"ok", "failed"} :
              /\ job'[t] = Ended(j, r)
              /\ Open(w) /\ r = "failed" => j.call = "statistics" /\ ~j.answered /\ j.todo = {}
      BY <1>3
  <2>2. job'[t].at = "idle" /\ job'[t].result = r
      BY <1>1, <2>1, EndedIs DEF Results
  <2> QED BY <1>2, <2>1, <2>2 DEF ReadsOn
<1>4. CASE \E S \in SUBSET Pages : S # {} /\ job'[t] = Asking(j, S)
  <2>1. PICK S \in SUBSET Pages : S # {} /\ job'[t] = Asking(j, S)
      BY <1>4
  <2>2. /\ job'[t].at = "get" /\ job'[t].todo = S
        /\ job'[t].csrf = j.csrf /\ job'[t].auth = j.auth
      BY <2>1, AskingFits
  <2> QED BY <1>2, <2>1, <2>2 DEF ReadsOn
<1> QED BY <1>3, <1>4, NextPageDoes

LEMMA SkippedIsAble ==
  ASSUME NEW j, Able(j)
  PROVE  Able([j EXCEPT !.todo = @ \ {First(@)}]) /\ [j EXCEPT !.todo = @ \ {First(@)}].call = j.call
<1> DEFINE i == [j EXCEPT !.todo = @ \ {First(@)}]
<1>1. j \in Job
    BY DEF Able
<1>2. i \in Job /\ i.call = j.call /\ i.logins = j.logins /\ i.csrf = j.csrf /\ i.auth = j.auth
      /\ i.probed = j.probed
    BY <1>1 DEF Job
<1> HIDE DEF i
<1>3. Able(i)
    BY <1>2 DEF Able, Budget
<1> QED BY <1>2, <1>3 DEF i

LEMMA AfterCloseLands ==
  ASSUME job \in [Task -> Job], NEW t \in Task, NEW j, Able(j), NEW w \in Web, NEW r \in Results,
         AfterClose(t, j, w, r)
  PROVE  /\ Landed(t, j.call, w) /\ SameButProbes(web', w)
         /\ job'[t].at \in {"idle", "get"}
         /\ j.goal # "auth" \/ r # "failed" \/ j.call # "statistics" =>
               /\ job'[t].at = "idle" /\ job'[t].result = r
               /\ job'[t].found = {} /\ job'[t].goal = "first"
<1>1. j \in Job
    BY DEF Able
<1>2. CASE j.call = "statistics" /\ j.goal = "auth" /\ r = "failed" /\ SkipPage(t, j, w)
  <2> DEFINE i == [j EXCEPT !.todo = @ \ {First(@)}]
  <2>1. Able(i) /\ i.call = j.call
      BY SkippedIsAble
  <2>2. NextPage(t, i, w)
      BY <1>2, Zenon DEF SkipPage
  <2> HIDE DEF i
  <2>3. Landed(t, j.call, w) /\ job'[t].at \in {"idle", "get"}
      BY <1>2, <2>1, <2>2, NextPageLands
  <2>4. SameButProbes(web', w)
      BY <1>2, <2>1, <2>2, NextPageDoes
  <2> QED BY <1>2, <2>3, <2>4
<1>3. CASE Return(t, j, w, r)
    BY <1>1, <1>3, ReturnDoes, ReturnLands
<1> QED BY <1>2, <1>3 DEF AfterClose

LEMMA ForgetsWhat ==
  ASSUME NEW w \in Web
  PROVE  /\ Forgets(w) \in Web /\ Forgets(w).session = w.session /\ Forgets(w).paths = {}
         /\ \A s \in {"none", "own", "closing", "external"} :
               LET v == [Forgets(w) EXCEPT !.session = s] IN
               v \in Web /\ v.session = s /\ v.paths = {}
BY DEF Forgets, Web

LEMMA CloseLands ==
  ASSUME job \in [Task -> Job], NEW t \in Task, NEW j, Able(j), NEW w \in Web, NEW r \in Results,
         Close(t, j, w, r)
  PROVE  /\ Landed(t, j.call, w) /\ web'.paths = {}
         /\ job'[t].at \in {"idle", "get", "closing"}
         /\ j.goal # "auth" \/ r # "failed" \/ j.call # "statistics" =>
               /\ job'[t].at \in {"idle", "closing"} /\ job'[t].result = r
               /\ job'[t].found \in {{}, j.found} /\ job'[t].goal \in {"first", j.goal}
<1>1. CASE w.session \in {"none", "external"} /\ AfterClose(t, j, Forgets(w), r)
  <2> DEFINE v == Forgets(w)
  <2>1. v \in Web /\ v.session = w.session /\ v.paths = {}
      BY ForgetsWhat
  <2> HIDE DEF v
  <2>2. AfterClose(t, j, v, r)
      BY <1>1 DEF v
  <2>3. /\ Landed(t, j.call, v) /\ SameButProbes(web', v)
        /\ job'[t].at \in {"idle", "get"}
        /\ j.goal # "auth" \/ r # "failed" \/ j.call # "statistics" =>
               /\ job'[t].at = "idle" /\ job'[t].result = r
               /\ job'[t].found = {} /\ job'[t].goal = "first"
      BY <2>1, <2>2, AfterCloseLands
  <2>4. Landed(t, j.call, w)
      BY <2>1, <2>3 DEF Landed
  <2> QED BY <2>1, <2>3, <2>4 DEF SameButProbes
<1>2. CASE /\ w.session \in {"own", "closing"}
           /\ AfterClose(t, j, [Forgets(w) EXCEPT !.session = "none"], r)
  <2> DEFINE v == [Forgets(w) EXCEPT !.session = "none"]
  <2>1. v \in Web /\ v.session = "none" /\ v.paths = {}
      BY ForgetsWhat
  <2> HIDE DEF v
  <2>2. AfterClose(t, j, v, r)
      BY <1>2 DEF v
  <2>3. /\ Landed(t, j.call, v) /\ SameButProbes(web', v)
        /\ job'[t].at \in {"idle", "get"}
        /\ j.goal # "auth" \/ r # "failed" \/ j.call # "statistics" =>
               /\ job'[t].at = "idle" /\ job'[t].result = r
               /\ job'[t].found = {} /\ job'[t].goal = "first"
      BY <2>1, <2>2, AfterCloseLands
  <2>4. Landed(t, j.call, w)
      BY <1>2, <2>1, <2>3 DEF Landed, SameButProbes
  <2> QED BY <2>1, <2>3, <2>4 DEF SameButProbes
<1>3. CASE /\ w.session = "own"
           /\ Commit(t, [j EXCEPT !.at = "closing", !.result = r],
                     [Forgets(w) EXCEPT !.session = "closing"])
  <2> DEFINE v == [Forgets(w) EXCEPT !.session = "closing"]
             i == [j EXCEPT !.at = "closing", !.result = r]
  <2>1. v \in Web /\ v.session = "closing" /\ v.paths = {}
      BY ForgetsWhat
  <2>2. j \in Job /\ j.logins <= Budget(j) /\ (j.call = "statistics" => ~j.probed)
      BY DEF Able
  <2>3. /\ i \in Job /\ i.at = "closing" /\ i.result = r /\ i.call = j.call
        /\ i.found = j.found /\ i.goal = j.goal
        /\ i.logins = j.logins /\ i.csrf = j.csrf /\ i.auth = j.auth /\ i.probed = j.probed
      BY <2>2 DEF Job, Results
  <2> HIDE DEF v, i
  <2>4. Fit(i)
      BY <2>2, <2>3 DEF Fit, Able, Budget, LoginSteps
  <2>5. Commit(t, i, v)
      BY <1>3 DEF v, i
  <2>6. Lands(t) /\ job'[t] = i /\ web' = v
      BY <2>1, <2>3, <2>5, CommitDoes
  <2> QED BY <1>3, <2>1, <2>3, <2>4, <2>6 DEF Landed, LoginSteps
<1> QED BY <1>1, <1>2, <1>3, Zenon DEF Close

LEMMA AfterLoginLands ==
  ASSUME job \in [Task -> Job], NEW t \in Task, NEW j, Able(j), NEW w \in Web,
         j.call # "close", AfterLogin(t, j, w)
  PROVE  /\ Landed(t, j.call, w) /\ SameButProbes(web', w)
         /\ job'[t].at \in {"idle", "get", "put"}
         /\ Open(w) => ReadsOn(t, j, w)
<1>0. j \in Job /\ j.logins <= Budget(j) /\ (j.call = "statistics" => ~j.probed)
    BY DEF Able
<1>1. ASSUME NEW r \in {"ok", "failed"}, Return(t, j, w, r),
             j.call \in {"login", "clock"}
      PROVE  /\ Landed(t, j.call, w) /\ SameButProbes(web', w)
             /\ job'[t].at \in {"idle", "get", "put"}
             /\ Open(w) => ReadsOn(t, j, w)
  <2>1. r \in Results
      BY DEF Results
  <2>2. Landed(t, j.call, w) /\ SameButProbes(web', w) /\ job'[t].at = "idle"
      BY <1>0, <1>1, <2>1, ReturnDoes, ReturnLands
  <2> QED BY <1>1, <2>2 DEF ReadsOn
<1>2. ASSUME j.call = "clock", Open(w), Commit(t, [j EXCEPT !.at = "put", !.live = TRUE], w)
      PROVE  /\ Landed(t, j.call, w) /\ SameButProbes(web', w)
             /\ job'[t].at \in {"idle", "get", "put"}
             /\ Open(w) => ReadsOn(t, j, w)
  <2> DEFINE i == [j EXCEPT !.at = "put", !.live = TRUE]
  <2>1. /\ i \in Job /\ i.at = "put" /\ i.live /\ i.call = "clock" /\ i.logins = j.logins
        /\ i.csrf = j.csrf /\ i.auth = j.auth
      BY <1>0, <1>2 DEF Job
  <2> HIDE DEF i
  <2>2. Fit(i)
      BY <1>0, <1>2, <2>1 DEF Fit, Able, Budget, LoginSteps
  <2>3. Commit(t, i, w)
      BY <1>2 DEF i
  <2>4. Lands(t) /\ job'[t] = i /\ web' = w
      BY <2>1, <2>3, CommitDoes
  <2> QED BY <1>2, <2>1, <2>2, <2>4 DEF Landed, ReadsOn, SameButProbes, LoginSteps
<1>3. ASSUME j.call = "read", w.session = "none", Commit(t, Ended(j, "failed"), w)
      PROVE  /\ Landed(t, j.call, w) /\ SameButProbes(web', w)
             /\ job'[t].at \in {"idle", "get", "put"}
             /\ Open(w) => ReadsOn(t, j, w)
  <2>1. LET i == Ended(j, "failed") IN Fit(i) /\ i.at = "idle" /\ i.call = "read"
      BY <1>0, <1>3, EndedIs DEF Results
  <2>2. Ended(j, "failed") \in Job
      BY <2>1 DEF Fit, Able
  <2>3. Lands(t) /\ job'[t] = Ended(j, "failed") /\ web' = w
      BY <1>3, <2>2, CommitDoes
  <2> QED BY <1>3, <2>1, <2>3 DEF Landed, SameButProbes, LoginSteps, Open
<1>4. ASSUME NEW i, NextPage(t, i, w), Able(i), i.call = j.call, i.auth = j.auth, i.csrf = j.csrf,
             j.call = "read" \/ i = j, j.call \in {"read", "statistics"}
      PROVE  /\ Landed(t, j.call, w) /\ SameButProbes(web', w)
             /\ job'[t].at \in {"idle", "get", "put"}
             /\ Open(w) => ReadsOn(t, j, w)
  <2>1. Landed(t, j.call, w) /\ job'[t].at \in {"idle", "get"}
      BY <1>4, NextPageLands
  <2>2. SameButProbes(web', w)
      BY <1>4, NextPageDoes
  <2>3. Open(w) => ReadsOn(t, i, w)
      BY <1>4, NextPageReadsOn
  <2> QED BY <1>4, <2>1, <2>2, <2>3 DEF ReadsOn
<1>5. ASSUME j.call = "read", NEW S \in SUBSET Pages
      PROVE  LET i == [j EXCEPT !.probed = TRUE, !.todo = S] IN
             Able(i) /\ i.call = j.call /\ i.auth = j.auth /\ i.csrf = j.csrf
  <2> DEFINE i == [j EXCEPT !.probed = TRUE, !.todo = S]
  <2>1. /\ i \in Job /\ i.call = j.call /\ i.auth = j.auth /\ i.csrf = j.csrf
        /\ i.logins = j.logins
      BY <1>0, <1>5 DEF Job
  <2> HIDE DEF i
  <2>2. Able(i)
      BY <1>0, <1>5, <2>1 DEF Able, Budget
  <2> QED BY <2>1, <2>2 DEF i
<1>6. ASSUME j.call = "read"
      PROVE  LET i == [j EXCEPT !.probed = TRUE] IN
             Able(i) /\ i.call = j.call /\ i.auth = j.auth /\ i.csrf = j.csrf
  <2> DEFINE i == [j EXCEPT !.probed = TRUE]
  <2>1. /\ i \in Job /\ i.call = j.call /\ i.auth = j.auth /\ i.csrf = j.csrf
        /\ i.logins = j.logins
      BY <1>0, <1>6 DEF Job
  <2> HIDE DEF i
  <2>2. Able(i)
      BY <1>0, <1>6, <2>1 DEF Able, Budget
  <2> QED BY <2>1, <2>2 DEF i
<1>7. CASE j.call = "login" /\ Return(t, j, w, "ok")
    BY <1>1, <1>7
<1>8. CASE /\ j.call = "clock"
           /\ \/ Open(w) /\ Commit(t, [j EXCEPT !.at = "put", !.live = TRUE], w)
              \/ ~Open(w) /\ Return(t, j, w, "failed")
    BY <1>1, <1>2, <1>8
<1>9. CASE /\ j.call = "read" /\ w.session = "none"
           /\ \/ j.goal = "first" /\ Commit(t, Ended(j, "failed"), w)
              \/ j.goal # "first" /\ NextPage(t, [j EXCEPT !.probed = TRUE], w)
  <2>1. CASE Commit(t, Ended(j, "failed"), w)
      BY <1>3, <1>9, <2>1
  <2>2. CASE NextPage(t, [j EXCEPT !.probed = TRUE], w)
    <3> DEFINE i == [j EXCEPT !.probed = TRUE]
    <3>1. Able(i) /\ i.call = j.call /\ i.auth = j.auth /\ i.csrf = j.csrf
        BY <1>6, <1>9
    <3>2. NextPage(t, i, w)
        BY <2>2
    <3> HIDE DEF i
    <3> QED BY <1>4, <1>9, <3>1, <3>2
  <2> QED BY <1>9, <2>1, <2>2
<1>10. CASE /\ j.call = "read" /\ w.session # "none"
            /\ NextPage(t, [j EXCEPT !.probed = TRUE,
                                     !.todo = IF j.goal = "first" THEN w.paths ELSE @], w)
  <2> DEFINE S == IF j.goal = "first" THEN w.paths ELSE j.todo
             i == [j EXCEPT !.probed = TRUE, !.todo = S]
  <2>1. S \in SUBSET Pages
      BY <1>0 DEF Web, Job
  <2>2. NextPage(t, i, w)
      BY <1>10, Zenon
  <2> HIDE DEF S
  <2>3. Able(i) /\ i.call = j.call /\ i.auth = j.auth /\ i.csrf = j.csrf
      BY <1>5, <1>10, <2>1
  <2> HIDE DEF i
  <2> QED BY <1>4, <1>10, <2>2, <2>3
<1>11. CASE j.call = "statistics" /\ NextPage(t, j, w)
    BY <1>4, <1>11
<1> QED BY <1>7, <1>8, <1>9, <1>10, <1>11, Zenon DEF AfterLogin

LEMMA LoginEndsLands ==
  ASSUME job \in [Task -> Job], NEW t \in Task, NEW j, Able(j), NEW w \in Web,
         j.call # "close", LoginEnds(t, j, w)
  PROVE  /\ Landed(t, j.call, w)
         /\ job'[t].at \in {"idle", "get", "put", "closing"}
         /\ j.found = {} /\ j.goal = "first" =>
               /\ web'.paths = {} /\ job'[t].at \in {"idle", "closing"}
               /\ job'[t].result = IF w.denied \/ w.form THEN "pin" ELSE "failed"
               /\ job'[t].found = {} /\ job'[t].goal = "first"
         /\ j.found # {} /\ Open(w) =>
               ReadsOn(t, j, [w EXCEPT !.paths = j.found])
<1>0. j \in Job /\ j.logins <= Budget(j) /\ (j.call = "statistics" => ~j.probed)
    BY DEF Able
<1>1. CASE j.found = {} /\ Close(t, j, w, IF w.denied \/ w.form THEN "pin" ELSE "failed")
  <2> DEFINE r == IF w.denied \/ w.form THEN "pin" ELSE "failed"
  <2>1. r \in Results
      BY DEF Results
  <2>2. Close(t, j, w, r)
      BY <1>1
  <2> HIDE DEF r
  <2>3. /\ Landed(t, j.call, w) /\ web'.paths = {}
        /\ job'[t].at \in {"idle", "get", "closing"}
        /\ j.goal # "auth" =>
               /\ job'[t].at \in {"idle", "closing"} /\ job'[t].result = r
               /\ job'[t].found \in {{}, j.found} /\ job'[t].goal \in {"first", j.goal}
      BY <2>1, <2>2, CloseLands
  <2> QED BY <1>1, <2>3 DEF r
<1>2. CASE j.found # {} /\ AfterLogin(t, [j EXCEPT !.found = {}], [w EXCEPT !.paths = j.found])
  <2> DEFINE i == [j EXCEPT !.found = {}]
             v == [w EXCEPT !.paths = j.found]
  <2>1. /\ i \in Job /\ i.call = j.call /\ i.auth = j.auth /\ i.csrf = j.csrf
        /\ i.logins = j.logins /\ i.probed = j.probed
        /\ i.answered = j.answered /\ i.todo = j.todo
      BY <1>0 DEF Job
  <2>2. v \in Web /\ v.session = w.session
      BY <1>0 DEF Web, Job
  <2>3. AfterLogin(t, i, v)
      BY <1>2
  <2>4. Open(w) => Open(v)
      BY <2>2 DEF Open
  <2> HIDE DEF i, v
  <2>5. Able(i)
      BY <1>0, <2>1 DEF Able, Budget
  <2>6. /\ Landed(t, i.call, v)
        /\ job'[t].at \in {"idle", "get", "put"}
        /\ Open(v) => ReadsOn(t, i, v)
      BY <2>1, <2>2, <2>3, <2>5, AfterLoginLands
  <2>7. Landed(t, j.call, w)
      BY <2>1, <2>2, <2>6 DEF Landed
  <2>8. ReadsOn(t, i, v) => ReadsOn(t, j, v)
      BY <2>1 DEF ReadsOn
  <2> QED BY <1>2, <2>4, <2>6, <2>7, <2>8 DEF v
<1> QED BY <1>1, <1>2 DEF LoginEnds

(* The k-th request of a loop of the login.                                *)
InLoop(where, k) ==
    \/ where = "initial" /\ k \in {1, 2}
    \/ where = "post" /\ k \in 1 .. Variants
    \/ where = "probe" /\ k \in 1 .. Cardinality(Pages)

Trying(j, where, k) == [j EXCEPT !.at = where, !.live = TRUE, !.k = k]

LEMMA TryingFits ==
  ASSUME NEW j, Able(j), j.call # "close", NEW where, NEW k, InLoop(where, k)
  PROVE  LET i == Trying(j, where, k) IN
         /\ Fit(i) /\ i.at = where /\ i.live /\ i.k = k /\ i.call = j.call /\ i.found = j.found
         /\ i.goal = j.goal /\ i.csrf = j.csrf /\ i.auth = j.auth /\ i.todo = j.todo
         /\ i.answered = j.answered /\ i.result = j.result /\ i.logins = j.logins
<1> DEFINE i == Trying(j, where, k)
<1>1. k \in 0 .. Variants + Fields + Cardinality(Pages)
    BY Sizes DEF InLoop
<1>2. j \in Job /\ j.logins <= Budget(j) /\ (j.call = "statistics" => ~j.probed)
    BY DEF Able
<1>3. where \in {"initial", "post", "probe"}
    BY DEF InLoop
<1>4. /\ i \in Job /\ i.at = where /\ i.live /\ i.k = k /\ i.call = j.call /\ i.found = j.found
      /\ i.goal = j.goal /\ i.csrf = j.csrf /\ i.auth = j.auth /\ i.todo = j.todo
      /\ i.answered = j.answered /\ i.result = j.result /\ i.logins = j.logins
      /\ i.probed = j.probed
    BY <1>1, <1>2, <1>3 DEF Job, Trying, LoginSteps
<1> HIDE DEF i
<1>5. Fit(i)
    BY <1>2, <1>3, <1>4 DEF Fit, Able, Budget, LoginSteps, InLoop
<1> QED BY <1>4, <1>5 DEF i

LEMMA LoginRequestLands ==
  ASSUME job \in [Task -> Job], NEW t \in Task, NEW j, Able(j), NEW w \in Web,
         j.call # "close", NEW where, NEW k, InLoop(where, k),
         LoginRequest(t, j, w, where, k)
  PROVE  /\ Landed(t, j.call, w)
         /\ job'[t].at \in {"idle", "get", "put", "closing", where}
         /\ Open(w) => web' = w /\ job'[t] = Trying(j, where, k)
         /\ web'.paths # {} => Open(w) \/ (w.session = "none" /\ where # "initial")
         /\ j.found = {} /\ j.goal = "first" /\ w.paths = {} =>
               /\ job'[t].found = {} /\ job'[t].goal = "first"
               /\ web'.paths = {} /\ job'[t].at \in {"idle", "closing", where}
<1>1. CASE Open(w) /\ Commit(t, [j EXCEPT !.at = where, !.live = TRUE, !.k = k], w)
  <2> DEFINE i == Trying(j, where, k)
  <2>1. Commit(t, i, w)
      BY <1>1 DEF Trying
  <2>2. Fit(i) /\ i.at = where /\ i.live /\ i.call = j.call /\ i.found = j.found /\ i.goal = j.goal
      BY TryingFits
  <2>3. i \in Job
      BY <2>2 DEF Fit, Able
  <2>4. where # "closing"
      BY DEF InLoop
  <2> HIDE DEF i
  <2>5. Lands(t) /\ job'[t] = i /\ web' = w
      BY <2>1, <2>3, CommitDoes
  <2> QED BY <1>1, <2>2, <2>4, <2>5 DEF Landed, i
<1>2. CASE w.session = "none" /\ where # "initial" /\ LoginEnds(t, j, w)
  <2>1. ~Open(w)
      BY <1>2 DEF Open
  <2> QED BY <1>2, <2>1, LoginEndsLands
<1>3. ASSUME w.session \in {"none", "closing"}, NEW e \in {"failed", "broken"}, Close(t, j, w, e)
      PROVE  /\ Landed(t, j.call, w)
             /\ job'[t].at \in {"idle", "get", "closing"} /\ ~Open(w) /\ web'.paths = {}
             /\ j.found = {} /\ j.goal = "first" =>
                   /\ job'[t].found = {} /\ job'[t].goal = "first"
                   /\ job'[t].at \in {"idle", "closing"}
  <2>1. ~Open(w) /\ e \in Results
      BY <1>3 DEF Open, Results
  <2> QED BY <1>3, <2>1, CloseLands
<1> QED BY <1>1, <1>2, <1>3, Zenon DEF LoginRequest

(* The session a login begins on.                                          *)
Entered(w) == IF w.session = "none" THEN [w EXCEPT !.session = "own"] ELSE w

Counted(j) == [j EXCEPT !.logins = @ + 1]

LEMMA EnterLoginLands ==
  ASSUME job \in [Task -> Job], NEW t \in Task, NEW j, Able(j), j.logins < Budget(j),
         NEW w \in Web, j.call # "close", EnterLogin(t, j, w)
  PROVE  /\ Landed(t, j.call, Entered(w)) /\ cookie' = (cookie /\ w.session # "none")
         /\ job'[t].at \in {"idle", "get", "put", "closing", "initial"}
         /\ w.session # "closing" =>
               /\ web' = Entered(w) /\ job'[t] = Trying(Counted(j), "initial", 1)
               /\ Open(web')
         /\ web'.paths # {} => Open(web')
         /\ j.found = {} /\ j.goal = "first" /\ w.paths = {} =>
               /\ job'[t].found = {} /\ job'[t].goal = "first"
               /\ web'.paths = {} /\ job'[t].at \in {"idle", "closing", "initial"}
         /\ Able(Counted(j))
<1> DEFINE i == Counted(j)
           v == Entered(w)
<1>0. j \in Job /\ (j.call = "statistics" => ~j.probed)
    BY DEF Able
<1>1. /\ j.logins + 1 <= Budget(j) /\ j.logins + 1 \in 0 .. 3
    BY <1>0 DEF Job, Budget, Again
<1>2. /\ i \in Job /\ i.call = j.call /\ i.logins = j.logins + 1
      /\ i.csrf = j.csrf /\ i.auth = j.auth /\ i.probed = j.probed
      /\ i.found = j.found /\ i.goal = j.goal
    BY <1>0, <1>1 DEF Job, Counted
<1>3. /\ v \in Web /\ v.paths = w.paths
      /\ (w.session = "none" => v.session = "own") /\ (w.session # "none" => v = w)
    BY DEF Web, Entered
<1>4. cookie' = (cookie /\ w.session # "none") /\ LoginRequest(t, i, v, "initial", 1)
    BY DEF EnterLogin, Counted, Entered
<1> HIDE DEF i, v
<1>5. Able(i)
    BY <1>0, <1>1, <1>2 DEF Able, Budget
<1>6. InLoop("initial", 1)
    BY DEF InLoop
<1>7. w.session # "closing" => Open(v)
    BY <1>3 DEF Open, Web
<1>8. /\ Landed(t, i.call, v)
      /\ job'[t].at \in {"idle", "get", "put", "closing", "initial"}
      /\ Open(v) => web' = v /\ job'[t] = Trying(i, "initial", 1)
      /\ web'.paths # {} => Open(v)
      /\ i.found = {} /\ i.goal = "first" /\ v.paths = {} =>
               /\ job'[t].found = {} /\ job'[t].goal = "first"
               /\ web'.paths = {} /\ job'[t].at \in {"idle", "closing", "initial"}
    BY <1>2, <1>3, <1>4, <1>5, <1>6, LoginRequestLands
<1>9. web'.paths # {} => Open(web')
    BY <1>8 DEF Landed, Open
<1> QED BY <1>2, <1>3, <1>4, <1>5, <1>7, <1>8, <1>9 DEF i, v

-----------------------------------------------------------------------------
(* What a step of task t does to the lock, to the sessions and to its own  *)
(* await is enough for the parts of the invariant but the calm one.        *)

Sound == TypeOK /\ (\A t \in Task : Fit(job[t])) /\ LockInv /\ SessionInv /\ OpenInv

QueueKept(t) ==
    /\ waiters' \in Seq(Task)
    /\ \A n \in 1 .. Len(waiters') :
          IF waiters'[n] = t THEN job'[t].at = "lock"
          ELSE \E m \in 1 .. Len(waiters) : waiters[m] = waiters'[n]
    /\ \A m, n \in 1 .. Len(waiters') : waiters'[m] = waiters'[n] => m = n

SessionMoves(t) ==
    /\ web'.session = "external" => web.session = "external"
    /\ web'.session = "closing" =>
          job'[t].at = "closing" \/ (web.session = "closing" /\ job[t].at # "closing")
    /\ web'.session = "own" => web.session = "own" \/ holder = NoTask
    /\ job'[t].at = "closing" => web'.session = "closing"

StepOf(t) ==
    /\ Lands(t) /\ Fit(job'[t])
    /\ Active(t) => job'[t].call = job[t].call
    /\ LockFollows(t) /\ (Owns(job'[t]) => Owns(job[t]) \/ holder = NoTask)
    /\ QueueKept(t)
    /\ SessionMoves(t)
    /\ job'[t].at \in LoginSteps => job'[t].live /\ Open(web')
    /\ torn' \in BOOLEAN /\ (torn => torn')
    /\ ~torn' /\ web'.paths # {} => Open(web')
    /\ ~torn' /\ Open(web) /\ ~Open(web') =>
          \A u \in Task \ {t} : job[u].at \notin LoginSteps

LEMMA FitHere ==
  ASSUME job \in [Task -> Job], NEW t \in Task, Lands(t), Fit(job'[t]), NEW u \in Task, Fit(job[u])
  PROVE  Fit(job'[u])
<1>1. CASE u = t
    BY <1>1
<1>2. CASE u # t
  <2>1. job'[u] \in Job
      BY DEF Lands
  <2> QED BY <1>2, <2>1, OthersKeep DEF Fit, Able, Budget
<1> QED BY <1>1, <1>2

LEMMA StepKeepsSound ==
  ASSUME Sound, NEW t \in Task, StepOf(t)
  PROVE  /\ job' \in [Task -> Job] /\ web' \in Web /\ holder' \in Task \cup {NoTask}
         /\ waiters' \in Seq(Task) /\ torn' \in BOOLEAN
         /\ \A u \in Task : Fit(job'[u])
         /\ LockInv' /\ SessionInv' /\ OpenInv'
<1>0. /\ job \in [Task -> Job] /\ web \in Web /\ holder \in Task \cup {NoTask}
      /\ NoTask \notin Task
    BY Nav20Assumption DEF Sound, TypeOK
<1>1. job' \in [Task -> Job] /\ web' \in Web /\ waiters' \in Seq(Task) /\ torn' \in BOOLEAN
    BY DEF StepOf, Lands, QueueKept
<1>2. \A u \in Task : Fit(job'[u])
    BY <1>0, FitHere DEF Sound, StepOf
<1>3. holder' \in Task \cup {NoTask}
    BY <1>0 DEF StepOf, LockFollows
<1>4. \A u \in Task \ {t} : job'[u].at = job[u].at /\ job'[u].call = job[u].call
                             /\ job'[u].live = (job[u].live /\ (Open(web') \/ ~Open(web)))
    BY <1>0, OthersKeep DEF StepOf
<1>5. LockInv'
  <2>1. ASSUME NEW u \in Task
        PROVE  Owns(job'[u]) <=> holder' = u
    <3>1. CASE u = t
        BY <1>0, <3>1 DEF StepOf, LockFollows
    <3>2. CASE u # t
      <4>1. Owns(job'[u]) <=> Owns(job[u])
          BY <1>4, <3>2 DEF Owns
      <4>2. Owns(job[u]) <=> holder = u
          BY DEF Sound, LockInv
      <4>3. Owns(job[t]) <=> holder = t
          BY DEF Sound, LockInv
      <4> QED BY <1>0, <3>2, <4>1, <4>2, <4>3 DEF StepOf, LockFollows
    <3> QED BY <3>1, <3>2
  <2>2. ASSUME NEW n \in 1 .. Len(waiters')
        PROVE  job'[waiters'[n]].at = "lock"
    <3>1. CASE waiters'[n] = t
        BY <3>1 DEF StepOf, QueueKept
    <3>2. CASE waiters'[n] # t
      <4>1. PICK m \in 1 .. Len(waiters) : waiters[m] = waiters'[n]
          BY <3>2 DEF StepOf, QueueKept
      <4>2. job[waiters[m]].at = "lock"
          BY DEF Sound, LockInv
      <4>3. waiters[m] \in Task
          BY DEF Sound, TypeOK
      <4> QED BY <1>4, <3>2, <4>1, <4>2, <4>3
    <3> QED BY <3>1, <3>2
  <2>3. \A m, n \in 1 .. Len(waiters') : waiters'[m] = waiters'[n] => m = n
      BY DEF StepOf, QueueKept
  <2> QED BY <2>1, <2>2, <2>3 DEF LockInv
<1>6. SessionInv'
  <2>1. web'.session = "closing" => \E u \in Task : job'[u].at = "closing"
    <3>1. CASE job'[t].at = "closing"
        BY <3>1
    <3>2. CASE web.session = "closing" /\ job[t].at # "closing"
      <4>1. PICK u \in Task : job[u].at = "closing"
          BY <3>2 DEF Sound, SessionInv
      <4> QED BY <1>4, <3>2, <4>1
    <3> QED BY <3>1, <3>2 DEF StepOf, SessionMoves
  <2>2. ASSUME NEW u \in Task, job'[u].at = "closing"
        PROVE  /\ web'.session # "external"
               /\ job'[u].call # "close" => web'.session # "own"
    <3>1. CASE u = t
        BY <2>2, <3>1 DEF StepOf, SessionMoves
    <3>2. CASE u # t
      <4>1. job[u].at = "closing" /\ job'[u].call = job[u].call
          BY <1>4, <2>2, <3>2
      <4>2. /\ web.session # "external"
            /\ job[u].call # "close" => web.session # "own" /\ holder = u
          BY <4>1 DEF Sound, SessionInv, LockInv, Owns
      <4> QED BY <1>0, <4>1, <4>2 DEF StepOf, SessionMoves
    <3> QED BY <3>1, <3>2
  <2> QED BY <2>1, <2>2 DEF SessionInv
<1>7. OpenInv'
  <2> SUFFICES ASSUME ~torn'
               PROVE  /\ web'.paths # {} => Open(web')
                      /\ \A u \in Task : job'[u].at \in LoginSteps => job'[u].live /\ Open(web')
      BY DEF OpenInv, Open
  <2>1. ASSUME NEW u \in Task, job'[u].at \in LoginSteps
        PROVE  job'[u].live /\ Open(web')
    <3>1. CASE u = t
        BY <2>1, <3>1 DEF StepOf
    <3>2. CASE u # t
      <4>1. job[u].at \in LoginSteps
          BY <1>4, <2>1, <3>2
      <4>2. job[u].live /\ Open(web)
          BY <4>1 DEF StepOf, Sound, OpenInv
      <4>3. Open(web')
          BY <3>2, <4>1, <4>2 DEF StepOf
      <4> QED BY <1>4, <3>2, <4>2, <4>3
    <3> QED BY <3>1, <3>2
  <2> QED BY <2>1 DEF StepOf
<1> QED BY <1>1, <1>2, <1>3, <1>5, <1>6, <1>7

LEMMA QueueSame ==
  ASSUME Sound, NEW t \in Task, job[t].at # "lock", waiters' = waiters
  PROVE  QueueKept(t)
<1>1. waiters \in Seq(Task)
    BY DEF Sound, TypeOK
<1>2. \A n \in 1 .. Len(waiters) : waiters[n] # t
    BY DEF Sound, LockInv
<1> QED BY <1>1, <1>2 DEF QueueKept, Sound, LockInv

LEMMA LandedStep ==
  ASSUME Sound, NEW t \in Task, NEW c, Active(t) => c = job[t].call,
         NEW w \in Web, w.session = web.session, Landed(t, c, w),
         LockFollows(t), waiters' = waiters, job[t].at \notin {"lock", "closing"},
         torn' \in BOOLEAN, torn => torn',
         \/ job[t].at \in LoginSteps
         \/ ~Owns(job'[t]) /\ web'.paths \in {web.paths, {}} /\ web'.session = web.session
  PROVE  StepOf(t)
<1>0. web \in Web
    BY DEF Sound, TypeOK
<1>1. QueueKept(t)
    BY QueueSame
<1>2. SessionMoves(t)
    BY DEF Landed, SessionMoves
<1>3. Owns(job'[t]) => Owns(job[t])
    BY DEF Owns
<1>4. ~torn' /\ web'.paths # {} => Open(web')
  <2>1. CASE job[t].at \in LoginSteps
      BY <2>1 DEF Sound, OpenInv, Landed, Open
  <2>2. CASE web'.paths \in {web.paths, {}} /\ web'.session = web.session
      BY <2>2 DEF Sound, OpenInv, Open
  <2> QED BY <2>1, <2>2
<1>5. Open(web) /\ ~Open(web') => \A u \in Task \ {t} : job[u].at \notin LoginSteps
  <2>1. CASE job[t].at \in LoginSteps
    <3>1. holder = t
        BY <2>1 DEF Sound, LockInv, Owns
    <3> QED BY <3>1 DEF Sound, LockInv, Owns
  <2>2. CASE web'.session = web.session
      BY <2>2 DEF Open
  <2> QED BY <2>1, <2>2
<1> QED BY <1>1, <1>2, <1>3, <1>4, <1>5 DEF StepOf, Landed

LEMMA EnterStep ==
  ASSUME Sound, NEW t \in Task, NEW j, Able(j), j.logins < Budget(j), j.call # "close",
         Active(t) => j.call = job[t].call,
         NEW w \in Web, w.session = web.session, EnterLogin(t, j, w), LockFollows(t),
         holder = NoTask, job[t].at # "closing", QueueKept(t), torn' = torn
  PROVE  StepOf(t) /\ job'[t].call = j.call
<1>0. job \in [Task -> Job] /\ web \in Web /\ torn \in BOOLEAN /\ NoTask \notin Task
    BY Nav20Assumption DEF Sound, TypeOK
<1>1. /\ Landed(t, j.call, Entered(w))
      /\ job'[t].at \in {"idle", "get", "put", "closing", "initial"}
      /\ web'.paths # {} => Open(web')
    BY <1>0, EnterLoginLands
<1>2. Entered(w).session = IF web.session = "none" THEN "own" ELSE web.session
    BY DEF Entered, Web
<1>3. SessionMoves(t)
    BY <1>1, <1>2 DEF Landed, SessionMoves
<1>4. \A u \in Task : job[u].at \notin LoginSteps
    BY <1>0 DEF Sound, LockInv, Owns
<1> QED BY <1>0, <1>1, <1>3, <1>4 DEF StepOf, Landed

LEMMA QueueJoined ==
  ASSUME Sound, NEW t \in Task, job[t].at # "lock", waiters' = Append(waiters, t),
         job'[t].at = "lock"
  PROVE  QueueKept(t)
<1>1. waiters \in Seq(Task)
    BY DEF Sound, TypeOK
<1>2. /\ waiters' \in Seq(Task) /\ Len(waiters') = Len(waiters) + 1
      /\ \A n \in 1 .. Len(waiters) : waiters'[n] = waiters[n]
      /\ waiters'[Len(waiters) + 1] = t
    BY <1>1, AppendProperties
<1>3. \A n \in 1 .. Len(waiters) : waiters[n] # t
    BY DEF Sound, LockInv
<1>4. \A n \in 1 .. Len(waiters') : n \in 1 .. Len(waiters) \/ n = Len(waiters) + 1
    BY <1>1, <1>2
<1>5. \A m, n \in 1 .. Len(waiters) : waiters[m] = waiters[n] => m = n
    BY DEF Sound, LockInv
<1>6. \A m, n \in 1 .. Len(waiters') : waiters'[m] = waiters'[n] => m = n
    BY <1>2, <1>3, <1>4, <1>5
<1> QED BY <1>2, <1>4, <1>6 DEF QueueKept

LEMMA LoginStep ==
  ASSUME Sound, NEW t \in Task, NEW j, Able(j), j.logins < Budget(j), j.call # "close",
         Active(t) => j.call = job[t].call,
         NEW w \in Web, w.session = web.session, w.paths \in {web.paths, {}},
         Login(t, j, w), LockFollows(t), job[t].at \notin {"lock", "closing"}, torn' = torn
  PROVE  StepOf(t) /\ job'[t].call = j.call
<1>0. job \in [Task -> Job] /\ torn \in BOOLEAN /\ j \in Job
    BY DEF Sound, TypeOK, Able
<1>1. CASE holder = NoTask /\ EnterLogin(t, j, w) /\ UNCHANGED waiters
    BY <1>1, QueueSame, EnterStep
<1>2. CASE Commit(t, [j EXCEPT !.at = "lock"], w) /\ waiters' = Append(waiters, t)
  <2> DEFINE i == [j EXCEPT !.at = "lock"]
  <2>1. /\ i \in Job /\ i.at = "lock" /\ i.call = j.call /\ i.logins = j.logins
        /\ i.csrf = j.csrf /\ i.auth = j.auth /\ i.probed = j.probed
      BY <1>0 DEF Job
  <2>2. Commit(t, i, w)
      BY <1>2
  <2> HIDE DEF i
  <2>3. Fit(i)
      BY <2>1 DEF Fit, Able, Budget, LoginSteps
  <2>4. Lands(t) /\ job'[t] = i /\ web' = w
      BY <1>0, <2>1, <2>2, CommitDoes
  <2>5. QueueKept(t)
      BY <1>2, <2>1, <2>4, QueueJoined
  <2>6. ~Owns(job'[t]) /\ job'[t].at \notin LoginSteps /\ job'[t].at # "closing"
      BY <2>1, <2>4 DEF Owns, LoginSteps
  <2>7. SessionMoves(t)
      BY <2>4, <2>6 DEF SessionMoves
  <2>8. ~torn /\ web'.paths # {} => Open(web')
      BY <2>4 DEF Sound, OpenInv, Open
  <2>9. Open(web) => Open(web')
      BY <2>4 DEF Open
  <2> QED BY <1>0, <2>1, <2>3, <2>4, <2>5, <2>6, <2>7, <2>8, <2>9 DEF StepOf
<1> QED BY <1>1, <1>2 DEF Login

-----------------------------------------------------------------------------
(* The actions.                                                            *)

LEMMA StartedIs ==
  ASSUME NEW t, NEW c \in CallKinds
  PROVE  LET i == Started(t, c) IN
         /\ Able(i) /\ i.logins < Budget(i) /\ i.call = c /\ i.at = "idle" /\ i.goal = "first"
         /\ i.found = {} /\ ~i.csrf /\ ~i.auth /\ ~i.probed /\ i.result = "none"
         /\ i.todo = IF c = "statistics" THEN Pages ELSE {}
<1> DEFINE i == Started(t, c)
           S == IF c = "statistics" THEN Pages ELSE {}
<1>1. S \in SUBSET Pages
    OBVIOUS
<1> HIDE DEF S
<1>2. i = [Fresh EXCEPT !.call = c, !.result = "none", !.todo = S]
    BY DEF Started, S
<1> HIDE DEF i
<1>3. /\ i \in Job /\ i.call = c /\ i.at = "idle" /\ i.goal = "first" /\ i.logins = 0
      /\ i.found = {} /\ ~i.csrf /\ ~i.auth /\ ~i.probed /\ i.result = "none" /\ i.todo = S
    BY <1>1, <1>2, FreshIs DEF Job
<1>4. Able(i) /\ i.logins < Budget(i)
    BY <1>3 DEF Able, Budget, Again
<1> QED BY <1>3, <1>4 DEF i, S

LEMMA BeginLoginStep ==
  ASSUME Sound, NEW t \in Task, BeginLogin(t)
  PROVE  StepOf(t) /\ job'[t].call # "close"
<1>1. PICK c \in {"login", "clock"} :
          Begin(t, c) /\ Login(t, Started(t, c), web) /\ LockFollows(t)
    BY DEF BeginLogin
<1>2. job[t].at = "idle" /\ torn' = torn /\ web \in Web
    BY <1>1 DEF Begin, Sound, TypeOK
<1>3. Able(Started(t, c)) /\ Started(t, c).logins < Budget(Started(t, c))
      /\ Started(t, c).call = c
    BY StartedIs DEF CallKinds
<1> QED BY <1>1, <1>2, <1>3, LoginStep DEF Active

LEMMA BeginReadStep ==
  ASSUME Sound, NEW t \in Task, BeginRead(t)
  PROVE  StepOf(t) /\ job'[t].call # "close"
<1> DEFINE j == Started(t, "read")
<1>1. job[t].at = "idle" /\ torn' = torn /\ web \in Web /\ LockFollows(t) /\ torn \in BOOLEAN
      /\ job \in [Task -> Job]
    BY DEF BeginRead, Begin, Sound, TypeOK
<1>2. Able(j) /\ j.logins < Budget(j) /\ j.call = "read"
    BY StartedIs DEF CallKinds
<1>3. j \in Job
    BY <1>2 DEF Able
<1>4. CASE Login(t, j, web)
  <2> HIDE DEF j
  <2> QED BY <1>1, <1>2, <1>4, LoginStep DEF Active
<1>5. CASE UNCHANGED waiters /\ Return(t, j, web, "failed")
  <2> HIDE DEF j
  <2>1. /\ Landed(t, "read", web) /\ job'[t].at = "idle"
        /\ SameButProbes(web', web)
      BY <1>1, <1>2, <1>3, <1>5, ReturnDoes, ReturnLands DEF Results
  <2> QED BY <1>1, <1>5, <2>1, LandedStep DEF SameButProbes, Owns, LoginSteps, Active, Landed
<1>6. CASE UNCHANGED waiters /\ NextPage(t, [j EXCEPT !.todo = web.paths], [web EXCEPT !.probes = {}])
  <2> DEFINE i == [j EXCEPT !.todo = web.paths]
             w == [web EXCEPT !.probes = {}]
  <2> HIDE DEF j
  <2>1. /\ i \in Job /\ i.call = "read" /\ i.logins = j.logins /\ i.csrf = j.csrf
        /\ i.auth = j.auth
      BY <1>1, <1>2, <1>3 DEF Job, Web
  <2>2. w \in Web /\ SameButProbes(w, web)
      BY <1>1 DEF Web, SameButProbes
  <2>3. NextPage(t, i, w)
      BY <1>6
  <2> HIDE DEF i, w
  <2>4. Able(i)
      BY <1>2, <2>1 DEF Able, Budget
  <2>5. Landed(t, "read", w) /\ job'[t].at \in {"idle", "get"} /\ SameButProbes(web', w)
      BY <1>1, <2>1, <2>2, <2>3, <2>4, NextPageLands, NextPageDoes
  <2> QED BY <1>1, <1>6, <2>2, <2>5, LandedStep DEF SameButProbes, Owns, LoginSteps, Active, Landed
<1> QED BY <1>4, <1>5, <1>6, Zenon DEF BeginRead

LEMMA BeginStatisticsStep ==
  ASSUME Sound, NEW t \in Task, BeginStatistics(t)
  PROVE  StepOf(t) /\ job'[t].call # "close"
<1> DEFINE j == Started(t, "statistics")
<1>1. job[t].at = "idle" /\ torn' = torn /\ web \in Web /\ LockFollows(t) /\ torn \in BOOLEAN
      /\ job \in [Task -> Job]
    BY DEF BeginStatistics, Begin, Sound, TypeOK
<1>2. Able(j) /\ j.logins < Budget(j) /\ j.call = "statistics"
    BY StartedIs DEF CallKinds
<1>4. CASE Login(t, j, web)
  <2> HIDE DEF j
  <2> QED BY <1>1, <1>2, <1>4, LoginStep DEF Active
<1>5. CASE UNCHANGED waiters /\ NextPage(t, j, web)
  <2> HIDE DEF j
  <2>1. Landed(t, "statistics", web) /\ job'[t].at \in {"idle", "get"} /\ SameButProbes(web', web)
      BY <1>1, <1>2, <1>5, NextPageLands, NextPageDoes
  <2> QED BY <1>1, <1>5, <2>1, LandedStep DEF SameButProbes, Owns, LoginSteps, Active, Landed
<1> QED BY <1>4, <1>5, Zenon DEF BeginStatistics

LEMMA CloseClientStep ==
  ASSUME Sound, NEW t \in Task, CloseClient(t)
  PROVE  StepOf(t)
<1> DEFINE j == Started(t, "close")
<1>1. /\ job[t].at = "idle" /\ web \in Web /\ torn \in BOOLEAN /\ job \in [Task -> Job]
      /\ Close(t, j, web, "ok") /\ holder' = holder /\ waiters' = waiters
      /\ torn' = (torn \/ \E u \in Task : job[u].at \in LoginSteps)
      /\ NoTask \notin Task
    BY Nav20Assumption DEF CloseClient, Sound, TypeOK
<1>2. Able(j) /\ j.call = "close"
    BY StartedIs DEF CallKinds
<1> HIDE DEF j
<1>3. /\ Landed(t, "close", web) /\ web'.paths = {}
      /\ job'[t].at \in {"idle", "closing"}
    BY <1>1, <1>2, CloseLands DEF Results
<1>4. ~Owns(job'[t]) /\ ~Owns(job[t]) /\ job'[t].at \notin LoginSteps
    BY <1>1, <1>3 DEF Owns, Landed, LoginSteps
<1>5. LockFollows(t)
    BY <1>1, <1>4 DEF Sound, LockInv, LockFollows
<1>6. QueueKept(t)
    BY <1>1, QueueSame
<1>7. SessionMoves(t)
    BY <1>1, <1>3 DEF Landed, SessionMoves
<1> QED BY <1>1, <1>3, <1>4, <1>5, <1>6, <1>7 DEF StepOf, Landed, Active

LEMMA RequestStep ==
  ASSUME Sound, NEW t \in Task, NEW j, Able(j), j.call # "close", j.call = job[t].call, NEW w \in Web,
         w.session = web.session, NEW where, NEW k, InLoop(where, k),
         LoginRequest(t, j, w, where, k),
         job[t].at \in LoginSteps, LockFollows(t), waiters' = waiters, torn' = torn
  PROVE  StepOf(t)
<1>1. job \in [Task -> Job] /\ torn \in BOOLEAN
    BY DEF Sound, TypeOK
<1>2. Landed(t, j.call, w)
    BY <1>1, LoginRequestLands
<1> QED BY <1>1, <1>2, LandedStep DEF LoginSteps

LEMMA CloseStep ==
  ASSUME Sound, NEW t \in Task, NEW r \in Results, Close(t, job[t], web, r),
         job[t].at \in LoginSteps, LockFollows(t), waiters' = waiters,
         torn' \in BOOLEAN, torn => torn'
  PROVE  StepOf(t)
<1>1. job \in [Task -> Job] /\ web \in Web /\ Able(job[t])
    BY DEF Sound, TypeOK, Fit
<1>2. Landed(t, job[t].call, web)
    BY <1>1, CloseLands
<1> QED BY <1>1, <1>2, LandedStep DEF LoginSteps

LEMMA GrantedStep ==
  ASSUME Sound, NEW t \in Task, Granted(t)
  PROVE  StepOf(t)
<1>1. /\ job \in [Task -> Job] /\ web \in Web /\ torn \in BOOLEAN /\ waiters \in Seq(Task)
      /\ holder = NoTask /\ waiters # <<>> /\ t = Head(waiters) /\ waiters' = Tail(waiters)
      /\ EnterLogin(t, job[t], web) /\ LockFollows(t) /\ torn' = torn
    BY DEF Granted, Sound, TypeOK, history
<1>2. /\ Len(waiters) \in Nat \ {0} /\ waiters[1] = t
      /\ waiters' \in Seq(Task) /\ Len(waiters') = Len(waiters) - 1
      /\ \A n \in 1 .. Len(waiters') : waiters'[n] = waiters[n + 1]
    BY <1>1, HeadTailProperties
<1>3. job[t].at = "lock"
    BY <1>2 DEF Sound, LockInv
<1>4. Able(job[t]) /\ job[t].logins < Budget(job[t]) /\ job[t].call # "close"
    BY <1>3 DEF Sound, Fit
<1>5. \A m, n \in 1 .. Len(waiters) : waiters[m] = waiters[n] => m = n
    BY DEF Sound, LockInv
<1>6. QueueKept(t)
  <2>1. \A n \in 1 .. Len(waiters') : n + 1 \in 1 .. Len(waiters) /\ n + 1 # 1
      BY <1>2
  <2>2. \A n \in 1 .. Len(waiters') : waiters'[n] # t
      BY <1>2, <1>5, <2>1
  <2>3. \A m, n \in 1 .. Len(waiters') : waiters'[m] = waiters'[n] => m = n
      BY <1>2, <1>5, <2>1
  <2> QED BY <1>2, <2>1, <2>2, <2>3 DEF QueueKept
<1> QED BY <1>1, <1>3, <1>4, <1>6, EnterStep

LEMMA InitialStep ==
  ASSUME Sound, NEW t \in Task, InitialAnswer(t)
  PROVE  StepOf(t)
<1> DEFINE w == [web EXCEPT !.token = "none", !.form = FALSE, !.denied = FALSE]
<1>1. /\ job[t].at = "initial" /\ web \in Web /\ torn' = torn /\ torn \in BOOLEAN
      /\ waiters' = waiters /\ LockFollows(t)
    BY DEF InitialAnswer, Answered, history, Sound, TypeOK
<1>2. Able(job[t]) /\ job[t].call # "close"
    BY <1>1 DEF Sound, Fit, LoginSteps
<1>3. w \in Web /\ w.session = web.session
    BY <1>1 DEF Web
<1>4. InLoop("post", 1) /\ InLoop("initial", 2)
    BY Sizes DEF InLoop
<1>5. job[t].at \in LoginSteps
    BY <1>1 DEF LoginSteps
<1>6. \/ LoginRequest(t, job[t], w, "post", 1)
      \/ LoginRequest(t, job[t], web, "initial", 2)
      \/ Close(t, job[t], web, "failed")
    BY Zenon DEF InitialAnswer
<1> HIDE DEF w
<1>7. CASE LoginRequest(t, job[t], w, "post", 1)
    BY <1>1, <1>2, <1>3, <1>4, <1>5, <1>7, RequestStep
<1>8. CASE LoginRequest(t, job[t], web, "initial", 2)
    BY <1>1, <1>2, <1>4, <1>5, <1>8, RequestStep
<1>9. CASE Close(t, job[t], web, "failed")
    BY <1>1, <1>5, <1>9, CloseStep DEF Results
<1> QED BY <1>6, <1>7, <1>8, <1>9

LEMMA FormOfIs ==
  ASSUME NEW k \in 1 .. Variants
  PROVE  /\ FormOf(k) \in Nat
         /\ FormOf(k) * Fields <= k - 1 /\ k - 1 < (FormOf(k) + 1) * Fields
<1>1. Fields \in Nat \ {0} /\ Variants \in Nat
    BY Sizes
<1> HIDE DEF Variants
<1>2. k - 1 \in Nat
    BY <1>1
<1>3. \A x \in Nat, y \in Nat \ {0} :
         x \div y \in Nat /\ (x \div y) * y <= x /\ x < (x \div y + 1) * y
    OBVIOUS
<1> QED BY <1>1, <1>2, <1>3 DEF FormOf

LEMMA TriesOnStep ==
  ASSUME Sound, NEW t \in Task, job[t].at = "post", NEW w \in Web, w.session = web.session,
         NEW k \in Nat \ {0}, TriesOn(t, w, k), LockFollows(t), waiters' = waiters, torn' = torn
  PROVE  StepOf(t)
<1>1. Able(job[t]) /\ job[t].call # "close" /\ job[t].at \in LoginSteps
    BY DEF Sound, Fit, LoginSteps
<1>2. CASE k <= Variants /\ LoginRequest(t, job[t], w, "post", k)
  <2>1. InLoop("post", k)
      BY <1>2, Sizes DEF InLoop
  <2> QED BY <1>1, <1>2, <2>1, RequestStep
<1>3. CASE LoginRequest(t, job[t], [w EXCEPT !.probes = {}], "probe", 1)
  <2>1. InLoop("probe", 1)
      BY Sizes DEF InLoop
  <2>2. [w EXCEPT !.probes = {}] \in Web /\ [w EXCEPT !.probes = {}].session = web.session
      BY DEF Web
  <2> QED BY <1>1, <1>3, <2>1, <2>2, RequestStep
<1> QED BY <1>2, <1>3, Zenon DEF TriesOn

(* What the answer a to the login means for the state of the client.       *)
Posted(a) ==
    IF a = "accepted" THEN [web EXCEPT !.token = "good", !.form = FALSE, !.probes = {}]
    ELSE IF a \in {"form", "authreq"} THEN [web EXCEPT !.form = TRUE]
    ELSE IF a = "denied" THEN [web EXCEPT !.form = TRUE, !.denied = TRUE]
    ELSE IF a = "other" THEN [web EXCEPT !.form = FALSE, !.probes = {}]
    ELSE web

(* The answers that end the search for the variant.                        *)
Taken == {"accepted", "other"}

LEMMA PostedIs ==
  ASSUME web \in Web, NEW a
  PROVE  /\ Posted(a) \in Web /\ Posted(a).session = web.session /\ Posted(a).paths = web.paths
         /\ a = "accepted" => Posted(a).token = "good"
         /\ a # "accepted" => Posted(a).token = web.token
         /\ a \in {"form", "authreq", "denied"} => Posted(a).form
BY DEF Posted, Web

(* Where it sends the task.                                                *)
NextTry(a, k) == IF a = "form" THEN (FormOf(k) + 1) * Fields + 1 ELSE k + 1

LEMMA PostAnswerDoes ==
  ASSUME web \in Web, NEW t \in Task, job[t].at = "post", Fit(job[t]), PostAnswer(t)
  PROVE  \E a \in PostAnswers(t) :
            /\ cookie' = (cookie \/ a = "accepted")
            /\ \/ a \in Taken /\ LoginRequest(t, job[t], Posted(a), "probe", 1)
               \/ /\ a \notin Taken /\ NextTry(a, job[t].k) \in Nat \ {0}
                  /\ TriesOn(t, Posted(a), NextTry(a, job[t].k))
<1> DEFINE k == job[t].k
<1>1. k \in 1 .. Variants /\ Fields \in Nat /\ Variants \in Nat
    BY Sizes DEF Fit
<1>2. k + 1 \in Nat \ {0} /\ (FormOf(k) + 1) * Fields + 1 \in Nat \ {0}
  <2>1. FormOf(k) \in Nat
      BY <1>1, FormOfIs
  <2>2. (FormOf(k) + 1) * Fields \in Nat
      BY <1>1, <2>1
  <2> HIDE DEF k
  <2> QED BY <1>1, <2>2
<1>3. PICK a \in PostAnswers(t) :
          /\ cookie' = (cookie \/ a = "accepted")
          /\ \/ /\ a = "accepted"
                /\ LoginRequest(t, job[t], [web EXCEPT !.token = "good", !.form = FALSE,
                                                       !.probes = {}], "probe", 1)
             \/ /\ a = "other"
                /\ LoginRequest(t, job[t], [web EXCEPT !.form = FALSE, !.probes = {}], "probe", 1)
             \/ a = "form" /\ TriesOn(t, [web EXCEPT !.form = TRUE], (FormOf(k) + 1) * Fields + 1)
             \/ a = "authreq" /\ TriesOn(t, [web EXCEPT !.form = TRUE], k + 1)
             \/ a = "denied" /\ TriesOn(t, [web EXCEPT !.form = TRUE, !.denied = TRUE], k + 1)
             \/ a \in {"empty", "error"} /\ TriesOn(t, web, k + 1)
    BY Zenon DEF PostAnswer
<1> HIDE DEF k
<1>4. NextTry(a, k) \in Nat \ {0}
    BY <1>2 DEF NextTry
<1>5. \/ a \in Taken /\ LoginRequest(t, job[t], Posted(a), "probe", 1)
      \/ a \notin Taken /\ TriesOn(t, Posted(a), NextTry(a, k))
  <2>1. CASE /\ a = "accepted"
             /\ LoginRequest(t, job[t], [web EXCEPT !.token = "good", !.form = FALSE,
                                                    !.probes = {}], "probe", 1)
    <3>1. Posted(a) = [web EXCEPT !.token = "good", !.form = FALSE, !.probes = {}]
        BY <2>1 DEF Posted
    <3> QED BY <2>1, <3>1 DEF Taken
  <2>2. CASE a = "form" /\ TriesOn(t, [web EXCEPT !.form = TRUE], (FormOf(k) + 1) * Fields + 1)
    <3>1. Posted(a) = [web EXCEPT !.form = TRUE] /\ NextTry(a, k) = (FormOf(k) + 1) * Fields + 1
        BY <2>2 DEF Posted, NextTry
    <3> QED BY <2>2, <3>1 DEF Taken
  <2>3. CASE a = "authreq" /\ TriesOn(t, [web EXCEPT !.form = TRUE], k + 1)
    <3>1. Posted(a) = [web EXCEPT !.form = TRUE] /\ NextTry(a, k) = k + 1
        BY <2>3 DEF Posted, NextTry
    <3> QED BY <2>3, <3>1 DEF Taken
  <2>4. CASE a = "denied" /\ TriesOn(t, [web EXCEPT !.form = TRUE, !.denied = TRUE], k + 1)
    <3>1. Posted(a) = [web EXCEPT !.form = TRUE, !.denied = TRUE] /\ NextTry(a, k) = k + 1
        BY <2>4 DEF Posted, NextTry
    <3> QED BY <2>4, <3>1 DEF Taken
  <2>5. CASE a \in {"empty", "error"} /\ TriesOn(t, web, k + 1)
    <3>1. Posted(a) = web /\ NextTry(a, k) = k + 1
        BY <2>5 DEF Posted, NextTry
    <3> QED BY <2>5, <3>1 DEF Taken
  <2>6. CASE /\ a = "other"
             /\ LoginRequest(t, job[t], [web EXCEPT !.form = FALSE, !.probes = {}], "probe", 1)
    <3>1. Posted(a) = [web EXCEPT !.form = FALSE, !.probes = {}]
        BY <2>6 DEF Posted
    <3> QED BY <2>6, <3>1 DEF Taken
  <2> QED BY <1>3, <2>1, <2>2, <2>3, <2>4, <2>5, <2>6
<1> QED BY <1>3, <1>4, <1>5 DEF k

LEMMA PostStep ==
  ASSUME Sound, NEW t \in Task, PostAnswer(t)
  PROVE  StepOf(t)
<1>1. /\ job[t].at = "post" /\ web \in Web /\ torn' = torn
      /\ waiters' = waiters /\ LockFollows(t) /\ Fit(job[t])
    BY DEF PostAnswer, Answered, history, Sound, TypeOK
<1>2. Able(job[t]) /\ job[t].call # "close" /\ job[t].at \in LoginSteps
    BY <1>1 DEF Fit, LoginSteps
<1>3. PICK a \in PostAnswers(t) :
            /\ cookie' = (cookie \/ a = "accepted")
            /\ \/ a \in Taken /\ LoginRequest(t, job[t], Posted(a), "probe", 1)
               \/ /\ a \notin Taken /\ NextTry(a, job[t].k) \in Nat \ {0}
                  /\ TriesOn(t, Posted(a), NextTry(a, job[t].k))
    BY <1>1, PostAnswerDoes
<1>4. Posted(a) \in Web /\ Posted(a).session = web.session
    BY <1>1, PostedIs
<1>5. CASE LoginRequest(t, job[t], Posted(a), "probe", 1)
  <2>1. InLoop("probe", 1)
      BY Sizes DEF InLoop
  <2> QED BY <1>1, <1>2, <1>4, <1>5, <2>1, RequestStep
<1>6. CASE NextTry(a, job[t].k) \in Nat \ {0} /\ TriesOn(t, Posted(a), NextTry(a, job[t].k))
    BY <1>1, <1>4, <1>6, TriesOnStep
<1> QED BY <1>3, <1>5, <1>6

(* The pages are probed by their rank among them: each rank has its page.  *)
LEMMA PageOfRank ==
  ASSUME NEW k \in 1 .. Cardinality(Pages)
  PROVE  First({p \in Pages : Cardinality({q \in Pages : q < p}) = k - 1}) \in Pages
<1> DEFINE n == Cardinality(Pages)
           Below(p) == {q \in Pages : q < p}
           f == [p \in Pages |-> Cardinality(Below(p))]
           S == {p \in Pages : Cardinality(Below(p)) = k - 1}
<1>1. n \in Nat /\ IsFiniteSet(Pages) /\ Pages \subseteq Nat
    BY Sizes, Nav20Assumption
<1>2. ASSUME NEW p \in Pages
      PROVE  /\ IsFiniteSet(Below(p)) /\ Cardinality(Below(p)) \in Nat
             /\ Cardinality(Below(p)) < n
  <2>1. Below(p) \in SUBSET Pages /\ p \notin Below(p)
      BY <1>1
  <2>2. IsFiniteSet(Below(p)) /\ Cardinality(Below(p)) <= n
        /\ (n = Cardinality(Below(p)) => Pages = Below(p))
      BY <1>1, <2>1, FS_Subset
  <2>3. Cardinality(Below(p)) \in Nat
      BY <2>2, FS_CardinalityType
  <2> QED BY <1>1, <2>1, <2>2, <2>3
<1>3. ASSUME NEW p \in Pages, NEW q \in Pages, p < q
      PROVE  Cardinality(Below(p)) < Cardinality(Below(q))
  <2>1. Below(p) \in SUBSET Below(q) /\ p \in Below(q) /\ p \notin Below(p)
    <3>1. p \in Nat /\ q \in Nat /\ \A r \in Pages : r \in Nat
        BY <1>1
    <3>2. \A r \in Pages : r < p => r < q
        BY <1>3, <3>1
    <3>3. ~(p < p)
        BY <3>1
    <3> QED BY <1>3, <3>2, <3>3, Zenon
  <2>2. /\ Cardinality(Below(p)) <= Cardinality(Below(q))
        /\ Cardinality(Below(q)) = Cardinality(Below(p)) => Below(q) = Below(p)
      BY <1>2, <2>1, FS_Subset
  <2> QED BY <1>2, <2>1, <2>2
<1>4. \A p, q \in Pages : Cardinality(Below(p)) = Cardinality(Below(q)) => p = q
  <2> HIDE DEF Below
  <2>1. \A p, q \in Pages : p = q \/ p < q \/ q < p
      BY <1>1
  <2> QED BY <1>2, <1>3, <2>1
<1>5. f \in Injection(Pages, 0 .. n - 1)
  <2> HIDE DEF n, Below
  <2> QED BY <1>1, <1>2, <1>4 DEF Injection, IsInjective
<1>6. IsFiniteSet(0 .. n - 1) /\ Cardinality(0 .. n - 1) = n
  <2>1. 0 \in Int /\ n - 1 \in Int
      BY <1>1
  <2> HIDE DEF n
  <2> QED BY <1>1, <2>1, FS_Interval
<1>7. f \in Surjection(Pages, 0 .. n - 1)
  <2> HIDE DEF f
  <2>1. Cardinality(Pages) = Cardinality(0 .. n - 1)
      BY <1>6
  <2> QED BY <1>5, <1>6, <2>1, FS_Injection
<1>8. PICK p \in Pages : f[p] = k - 1
  <2>1. k - 1 \in 0 .. n - 1
      BY <1>1
  <2> HIDE DEF f, n
  <2> QED BY <1>7, <2>1 DEF Surjection
<1>9. S = {p}
  <2> HIDE DEF Below
  <2> QED BY <1>4, <1>8
<1>10. First(S) = p
  <2> HIDE DEF S
  <2>1. p <= p
      BY <1>1
  <2> QED BY <1>9, <2>1 DEF First
<1> QED BY <1>10

(* What the answer a to a probe of a page means.                           *)
Probed(a, page) ==
    [web EXCEPT !.probes = IF a = "data" THEN @ \cup {page} ELSE @,
                !.form = @ \/ a \in {"form", "denied", "csrf"},
                !.denied = @ \/ a \in {"denied", "csrf"}]

Finding(j, a, page) == IF a = "data" THEN [j EXCEPT !.found = @ \cup {page}] ELSE j

LEMMA ProbedIs ==
  ASSUME web \in Web, NEW a, NEW page \in Pages
  PROVE  LET w == Probed(a, page) IN
         /\ w \in Web /\ w.session = web.session /\ w.token = web.token /\ w.paths = web.paths
         /\ a \in {"form", "denied", "csrf"} \/ web.form => w.form
BY DEF Probed, Web

LEMMA FindingIs ==
  ASSUME NEW j, Able(j), NEW a, NEW page \in Pages
  PROVE  LET i == Finding(j, a, page) IN
         /\ Able(i) /\ i.at = j.at /\ i.call = j.call /\ i.k = j.k /\ i.goal = j.goal
         /\ i.csrf = j.csrf /\ i.auth = j.auth /\ i.todo = j.todo /\ i.answered = j.answered
         /\ i.logins = j.logins
         /\ IF a = "data" THEN i.found # {} ELSE i.found = j.found
<1> DEFINE i == Finding(j, a, page)
<1>1. j \in Job /\ j.logins <= Budget(j) /\ (j.call = "statistics" => ~j.probed)
    BY DEF Able
<1>2. /\ i \in Job /\ i.at = j.at /\ i.call = j.call /\ i.k = j.k /\ i.goal = j.goal
      /\ i.csrf = j.csrf /\ i.auth = j.auth /\ i.todo = j.todo /\ i.answered = j.answered
      /\ i.logins = j.logins /\ i.probed = j.probed
      /\ IF a = "data" THEN i.found # {} ELSE i.found = j.found
    BY <1>1 DEF Finding, Job
<1> HIDE DEF i
<1>3. Able(i)
    BY <1>1, <1>2 DEF Able, Budget
<1> QED BY <1>2, <1>3 DEF i

LEMMA ProbeAnswerDoes ==
  ASSUME NEW t \in Task, job[t].at = "probe", Fit(job[t]), ProbeAnswer(t)
  PROVE  \E a \in GetAnswers(t), page \in Pages :
            \/ /\ job[t].k < Cardinality(Pages)
               /\ LoginRequest(t, Finding(job[t], a, page), Probed(a, page), "probe", job[t].k + 1)
            \/ /\ job[t].k = Cardinality(Pages)
               /\ LoginEnds(t, Finding(job[t], a, page), Probed(a, page))
<1> DEFINE page == First({p \in Pages : Cardinality({q \in Pages : q < p}) = job[t].k - 1})
<1>1. page \in Pages
    BY PageOfRank DEF Fit
<1>2. PICK a \in GetAnswers(t) :
          LET j == IF a = "data" THEN [job[t] EXCEPT !.found = @ \cup {page}] ELSE job[t]
              w == [web EXCEPT !.probes = IF a = "data" THEN @ \cup {page} ELSE @,
                               !.form = @ \/ a \in {"form", "denied", "csrf"},
                               !.denied = @ \/ a \in {"denied", "csrf"}]
          IN  \/ j.k < Cardinality(Pages) /\ LoginRequest(t, j, w, "probe", j.k + 1)
              \/ j.k = Cardinality(Pages) /\ LoginEnds(t, j, w)
    BY Zenon DEF ProbeAnswer
<1> HIDE DEF page
<1>3. LET j == Finding(job[t], a, page) IN
      \/ j.k < Cardinality(Pages) /\ LoginRequest(t, j, Probed(a, page), "probe", j.k + 1)
      \/ j.k = Cardinality(Pages) /\ LoginEnds(t, j, Probed(a, page))
    BY <1>2, Zenon DEF Finding, Probed
<1>4. Finding(job[t], a, page).k = job[t].k
    BY <1>1, FindingIs DEF Fit
<1> QED BY <1>1, <1>3, <1>4

LEMMA ProbeStep ==
  ASSUME Sound, NEW t \in Task, ProbeAnswer(t)
  PROVE  StepOf(t)
<1>1. /\ job[t].at = "probe" /\ web \in Web /\ torn' = torn /\ torn \in BOOLEAN
      /\ waiters' = waiters /\ LockFollows(t) /\ Fit(job[t]) /\ job \in [Task -> Job]
    BY DEF ProbeAnswer, Answered, history, Sound, TypeOK
<1>2. PICK a \in GetAnswers(t), page \in Pages :
            \/ /\ job[t].k < Cardinality(Pages)
               /\ LoginRequest(t, Finding(job[t], a, page), Probed(a, page), "probe", job[t].k + 1)
            \/ /\ job[t].k = Cardinality(Pages)
               /\ LoginEnds(t, Finding(job[t], a, page), Probed(a, page))
    BY <1>1, ProbeAnswerDoes
<1> DEFINE j == Finding(job[t], a, page)
           w == Probed(a, page)
<1>3. Able(j) /\ j.call = job[t].call /\ j.call # "close" /\ job[t].at \in LoginSteps
    BY <1>1, FindingIs DEF Fit, LoginSteps
<1>4. w \in Web /\ w.session = web.session
    BY <1>1, ProbedIs
<1> HIDE DEF j, w
<1>5. CASE job[t].k < Cardinality(Pages) /\ LoginRequest(t, j, w, "probe", job[t].k + 1)
  <2>1. InLoop("probe", job[t].k + 1)
      BY <1>1, <1>5, Sizes DEF InLoop, Fit
  <2> QED BY <1>1, <1>3, <1>4, <1>5, <2>1, RequestStep
<1>6. CASE LoginEnds(t, j, w)
  <2>1. Landed(t, j.call, w)
      BY <1>1, <1>3, <1>4, <1>6, LoginEndsLands
  <2> QED BY <1>1, <1>3, <1>4, <2>1, LandedStep DEF LoginSteps
<1> QED BY <1>2, <1>5, <1>6 DEF j, w

(* The call after the answer to a page, and before it logs in again.       *)
Advanced(j) == [j EXCEPT !.todo = @ \ {First(@)}, !.answered = TRUE]

Renewing(j, goal) ==
    [j EXCEPT !.goal = goal, !.csrf = @ \/ goal = "csrf", !.auth = @ \/ goal = "auth"]

LEMMA AdvancedIs ==
  ASSUME NEW j, Able(j)
  PROVE  LET i == Advanced(j) IN
         /\ Able(i) /\ i.call = j.call /\ i.csrf = j.csrf /\ i.auth = j.auth /\ i.answered
<1> DEFINE i == Advanced(j)
<1>1. j \in Job
    BY DEF Able
<1>2. i \in Job /\ i.call = j.call /\ i.logins = j.logins /\ i.csrf = j.csrf /\ i.auth = j.auth
      /\ i.probed = j.probed /\ i.answered
    BY <1>1 DEF Job, Advanced
<1> HIDE DEF i
<1>3. Able(i)
    BY <1>2 DEF Able, Budget
<1> QED BY <1>2, <1>3 DEF i

LEMMA RenewingIs ==
  ASSUME NEW j, Able(j), NEW goal \in {"csrf", "auth"},
         \/ j.call = "read" /\ (goal = "csrf" => ~j.csrf) /\ (goal = "auth" => ~j.auth)
         \/ j.call = "statistics" /\ goal = "auth" /\ ~j.auth
  PROVE  LET i == Renewing(j, goal) IN
         /\ Able(i) /\ i.logins < Budget(i) /\ i.call = j.call /\ i.goal = goal
         /\ i.found = j.found /\ i.answered = j.answered /\ i.todo = j.todo
         /\ i.csrf = (j.csrf \/ goal = "csrf") /\ i.auth = (j.auth \/ goal = "auth")
<1> DEFINE i == Renewing(j, goal)
<1>1. j \in Job /\ j.logins <= Budget(j) /\ (j.call = "statistics" => ~j.probed)
    BY DEF Able
<1>2. /\ i \in Job /\ i.call = j.call /\ i.goal = goal /\ i.logins = j.logins
      /\ i.probed = j.probed
      /\ i.found = j.found /\ i.answered = j.answered /\ i.todo = j.todo
      /\ i.csrf = (j.csrf \/ goal = "csrf") /\ i.auth = (j.auth \/ goal = "auth")
    BY <1>1 DEF Job, Renewing
<1> HIDE DEF i
<1>3. Budget(i) = Budget(j) + 1 /\ Budget(j) \in 1 .. 3 /\ j.logins \in Nat
  <2>1. j.call = "read" => Budget(j) = 1 + Again(j.csrf) + Again(j.auth)
                           /\ Budget(i) = 1 + Again(i.csrf) + Again(i.auth)
      BY <1>2 DEF Budget
  <2>2. j.call = "statistics" => Budget(j) = 1 + Again(j.auth) /\ Budget(i) = 1 + Again(i.auth)
      BY <1>2 DEF Budget
  <2>4. /\ j.csrf \in BOOLEAN /\ j.auth \in BOOLEAN /\ j.logins \in Nat
        /\ i.csrf \in BOOLEAN /\ i.auth \in BOOLEAN
      BY <1>1, <1>2 DEF Job
  <2>5. CASE j.call = "read" /\ goal = "csrf"
    <3>1. ~j.csrf /\ i.csrf /\ i.auth = j.auth
        BY <1>2, <2>4, <2>5
    <3>2. Again(j.csrf) = 0 /\ Again(i.csrf) = 1 /\ Again(i.auth) = Again(j.auth)
        BY <3>1 DEF Again
    <3>3. Again(j.auth) = 0 \/ Again(j.auth) = 1
        BY DEF Again
    <3> QED BY <2>1, <2>4, <2>5, <3>2, <3>3
  <2>6. CASE j.call = "read" /\ goal = "auth"
    <3>1. ~j.auth /\ i.auth /\ i.csrf = j.csrf
        BY <1>2, <2>4, <2>6
    <3>2. Again(j.auth) = 0 /\ Again(i.auth) = 1 /\ Again(i.csrf) = Again(j.csrf)
        BY <3>1 DEF Again
    <3>3. Again(j.csrf) = 0 \/ Again(j.csrf) = 1
        BY DEF Again
    <3> QED BY <2>1, <2>4, <2>6, <3>2, <3>3
  <2>7. CASE j.call = "statistics" /\ goal = "auth"
    <3>1. ~j.auth /\ i.auth
        BY <1>2, <2>4, <2>7
    <3>2. Again(j.auth) = 0 /\ Again(i.auth) = 1
        BY <3>1 DEF Again
    <3> QED BY <2>2, <2>4, <2>7, <3>2
  <2> QED BY <2>5, <2>6, <2>7
<1>4. i.logins < Budget(i)
    BY <1>1, <1>2, <1>3
<1>5. Able(i)
    BY <1>1, <1>2, <1>3 DEF Able
<1> QED BY <1>2, <1>4, <1>5 DEF i

Dropped(goal) == [web EXCEPT !.token = "none", !.paths = IF goal = "auth" THEN {} ELSE @]

LEMMA DroppedIs ==
  ASSUME web \in Web, NEW goal
  PROVE  LET w == Dropped(goal) IN
         /\ w \in Web /\ w.session = web.session /\ w.paths \in {web.paths, {}}
         /\ w.token = "none" /\ w.form = web.form
BY DEF Dropped, Web

LEMMA GetAnswerDoes ==
  ASSUME NEW t, GetAnswer(t)
  PROVE  /\ job[t].at = "get" /\ job[t].call = "read" /\ Answered(t)
         /\ \E a \in GetAnswers(t) :
              \/ a = "data" /\ UNCHANGED <<waiters, cookie>> /\ NextPage(t, Advanced(job[t]), web)
              \/ a = "csrf" /\ ~job[t].csrf /\ Login(t, Renewing(job[t], "csrf"), Dropped("csrf"))
              \/ a = "form" /\ ~job[t].auth /\ Login(t, Renewing(job[t], "auth"), Dropped("auth"))
              \/ /\ a = "csrf" => job[t].csrf
                 /\ a = "form" => job[t].auth
                 /\ a # "data" /\ UNCHANGED <<waiters, cookie>>
                 /\ \E r \in Results : Return(t, job[t], web, r)
<1>1. job[t].at = "get" /\ job[t].call = "read" /\ Answered(t)
    BY Zenon DEF GetAnswer
<1>2. PICK a \in GetAnswers(t) :
        \/ a = "data" /\ PageRead(t)
        \/ a = "csrf" /\ ~job[t].csrf /\ LoginAgain(t, "csrf")
        \/ a = "csrf" /\ job[t].csrf /\ Fails(t, "csrf")
        \/ a = "form" /\ ~job[t].auth /\ LoginAgain(t, "auth")
        \/ a = "form" /\ job[t].auth /\ Fails(t, "pin")
        \/ a = "denied" /\ Fails(t, "pin")
        \/ a = "error" /\ Fails(t, "failed")
    BY Zenon DEF GetAnswer
<1>3. PageRead(t) => UNCHANGED <<waiters, cookie>> /\ NextPage(t, Advanced(job[t]), web)
    BY Zenon DEF PageRead, Advanced
<1>4. \A goal : LoginAgain(t, goal) => Login(t, Renewing(job[t], goal), Dropped(goal))
    BY Zenon DEF LoginAgain, Renewing, Dropped
<1>5. \A r : Fails(t, r) => UNCHANGED <<waiters, cookie>> /\ Return(t, job[t], web, r)
    BY Zenon DEF Fails
<1>6. {"csrf", "pin", "failed"} \subseteq Results
    BY DEF Results
<1>7. CASE a = "data" /\ PageRead(t)
    BY <1>1, <1>3, <1>7
<1>8. CASE a = "csrf" /\ ~job[t].csrf /\ LoginAgain(t, "csrf")
    BY <1>1, <1>4, <1>8
<1>9. CASE a = "form" /\ ~job[t].auth /\ LoginAgain(t, "auth")
    BY <1>1, <1>4, <1>9
<1>10. CASE \/ a = "csrf" /\ job[t].csrf /\ Fails(t, "csrf")
            \/ a = "form" /\ job[t].auth /\ Fails(t, "pin")
            \/ a = "denied" /\ Fails(t, "pin")
            \/ a = "error" /\ Fails(t, "failed")
    BY <1>1, <1>5, <1>6, <1>10
<1> QED BY <1>2, <1>7, <1>8, <1>9, <1>10

Rejections == {"csrf", "form", "denied"}

LEMMA StatisticsAnswerDoes ==
  ASSUME NEW t, job[t] \in Job, StatisticsAnswer(t)
  PROVE  /\ job[t].at = "get" /\ job[t].call = "statistics" /\ Answered(t)
         /\ \E a \in GetAnswers(t) :
              \/ a = "data" /\ UNCHANGED <<waiters, cookie>> /\ NextPage(t, Advanced(job[t]), web)
              \/ a \in Rejections /\ ~job[t].auth /\ Login(t, Renewing(job[t], "auth"), web)
              \/ /\ a \in Rejections /\ job[t].auth /\ UNCHANGED <<waiters, cookie>>
                 /\ Return(t, job[t], web, "pin")
              \/ a = "error" /\ UNCHANGED <<waiters, cookie>> /\ SkipPage(t, job[t], web)
<1>1. job[t].at = "get" /\ job[t].call = "statistics" /\ Answered(t)
    BY Zenon DEF StatisticsAnswer
<1>2. PICK a \in GetAnswers(t) :
        \/ a = "data" /\ PageRead(t)
        \/ a \in {"csrf", "form", "denied"} /\ ~job[t].auth /\ StatisticsLoginAgain(t)
        \/ a \in {"csrf", "form", "denied"} /\ job[t].auth /\ Fails(t, "pin")
        \/ a = "error" /\ SkipPage(t, job[t], web) /\ UNCHANGED <<waiters, cookie>>
    BY Zenon DEF StatisticsAnswer
<1>3. PageRead(t) => UNCHANGED <<waiters, cookie>> /\ NextPage(t, Advanced(job[t]), web)
    BY Zenon DEF PageRead, Advanced
<1>4. StatisticsLoginAgain(t) => Login(t, Renewing(job[t], "auth"), web)
  <2>1. [job[t] EXCEPT !.goal = "auth", !.auth = TRUE] = Renewing(job[t], "auth")
      BY DEF Renewing, Job
  <2> QED BY <2>1, Zenon DEF StatisticsLoginAgain
<1>5. Fails(t, "pin") => UNCHANGED <<waiters, cookie>> /\ Return(t, job[t], web, "pin")
    BY Zenon DEF Fails
<1> QED BY <1>1, <1>2, <1>3, <1>4, <1>5, Zenon DEF Rejections

LEMMA SkipPageDoes ==
  ASSUME job \in [Task -> Job], NEW t \in Task, NEW j, Able(j), NEW w \in Web,
         j.call \in {"read", "statistics"}, SkipPage(t, j, w)
  PROVE  Landed(t, j.call, w) /\ SameButProbes(web', w) /\ job'[t].at \in {"idle", "get"}
<1> DEFINE i == [j EXCEPT !.todo = @ \ {First(@)}]
<1>1. Able(i) /\ i.call = j.call
    BY SkippedIsAble
<1>2. NextPage(t, i, w)
    BY Zenon DEF SkipPage
<1> HIDE DEF i
<1> QED BY <1>1, <1>2, NextPageLands, NextPageDoes

LEMMA ReadsStep ==
  ASSUME Sound, NEW t \in Task, job[t].at \in {"get", "put"}, Landed(t, job[t].call, web),
         SameButProbes(web', web), job'[t].at \in {"idle", "get"}, Answered(t), waiters' = waiters
  PROVE  StepOf(t)
<1>1. web \in Web /\ torn' = torn /\ torn \in BOOLEAN /\ LockFollows(t)
    BY DEF Answered, history, Sound, TypeOK
<1>2. ~Owns(job'[t])
    BY DEF Owns, LoginSteps
<1> QED BY <1>1, <1>2, LandedStep DEF SameButProbes

LEMMA GetStep ==
  ASSUME Sound, NEW t \in Task, GetAnswer(t)
  PROVE  StepOf(t)
<1>1. job[t].at = "get" /\ job[t].call = "read" /\ Answered(t)
    BY GetAnswerDoes
<1>2. /\ job \in [Task -> Job] /\ web \in Web /\ torn' = torn /\ LockFollows(t)
      /\ Able(job[t]) /\ job[t] \in Job
    BY <1>1 DEF Answered, history, Sound, TypeOK, Fit
<1>3. CASE UNCHANGED <<waiters, cookie>> /\ NextPage(t, Advanced(job[t]), web)
  <2>1. Able(Advanced(job[t])) /\ Advanced(job[t]).call = "read"
      BY <1>1, <1>2, AdvancedIs
  <2>2. Landed(t, "read", web) /\ SameButProbes(web', web) /\ job'[t].at \in {"idle", "get"}
      BY <1>2, <1>3, <2>1, NextPageLands, NextPageDoes
  <2> QED BY <1>1, <1>3, <2>2, ReadsStep
<1>4. ASSUME NEW goal \in {"csrf", "auth"}, (goal = "csrf" => ~job[t].csrf),
             (goal = "auth" => ~job[t].auth), Login(t, Renewing(job[t], goal), Dropped(goal))
      PROVE  StepOf(t)
  <2> DEFINE i == Renewing(job[t], goal)
             w == Dropped(goal)
  <2>1. Able(i) /\ i.logins < Budget(i) /\ i.call = "read"
      BY <1>1, <1>2, <1>4, RenewingIs
  <2>2. w \in Web /\ w.session = web.session /\ w.paths \in {web.paths, {}}
      BY <1>2, DroppedIs
  <2>3. Login(t, i, w)
      BY <1>4
  <2> HIDE DEF i, w
  <2> QED BY <1>1, <1>2, <2>1, <2>2, <2>3, LoginStep
<1>5. CASE UNCHANGED <<waiters, cookie>> /\ \E r \in Results : Return(t, job[t], web, r)
  <2>1. Landed(t, "read", web) /\ SameButProbes(web', web) /\ job'[t].at = "idle"
      BY <1>1, <1>2, <1>5, ReturnLands, ReturnDoes
  <2> QED BY <1>1, <1>5, <2>1, ReadsStep
<1> QED BY <1>3, <1>4, <1>5, GetAnswerDoes

LEMMA StatisticsStep ==
  ASSUME Sound, NEW t \in Task, StatisticsAnswer(t)
  PROVE  StepOf(t)
<1>0. job \in [Task -> Job] /\ job[t] \in Job
    BY DEF Sound, TypeOK
<1>1. job[t].at = "get" /\ job[t].call = "statistics" /\ Answered(t)
    BY <1>0, StatisticsAnswerDoes
<1>2. web \in Web /\ torn' = torn /\ LockFollows(t) /\ Able(job[t])
    BY <1>1 DEF Answered, history, Sound, TypeOK, Fit
<1>3. CASE UNCHANGED <<waiters, cookie>> /\ NextPage(t, Advanced(job[t]), web)
  <2>1. Able(Advanced(job[t])) /\ Advanced(job[t]).call = "statistics"
      BY <1>1, <1>2, AdvancedIs
  <2>2. Landed(t, "statistics", web) /\ SameButProbes(web', web) /\ job'[t].at \in {"idle", "get"}
      BY <1>0, <1>2, <1>3, <2>1, NextPageLands, NextPageDoes
  <2> QED BY <1>1, <1>3, <2>2, ReadsStep
<1>4. CASE ~job[t].auth /\ Login(t, Renewing(job[t], "auth"), web)
  <2> DEFINE i == Renewing(job[t], "auth")
  <2>1. Able(i) /\ i.logins < Budget(i) /\ i.call = "statistics"
      BY <1>1, <1>2, <1>4, RenewingIs
  <2>2. Login(t, i, web)
      BY <1>4
  <2> HIDE DEF i
  <2> QED BY <1>1, <1>2, <2>1, <2>2, LoginStep
<1>5. CASE UNCHANGED <<waiters, cookie>> /\ Return(t, job[t], web, "pin")
  <2>1. Landed(t, "statistics", web) /\ SameButProbes(web', web) /\ job'[t].at = "idle"
      BY <1>0, <1>1, <1>2, <1>5, ReturnLands, ReturnDoes DEF Results
  <2> QED BY <1>1, <1>5, <2>1, ReadsStep
<1>6. CASE UNCHANGED <<waiters, cookie>> /\ SkipPage(t, job[t], web)
  <2>1. Landed(t, "statistics", web) /\ SameButProbes(web', web) /\ job'[t].at \in {"idle", "get"}
      BY <1>0, <1>1, <1>2, <1>6, SkipPageDoes
  <2> QED BY <1>1, <1>6, <2>1, ReadsStep
<1> QED BY <1>0, <1>3, <1>4, <1>5, <1>6, StatisticsAnswerDoes

LEMMA PutStep ==
  ASSUME Sound, NEW t \in Task, PutAnswer(t)
  PROVE  StepOf(t)
<1>1. PICK a \in GetAnswers(t) :
          Fails(t, IF a \in {"data", "form"} THEN "ok" ELSE IF a = "error" THEN "failed"
                   ELSE IF a = "csrf" THEN "csrf" ELSE "pin")
    BY DEF PutAnswer
<1> DEFINE r == IF a \in {"data", "form"} THEN "ok" ELSE IF a = "error" THEN "failed"
                ELSE IF a = "csrf" THEN "csrf" ELSE "pin"
<1>2. r \in Results
    BY DEF Results
<1>3. Return(t, job[t], web, r) /\ waiters' = waiters
    BY <1>1 DEF Fails
<1> HIDE DEF r
<1>4. job[t].at = "put" /\ Answered(t) /\ job \in [Task -> Job] /\ web \in Web
    BY DEF PutAnswer, Sound, TypeOK
<1>5. Landed(t, job[t].call, web) /\ SameButProbes(web', web) /\ job'[t].at = "idle"
    BY <1>2, <1>3, <1>4, ReturnLands, ReturnDoes
<1> QED BY <1>3, <1>4, <1>5, ReadsStep

LEMMA SessionClosedStep ==
  ASSUME Sound, NEW t \in Task, SessionClosed(t)
  PROVE  StepOf(t)
<1> DEFINE w == [web EXCEPT !.session = "none"]
           r == job[t].result
<1>1. /\ job[t].at = "closing" /\ web \in Web /\ torn \in BOOLEAN /\ job \in [Task -> Job]
      /\ AfterClose(t, job[t], w, r) /\ LockFollows(t) /\ waiters' = waiters
      /\ torn' = (torn \/ web.session = "own")
    BY DEF SessionClosed, Sound, TypeOK
<1>2. Able(job[t]) /\ r \in Results
    BY <1>1 DEF Sound, Fit, Job, Results
<1>3. w \in Web /\ w.session = "none" /\ w.paths = web.paths
    BY <1>1 DEF Web
<1> HIDE DEF w, r
<1>4. Landed(t, job[t].call, w) /\ SameButProbes(web', w) /\ job'[t].at \in {"idle", "get"}
    BY <1>1, <1>2, <1>3, AfterCloseLands
<1>5. web'.session = "none" /\ web'.paths = web.paths
    BY <1>3, <1>4 DEF SameButProbes
<1>6. web.session # "external"
    BY <1>1 DEF Sound, SessionInv
<1>7. ~torn' => ~Open(web)
    BY <1>1, <1>6 DEF Open
<1>8. ~torn' => web'.paths = {}
    BY <1>1, <1>5, <1>7 DEF Sound, OpenInv
<1>9. job'[t].at \notin LoginSteps /\ ~Owns(job'[t])
    BY <1>4 DEF Owns, LoginSteps
<1>10. QueueKept(t)
    BY <1>1, QueueSame
<1>11. SessionMoves(t)
    BY <1>4, <1>5 DEF SessionMoves
<1> QED BY <1>1, <1>4, <1>7, <1>8, <1>9, <1>10, <1>11 DEF StepOf, Landed

LEMMA QueueLeft ==
  ASSUME Sound, NEW t \in Task, NEW i \in 1 .. Len(waiters), waiters[i] = t,
         waiters' = [n \in 1 .. Len(waiters) - 1 |->
                        IF n < i THEN waiters[n] ELSE waiters[n + 1]]
  PROVE  QueueKept(t)
<1>1. waiters \in Seq(Task) /\ Len(waiters) \in Nat /\ Len(waiters) - 1 \in Nat
    BY DEF Sound, TypeOK
<1> DEFINE m == Len(waiters) - 1
           place == [n \in 1 .. m |-> IF n < i THEN n ELSE n + 1]
<1>2. \A n \in 1 .. m : place[n] \in 1 .. Len(waiters) /\ place[n] # i
    BY <1>1
<1>3. \A n \in 1 .. m : waiters'[n] = waiters[place[n]]
    OBVIOUS
<1>4. \A n, l \in 1 .. m : place[n] = place[l] => n = l
    BY <1>1
<1>5. \A n, l \in 1 .. Len(waiters) : waiters[n] = waiters[l] => n = l
    BY DEF Sound, LockInv
<1>6. \A n \in 1 .. m : waiters'[n] \in Task
  <2>1. \A n \in 1 .. Len(waiters) : waiters[n] \in Task
      BY <1>1
  <2> HIDE DEF place
  <2> QED BY <1>2, <1>3, <2>1
<1>7. waiters' \in Seq(Task) /\ Len(waiters') = m
  <2>1. waiters' \in [1 .. m -> Task]
      BY <1>6
  <2>2. m \in Nat
      BY <1>1
  <2> HIDE DEF m
  <2> QED BY <2>1, <2>2
<1> HIDE DEF place, m
<1>8. ASSUME NEW n \in 1 .. m
      PROVE  waiters'[n] # t /\ \E l \in 1 .. Len(waiters) : waiters[l] = waiters'[n]
  <2>1. place[n] \in 1 .. Len(waiters) /\ place[n] # i /\ waiters'[n] = waiters[place[n]]
      BY <1>2, <1>3
  <2>2. waiters[place[n]] # waiters[i]
      BY <1>5, <2>1
  <2> QED BY <2>1, <2>2
<1>9. ASSUME NEW n \in 1 .. m, NEW l \in 1 .. m, waiters'[n] = waiters'[l]
      PROVE  n = l
  <2>1. waiters[place[n]] = waiters[place[l]]
      BY <1>3, <1>9
  <2>2. place[n] = place[l]
      BY <1>2, <1>5, <2>1
  <2> QED BY <1>4, <2>2
<1> QED BY <1>7, <1>8, <1>9 DEF QueueKept

LEMMA CancelStep ==
  ASSUME Sound, NEW t \in Task, Cancel(t)
  PROVE  StepOf(t)
<1>1. /\ job[t].at # "idle" /\ web \in Web /\ torn \in BOOLEAN /\ job \in [Task -> Job]
      /\ job[t] \in Job /\ LockFollows(t)
      /\ torn' = (torn \/ (job[t].at = "closing" /\ web.session = "own"))
    BY DEF Cancel, Sound, TypeOK
<1>2. \/ job[t].at \in LoginSteps /\ Close(t, job[t], web, "cancelled")
      \/ job[t].at \in {"lock", "put"} /\ Commit(t, Ended(job[t], "cancelled"), web)
      \/ job[t].at = "get" /\ Return(t, job[t], web, "cancelled")
      \/ /\ job[t].at = "closing"
         /\ Return(t, job[t], [web EXCEPT !.session = "none"], "cancelled")
    BY Zenon DEF Cancel
<1>3. \/ job[t].at # "lock" /\ waiters' = waiters
      \/ \E i \in 1 .. Len(waiters) :
            /\ job[t].at = "lock" /\ waiters[i] = t
            /\ waiters' = [n \in 1 .. Len(waiters) - 1 |->
                              IF n < i THEN waiters[n] ELSE waiters[n + 1]]
    BY Zenon DEF Cancel
<1>4. QueueKept(t)
  <2>1. CASE job[t].at # "lock" /\ waiters' = waiters
      BY <2>1, QueueSame
  <2>2. ASSUME NEW i \in 1 .. Len(waiters), waiters[i] = t,
               waiters' = [n \in 1 .. Len(waiters) - 1 |->
                              IF n < i THEN waiters[n] ELSE waiters[n + 1]]
        PROVE  QueueKept(t)
      BY <2>2, QueueLeft
  <2> QED BY <1>3, <2>1, <2>2
<1>5. "cancelled" \in Results
    BY DEF Results
<1>6. CASE job[t].at \in LoginSteps /\ Close(t, job[t], web, "cancelled")
  <2>1. waiters' = waiters
      BY <1>3, <1>6 DEF LoginSteps
  <2> QED BY <1>1, <1>5, <1>6, <2>1, CloseStep
<1>7. CASE job[t].at \in {"lock", "put", "get"} /\ Landed(t, job[t].call, web)
           /\ SameButProbes(web', web) /\ job'[t].at = "idle"
  <2>1. ~Owns(job'[t]) /\ job'[t].at \notin LoginSteps
      BY <1>7 DEF Owns, LoginSteps
  <2>2. SessionMoves(t)
      BY <1>7 DEF SessionMoves, SameButProbes
  <2>3. Open(web') <=> Open(web)
      BY <1>7 DEF SameButProbes, Open
  <2>4. ~torn' /\ web'.paths # {} => Open(web')
      BY <1>1, <1>7, <2>3 DEF SameButProbes, Sound, OpenInv
  <2> QED BY <1>1, <1>4, <1>7, <2>1, <2>2, <2>3, <2>4 DEF StepOf, Landed
<1>8. CASE job[t].at \in {"lock", "put"} /\ Commit(t, Ended(job[t], "cancelled"), web)
  <2>1. LET i == Ended(job[t], "cancelled") IN Fit(i) /\ i.at = "idle" /\ i.call = job[t].call
      BY <1>1, <1>5, EndedIs
  <2>2. Ended(job[t], "cancelled") \in Job
      BY <2>1 DEF Fit, Able
  <2>3. Lands(t) /\ job'[t] = Ended(job[t], "cancelled") /\ web' = web
      BY <1>1, <1>8, <2>2, CommitDoes
  <2> QED BY <1>7, <1>8, <2>1, <2>3 DEF Landed, SameButProbes, LoginSteps
<1>9. CASE job[t].at = "get" /\ Return(t, job[t], web, "cancelled")
    BY <1>1, <1>5, <1>7, <1>9, ReturnDoes, ReturnLands
<1>10. CASE /\ job[t].at = "closing"
            /\ Return(t, job[t], [web EXCEPT !.session = "none"], "cancelled")
  <2> DEFINE w == [web EXCEPT !.session = "none"]
  <2>1. w \in Web /\ w.session = "none" /\ w.paths = web.paths
      BY <1>1 DEF Web
  <2>2. Return(t, job[t], w, "cancelled")
      BY <1>10
  <2> HIDE DEF w
  <2>3. Landed(t, job[t].call, w) /\ SameButProbes(web', w) /\ job'[t].at = "idle"
      BY <1>1, <1>5, <2>1, <2>2, ReturnDoes, ReturnLands
  <2>4. web'.session = "none" /\ web'.paths = web.paths
      BY <2>1, <2>3 DEF SameButProbes
  <2>5. web.session # "external"
      BY <1>10 DEF Sound, SessionInv
  <2>6. ~torn' => ~Open(web)
      BY <1>1, <1>10, <2>5 DEF Open
  <2>7. ~torn' => web'.paths = {}
      BY <1>1, <2>4, <2>6 DEF Sound, OpenInv
  <2>8. job'[t].at \notin LoginSteps /\ ~Owns(job'[t])
      BY <2>3 DEF Owns, LoginSteps
  <2>9. SessionMoves(t)
      BY <2>3, <2>4 DEF SessionMoves
  <2> QED BY <1>1, <1>4, <2>3, <2>6, <2>7, <2>8, <2>9 DEF StepOf, Landed
<1> QED BY <1>2, <1>6, <1>8, <1>9, <1>10

-----------------------------------------------------------------------------
(* The whole invariant.                                                    *)

LEMMA LoginCookie ==
  ASSUME cookie \in BOOLEAN, NEW t, NEW j, NEW w, Login(t, j, w)
  PROVE  cookie' \in BOOLEAN
<1>1. CASE EnterLogin(t, j, w)
  <2>1. cookie' = (cookie /\ w.session # "none")
      BY <1>1, Zenon DEF EnterLogin
  <2> QED BY <2>1
<1>2. CASE UNCHANGED cookie
    BY <1>2
<1> QED BY <1>1, <1>2, Zenon DEF Login

(* What stays of the type invariant once StepKeepsSound is known.          *)
RestTyped ==
    /\ cookie \in BOOLEAN /\ up \in BOOLEAN
    /\ box \in Controllers
    /\ calm \in [Task -> BOOLEAN] /\ spare \in [Task -> BOOLEAN]
    /\ cancels \in 0 .. MaxCancels

LEMMA StepKeepsIInv ==
  ASSUME IInv, NEW t \in Task, StepOf(t), RestTyped', CalmInv'
  PROVE  IInv'
<1>1. Sound
    BY DEF IInv, Sound
<1>2. /\ job' \in [Task -> Job] /\ web' \in Web /\ holder' \in Task \cup {NoTask}
      /\ waiters' \in Seq(Task) /\ torn' \in BOOLEAN
      /\ \A u \in Task : Fit(job'[u])
      /\ LockInv' /\ SessionInv' /\ OpenInv'
    BY <1>1, StepKeepsSound
<1>3. TypeOK'
    BY <1>2 DEF TypeOK, RestTyped
<1> QED BY <1>2, <1>3 DEF IInv

LEMMA AtOthers ==
  ASSUME IInv, NEW t \in Task, StepOf(t), NEW u \in Task, u # t
  PROVE  job'[u].at = job[u].at /\ job'[u].call = job[u].call /\ (Active(u)' <=> Active(u))
<1>1. job \in [Task -> Job] /\ Lands(t)
    BY DEF IInv, TypeOK, StepOf
<1> QED BY <1>1, OthersKeep DEF Active

(* A call that begins is calm if all that are under way are.               *)
LEMMA BeginKeeps ==
  ASSUME IInv, NEW t \in Task, NEW c, Begin(t, c), StepOf(t), job'[t].call # "close",
         cookie' \in BOOLEAN
  PROVE  IInv'
<1>1. /\ job[t].at = "idle" /\ up' = up /\ torn' = torn /\ box' = box /\ cancels' = cancels
      /\ calm' = [calm EXCEPT ![t] = up /\ ~torn /\ \A u \in Task : job[u].at # "idle" => calm[u]]
      /\ spare' = [spare EXCEPT ![t] = (cookie /\ web.token # "stale") \/ web.paths = {}]
    BY Zenon DEF Begin
<1>2. /\ up \in BOOLEAN /\ torn \in BOOLEAN /\ box \in Controllers /\ cancels \in 0 .. MaxCancels
      /\ calm \in [Task -> BOOLEAN] /\ spare \in [Task -> BOOLEAN]
    BY DEF IInv, TypeOK
<1>3. RestTyped'
  <2> DEFINE still == up /\ ~torn /\ \A u \in Task : job[u].at # "idle" => calm[u]
             some == (cookie /\ web.token # "stale") \/ web.paths = {}
  <2>1. still \in BOOLEAN /\ some \in BOOLEAN
      OBVIOUS
  <2>2. calm' = [calm EXCEPT ![t] = still] /\ spare' = [spare EXCEPT ![t] = some]
      BY <1>1
  <2> HIDE DEF still, some
  <2>3. calm' \in [Task -> BOOLEAN] /\ spare' \in [Task -> BOOLEAN]
      BY <1>2, <2>1, <2>2
  <2> QED BY <1>1, <1>2, <2>3 DEF RestTyped
<1>4. CalmInv'
  <2> SUFFICES ASSUME NEW u \in Task, calm'[u], Active(u)'
               PROVE  up' /\ ~torn' /\ \A v \in Task : Active(v)' => job'[v].call # "close"
      BY Zenon DEF CalmInv
  <2>1. CASE u = t
    <3>1. up /\ ~torn /\ \A v \in Task : Active(v) => calm[v]
        BY <1>1, <1>2, <2>1 DEF Active
    <3>2. \A v \in Task : Active(v) => job[v].call # "close"
        BY <3>1 DEF IInv, CalmInv
    <3> QED BY <1>1, <3>1, <3>2, AtOthers
  <2>2. CASE u # t
    <3>1. calm[u] /\ Active(u)
        BY <1>1, <1>2, <2>2, AtOthers
    <3>2. up /\ ~torn /\ \A v \in Task : Active(v) => job[v].call # "close"
        BY <3>1 DEF IInv, CalmInv
    <3> QED BY <1>1, <3>2, AtOthers
  <2> QED BY <2>1, <2>2
<1> QED BY <1>3, <1>4, StepKeepsIInv

LEMMA DisturbedKeeps ==
  ASSUME IInv, NEW t \in Task, StepOf(t), Disturbed, cookie' = cookie, up' = up,
         cancels' \in 0 .. MaxCancels
  PROVE  IInv'
<1>1. calm' = [u \in Task |-> FALSE] /\ box' = box /\ spare' = spare
    BY DEF Disturbed
<1>2. CalmInv'
    BY <1>1 DEF CalmInv
<1>3. RestTyped'
    BY <1>1 DEF RestTyped, IInv, TypeOK
<1> QED BY <1>2, <1>3, StepKeepsIInv

(* A step of a call that is under way disturbs no calm one.                *)
LEMMA GoesOnKeeps ==
  ASSUME IInv, NEW t \in Task, StepOf(t), Active(t), UNCHANGED <<box, up, calm, spare, cancels>>,
         cookie' \in BOOLEAN, torn' = (torn \/ (job[t].at = "closing" /\ web.session = "own"))
  PROVE  IInv'
<1>1. CalmInv'
  <2> SUFFICES ASSUME NEW u \in Task, calm[u], Active(u)'
               PROVE  up' /\ ~torn' /\ \A v \in Task : Active(v)' => job'[v].call # "close"
      BY Zenon DEF CalmInv
  <2>1. Active(u)
      BY AtOthers
  <2>2. up /\ ~torn /\ \A v \in Task : Active(v) => job[v].call # "close"
      BY <2>1 DEF IInv, CalmInv
  <2>3. job'[t].call = job[t].call
      BY DEF StepOf
  <2>4. ~(job[t].at = "closing" /\ web.session = "own")
      BY <2>2 DEF IInv, SessionInv
  <2> QED BY <2>2, <2>3, <2>4, AtOthers
<1>2. RestTyped'
    BY DEF RestTyped, IInv, TypeOK
<1> QED BY <1>1, <1>2, StepKeepsIInv

LEMMA AnsweredKeeps ==
  ASSUME IInv, NEW t \in Task, StepOf(t), job[t].at \in LoginSteps \cup {"get", "put"}, Answered(t),
         cookie' \in BOOLEAN
  PROVE  IInv'
<1>1. UNCHANGED <<box, up, calm, spare, cancels>> /\ torn' = torn
    BY DEF Answered, history
<1>2. Active(t) /\ job[t].at # "closing"
    BY DEF Active, LoginSteps
<1>3. torn \in BOOLEAN
    BY DEF IInv, TypeOK
<1> QED BY <1>1, <1>2, <1>3, GoesOnKeeps

LEMMA InitIInv ==
  ASSUME Init
  PROVE  IInv
<1>1. /\ job = [t \in Task |-> Fresh] /\ holder = NoTask /\ waiters = <<>> /\ cookie = FALSE
      /\ box \in Controllers /\ up \in BOOLEAN /\ torn = FALSE /\ cancels = 0
      /\ calm = [t \in Task |-> FALSE] /\ spare = [t \in Task |-> FALSE]
      /\ web = [session |-> IF ExternalSession THEN "external" ELSE "none",
                token |-> "none", paths |-> {}, probes |-> {},
                form |-> FALSE, denied |-> FALSE]
      /\ MaxCancels \in Nat /\ NoTask \notin Task
    BY Nav20Assumption, Zenon DEF Init
<1>2. web \in Web /\ web.paths = {} /\ web.session # "closing"
    BY <1>1 DEF Web
<1>3. job \in [Task -> Job] /\ \A t \in Task : job[t] = Fresh
    BY <1>1, FreshIs
<1>4. TypeOK
  <2>1. cancels \in 0 .. MaxCancels /\ waiters \in Seq(Task)
      BY <1>1
  <2>2. calm \in [Task -> BOOLEAN] /\ spare \in [Task -> BOOLEAN]
      BY <1>1
  <2> QED BY <1>1, <1>2, <1>3, <2>1, <2>2 DEF TypeOK
<1>5. Fit(Fresh)
    BY FreshIs DEF Fit, Able, Budget, Again, LoginSteps
<1>6. LockInv
    BY <1>1, <1>3, FreshIs DEF LockInv, Owns, LoginSteps
<1>7. SessionInv
    BY <1>2, <1>3, FreshIs DEF SessionInv
<1>8. OpenInv
    BY <1>2, <1>3, FreshIs DEF OpenInv, LoginSteps
<1>9. CalmInv
    BY <1>1 DEF CalmInv
<1> QED BY <1>3, <1>4, <1>5, <1>6, <1>7, <1>8, <1>9 DEF IInv

LEMMA NextIInv ==
  ASSUME IInv, [Next]_vars
  PROVE  IInv'
<1>0. /\ Sound /\ cookie \in BOOLEAN /\ up \in BOOLEAN /\ cancels \in 0 .. MaxCancels
      /\ job \in [Task -> Job] /\ web \in Web /\ torn \in BOOLEAN
    BY DEF IInv, Sound, TypeOK
<1>1. ASSUME NEW t \in Task, BeginLogin(t)
      PROVE  IInv'
  <2>1. PICK c : Begin(t, c) /\ Login(t, Started(t, c), web)
      BY <1>1 DEF BeginLogin
  <2>2. cookie' \in BOOLEAN
      BY <1>0, <2>1, LoginCookie
  <2> QED BY <1>0, <1>1, <2>1, <2>2, BeginLoginStep, BeginKeeps
<1>2. ASSUME NEW t \in Task, BeginRead(t)
      PROVE  IInv'
  <2>1. cookie' \in BOOLEAN
    <3>1. Login(t, Started(t, "read"), web) \/ UNCHANGED cookie
        BY <1>2, Zenon DEF BeginRead
    <3> QED BY <1>0, <3>1, LoginCookie
  <2>2. Begin(t, "read")
      BY <1>2, Zenon DEF BeginRead
  <2> QED BY <1>0, <1>2, <2>1, <2>2, BeginReadStep, BeginKeeps
<1>3. ASSUME NEW t \in Task, BeginStatistics(t)
      PROVE  IInv'
  <2>1. cookie' \in BOOLEAN
    <3>1. Login(t, Started(t, "statistics"), web) \/ UNCHANGED cookie
        BY <1>3, Zenon DEF BeginStatistics
    <3> QED BY <1>0, <3>1, LoginCookie
  <2>2. Begin(t, "statistics")
      BY <1>3, Zenon DEF BeginStatistics
  <2> QED BY <1>0, <1>3, <2>1, <2>2, BeginStatisticsStep, BeginKeeps
<1>4. ASSUME NEW t \in Task, CloseClient(t)
      PROVE  IInv'
  <2>1. Disturbed /\ cookie' = cookie /\ up' = up /\ cancels' = cancels
      BY <1>4, Zenon DEF CloseClient
  <2> QED BY <1>0, <1>4, <2>1, CloseClientStep, DisturbedKeeps
<1>5. ASSUME NEW t \in Task, Granted(t)
      PROVE  IInv'
  <2>1. /\ EnterLogin(t, job[t], web) /\ UNCHANGED <<box, up, calm, spare, torn, cancels>>
        /\ waiters # <<>> /\ t = Head(waiters)
      BY <1>5 DEF Granted, history
  <2>2. cookie' \in BOOLEAN
    <3>1. cookie' = (cookie /\ web.session # "none")
        BY <2>1, Zenon DEF EnterLogin
    <3> QED BY <3>1
  <2>3. job[t].at = "lock"
    <3>1. waiters \in Seq(Task)
        BY <1>0 DEF Sound, TypeOK
    <3>2. Len(waiters) \in Nat \ {0} /\ waiters[1] = t
        BY <2>1, <3>1, HeadTailProperties
    <3> QED BY <1>0, <3>2 DEF Sound, LockInv
  <2>4. torn' = (torn \/ (job[t].at = "closing" /\ web.session = "own"))
      BY <1>0, <2>1, <2>3
  <2>5. Active(t)
      BY <2>3 DEF Active
  <2> QED BY <1>0, <1>5, <2>1, <2>2, <2>4, <2>5, GrantedStep, GoesOnKeeps
<1>6. ASSUME NEW t \in Task, InitialAnswer(t)
      PROVE  IInv'
  <2>1. job[t].at = "initial" /\ Answered(t) /\ cookie' = cookie
      BY <1>6, Zenon DEF InitialAnswer
  <2> QED BY <1>0, <1>6, <2>1, InitialStep, AnsweredKeeps DEF LoginSteps
<1>7. ASSUME NEW t \in Task, PostAnswer(t)
      PROVE  IInv'
  <2>1. job[t].at = "post" /\ Answered(t)
      BY <1>7, Zenon DEF PostAnswer
  <2>2. \E a : cookie' = (cookie \/ a = "accepted")
      BY <1>7, Zenon DEF PostAnswer
  <2>3. cookie' \in BOOLEAN
      BY <2>2
  <2> QED BY <1>0, <1>7, <2>1, <2>3, PostStep, AnsweredKeeps DEF LoginSteps
<1>8. ASSUME NEW t \in Task, ProbeAnswer(t)
      PROVE  IInv'
  <2>1. job[t].at = "probe" /\ Answered(t) /\ cookie' = cookie
      BY <1>8, Zenon DEF ProbeAnswer
  <2> QED BY <1>0, <1>8, <2>1, ProbeStep, AnsweredKeeps DEF LoginSteps
<1>9. ASSUME NEW t \in Task, GetAnswer(t)
      PROVE  IInv'
  <2>1. job[t].at = "get" /\ Answered(t)
      BY <1>9, Zenon DEF GetAnswer
  <2>2. \E j, w : Login(t, j, w) \/ cookie' = cookie
      BY <1>9, GetAnswerDoes
  <2>3. cookie' \in BOOLEAN
      BY <1>0, <2>2, LoginCookie
  <2> QED BY <1>0, <1>9, <2>1, <2>3, GetStep, AnsweredKeeps
<1>10. ASSUME NEW t \in Task, StatisticsAnswer(t)
       PROVE  IInv'
  <2>1. job[t].at = "get" /\ Answered(t)
      BY <1>10, Zenon DEF StatisticsAnswer
  <2>2. \E j, w : Login(t, j, w) \/ cookie' = cookie
      BY <1>0, <1>10, StatisticsAnswerDoes
  <2>3. cookie' \in BOOLEAN
      BY <1>0, <2>2, LoginCookie
  <2> QED BY <1>0, <1>10, <2>1, <2>3, StatisticsStep, AnsweredKeeps
<1>11. ASSUME NEW t \in Task, PutAnswer(t)
       PROVE  IInv'
  <2>1. job[t].at = "put" /\ Answered(t) /\ cookie' = cookie
      BY <1>11 DEF PutAnswer, Fails
  <2> QED BY <1>0, <1>11, <2>1, PutStep, AnsweredKeeps
<1>12. ASSUME NEW t \in Task, SessionClosed(t)
       PROVE  IInv'
  <2>1. /\ job[t].at = "closing" /\ torn' = (torn \/ web.session = "own")
        /\ UNCHANGED <<cookie, box, up, calm, spare, cancels>>
      BY <1>12, Zenon DEF SessionClosed
  <2>2. torn' = (torn \/ (job[t].at = "closing" /\ web.session = "own"))
      BY <2>1
  <2>3. Active(t)
      BY <2>1 DEF Active
  <2> QED BY <1>0, <1>12, <2>1, <2>2, <2>3, SessionClosedStep, GoesOnKeeps
<1>13. ASSUME NEW t \in Task, Cancel(t)
       PROVE  IInv'
  <2>1. Disturbed /\ cookie' = cookie /\ up' = up /\ cancels < MaxCancels /\ cancels' = cancels + 1
      BY <1>13, Zenon DEF Cancel
  <2>2. cancels' \in 0 .. MaxCancels
      BY <1>0, <2>1, Nav20Assumption
  <2> QED BY <1>0, <1>13, <2>1, <2>2, CancelStep, DisturbedKeeps
<1>14. ASSUME UNCHANGED <<job, holder, waiters, box, torn, cancels>>, web' \in Web,
              web'.session = web.session, web'.paths = web.paths,
              cookie' \in BOOLEAN, up' \in BOOLEAN,
              calm' \in [Task -> BOOLEAN], spare' \in [Task -> BOOLEAN],
              \A t \in Task : calm'[t] => calm[t] /\ (up => up')
       PROVE  IInv'
  <2>1. TypeOK'
      BY <1>14 DEF IInv, TypeOK
  <2>2. LockInv' /\ SessionInv' /\ OpenInv' /\ \A t \in Task : Fit(job'[t])
      BY <1>14 DEF IInv, LockInv, SessionInv, OpenInv, Open, Owns
  <2>3. CalmInv'
      BY <1>14 DEF IInv, CalmInv, Active
  <2> QED BY <2>1, <2>2, <2>3 DEF IInv
<1>15. CASE GoesDown
  <2>1. calm' = [t \in Task |-> FALSE] /\ up' = FALSE
        /\ UNCHANGED <<job, web, holder, waiters, cookie, box, spare, torn, cancels>>
      BY <1>15 DEF GoesDown, Disturbed
  <2> QED BY <1>0, <1>14, <2>1 DEF IInv, TypeOK
<1>16. CASE ComesUp
  <2>1. up' = TRUE /\ UNCHANGED <<job, web, holder, waiters, cookie, box, calm, spare, torn, cancels>>
      BY <1>16 DEF ComesUp, history
  <2> QED BY <1>0, <1>14, <2>1 DEF IInv, TypeOK
<1>17. CASE Expire
  <2> DEFINE still(t) == calm[t] /\ spare[t] /\ \A u \in Task : ~Unconfirmed(job[u])
  <2>1. /\ spare' = [t \in Task |-> FALSE] /\ calm' = [t \in Task |-> still(t)]
        /\ UNCHANGED <<job, holder, waiters, box, up, torn, cancels>>
        /\ \/ cookie' = FALSE /\ web' = web
           \/ web' = [web EXCEPT !.token = "stale"] /\ cookie' = cookie
      BY <1>17, Zenon DEF Expire
  <2>2. cookie' \in BOOLEAN /\ web' \in Web /\ web'.session = web.session /\ web'.paths = web.paths
      BY <1>0, <2>1 DEF Web
  <2>3. calm \in [Task -> BOOLEAN] /\ spare \in [Task -> BOOLEAN]
      BY DEF IInv, TypeOK
  <2>4. calm' \in [Task -> BOOLEAN] /\ spare' \in [Task -> BOOLEAN]
      BY <2>1, <2>3
  <2>5. \A t \in Task : calm'[t] => calm[t]
      BY <2>1
  <2> QED BY <1>0, <1>14, <2>1, <2>2, <2>4, <2>5
<1>18. CASE UNCHANGED vars
  <2>1. UNCHANGED <<job, web, holder, waiters, cookie, box, up, calm, spare, torn, cancels>>
      BY <1>18 DEF vars, history
  <2> QED BY <1>0, <1>14, <2>1 DEF IInv, TypeOK
<1> QED BY <1>1, <1>2, <1>3, <1>4, <1>5, <1>6, <1>7, <1>8, <1>9, <1>10, <1>11, <1>12, <1>13,
           <1>15, <1>16, <1>17, <1>18 DEF Next

THEOREM InvariantHolds == Spec => []IInv
<1>1. Init => IInv
    BY InitIInv
<1>2. IInv /\ [Next]_vars => IInv'
    BY NextIInv
<1> QED BY <1>1, <1>2, PTL DEF Spec

(* Whatever the tasks begin, close or cancel, the client's state has its   *)
(* type, and every call comes to the end of its logins: one, and one more  *)
(* for each rejection it was allowed to answer with one (read_data,        *)
(* read_statistics).                                                       *)
THEOREM LoginsEnd == Spec => []Inv
<1>1. IInv => Inv
  <2> SUFFICES ASSUME IInv PROVE Inv
      OBVIOUS
  <2>1. ASSUME NEW t \in Task
        PROVE  job[t].logins <= IF job[t].call = "read" THEN 3
                                ELSE IF job[t].call = "statistics" THEN 2 ELSE 1
    <3>1. job[t] \in Job /\ job[t].logins <= Budget(job[t])
        BY DEF IInv, Fit, Able
    <3>2. Again(job[t].csrf) \in {0, 1} /\ Again(job[t].auth) \in {0, 1}
        BY DEF Again
    <3> QED BY <3>1, <3>2 DEF Budget, Job
  <2> QED BY <2>1 DEF IInv, Inv, LoginsBounded
<1> QED BY <1>1, InvariantHolds, PTL

(* However logins, expiries, failures and cancellations fall, the client   *)
(* keeps confirmed pages only with an open session to read them on, unless *)
(* a close() met a login (login, close, read_data).                        *)
THEOREM PathsAreReadable == Spec => []PathsNeedASession
<1>1. IInv => PathsNeedASession
    BY DEF IInv, OpenInv, PathsNeedASession
<1> QED BY <1>1, InvariantHolds, PTL

-----------------------------------------------------------------------------
(* A wrong PIN.                                                            *)

LEMMA OneLogin ==
  ASSUME IInv, NEW t, holder = NoTask \/ (t \in Task /\ job[t].at \in LoginSteps)
  PROVE  \A u \in Task \ {t} : job[u].at \notin LoginSteps
BY Nav20Assumption DEF IInv, LockInv, Owns

(* A calm login has an answer to each of its requests.                     *)
LEMMA CalmIsReached ==
  ASSUME IInv, NEW t \in Task, calm[t], job[t].at \in LoginSteps
  PROVE  Reached(t) /\ Open(web) /\ up /\ ~torn
BY DEF IInv, CalmInv, OpenInv, Reached, Active, LoginSteps

(* Nobody closes when a calm login enters the lock.                        *)
LEMMA NobodyCloses ==
  ASSUME IInv, holder = NoTask, \A u \in Task : Active(u) => job[u].call # "close"
  PROVE  web.session # "closing"
BY Nav20Assumption DEF IInv, SessionInv, LockInv, Owns, Active

LEMMA FrontIs ==
  ASSUME IInv
  PROVE  box.front \subseteq {1, 2} /\ box.refusals \subseteq {"denied", "form"} /\ box.refusals # {}
<1>1. box \in Box
    BY Nav20Assumption DEF IInv, TypeOK
<1> QED BY <1>1 DEF Box

PinlessStep(t) ==
    /\ ~cookie' /\ web'.paths = {}
    /\ job'[t].found = {} /\ job'[t].goal = "first" /\ job'[t].at \notin {"get", "put"}
    /\ calm'[t] /\ box.front # {} =>
          /\ job'[t].at = "initial" => job'[t].k = 1 \/ 1 \notin box.front
          /\ job'[t].at \in {"post", "probe"} /\ job'[t].k > 1 => web'.form
          /\ job'[t].at \in {"idle", "closing"} /\ job'[t].call # "close"
                => job'[t].result = "pin"
    /\ \A u \in Task \ {t} :
          calm'[u] => calm[u] /\ (job[u].at \in LoginSteps /\ web.form => web'.form)

LEMMA PinlessKeeps ==
  ASSUME IInv, WrongPinInv, NEW t \in Task, Lands(t), box' = box, ~box.pin => PinlessStep(t)
  PROVE  WrongPinInv'
<1> SUFFICES ASSUME ~box.pin
             PROVE  /\ ~cookie' /\ web'.paths = {}
                    /\ \A u \in Task :
                          /\ job'[u].found = {} /\ job'[u].goal = "first"
                          /\ job'[u].at \notin {"get", "put"}
                          /\ calm'[u] /\ box.front # {} =>
                               /\ job'[u].at = "initial" => job'[u].k = 1 \/ 1 \notin box.front
                               /\ job'[u].at \in {"post", "probe"} /\ job'[u].k > 1 => web'.form
                               /\ job'[u].at \in {"idle", "closing"} /\ job'[u].call # "close"
                                     => job'[u].result = "pin"
    BY Zenon DEF WrongPinInv
<1>1. PinlessStep(t) /\ job \in [Task -> Job]
    BY DEF IInv, TypeOK
<1>2. ASSUME NEW u \in Task \ {t}
      PROVE  /\ job'[u].found = {} /\ job'[u].goal = "first"
             /\ job'[u].at \notin {"get", "put"}
             /\ calm'[u] /\ box.front # {} =>
                   /\ job'[u].at = "initial" => job'[u].k = 1 \/ 1 \notin box.front
                   /\ job'[u].at \in {"post", "probe"} /\ job'[u].k > 1 => web'.form
                   /\ job'[u].at \in {"idle", "closing"} /\ job'[u].call # "close"
                         => job'[u].result = "pin"
  <2>1. /\ job'[u].at = job[u].at /\ job'[u].call = job[u].call /\ job'[u].goal = job[u].goal
        /\ job'[u].k = job[u].k /\ job'[u].found = job[u].found /\ job'[u].result = job[u].result
      BY <1>1, OthersKeep
  <2>2. calm'[u] => calm[u] /\ (job[u].at \in LoginSteps /\ web.form => web'.form)
      BY <1>1 DEF PinlessStep
  <2> QED BY <2>1, <2>2 DEF WrongPinInv, LoginSteps
<1> QED BY <1>1, <1>2 DEF PinlessStep

LEMMA PinlessEnter ==
  ASSUME IInv, NEW t \in Task, NEW j, Able(j), j.logins < Budget(j), j.call # "close",
         j.found = {}, j.goal = "first", web.paths = {}, ~cookie,
         EnterLogin(t, j, web), holder = NoTask,
         calm'[t] => \A u \in Task : Active(u) => job[u].call # "close",
         \A u \in Task \ {t} : calm'[u] => calm[u]
  PROVE  PinlessStep(t)
<1>0. job \in [Task -> Job] /\ web \in Web
    BY DEF IInv, TypeOK
<1>1. /\ cookie' = (cookie /\ web.session # "none")
      /\ web.session # "closing" => job'[t] = Trying(Counted(j), "initial", 1)
      /\ job'[t].found = {} /\ job'[t].goal = "first"
      /\ web'.paths = {} /\ job'[t].at \in {"idle", "closing", "initial"}
      /\ Able(Counted(j))
    BY <1>0, EnterLoginLands
<1>2. calm'[t] => job'[t].at = "initial" /\ job'[t].k = 1
  <2>1. Counted(j).call = j.call
      BY DEF Counted, Able, Job
  <2>2. InLoop("initial", 1)
      BY DEF InLoop
  <2>3. Trying(Counted(j), "initial", 1).at = "initial" /\ Trying(Counted(j), "initial", 1).k = 1
      BY <1>1, <2>1, <2>2, TryingFits
  <2> QED BY <1>1, <2>3, NobodyCloses
<1>3. \A u \in Task \ {t} : job[u].at \notin LoginSteps
    BY OneLogin
<1> QED BY <1>1, <1>2, <1>3 DEF PinlessStep

LEMMA PinlessLogin ==
  ASSUME IInv, NEW t \in Task, NEW c \in {"login", "clock", "read", "statistics"},
         Begin(t, c), Login(t, Started(t, c), web), web.paths = {}, ~cookie
  PROVE  PinlessStep(t)
<1> DEFINE j == Started(t, c)
<1>0. job \in [Task -> Job] /\ web \in Web /\ calm \in [Task -> BOOLEAN]
    BY DEF IInv, TypeOK
<1>1. /\ Able(j) /\ j.logins < Budget(j) /\ j.call = c /\ j.found = {} /\ j.goal = "first"
    BY StartedIs DEF CallKinds
<1>2. calm' = [calm EXCEPT ![t] = up /\ ~torn /\ \A u \in Task : job[u].at # "idle" => calm[u]]
    BY Zenon DEF Begin
<1>3. calm'[t] => \A u \in Task : Active(u) => job[u].call # "close"
    BY <1>0, <1>2 DEF Active, IInv, CalmInv
<1>4. \A u \in Task \ {t} : calm'[u] => calm[u]
    BY <1>0, <1>2
<1>5. \/ holder = NoTask /\ EnterLogin(t, j, web)
      \/ Commit(t, [j EXCEPT !.at = "lock"], web) /\ cookie' = cookie
    BY Zenon DEF Login
<1> HIDE DEF j
<1>6. CASE holder = NoTask /\ EnterLogin(t, j, web)
    BY <1>1, <1>3, <1>4, <1>6, PinlessEnter
<1>7. CASE Commit(t, [j EXCEPT !.at = "lock"], web) /\ cookie' = cookie
  <2> DEFINE i == [j EXCEPT !.at = "lock"]
  <2>1. i \in Job /\ i.at = "lock" /\ i.found = {} /\ i.goal = "first"
      BY <1>1 DEF Able, Job
  <2>2. Commit(t, i, web)
      BY <1>7
  <2> HIDE DEF i
  <2>3. job'[t] = i /\ web' = web
      BY <1>0, <2>1, <2>2, CommitDoes
  <2> QED BY <1>4, <1>7, <2>1, <2>3 DEF PinlessStep
<1> QED BY <1>5, <1>6, <1>7

LEMMA PinlessRequest ==
  ASSUME IInv, NEW t \in Task, job[t].at \in LoginSteps, NEW j, Able(j), j.call # "close",
         j.found = {}, j.goal = "first", NEW w \in Web, w.session = web.session, w.paths = {},
         NEW where, NEW k, InLoop(where, k), LoginRequest(t, j, w, where, k),
         calm' = calm, ~cookie', calm[t] => w.form \/ k = 1 \/ where = "initial",
         calm[t] /\ where = "initial" => k = 1 \/ 1 \notin box.front
  PROVE  PinlessStep(t)
<1>1. job \in [Task -> Job]
    BY DEF IInv, TypeOK
<1>2. /\ Open(w) => web' = w /\ job'[t] = Trying(j, where, k)
      /\ job'[t].found = {} /\ job'[t].goal = "first"
      /\ web'.paths = {} /\ job'[t].at \in {"idle", "closing", where}
    BY <1>1, LoginRequestLands
<1>3. where \in LoginSteps
    BY DEF InLoop, LoginSteps
<1>4. ASSUME calm[t]
      PROVE  /\ job'[t].at = where
             /\ job'[t].at = "initial" => job'[t].k = 1 \/ 1 \notin box.front
             /\ job'[t].at \in {"post", "probe"} /\ job'[t].k > 1 => web'.form
  <2>1. Open(w)
      BY <1>4, CalmIsReached DEF Open
  <2>2. Trying(j, where, k).at = where /\ Trying(j, where, k).k = k
      BY TryingFits
  <2>3. ~(1 > 1)
      OBVIOUS
  <2> QED BY <1>2, <1>4, <2>1, <2>2, <2>3
<1>5. \A u \in Task \ {t} : job[u].at \notin LoginSteps
    BY OneLogin
<1> QED BY <1>2, <1>3, <1>4, <1>5 DEF PinlessStep, LoginSteps

LEMMA PinlessClose ==
  ASSUME IInv, NEW t \in Task, NEW j, Able(j), j.found = {}, j.goal = "first", NEW w \in Web,
         NEW r \in Results, Close(t, j, w, r), ~cookie', \A u \in Task : ~calm'[u]
  PROVE  PinlessStep(t)
<1>1. job \in [Task -> Job]
    BY DEF IInv, TypeOK
<1>2. /\ web'.paths = {} /\ job'[t].at \in {"idle", "closing"}
      /\ job'[t].found = {} /\ job'[t].goal = "first"
    BY <1>1, CloseLands
<1> QED BY <1>2 DEF PinlessStep

LEMMA PinlessInitial ==
  ASSUME IInv, WrongPinInv, ~box.pin, NEW t \in Task, InitialAnswer(t)
  PROVE  PinlessStep(t)
<1> DEFINE w == [web EXCEPT !.token = "none", !.form = FALSE, !.denied = FALSE]
<1>1. /\ job[t].at = "initial" /\ job[t].at \in LoginSteps /\ web \in Web /\ job \in [Task -> Job]
      /\ cookie' = cookie /\ calm' = calm /\ Able(job[t]) /\ job[t].call # "close"
    BY DEF InitialAnswer, Answered, history, IInv, TypeOK, Fit, LoginSteps
<1>2. ~cookie /\ web.paths = {} /\ job[t].found = {} /\ job[t].goal = "first"
    BY DEF WrongPinInv
<1>3. w \in Web /\ w.session = web.session /\ w.paths = web.paths
    BY <1>1 DEF Web
<1>4. InLoop("post", 1) /\ InLoop("initial", 2)
    BY Sizes DEF InLoop
<1>5. \/ LoginRequest(t, job[t], w, "post", 1)
      \/ /\ ~(Reached(t) /\ job[t].k \in box.front) /\ job[t].k = 1
         /\ LoginRequest(t, job[t], web, "initial", 2)
      \/ /\ ~(Reached(t) /\ job[t].k \in box.front) /\ job[t].k = 2
         /\ Close(t, job[t], web, "failed")
    BY Zenon DEF InitialAnswer
<1> HIDE DEF w
<1>6. CASE LoginRequest(t, job[t], w, "post", 1)
    BY <1>1, <1>2, <1>3, <1>4, <1>6, PinlessRequest
<1>7. CASE /\ ~(Reached(t) /\ job[t].k \in box.front) /\ job[t].k = 1
           /\ LoginRequest(t, job[t], web, "initial", 2)
  <2>1. calm[t] => 1 \notin box.front
      BY <1>1, <1>7, CalmIsReached
  <2> QED BY <1>1, <1>2, <1>4, <1>7, <2>1, PinlessRequest
<1>8. CASE /\ ~(Reached(t) /\ job[t].k \in box.front) /\ job[t].k = 2
           /\ Close(t, job[t], web, "failed")
  <2>1. ~(calm[t] /\ box.front # {})
      BY <1>1, <1>8, CalmIsReached, FrontIs DEF WrongPinInv
  <2>2. \A u \in Task \ {t} : job[u].at \notin LoginSteps
      BY <1>1, OneLogin
  <2>3. /\ web'.paths = {} /\ job'[t].at \in {"idle", "closing"}
        /\ job'[t].found = {} /\ job'[t].goal = "first"
      BY <1>1, <1>2, <1>8, CloseLands DEF Results
  <2> QED BY <1>1, <1>2, <2>1, <2>2, <2>3 DEF PinlessStep
<1> QED BY <1>5, <1>6, <1>7, <1>8

LEMMA PinlessPost ==
  ASSUME IInv, WrongPinInv, ~box.pin, NEW t \in Task, PostAnswer(t)
  PROVE  PinlessStep(t)
<1>1. /\ job[t].at = "post" /\ job[t].at \in LoginSteps /\ web \in Web /\ job \in [Task -> Job]
      /\ calm' = calm /\ Fit(job[t]) /\ Able(job[t]) /\ job[t].call # "close"
    BY DEF PostAnswer, Answered, history, IInv, TypeOK, Fit, LoginSteps
<1>2. ~cookie /\ web.paths = {} /\ job[t].found = {} /\ job[t].goal = "first"
    BY DEF WrongPinInv
<1>3. PICK a \in PostAnswers(t) :
            /\ cookie' = (cookie \/ a = "accepted")
            /\ \/ a \in Taken /\ LoginRequest(t, job[t], Posted(a), "probe", 1)
               \/ /\ a \notin Taken /\ NextTry(a, job[t].k) \in Nat \ {0}
                  /\ TriesOn(t, Posted(a), NextTry(a, job[t].k))
    BY <1>1, PostAnswerDoes
<1>4. box.refusals \subseteq {"denied", "form"}
    BY FrontIs
<1>5. a # "accepted" /\ (calm[t] => a \in {"form", "authreq", "denied", "other"})
  <2>1. CASE Reached(t)
      BY <1>3, <1>4, <2>1 DEF PostAnswers, Declined
  <2>2. CASE ~Reached(t)
      BY <1>1, <1>3, <2>2, CalmIsReached DEF PostAnswers
  <2> QED BY <2>1, <2>2
<1> DEFINE w == Posted(a)
           k == NextTry(a, job[t].k)
<1>6. /\ w \in Web /\ w.session = web.session /\ w.paths = {}
      /\ calm[t] /\ a \notin Taken => w.form
    BY <1>1, <1>2, <1>5, PostedIs DEF Taken
<1>7. /\ ~cookie'
      /\ \/ LoginRequest(t, job[t], w, "probe", 1)
         \/ a \notin Taken /\ k \in Nat \ {0} /\ TriesOn(t, w, k)
    BY <1>2, <1>3, <1>5
<1> HIDE DEF w, k
<1>8. ASSUME NEW v \in Web, v.session = web.session, v.paths = {},
             LoginRequest(t, job[t], v, "probe", 1)
      PROVE  PinlessStep(t)
  <2>1. InLoop("probe", 1)
      BY Sizes DEF InLoop
  <2> QED BY <1>1, <1>2, <1>7, <1>8, <2>1, PinlessRequest
<1>9. CASE a \notin Taken /\ k \in Nat \ {0} /\ TriesOn(t, w, k)
  <2>1. CASE k <= Variants /\ LoginRequest(t, job[t], w, "post", k)
    <3>1. InLoop("post", k)
        BY <1>9, <2>1, Sizes DEF InLoop
    <3> QED BY <1>1, <1>2, <1>6, <1>7, <1>9, <2>1, <3>1, PinlessRequest
  <2>2. CASE LoginRequest(t, job[t], [w EXCEPT !.probes = {}], "probe", 1)
    <3> DEFINE v == [w EXCEPT !.probes = {}]
    <3>1. v \in Web /\ v.session = web.session /\ v.paths = {}
        BY <1>6 DEF Web
    <3>2. LoginRequest(t, job[t], v, "probe", 1)
        BY <2>2
    <3> HIDE DEF v
    <3> QED BY <1>8, <3>1, <3>2
  <2> QED BY <1>9, <2>1, <2>2, Zenon DEF TriesOn
<1> QED BY <1>6, <1>7, <1>8, <1>9

LEMMA PinlessProbe ==
  ASSUME IInv, WrongPinInv, ~box.pin, NEW t \in Task, ProbeAnswer(t)
  PROVE  PinlessStep(t)
<1>1. /\ job[t].at = "probe" /\ job[t].at \in LoginSteps /\ web \in Web /\ job \in [Task -> Job]
      /\ calm' = calm /\ cookie' = cookie
      /\ Fit(job[t]) /\ Able(job[t]) /\ job[t].call # "close"
    BY DEF ProbeAnswer, Answered, history, IInv, TypeOK, Fit, LoginSteps
<1>2. ~cookie /\ web.paths = {} /\ job[t].found = {} /\ job[t].goal = "first"
    BY DEF WrongPinInv
<1>3. PICK a \in GetAnswers(t), page \in Pages :
            \/ /\ job[t].k < Cardinality(Pages)
               /\ LoginRequest(t, Finding(job[t], a, page), Probed(a, page), "probe", job[t].k + 1)
            \/ /\ job[t].k = Cardinality(Pages)
               /\ LoginEnds(t, Finding(job[t], a, page), Probed(a, page))
    BY <1>1, ProbeAnswerDoes
<1>4. box.refusals \subseteq {"denied", "form"}
    BY FrontIs
<1>5. a # "data" /\ (calm[t] => a \in {"form", "denied"})
  <2>1. CASE Reached(t)
      BY <1>2, <1>3, <1>4, <2>1 DEF GetAnswers
  <2>2. CASE ~Reached(t)
      BY <1>1, <1>3, <2>2, CalmIsReached DEF GetAnswers
  <2> QED BY <2>1, <2>2
<1> DEFINE j == Finding(job[t], a, page)
           w == Probed(a, page)
<1>6. Able(j) /\ j.call # "close" /\ j.found = {} /\ j.goal = "first"
    BY <1>1, <1>2, <1>5, FindingIs
<1>7. w \in Web /\ w.session = web.session /\ w.paths = {} /\ (calm[t] => w.form)
    BY <1>1, <1>2, <1>5, ProbedIs
<1> HIDE DEF j, w
<1>8. CASE job[t].k < Cardinality(Pages) /\ LoginRequest(t, j, w, "probe", job[t].k + 1)
  <2>1. InLoop("probe", job[t].k + 1)
      BY <1>1, <1>8, Sizes DEF InLoop, Fit
  <2> QED BY <1>1, <1>2, <1>6, <1>7, <1>8, <2>1, PinlessRequest
<1>9. CASE LoginEnds(t, j, w)
  <2>1. /\ web'.paths = {} /\ job'[t].at \in {"idle", "closing"}
        /\ job'[t].result = IF w.denied \/ w.form THEN "pin" ELSE "failed"
        /\ job'[t].found = {} /\ job'[t].goal = "first"
      BY <1>1, <1>6, <1>7, <1>9, LoginEndsLands
  <2>2. \A u \in Task \ {t} : job[u].at \notin LoginSteps
      BY <1>1, OneLogin
  <2> QED BY <1>1, <1>2, <1>7, <2>1, <2>2 DEF PinlessStep
<1> QED BY <1>3, <1>8, <1>9 DEF j, w

LEMMA PinlessClosed ==
  ASSUME IInv, WrongPinInv, ~box.pin, NEW t \in Task, SessionClosed(t)
  PROVE  PinlessStep(t)
<1> DEFINE w == [web EXCEPT !.session = "none"]
           r == job[t].result
<1>1. /\ job[t].at = "closing" /\ web \in Web /\ job \in [Task -> Job]
      /\ AfterClose(t, job[t], w, r) /\ cookie' = cookie /\ calm' = calm /\ Able(job[t])
    BY DEF SessionClosed, IInv, TypeOK, Fit
<1>2. /\ ~cookie /\ web.paths = {} /\ job[t].goal = "first"
      /\ calm[t] /\ box.front # {} /\ job[t].call # "close" => r = "pin"
    BY <1>1 DEF WrongPinInv
<1>3. w \in Web /\ w.paths = web.paths /\ w.form = web.form
    BY <1>1 DEF Web
<1>4. r \in Results
    BY <1>1 DEF Able, Job, Results
<1> HIDE DEF w, r
<1>5. /\ Landed(t, job[t].call, w) /\ SameButProbes(web', w)
      /\ job'[t].at = "idle" /\ job'[t].result = r
      /\ job'[t].found = {} /\ job'[t].goal = "first"
    BY <1>1, <1>2, <1>3, <1>4, AfterCloseLands
<1>6. job'[t].call = job[t].call
    BY <1>5 DEF Landed
<1> QED BY <1>1, <1>2, <1>3, <1>5, <1>6 DEF PinlessStep, SameButProbes

LEMMA PinlessCancel ==
  ASSUME IInv, WrongPinInv, ~box.pin, NEW t \in Task, Cancel(t)
  PROVE  PinlessStep(t)
<1>1. /\ web \in Web /\ job \in [Task -> Job] /\ job[t] \in Job /\ Able(job[t])
      /\ cookie' = cookie /\ \A u \in Task : ~calm'[u]
    BY DEF Cancel, Disturbed, IInv, TypeOK, Fit
<1>2. ~cookie /\ web.paths = {} /\ job[t].found = {} /\ job[t].goal = "first" /\ job[t].at # "get"
    BY DEF WrongPinInv
<1>3. "cancelled" \in Results
    BY DEF Results
<1>4. \/ Close(t, job[t], web, "cancelled")
      \/ Commit(t, Ended(job[t], "cancelled"), web)
      \/ Return(t, job[t], [web EXCEPT !.session = "none"], "cancelled")
    BY <1>2, Zenon DEF Cancel
<1>5. CASE Close(t, job[t], web, "cancelled")
    BY <1>1, <1>2, <1>3, <1>5, PinlessClose
<1>6. CASE Commit(t, Ended(job[t], "cancelled"), web)
  <2>1. LET i == Ended(job[t], "cancelled") IN
        Fit(i) /\ i.at = "idle" /\ i.found = {} /\ i.goal = "first"
      BY <1>1, <1>3, EndedIs
  <2>2. Ended(job[t], "cancelled") \in Job
      BY <2>1 DEF Fit, Able
  <2>3. job'[t] = Ended(job[t], "cancelled") /\ web' = web
      BY <1>1, <1>6, <2>2, CommitDoes
  <2> QED BY <1>1, <1>2, <2>1, <2>3 DEF PinlessStep
<1>7. CASE Return(t, job[t], [web EXCEPT !.session = "none"], "cancelled")
  <2> DEFINE w == [web EXCEPT !.session = "none"]
  <2>1. w \in Web /\ w.paths = {}
      BY <1>1, <1>2 DEF Web
  <2>2. Return(t, job[t], w, "cancelled")
      BY <1>7
  <2> HIDE DEF w
  <2>3. /\ SameButProbes(web', w) /\ job'[t].at = "idle"
        /\ job'[t].found = {} /\ job'[t].goal = "first"
      BY <1>1, <1>3, <2>1, <2>2, ReturnDoes, ReturnLands
  <2> QED BY <1>1, <1>2, <2>1, <2>3 DEF PinlessStep, SameButProbes
<1> QED BY <1>4, <1>5, <1>6, <1>7

LEMMA NextWrongPinInv ==
  ASSUME IInv, WrongPinInv, [Next]_vars
  PROVE  WrongPinInv'
<1>0. Sound /\ web \in Web
    BY DEF IInv, Sound, TypeOK
<1>1. ASSUME NEW t \in Task, NEW c \in {"login", "clock", "read", "statistics"}, StepOf(t),
             Begin(t, c), Login(t, Started(t, c), web) \/ web.paths # {}
      PROVE  WrongPinInv'
  <2>1. ~box.pin => ~cookie /\ web.paths = {}
      BY DEF WrongPinInv
  <2>2. ~box.pin => PinlessStep(t)
      BY <1>1, <2>1, PinlessLogin
  <2>3. box' = box /\ Lands(t)
      BY <1>1 DEF Begin, StepOf
  <2> QED BY <2>2, <2>3, PinlessKeeps
<1>2. ASSUME NEW t \in Task, BeginLogin(t)
      PROVE  WrongPinInv'
  <2>1. PICK c \in {"login", "clock"} : Begin(t, c) /\ Login(t, Started(t, c), web)
      BY <1>2 DEF BeginLogin
  <2> QED BY <1>0, <1>1, <1>2, <2>1, BeginLoginStep
<1>3. ASSUME NEW t \in Task, BeginRead(t)
      PROVE  WrongPinInv'
  <2>1. Begin(t, "read") /\ (Login(t, Started(t, "read"), web) \/ web.paths # {})
      BY <1>3, Zenon DEF BeginRead
  <2> QED BY <1>0, <1>1, <1>3, <2>1, BeginReadStep
<1>4. ASSUME NEW t \in Task, BeginStatistics(t)
      PROVE  WrongPinInv'
  <2>1. Begin(t, "statistics") /\ (Login(t, Started(t, "statistics"), web) \/ web.paths # {})
      BY <1>4, Zenon DEF BeginStatistics
  <2> QED BY <1>0, <1>1, <1>4, <2>1, BeginStatisticsStep
<1>5. ASSUME NEW t \in Task, CloseClient(t)
      PROVE  WrongPinInv'
  <2>1. /\ Close(t, Started(t, "close"), web, "ok") /\ cookie' = cookie /\ box' = box
        /\ calm' = [u \in Task |-> FALSE]
      BY <1>5, Zenon DEF CloseClient, Disturbed
  <2>2. LET j == Started(t, "close") IN Able(j) /\ j.found = {} /\ j.goal = "first"
      BY StartedIs DEF CallKinds
  <2>3. ~box.pin => PinlessStep(t)
    <3>1. ~box.pin => ~cookie
        BY DEF WrongPinInv
    <3> QED BY <1>0, <2>1, <2>2, <3>1, PinlessClose DEF Results
  <2>4. Lands(t)
      BY <1>0, <1>5, CloseClientStep DEF StepOf
  <2> QED BY <2>1, <2>3, <2>4, PinlessKeeps
<1>6. ASSUME NEW t \in Task, Granted(t)
      PROVE  WrongPinInv'
  <2>1. /\ EnterLogin(t, job[t], web) /\ UNCHANGED <<box, calm>> /\ holder = NoTask
        /\ waiters # <<>> /\ t = Head(waiters)
      BY <1>6 DEF Granted, history
  <2>2. job[t].at = "lock"
    <3>1. waiters \in Seq(Task)
        BY <1>0 DEF Sound, TypeOK
    <3>2. Len(waiters) \in Nat \ {0} /\ waiters[1] = t
        BY <2>1, <3>1, HeadTailProperties
    <3> QED BY <1>0, <3>2 DEF Sound, LockInv
  <2>3. Able(job[t]) /\ job[t].logins < Budget(job[t]) /\ job[t].call # "close"
      BY <2>2 DEF IInv, Fit
  <2>4. calm'[t] => \A u \in Task : Active(u) => job[u].call # "close"
      BY <2>1, <2>2 DEF IInv, CalmInv, Active
  <2>5. ~box.pin => ~cookie /\ web.paths = {} /\ job[t].found = {} /\ job[t].goal = "first"
      BY DEF WrongPinInv
  <2>6. ~box.pin => PinlessStep(t)
      BY <2>1, <2>3, <2>4, <2>5, PinlessEnter
  <2>7. Lands(t)
      BY <1>0, <1>6, GrantedStep DEF StepOf
  <2> QED BY <2>1, <2>6, <2>7, PinlessKeeps
<1>7. ASSUME NEW t \in Task, InitialAnswer(t)
      PROVE  WrongPinInv'
  <2>1. box' = box /\ Lands(t)
      BY <1>0, <1>7, InitialStep DEF InitialAnswer, Answered, StepOf
  <2> QED BY <1>7, <2>1, PinlessInitial, PinlessKeeps
<1>8. ASSUME NEW t \in Task, PostAnswer(t)
      PROVE  WrongPinInv'
  <2>1. box' = box /\ Lands(t)
    <3>1. box' = box
        BY <1>8, Zenon DEF PostAnswer, Answered
    <3> QED BY <1>0, <1>8, <3>1, PostStep DEF StepOf
  <2> QED BY <1>8, <2>1, PinlessPost, PinlessKeeps
<1>9. ASSUME NEW t \in Task, ProbeAnswer(t)
      PROVE  WrongPinInv'
  <2>1. box' = box /\ Lands(t)
    <3>1. box' = box
        BY <1>9, Zenon DEF ProbeAnswer, Answered
    <3> QED BY <1>0, <1>9, <3>1, ProbeStep DEF StepOf
  <2> QED BY <1>9, <2>1, PinlessProbe, PinlessKeeps
<1>10. ASSUME NEW t \in Task, job[t].at \in {"get", "put"}, box' = box, StepOf(t)
       PROVE  WrongPinInv'
  <2>1. ~box.pin => FALSE
      BY <1>10 DEF WrongPinInv
  <2> QED BY <1>10, <2>1, PinlessKeeps DEF StepOf
<1>11. ASSUME NEW t \in Task, GetAnswer(t)
       PROVE  WrongPinInv'
  <2>1. job[t].at = "get" /\ box' = box
      BY <1>11, Zenon DEF GetAnswer, Answered
  <2> QED BY <1>0, <1>10, <1>11, <2>1, GetStep
<1>12. ASSUME NEW t \in Task, StatisticsAnswer(t)
       PROVE  WrongPinInv'
  <2>1. job[t].at = "get" /\ box' = box
      BY <1>12, Zenon DEF StatisticsAnswer, Answered
  <2> QED BY <1>0, <1>10, <1>12, <2>1, StatisticsStep
<1>13. ASSUME NEW t \in Task, PutAnswer(t)
       PROVE  WrongPinInv'
  <2>1. job[t].at = "put" /\ box' = box
      BY <1>13, Zenon DEF PutAnswer, Answered
  <2> QED BY <1>0, <1>10, <1>13, <2>1, PutStep
<1>14. ASSUME NEW t \in Task, SessionClosed(t)
       PROVE  WrongPinInv'
  <2>1. box' = box /\ Lands(t)
      BY <1>0, <1>14, SessionClosedStep DEF SessionClosed, StepOf
  <2> QED BY <1>14, <2>1, PinlessClosed, PinlessKeeps
<1>15. ASSUME NEW t \in Task, Cancel(t)
       PROVE  WrongPinInv'
  <2>1. box' = box
      BY <1>15, Zenon DEF Cancel, Disturbed
  <2>2. Lands(t)
      BY <1>0, <1>15, CancelStep DEF StepOf
  <2> QED BY <1>15, <2>1, <2>2, PinlessCancel, PinlessKeeps
<1>16. CASE GoesDown
    BY <1>16 DEF GoesDown, Disturbed, WrongPinInv
<1>17. CASE ComesUp
    BY <1>17 DEF ComesUp, history, WrongPinInv
<1>18. CASE Expire
  <2>1. cookie /\ box' = box
      BY <1>18 DEF Expire
  <2> QED BY <2>1 DEF WrongPinInv
<1>19. CASE UNCHANGED vars
    BY <1>19 DEF vars, history, WrongPinInv
<1> QED BY <1>2, <1>3, <1>4, <1>5, <1>6, <1>7, <1>8, <1>9, <1>11, <1>12, <1>13, <1>14, <1>15,
           <1>16, <1>17, <1>18, <1>19 DEF Next

(* Whatever else calls, a wrong PIN is told to every caller as such, by a  *)
(* controller that serves a start page: no calm call ends with a failed    *)
(* detection or with data (login, _try_login, _probe_data_endpoints).      *)
THEOREM WrongPinIsTold == Spec => []WrongPinIsNamed
<1>1. Init => WrongPinInv
  <2> SUFFICES ASSUME Init PROVE WrongPinInv
      OBVIOUS
  <2>1. /\ job = [t \in Task |-> Fresh] /\ cookie = FALSE /\ calm = [t \in Task |-> FALSE]
        /\ web.paths = {}
      BY Zenon DEF Init
  <2> QED BY <2>1, FreshIs DEF WrongPinInv
<1>2. IInv /\ WrongPinInv /\ [Next]_vars => WrongPinInv'
    BY NextWrongPinInv
<1>3. WrongPinInv => WrongPinIsNamed
    BY DEF WrongPinInv, WrongPinIsNamed
<1> QED BY <1>1, <1>2, <1>3, InvariantHolds, PTL DEF Spec

-----------------------------------------------------------------------------
(* The right PIN.                                                          *)

LEMMA WatchedIsFine ==
  ASSUME IInv, HealthyInv, Healthy, Watched
  PROVE  /\ up /\ ~torn /\ web.session # "closing"
         /\ \A u \in Task : Orderly(u)
         /\ \A u \in Task : job[u].at \in LoginSteps => Reached(u) /\ Open(web)
<1>1. \A u \in Task : Orderly(u)
    BY DEF HealthyInv, Healthy
<1>2. up /\ ~torn
    BY DEF Watched, IInv, CalmInv
<1>3. web.session # "closing"
    BY <1>1 DEF Orderly, IInv, SessionInv
<1>4. \A u \in Task : job[u].at \in LoginSteps => Reached(u) /\ Open(web)
    BY <1>2 DEF IInv, OpenInv, Reached
<1> QED BY <1>1, <1>2, <1>3, <1>4

(* What a step of t has to do for the other calm calls, and for its own.   *)
OthersCalm(t) == \A u \in Task \ {t} : calm'[u] => calm[u] /\ spare'[u] = spare[u]

Tends(t) ==
    /\ OthersCalm(t)
    /\ Watched' =>
          /\ \A u \in Task \ {t} : Active(u) => Watched
          /\ Orderly(t)'
          /\ Open(web) => Open(web')
          /\ \A u \in Task \ {t} : job[u].at \in {"get", "probe"} /\ Valid => Valid'
    /\ Reader(t)' => IF Active(t)' THEN Reading(t)' ELSE job'[t].result = "ok"

LEMMA HealthyKeeps ==
  ASSUME IInv, HealthyInv, NEW t \in Task, Lands(t), box' = box, Healthy => Tends(t)
  PROVE  HealthyInv'
<1> SUFFICES ASSUME Healthy
             PROVE  /\ Watched' => \A u \in Task : Orderly(u)'
                    /\ \A u \in Task : Reader(u)' =>
                          IF Active(u)' THEN Reading(u)' ELSE job'[u].result = "ok"
    BY DEF HealthyInv, Healthy
<1>0. job \in [Task -> Job] /\ Tends(t) /\ HealthyInv
    BY DEF IInv, TypeOK
<1>1. ASSUME NEW u \in Task \ {t}
      PROVE  /\ job'[u].at = job[u].at /\ job'[u].call = job[u].call /\ job'[u].k = job[u].k
             /\ job'[u].found = job[u].found /\ job'[u].csrf = job[u].csrf
             /\ job'[u].auth = job[u].auth /\ job'[u].answered = job[u].answered
             /\ job'[u].todo = job[u].todo /\ job'[u].result = job[u].result
             /\ job'[u].live = (job[u].live /\ (Open(web') \/ ~Open(web)))
    BY <1>0, OthersKeep
<1>2. ASSUME Watched', NEW u \in Task \ {t}
      PROVE  Orderly(u)'
  <2>1. CASE ~Active(u)
      BY <1>1, <2>1 DEF Active, Orderly
  <2>2. CASE Active(u)
    <3>1. Orderly(u)
        BY <1>0, <1>2, <2>2 DEF Tends, HealthyInv, Healthy
    <3>2. /\ Open(web) => Open(web')
          /\ job[u].at \in {"get", "probe"} /\ Valid => Valid'
        BY <1>0, <1>2 DEF Tends
    <3> QED BY <1>1, <3>1, <3>2 DEF Orderly, Unconfirmed
  <2> QED BY <2>1, <2>2
<1>3. ASSUME NEW u \in Task \ {t}, Reader(u)'
      PROVE  IF Active(u)' THEN Reading(u)' ELSE job'[u].result = "ok"
  <2>1. Reader(u) /\ spare'[u] = spare[u] /\ (calm'[u] <=> calm[u])
      BY <1>0, <1>1, <1>3 DEF Tends, OthersCalm, Reader
  <2>2. IF Active(u) THEN Reading(u) ELSE job[u].result = "ok"
      BY <1>0, <2>1 DEF HealthyInv, Healthy
  <2>3. CASE Active(u)
    <3>1. Watched'
        BY <1>1, <1>3, <2>3 DEF Watched, Reader, Active
    <3>2. job[u].at \in {"get", "probe"} /\ Valid => Valid'
        BY <1>0, <3>1 DEF Tends
    <3> QED BY <1>1, <2>1, <2>2, <2>3, <3>2 DEF Reading, Active
  <2>4. CASE ~Active(u)
      BY <1>1, <2>2, <2>4 DEF Active
  <2> QED BY <2>3, <2>4
<1> QED BY <1>0, <1>2, <1>3 DEF Tends

(* A call that goes on is watched before if it is watched after.           *)
LEMMA WatchedBefore ==
  ASSUME IInv, NEW t \in Task, StepOf(t), Active(t), calm' = calm, Watched' \/ Reader(t)'
  PROVE  Watched
BY AtOthers DEF Watched, Reader

LEMMA UnwatchedTends ==
  ASSUME IInv, NEW t \in Task, StepOf(t), Active(t), UNCHANGED <<calm, spare>>, ~Watched
  PROVE  Tends(t)
BY WatchedBefore DEF Tends, OthersCalm

(* What a call has to bring along when it waits for the lock or takes it.  *)
Fair(t, j) ==
    calm'[t] /\ j.call \in {"read", "statistics"} =>
       /\ j.csrf \/ j.auth => ~spare'[t]
       /\ j.call = "statistics" => j.answered \/ j.todo # {}

LEMMA HealthyEnter ==
  ASSUME IInv, HealthyInv, Healthy, NEW t \in Task, NEW j, Able(j), j.logins < Budget(j),
         j.call # "close", NEW w \in Web, w.session = web.session, w.token \in {web.token, "none"},
         EnterLogin(t, j, w), holder = NoTask, OthersCalm(t), Fair(t, j),
         Watched' => \A u \in Task \ {t} : Active(u) => Watched,
         calm'[t] \/ Watched' => web.session # "closing"
  PROVE  Tends(t)
<1>0. job \in [Task -> Job] /\ web \in Web
    BY DEF IInv, TypeOK
<1>1. /\ cookie' = (cookie /\ web.session # "none")
      /\ web.session # "closing" =>
            /\ web' = Entered(w) /\ job'[t] = Trying(Counted(j), "initial", 1)
            /\ Open(web')
      /\ Able(Counted(j))
    BY <1>0, EnterLoginLands
<1> DEFINE i == Trying(Counted(j), "initial", 1)
<1>2. /\ i.at = "initial" /\ i.k = 1 /\ i.call = j.call /\ i.csrf = j.csrf /\ i.auth = j.auth
      /\ i.answered = j.answered /\ i.todo = j.todo
  <2> DEFINE m == Counted(j)
  <2>1. /\ m.call = j.call /\ m.csrf = j.csrf /\ m.auth = j.auth
        /\ m.answered = j.answered /\ m.todo = j.todo
      BY DEF Counted, Able, Job
  <2>2. InLoop("initial", 1) /\ Able(m)
      BY <1>1 DEF InLoop
  <2> HIDE DEF m
  <2>3. /\ Trying(m, "initial", 1).at = "initial" /\ Trying(m, "initial", 1).k = 1
        /\ Trying(m, "initial", 1).call = m.call
        /\ Trying(m, "initial", 1).csrf = m.csrf /\ Trying(m, "initial", 1).auth = m.auth
        /\ Trying(m, "initial", 1).answered = m.answered /\ Trying(m, "initial", 1).todo = m.todo
      BY <2>1, <2>2, TryingFits
  <2> QED BY <2>1, <2>3 DEF m
<1> HIDE DEF i
<1>3. ASSUME calm'[t] \/ Watched'
      PROVE  web' = Entered(w) /\ job'[t] = i /\ Open(web')
    BY <1>1, <1>3 DEF i
<1>4. ASSUME Watched', NEW u \in Task \ {t}, job[u].at \in {"get", "probe"}, Valid
      PROVE  Valid'
  <2>1. job[u].at = "get"
      BY <1>4, OneLogin DEF LoginSteps
  <2>2. Active(u)
      BY <2>1 DEF Active
  <2>3. Open(web)
      BY <1>4, <2>1, <2>2, WatchedIsFine DEF Orderly
  <2>4. cookie' = cookie /\ web' = w
      BY <1>1, <1>3, <1>4, <2>3 DEF Open, Entered, IInv, TypeOK
  <2> QED BY <1>4, <2>4 DEF Valid
<1>5. Watched' => Orderly(t)'
    BY <1>2, <1>3 DEF Orderly
<1>6. Reader(t)' => IF Active(t)' THEN Reading(t)' ELSE job'[t].result = "ok"
  <2> SUFFICES ASSUME Reader(t)'
               PROVE  IF Active(t)' THEN Reading(t)' ELSE job'[t].result = "ok"
      OBVIOUS
  <2>1. calm'[t] /\ job'[t] = i
      BY <1>3 DEF Reader
  <2>2. Active(t)' /\ job'[t].at = "initial"
      BY <1>2, <2>1 DEF Active
  <2>3. Reading(t)'
      BY <1>2, <2>1 DEF Reading, Fair, Reader
  <2> QED BY <2>2, <2>3
<1> QED BY <1>3, <1>4, <1>5, <1>6 DEF Tends

LEMMA HealthyLogin ==
  ASSUME IInv, HealthyInv, Healthy, NEW t \in Task, NEW j, Able(j), j.logins < Budget(j),
         j.call # "close", NEW w \in Web, w.session = web.session, w.token \in {web.token, "none"},
         Login(t, j, w), OthersCalm(t), Fair(t, j),
         Watched' => \A u \in Task \ {t} : Active(u) => Watched,
         calm'[t] \/ Watched' => web.session # "closing"
  PROVE  Tends(t)
<1>0. job \in [Task -> Job] /\ web \in Web /\ j \in Job
    BY DEF IInv, TypeOK, Able
<1>1. \/ holder = NoTask /\ EnterLogin(t, j, w)
      \/ Commit(t, [j EXCEPT !.at = "lock"], w) /\ cookie' = cookie
    BY Zenon DEF Login
<1>2. CASE Commit(t, [j EXCEPT !.at = "lock"], w) /\ cookie' = cookie
  <2> DEFINE i == [j EXCEPT !.at = "lock"]
  <2>1. /\ i \in Job /\ i.at = "lock" /\ i.call = j.call /\ i.csrf = j.csrf /\ i.auth = j.auth
        /\ i.answered = j.answered /\ i.todo = j.todo
      BY <1>0 DEF Job
  <2>2. Commit(t, i, w)
      BY <1>2
  <2> HIDE DEF i
  <2>3. job'[t] = i /\ web' = w
      BY <1>0, <2>1, <2>2, CommitDoes
  <2>4. Orderly(t)' /\ Active(t)'
      BY <2>1, <2>3 DEF Orderly, Active
  <2>5. Open(web) => Open(web')
      BY <2>3 DEF Open
  <2>6. Valid => Valid'
      BY <1>2, <2>3 DEF Valid
  <2>7. Reader(t)' => Reading(t)'
      BY <2>1, <2>3 DEF Reader, Reading, Fair
  <2> QED BY <2>4, <2>5, <2>6, <2>7 DEF Tends
<1> QED BY <1>1, <1>2, HealthyEnter

LEMMA HealthyReadsOn ==
  ASSUME IInv, HealthyInv, Healthy, NEW t \in Task, NEW j, Able(j), NEW w \in Web,
         Landed(t, j.call, w), w.session = web.session, w.token = web.token,
         Open(w) => ReadsOn(t, j, [w EXCEPT !.paths = web'.paths]), cookie' = cookie, OthersCalm(t), Fair(t, j),
         calm'[t] => Open(web)
                     /\ (j.call \in {"read", "statistics"} /\ (j.csrf \/ j.auth \/ spare'[t]) => Valid),
         Watched' => Open(web) /\ \A u \in Task \ {t} : Active(u) => Watched
  PROVE  Tends(t)
<1>1. job'[t].call = j.call /\ Fit(job'[t])
    BY DEF Landed
<1>2. Open(web) => Open(w)
    BY DEF Open
<1>3. Open(w) => /\ web'.session = w.session /\ web'.token = w.token
                 /\ job'[t].at \in {"idle", "get", "put"}
    BY DEF ReadsOn, SameButProbes, Web
<1>4. Open(web) => /\ Open(web')
                   /\ Valid' = Valid /\ Orderly(t)'
  <2> SUFFICES ASSUME Open(web) PROVE Open(web') /\ Valid' = Valid /\ Orderly(t)'
      OBVIOUS
  <2>1. Open(web') /\ web'.token = web.token
      BY <1>2, <1>3 DEF Open
  <2>2. Valid' = Valid
      BY <2>1 DEF Valid
  <2>3. Orderly(t)'
      BY <1>2, <1>3, <2>1 DEF Orderly, Landed
  <2> QED BY <2>1, <2>2, <2>3
<1>5. Reader(t)' => IF Active(t)' THEN Reading(t)' ELSE job'[t].result = "ok"
  <2> SUFFICES ASSUME Reader(t)'
               PROVE  IF Active(t)' THEN Reading(t)' ELSE job'[t].result = "ok"
      OBVIOUS
  <2>1. /\ calm'[t] /\ j.call \in {"read", "statistics"} /\ Open(web) /\ Open(w)
        /\ j.csrf \/ j.auth => ~spare'[t]
        /\ j.call = "statistics" => j.answered \/ j.todo # {}
        /\ j.csrf \/ j.auth \/ spare'[t] => Valid
      BY <1>1, <1>2 DEF Reader, Fair
  <2>2. /\ job'[t].at = "get" => job'[t].csrf = j.csrf /\ job'[t].auth = j.auth /\ job'[t].todo # {}
        /\ job'[t].at = "idle" => job'[t].result = "ok"
        /\ job'[t].at \in {"idle", "get", "put"}
      BY <2>1 DEF ReadsOn
  <2>3. job'[t].at # "put"
      BY <1>1, <2>1 DEF Fit
  <2>4. CASE job'[t].at = "get"
      BY <1>4, <2>1, <2>2, <2>4 DEF Reading, Active
  <2>5. CASE job'[t].at = "idle"
      BY <2>2, <2>5 DEF Active
  <2> QED BY <2>2, <2>3, <2>4, <2>5
<1> QED BY <1>4, <1>5 DEF Tends

LEMMA HealthyRequest ==
  ASSUME IInv, HealthyInv, Healthy, Watched, NEW t \in Task, job[t].at \in LoginSteps,
         NEW j, Able(j), j.call # "close", j.call = job[t].call, j.csrf = job[t].csrf,
         j.auth = job[t].auth, j.todo = job[t].todo, j.answered = job[t].answered,
         NEW w \in Web, w.session = web.session, NEW where, NEW k, InLoop(where, k),
         LoginRequest(t, j, w, where, k), UNCHANGED <<calm, spare>>,
         where = "initial" => k = 1 \/ 1 \notin box.front, box' = box,
         where = "post" => k <= Accepts,
         where = "probe" =>
            /\ j.found = {} => cookie' /\ w.token # "stale"
            /\ k > 1 => j.found # {}
            /\ Reader(t) /\ (j.csrf \/ j.auth \/ spare[t]) => cookie' /\ w.token # "stale",
         Valid => cookie' /\ w.token # "stale"
  PROVE  Tends(t)
<1>1. job \in [Task -> Job] /\ Open(web) /\ Active(t)
    BY WatchedIsFine DEF IInv, TypeOK, Active, LoginSteps
<1>2. Open(w)
    BY <1>1 DEF Open
<1>3. web' = w /\ job'[t] = Trying(j, where, k)
    BY <1>1, <1>2, LoginRequestLands
<1>4. /\ job'[t].at = where /\ job'[t].live /\ job'[t].k = k /\ job'[t].call = j.call
      /\ job'[t].found = j.found /\ job'[t].csrf = j.csrf /\ job'[t].auth = j.auth
      /\ job'[t].todo = j.todo /\ job'[t].answered = j.answered
    BY <1>3, TryingFits
<1>5. where \in {"initial", "post", "probe"}
    BY DEF InLoop
<1>6. Valid => Valid'
    BY <1>3 DEF Valid
<1>7. Orderly(t)'
    BY <1>3, <1>4, <1>5 DEF Orderly, Valid, Unconfirmed
<1>8. Reader(t)' => Active(t)' /\ Reading(t)'
  <2> SUFFICES ASSUME Reader(t)' PROVE Active(t)' /\ Reading(t)'
      OBVIOUS
  <2>1. Reader(t)
      BY <1>4 DEF Reader
  <2>2. Reading(t)
      BY <1>1, <2>1 DEF HealthyInv, Healthy
  <2> QED BY <1>3, <1>4, <1>5, <2>1, <2>2 DEF Active, Reading, Valid
<1> QED BY <1>2, <1>3, <1>6, <1>7, <1>8 DEF Tends, OthersCalm

LEMMA HealthyInitial ==
  ASSUME IInv, HealthyInv, Healthy, NEW t \in Task, InitialAnswer(t)
  PROVE  Tends(t)
<1> DEFINE w == [web EXCEPT !.token = "none", !.form = FALSE, !.denied = FALSE]
<1>0. Sound
    BY DEF IInv, Sound
<1>1. /\ job[t].at = "initial" /\ job[t].at \in LoginSteps /\ web \in Web
      /\ cookie' = cookie /\ UNCHANGED <<calm, spare>> /\ Able(job[t]) /\ job[t].call # "close"
      /\ Active(t) /\ box' = box /\ job[t].k \in {1, 2}
    BY DEF InitialAnswer, Answered, history, IInv, TypeOK, Fit, LoginSteps, Active
<1>2. CASE Watched
  <2>1. \/ LoginRequest(t, job[t], w, "post", 1)
        \/ 1 \notin box.front /\ LoginRequest(t, job[t], web, "initial", 2)
    <3>1. Reached(t) /\ Orderly(t)
        BY <1>1, <1>2, WatchedIsFine
    <3>2. job[t].k \in box.front \/ (job[t].k = 1 /\ 1 \notin box.front)
        BY <1>1, <3>1, FrontIs DEF Orderly, Healthy
    <3>3. job[t].k = 1 => job[t].k # 2
        OBVIOUS
    <3> QED BY <3>1, <3>2, <3>3, Zenon DEF InitialAnswer
  <2>2. w \in Web /\ w.session = web.session /\ w.token = "none"
      BY <1>1 DEF Web
  <2>3. InLoop("post", 1) /\ InLoop("initial", 2) /\ 1 <= Accepts
      BY Sizes, Nav20Assumption DEF InLoop
  <2>4. Valid => cookie' /\ web.token # "stale"
      BY <1>1 DEF Valid
  <2> HIDE DEF w
  <2>5. CASE LoginRequest(t, job[t], w, "post", 1)
      BY <1>1, <1>2, <2>2, <2>3, <2>4, <2>5, HealthyRequest
  <2>6. CASE 1 \notin box.front /\ LoginRequest(t, job[t], web, "initial", 2)
      BY <1>1, <1>2, <2>3, <2>4, <2>6, HealthyRequest
  <2> QED BY <2>1, <2>5, <2>6
<1>3. CASE ~Watched
  <2>1. StepOf(t)
      BY <1>0, InitialStep
  <2> QED BY <1>1, <1>3, <2>1, UnwatchedTends
<1> QED BY <1>2, <1>3

(* A login that has not come to the variant the firmware accepts does not  *)
(* step over it.                                                           *)
LEMMA ComesToIt ==
  ASSUME NEW k \in 1 .. Variants, k < Accepts, NEW a, a = "form" => FormOf(k) # FormOf(Accepts)
  PROVE  NextTry(a, k) <= Accepts
<1>1. /\ Accepts \in 1 .. Variants /\ Variants \in Nat /\ Fields \in Nat \ {0}
    BY Sizes, Nav20Assumption
<1> HIDE DEF Variants
<1>2. CASE a = "form"
  <2> DEFINE m == FormOf(k)
             n == FormOf(Accepts)
  <2>1. /\ m \in Nat /\ m * Fields <= k - 1 /\ k - 1 < (m + 1) * Fields
        /\ n \in Nat /\ n * Fields <= Accepts - 1 /\ Accepts - 1 < (n + 1) * Fields
        /\ m # n
      BY <1>1, <1>2, FormOfIs
  <2> HIDE DEF m, n
  <2>2. \A x, y \in Nat, z \in Nat : x <= y => x * z <= y * z
      OBVIOUS
  <2>3. m < n
    <3> SUFFICES ASSUME n + 1 <= m PROVE FALSE
        BY <2>1
    <3>1. (n + 1) * Fields <= m * Fields
        BY <1>1, <2>1, <2>2
    <3> QED BY <1>1, <2>1, <3>1
  <2>4. (m + 1) * Fields <= n * Fields
      BY <1>1, <2>1, <2>2, <2>3
  <2>5. NextTry(a, k) = (m + 1) * Fields + 1
      BY <1>2 DEF NextTry, m
  <2>6. (m + 1) * Fields \in Nat /\ n * Fields \in Nat
      BY <1>1, <2>1
  <2> QED BY <1>1, <2>1, <2>4, <2>5, <2>6
<1>3. CASE a # "form"
    BY <1>1, <1>3 DEF NextTry
<1> QED BY <1>2, <1>3

LEMMA HealthyPost ==
  ASSUME IInv, HealthyInv, Healthy, NEW t \in Task, PostAnswer(t)
  PROVE  Tends(t)
<1>0. Sound
    BY DEF IInv, Sound
<1>1. /\ job[t].at = "post" /\ job[t].at \in LoginSteps /\ web \in Web
      /\ UNCHANGED <<calm, spare>> /\ Fit(job[t]) /\ Able(job[t]) /\ job[t].call # "close"
      /\ job[t].k \in 1 .. Variants
      /\ box' = box
    BY DEF PostAnswer, Answered, history, IInv, TypeOK, Fit, LoginSteps
<1>2. Active(t)
    BY <1>1 DEF Active
<1>3. CASE Watched
  <2>1. PICK a \in PostAnswers(t) :
            /\ cookie' = (cookie \/ a = "accepted")
            /\ \/ a \in Taken /\ LoginRequest(t, job[t], Posted(a), "probe", 1)
               \/ /\ a \notin Taken /\ NextTry(a, job[t].k) \in Nat \ {0}
                  /\ TriesOn(t, Posted(a), NextTry(a, job[t].k))
      BY <1>1, PostAnswerDoes
  <2>2. Reached(t) /\ job[t].k <= Accepts /\ box.pin /\ ~box.odd
      BY <1>1, <1>3, WatchedIsFine DEF Orderly, Healthy
  <2>3. /\ a = "accepted" <=> job[t].k = Accepts
        /\ a = "form" => FormOf(job[t].k) # FormOf(Accepts)
        /\ a \in Taken <=> a = "accepted"
      BY <2>1, <2>2 DEF PostAnswers, Declined, Taken
  <2> DEFINE w == Posted(a)
             k == NextTry(a, job[t].k)
  <2>4. /\ w \in Web /\ w.session = web.session
        /\ a = "accepted" => w.token = "good"
        /\ a # "accepted" => w.token = web.token
      BY <1>1, PostedIs
  <2>5. Valid => cookie' /\ w.token # "stale"
      BY <2>1, <2>4 DEF Valid
  <2>6. CASE a = "accepted"
    <3>1. LoginRequest(t, job[t], w, "probe", 1) /\ cookie'
        BY <2>1, <2>3, <2>6
    <3>2. InLoop("probe", 1)
        BY Sizes DEF InLoop
    <3> HIDE DEF w, k
    <3> QED BY <1>1, <1>3, <2>4, <2>5, <2>6, <3>1, <3>2, HealthyRequest
  <2>7. CASE a # "accepted"
    <3>1. TriesOn(t, w, k) /\ k \in Nat \ {0}
        BY <2>1, <2>3, <2>7
    <3>2. k <= Accepts /\ k <= Variants
      <4>1. Accepts \in 1 .. Variants /\ Variants \in Nat
          BY Sizes, Nav20Assumption
      <4>2. job[t].k < Accepts
          BY <1>1, <2>2, <2>3, <2>7, <4>1
      <4>3. k <= Accepts
          BY <1>1, <2>3, <4>2, ComesToIt
      <4> HIDE DEF k, Variants
      <4> QED BY <3>1, <4>1, <4>3
    <3> HIDE DEF w, k
    <3>3. InLoop("post", k)
        BY <3>1, <3>2, Sizes DEF InLoop
    <3>4. ~(k > Variants)
      <4>1. Variants \in Nat
          BY Sizes
      <4> HIDE DEF Variants
      <4> QED BY <3>1, <3>2, <4>1
    <3>5. LoginRequest(t, job[t], w, "post", k)
        BY <3>1, <3>4, Zenon DEF TriesOn
    <3> QED BY <1>1, <1>3, <2>4, <2>5, <3>2, <3>3, <3>5, HealthyRequest
  <2> QED BY <2>6, <2>7
<1>4. CASE ~Watched
  <2>1. StepOf(t)
      BY <1>0, PostStep
  <2> QED BY <1>1, <1>2, <1>4, <2>1, UnwatchedTends
<1> QED BY <1>3, <1>4

LEMMA HealthyProbe ==
  ASSUME IInv, HealthyInv, Healthy, NEW t \in Task, ProbeAnswer(t)
  PROVE  Tends(t)
<1>0. Sound
    BY DEF IInv, Sound
<1>1. /\ job[t].at = "probe" /\ job[t].at \in LoginSteps /\ web \in Web /\ job \in [Task -> Job]
      /\ cookie' = cookie /\ UNCHANGED <<calm, spare>>
      /\ Fit(job[t]) /\ Able(job[t]) /\ job[t].call # "close" /\ box' = box
    BY DEF ProbeAnswer, Answered, history, IInv, TypeOK, Fit, LoginSteps
<1>2. Active(t)
    BY <1>1 DEF Active
<1>3. CASE Watched
  <2>1. PICK a \in GetAnswers(t), page \in Pages :
            \/ /\ job[t].k < Cardinality(Pages)
               /\ LoginRequest(t, Finding(job[t], a, page), Probed(a, page), "probe", job[t].k + 1)
            \/ /\ job[t].k = Cardinality(Pages)
               /\ LoginEnds(t, Finding(job[t], a, page), Probed(a, page))
      BY <1>1, ProbeAnswerDoes
  <2>2. Reached(t) /\ Open(web) /\ (job[t].found = {} => Valid)
      BY <1>1, <1>3, WatchedIsFine DEF Orderly, Unconfirmed
  <2>3. Valid => a = "data"
      BY <2>1, <2>2 DEF GetAnswers, Valid
  <2> DEFINE j == Finding(job[t], a, page)
             w == Probed(a, page)
  <2>4. /\ Able(j) /\ j.call = job[t].call /\ j.csrf = job[t].csrf /\ j.auth = job[t].auth
        /\ j.todo = job[t].todo /\ j.answered = job[t].answered /\ j.found # {}
      BY <1>1, <2>2, <2>3, FindingIs
  <2>5. w \in Web /\ w.session = web.session /\ w.token = web.token
      BY <1>1, ProbedIs
  <2> HIDE DEF j, w
  <2>6. CASE job[t].k < Cardinality(Pages) /\ LoginRequest(t, j, w, "probe", job[t].k + 1)
    <3>1. InLoop("probe", job[t].k + 1)
        BY <1>1, <2>6, Sizes DEF InLoop, Fit
    <3>2. Valid => cookie' /\ w.token # "stale"
        BY <1>1, <2>5 DEF Valid
    <3>3. Reader(t) /\ (j.csrf \/ j.auth \/ spare[t]) => Valid
        BY <1>1, <1>2, <2>4 DEF HealthyInv, Healthy, Reading
    <3> QED BY <1>1, <1>3, <2>4, <2>5, <2>6, <3>1, <3>2, <3>3, HealthyRequest
  <2>7. CASE LoginEnds(t, j, w)
    <3>1. Open(w)
        BY <2>2, <2>5 DEF Open
    <3>2. Landed(t, j.call, w) /\ ReadsOn(t, j, [w EXCEPT !.paths = j.found])
        BY <1>1, <2>4, <2>5, <2>7, <3>1, LoginEndsLands
    <3>3. j.found \in SUBSET Pages
        BY <2>4 DEF Able, Job
    <3>4. web'.paths = j.found
        BY <2>5, <3>2, <3>3 DEF ReadsOn, SameButProbes, Web
    <3>5. ReadsOn(t, j, [w EXCEPT !.paths = web'.paths])
        BY <3>2, <3>4
    <3>6. Reader(t) => Reading(t)
        BY <1>2 DEF HealthyInv, Healthy
    <3>7. Fair(t, j)
        BY <1>1, <2>4, <3>6 DEF Fair, Reader, Reading
    <3>8. OthersCalm(t)
        BY <1>1 DEF OthersCalm
    <3>9. Reader(t) /\ (j.csrf \/ j.auth \/ spare[t]) => Valid
        BY <1>1, <2>4, <3>6 DEF Reading
    <3>10. calm'[t] /\ j.call \in {"read", "statistics"} /\ (j.csrf \/ j.auth \/ spare'[t]) => Valid
        BY <1>1, <2>4, <3>9 DEF Reader
    <3> QED BY <1>1, <1>3, <2>2, <2>4, <2>5, <3>2, <3>5, <3>7, <3>8, <3>10, HealthyReadsOn
  <2> QED BY <2>1, <2>6, <2>7 DEF j, w
<1>4. CASE ~Watched
  <2>1. StepOf(t)
      BY <1>0, ProbeStep
  <2> QED BY <1>1, <1>2, <1>4, <2>1, UnwatchedTends
<1> QED BY <1>3, <1>4

(* A call that is not a calm read may end in any way.                      *)
LEMMA HealthyReturn ==
  ASSUME IInv, Watched, NEW t \in Task, Active(t), NEW r \in Results,
         Return(t, job[t], web, r), UNCHANGED <<cookie, calm, spare>>, ~Reader(t)
  PROVE  Tends(t)
<1>1. job \in [Task -> Job] /\ web \in Web /\ job[t] \in Job
    BY DEF IInv, TypeOK
<1>2. job'[t] = Ended(job[t], r) /\ SameButProbes(web', web)
    BY <1>1, ReturnDoes
<1>3. job'[t].at = "idle" /\ job'[t].call = job[t].call
    BY <1>1, <1>2, EndedIs
<1>4. (Open(web) => Open(web')) /\ (Valid => Valid')
    BY <1>2 DEF SameButProbes, Open, Valid
<1>5. Orderly(t)' /\ ~Reader(t)'
    BY <1>3 DEF Orderly, Reader
<1> QED BY <1>4, <1>5 DEF Tends, OthersCalm

(* The answer to a page while a calm call runs.                            *)
LEMMA WatchedAnswer ==
  ASSUME IInv, HealthyInv, Healthy, Watched, NEW t \in Task, job[t].at = "get",
         NEW a \in GetAnswers(t)
  PROVE  /\ Open(web) /\ a \in {"data", "csrf", "form"}
         /\ Valid <=> a = "data"
         /\ Reader(t) => /\ Reading(t)
                         /\ ~Valid => ~job[t].csrf /\ ~job[t].auth /\ ~spare[t]
<1>1. Reached(t) /\ Open(web)
    BY WatchedIsFine DEF Orderly, Reached
<1>2. box.refusals = {"form"}
  <2> QED BY FrontIs DEF Healthy
<1>3. a \in {"data", "csrf", "form"} /\ (Valid <=> a = "data")
    BY <1>1, <1>2 DEF GetAnswers, Valid
<1>4. Reader(t) => Reading(t)
    BY DEF HealthyInv, Healthy, Active
<1> QED BY <1>1, <1>3, <1>4 DEF Reading

LEMMA HealthyPage ==
  ASSUME IInv, HealthyInv, Healthy, Watched, NEW t \in Task, job[t].at = "get", Valid,
         NextPage(t, Advanced(job[t]), web), UNCHANGED <<cookie, calm, spare>>
  PROVE  Tends(t)
<1> DEFINE j == Advanced(job[t])
<1>1. /\ job \in [Task -> Job] /\ web \in Web /\ Able(job[t]) /\ Active(t)
      /\ job[t].call \in {"read", "statistics"}
    BY DEF IInv, TypeOK, Fit, Active
<1>2. Able(j) /\ j.call = job[t].call /\ j.csrf = job[t].csrf /\ j.auth = job[t].auth /\ j.answered
    BY <1>1, AdvancedIs
<1>3. Open(web)
    BY WatchedIsFine DEF Orderly
<1> HIDE DEF j
<1>4. NextPage(t, j, web)
    BY DEF j
<1>5. Landed(t, j.call, web) /\ ReadsOn(t, j, web)
    BY <1>1, <1>2, <1>3, <1>4, NextPageLands, NextPageReadsOn
<1>6. [web EXCEPT !.paths = web'.paths] = web
    BY <1>1, <1>5 DEF ReadsOn, SameButProbes, Web
<1>7. ReadsOn(t, j, [web EXCEPT !.paths = web'.paths])
    BY <1>5, <1>6
<1>8. Reader(t) => Reading(t)
    BY <1>1 DEF HealthyInv, Healthy
<1>9. Fair(t, j)
    BY <1>1, <1>2, <1>8 DEF Fair, Reader, Reading
<1>10. OthersCalm(t)
    BY DEF OthersCalm
<1> QED BY <1>1, <1>2, <1>3, <1>5, <1>7, <1>9, <1>10, HealthyReadsOn

LEMMA HealthyRenewal ==
  ASSUME IInv, HealthyInv, Healthy, Watched, NEW t \in Task, job[t].at = "get", ~Valid,
         NEW goal \in {"csrf", "auth"},
         \/ job[t].call = "read" /\ (goal = "csrf" => ~job[t].csrf) /\ (goal = "auth" => ~job[t].auth)
         \/ job[t].call = "statistics" /\ goal = "auth" /\ ~job[t].auth,
         NEW w \in Web, w.session = web.session, w.token \in {web.token, "none"},
         Login(t, Renewing(job[t], goal), w), UNCHANGED <<calm, spare>>
  PROVE  Tends(t)
<1> DEFINE j == Renewing(job[t], goal)
<1>1. Able(job[t]) /\ Active(t) /\ job[t].call # "close" /\ job[t].todo # {}
    BY DEF IInv, Fit, Active
<1>2. /\ Able(j) /\ j.logins < Budget(j) /\ j.call = job[t].call
      /\ j.answered = job[t].answered /\ j.todo = job[t].todo
    BY <1>1, RenewingIs
<1> HIDE DEF j
<1>3. Login(t, j, w)
    BY DEF j
<1>4. Reader(t) => ~spare[t]
    BY <1>1 DEF HealthyInv, Healthy, Reading
<1>5. Fair(t, j)
    BY <1>1, <1>2, <1>4 DEF Fair, Reader
<1>6. OthersCalm(t) /\ web.session # "closing"
    BY WatchedIsFine DEF OthersCalm
<1> QED BY <1>1, <1>2, <1>3, <1>5, <1>6, HealthyLogin

LEMMA HealthyGet ==
  ASSUME IInv, HealthyInv, Healthy, NEW t \in Task, GetAnswer(t)
  PROVE  Tends(t)
<1>0. Sound
    BY DEF IInv, Sound
<1>1. /\ job[t].at = "get" /\ job[t].call = "read" /\ Answered(t)
      /\ \E a \in GetAnswers(t) :
              \/ a = "data" /\ UNCHANGED <<waiters, cookie>> /\ NextPage(t, Advanced(job[t]), web)
              \/ a = "csrf" /\ ~job[t].csrf /\ Login(t, Renewing(job[t], "csrf"), Dropped("csrf"))
              \/ a = "form" /\ ~job[t].auth /\ Login(t, Renewing(job[t], "auth"), Dropped("auth"))
              \/ /\ a = "csrf" => job[t].csrf
                 /\ a = "form" => job[t].auth
                 /\ a # "data" /\ UNCHANGED <<waiters, cookie>>
                 /\ \E r \in Results : Return(t, job[t], web, r)
    BY GetAnswerDoes
<1>2. Active(t) /\ UNCHANGED <<calm, spare>> /\ web \in Web
    BY <1>1 DEF Active, Answered, history, IInv, TypeOK
<1>3. CASE Watched
  <2>1. PICK a \in GetAnswers(t) :
              \/ a = "data" /\ UNCHANGED <<waiters, cookie>> /\ NextPage(t, Advanced(job[t]), web)
              \/ a = "csrf" /\ ~job[t].csrf /\ Login(t, Renewing(job[t], "csrf"), Dropped("csrf"))
              \/ a = "form" /\ ~job[t].auth /\ Login(t, Renewing(job[t], "auth"), Dropped("auth"))
              \/ /\ a = "csrf" => job[t].csrf
                 /\ a = "form" => job[t].auth
                 /\ a # "data" /\ UNCHANGED <<waiters, cookie>>
                 /\ \E r \in Results : Return(t, job[t], web, r)
      BY <1>1
  <2>2. /\ a \in {"data", "csrf", "form"} /\ (Valid <=> a = "data")
        /\ Reader(t) => (~Valid => ~job[t].csrf /\ ~job[t].auth)
      BY <1>1, <1>3, WatchedAnswer
  <2>3. CASE a = "data" /\ cookie' = cookie /\ NextPage(t, Advanced(job[t]), web)
      BY <1>1, <1>2, <1>3, <2>2, <2>3, HealthyPage
  <2>4. ASSUME NEW goal \in {"csrf", "auth"}, a # "data",
               (goal = "csrf" => ~job[t].csrf) /\ (goal = "auth" => ~job[t].auth),
               Login(t, Renewing(job[t], goal), Dropped(goal))
        PROVE  Tends(t)
    <3> DEFINE w == Dropped(goal)
    <3>1. w \in Web /\ w.session = web.session /\ w.token = "none"
        BY <1>2, DroppedIs
    <3>2. Login(t, Renewing(job[t], goal), w)
        BY <2>4
    <3> HIDE DEF w
    <3> QED BY <1>1, <1>2, <1>3, <2>2, <2>4, <3>1, <3>2, HealthyRenewal
  <2>5. CASE /\ a = "csrf" => job[t].csrf
             /\ a = "form" => job[t].auth
             /\ a # "data" /\ cookie' = cookie
             /\ \E r \in Results : Return(t, job[t], web, r)
    <3>1. ~Reader(t)
        BY <2>2, <2>5
    <3> QED BY <1>2, <1>3, <2>5, <3>1, HealthyReturn
  <2> QED BY <2>1, <2>3, <2>4, <2>5
<1>4. CASE ~Watched
  <2>1. StepOf(t)
      BY <1>0, GetStep
  <2> QED BY <1>2, <1>4, <2>1, UnwatchedTends
<1> QED BY <1>3, <1>4

LEMMA HealthyStatistics ==
  ASSUME IInv, HealthyInv, Healthy, NEW t \in Task, StatisticsAnswer(t)
  PROVE  Tends(t)
<1>0. Sound /\ job[t] \in Job
    BY DEF IInv, Sound, TypeOK
<1>1. /\ job[t].at = "get" /\ job[t].call = "statistics" /\ Answered(t)
      /\ \E a \in GetAnswers(t) :
              \/ a = "data" /\ UNCHANGED <<waiters, cookie>> /\ NextPage(t, Advanced(job[t]), web)
              \/ a \in Rejections /\ ~job[t].auth /\ Login(t, Renewing(job[t], "auth"), web)
              \/ /\ a \in Rejections /\ job[t].auth /\ UNCHANGED <<waiters, cookie>>
                 /\ Return(t, job[t], web, "pin")
              \/ a = "error" /\ UNCHANGED <<waiters, cookie>> /\ SkipPage(t, job[t], web)
    BY <1>0, StatisticsAnswerDoes
<1>2. Active(t) /\ UNCHANGED <<calm, spare>> /\ web \in Web
    BY <1>1 DEF Active, Answered, history, IInv, TypeOK
<1>3. CASE Watched
  <2>1. PICK a \in GetAnswers(t) :
              \/ a = "data" /\ UNCHANGED <<waiters, cookie>> /\ NextPage(t, Advanced(job[t]), web)
              \/ a \in Rejections /\ ~job[t].auth /\ Login(t, Renewing(job[t], "auth"), web)
              \/ /\ a \in Rejections /\ job[t].auth /\ UNCHANGED <<waiters, cookie>>
                 /\ Return(t, job[t], web, "pin")
              \/ a = "error" /\ UNCHANGED <<waiters, cookie>> /\ SkipPage(t, job[t], web)
      BY <1>1
  <2>2. /\ a \in {"data", "csrf", "form"} /\ (Valid <=> a = "data")
        /\ Reader(t) => (~Valid => ~job[t].auth)
      BY <1>1, <1>3, WatchedAnswer
  <2>3. CASE a = "data" /\ cookie' = cookie /\ NextPage(t, Advanced(job[t]), web)
      BY <1>1, <1>2, <1>3, <2>2, <2>3, HealthyPage
  <2>4. CASE a \in Rejections /\ ~job[t].auth /\ Login(t, Renewing(job[t], "auth"), web)
    <3>1. ~Valid
        BY <2>2, <2>4 DEF Rejections
    <3> QED BY <1>1, <1>2, <1>3, <2>4, <3>1, HealthyRenewal
  <2>5. CASE /\ a \in Rejections /\ job[t].auth /\ cookie' = cookie
             /\ Return(t, job[t], web, "pin")
    <3>1. ~Reader(t)
        BY <2>2, <2>5 DEF Rejections
    <3> QED BY <1>2, <1>3, <2>5, <3>1, HealthyReturn DEF Results
  <2> QED BY <2>1, <2>2, <2>3, <2>4, <2>5
<1>4. CASE ~Watched
  <2>1. StepOf(t)
      BY <1>0, StatisticsStep
  <2> QED BY <1>2, <1>4, <2>1, UnwatchedTends
<1> QED BY <1>3, <1>4

LEMMA HealthyPut ==
  ASSUME IInv, HealthyInv, NEW t \in Task, PutAnswer(t)
  PROVE  Tends(t)
<1>0. Sound
    BY DEF IInv, Sound
<1>1. /\ job[t].at = "put" /\ UNCHANGED <<calm, spare>>
      /\ \E r \in Results : Return(t, job[t], web, r) /\ cookie' = cookie
    BY DEF PutAnswer, Fails, Results, Answered, history
<1>2. Active(t) /\ ~Reader(t)
    BY <1>1 DEF Active, Reader, IInv, Fit
<1>3. CASE Watched
    BY <1>1, <1>2, <1>3, HealthyReturn
<1>4. CASE ~Watched
  <2>1. StepOf(t)
      BY <1>0, PutStep
  <2> QED BY <1>1, <1>2, <1>4, <2>1, UnwatchedTends
<1> QED BY <1>3, <1>4

(* No session is closed while a calm call runs.                            *)
LEMMA HealthyClosed ==
  ASSUME IInv, HealthyInv, Healthy, NEW t \in Task, SessionClosed(t)
  PROVE  Tends(t)
<1>1. Sound /\ job[t].at = "closing" /\ UNCHANGED <<calm, spare>>
    BY DEF SessionClosed, IInv, Sound
<1>2. Active(t) /\ ~Watched
    BY <1>1, WatchedIsFine DEF Active, Orderly
<1>3. StepOf(t)
    BY <1>1, SessionClosedStep
<1> QED BY <1>1, <1>2, <1>3, UnwatchedTends

(* What a call begins with.                                                *)
Beginning(t) ==
    /\ OthersCalm(t)
    /\ Watched' => \A u \in Task \ {t} : Active(u) => Watched
    /\ calm'[t] \/ Watched' =>
          /\ web.session # "closing"
          /\ web.paths # {} => Open(web)
    /\ spare'[t] /\ web.paths # {} => Valid

LEMMA HealthyBegin ==
  ASSUME IInv, HealthyInv, Healthy, NEW t \in Task, NEW c, Begin(t, c), StepOf(t)
  PROVE  Beginning(t)
<1>1. /\ calm' = [calm EXCEPT ![t] = up /\ ~torn /\ \A u \in Task : job[u].at # "idle" => calm[u]]
      /\ spare' = [spare EXCEPT ![t] = (cookie /\ web.token # "stale") \/ web.paths = {}]
      /\ calm \in [Task -> BOOLEAN] /\ spare \in [Task -> BOOLEAN]
  <2>1. /\ calm' = [calm EXCEPT ![t] = up /\ ~torn /\ \A u \in Task : job[u].at # "idle" => calm[u]]
        /\ spare' = [spare EXCEPT ![t] = (cookie /\ web.token # "stale") \/ web.paths = {}]
      BY Zenon DEF Begin
  <2> QED BY <2>1 DEF IInv, TypeOK
<1>2. OthersCalm(t)
    BY <1>1 DEF OthersCalm
<1>3. spare'[t] /\ web.paths # {} => Valid
    BY <1>1 DEF Valid
<1>4. calm'[t] => ~torn /\ \A u \in Task : Active(u) => calm[u]
    BY <1>1 DEF Active
<1>5. Watched' => calm'[t] \/ Watched
    BY <1>2, AtOthers DEF Watched, OthersCalm
<1>6. ASSUME calm'[t] \/ Watched'
      PROVE  web.session # "closing" /\ ~torn
  <2>1. CASE Watched
      BY <2>1, WatchedIsFine
  <2>2. CASE ~Watched
    <3>1. ~torn /\ \A u \in Task : ~Active(u)
        BY <1>4, <1>5, <1>6, <2>2 DEF Watched
    <3> QED BY <3>1 DEF IInv, SessionInv, Active
  <2> QED BY <2>1, <2>2
<1>7. ~torn /\ web.paths # {} => Open(web)
    BY DEF IInv, OpenInv
<1>8. Watched' => \A u \in Task \ {t} : Active(u) => Watched
    BY <1>4, <1>5 DEF Watched
<1> QED BY <1>2, <1>3, <1>6, <1>7, <1>8 DEF Beginning

LEMMA HealthyStarts ==
  ASSUME IInv, HealthyInv, Healthy, NEW t \in Task, NEW c \in {"login", "clock", "read", "statistics"},
         Beginning(t), Login(t, Started(t, c), web)
  PROVE  Tends(t)
<1> DEFINE j == Started(t, c)
<1>1. /\ Able(j) /\ j.logins < Budget(j) /\ j.call = c /\ ~j.csrf /\ ~j.auth
      /\ c = "statistics" => j.todo = Pages
    BY StartedIs DEF CallKinds
<1>2. web \in Web /\ Pages # {}
    BY Nav20Assumption DEF IInv, TypeOK
<1>3. Login(t, j, web)
    OBVIOUS
<1> HIDE DEF j
<1>4. Fair(t, j)
    BY <1>1, <1>2 DEF Fair
<1> QED BY <1>1, <1>2, <1>3, <1>4, HealthyLogin DEF Beginning

LEMMA HealthyFirstPage ==
  ASSUME IInv, HealthyInv, Healthy, NEW t \in Task, Beginning(t), web.paths # {}, cookie' = cookie,
         NEW j, Able(j), j.call \in {"read", "statistics"}, ~j.csrf, ~j.auth, j.todo # {},
         NEW w \in Web, SameButProbes(w, web), NextPage(t, j, w)
  PROVE  Tends(t)
<1>1. job \in [Task -> Job]
    BY DEF IInv, TypeOK
<1>2. Landed(t, j.call, w) /\ (Open(w) => ReadsOn(t, j, w))
    BY <1>1, NextPageLands, NextPageReadsOn
<1>3. Open(w) => ReadsOn(t, j, [w EXCEPT !.paths = web'.paths])
  <2> SUFFICES ASSUME Open(w) PROVE ReadsOn(t, j, [w EXCEPT !.paths = web'.paths])
      OBVIOUS
  <2>1. ReadsOn(t, j, w)
      BY <1>2
  <2>2. [w EXCEPT !.paths = web'.paths] = w
      BY <2>1 DEF ReadsOn, SameButProbes, Web
  <2> QED BY <2>1, <2>2
<1>4. Fair(t, j)
    BY DEF Fair
<1>5. w.session = web.session /\ w.token = web.token
    BY DEF SameButProbes
<1> QED BY <1>2, <1>3, <1>4, <1>5, HealthyReadsOn DEF Beginning

LEMMA HealthyBeginRead ==
  ASSUME IInv, HealthyInv, Healthy, NEW t \in Task, BeginRead(t), Beginning(t)
  PROVE  Tends(t)
<1> DEFINE j == Started(t, "read")
<1>1. job \in [Task -> Job] /\ web \in Web
    BY DEF IInv, TypeOK
<1>2. Able(j) /\ j.call = "read" /\ ~j.csrf /\ ~j.auth
    BY StartedIs DEF CallKinds
<1>3. \/ Login(t, Started(t, "read"), web)
      \/ web.paths # {} /\ web.session = "none"
      \/ /\ web.paths # {} /\ cookie' = cookie
         /\ NextPage(t, [j EXCEPT !.todo = web.paths], [web EXCEPT !.probes = {}])
    BY Zenon DEF BeginRead
<1>4. CASE Login(t, Started(t, "read"), web)
    BY <1>4, HealthyStarts
<1>5. CASE web.paths # {} /\ web.session = "none"
  <2>1. ~calm'[t] /\ ~Watched'
      BY <1>5 DEF Beginning, Open
  <2> QED BY <2>1 DEF Tends, Reader, Beginning
<1>6. CASE /\ web.paths # {} /\ cookie' = cookie
           /\ NextPage(t, [j EXCEPT !.todo = web.paths], [web EXCEPT !.probes = {}])
  <2> DEFINE i == [j EXCEPT !.todo = web.paths]
             w == [web EXCEPT !.probes = {}]
  <2> HIDE DEF j
  <2>1. /\ i \in Job /\ i.call = "read" /\ i.logins = j.logins /\ i.csrf = j.csrf
        /\ i.auth = j.auth /\ i.todo = web.paths
      BY <1>1, <1>2 DEF Job, Web, Able
  <2>2. w \in Web /\ SameButProbes(w, web)
      BY <1>1 DEF Web, SameButProbes
  <2>3. NextPage(t, i, w)
      BY <1>6
  <2> HIDE DEF i, w
  <2>4. Able(i)
      BY <1>2, <2>1 DEF Able, Budget
  <2> QED BY <1>2, <1>6, <2>1, <2>2, <2>3, <2>4, HealthyFirstPage
<1> QED BY <1>3, <1>4, <1>5, <1>6

LEMMA HealthyBeginStatistics ==
  ASSUME IInv, HealthyInv, Healthy, NEW t \in Task, BeginStatistics(t), Beginning(t)
  PROVE  Tends(t)
<1> DEFINE j == Started(t, "statistics")
<1>1. job \in [Task -> Job] /\ web \in Web /\ Pages # {}
    BY Nav20Assumption DEF IInv, TypeOK
<1>2. Able(j) /\ j.call = "statistics" /\ ~j.csrf /\ ~j.auth /\ j.todo = Pages
    BY StartedIs DEF CallKinds
<1>3. \/ Login(t, Started(t, "statistics"), web)
      \/ web.paths # {} /\ cookie' = cookie /\ NextPage(t, j, web)
    BY Zenon DEF BeginStatistics
<1>4. CASE Login(t, Started(t, "statistics"), web)
    BY <1>4, HealthyStarts
<1>5. CASE web.paths # {} /\ cookie' = cookie /\ NextPage(t, j, web)
  <2>1. SameButProbes(web, web)
      BY DEF SameButProbes
  <2> HIDE DEF j
  <2> QED BY <1>1, <1>2, <1>5, <2>1, HealthyFirstPage
<1> QED BY <1>3, <1>4, <1>5

LEMMA HealthyGranted ==
  ASSUME IInv, HealthyInv, Healthy, NEW t \in Task, Granted(t)
  PROVE  Tends(t)
<1>0. Sound /\ web \in Web /\ waiters \in Seq(Task)
    BY DEF IInv, Sound, TypeOK
<1>1. /\ EnterLogin(t, job[t], web) /\ UNCHANGED <<calm, spare>> /\ holder = NoTask
      /\ waiters # <<>> /\ t = Head(waiters)
    BY DEF Granted, history
<1>2. job[t].at = "lock"
  <2>1. Len(waiters) \in Nat \ {0} /\ waiters[1] = t
      BY <1>0, <1>1, HeadTailProperties
  <2> QED BY <1>0, <2>1 DEF Sound, LockInv
<1>3. /\ Able(job[t]) /\ job[t].logins < Budget(job[t]) /\ job[t].call # "close" /\ Active(t)
    BY <1>2 DEF IInv, Fit, Active
<1>4. CASE Watched
  <2>1. OthersCalm(t) /\ web.session # "closing"
      BY <1>1, <1>4, WatchedIsFine DEF OthersCalm
  <2>2. Reader(t) => Reading(t)
      BY <1>3 DEF HealthyInv, Healthy
  <2>3. Fair(t, job[t])
      BY <1>1, <2>2 DEF Fair, Reader, Reading
  <2> QED BY <1>0, <1>1, <1>3, <1>4, <2>1, <2>3, HealthyEnter
<1>5. CASE ~Watched
  <2>1. StepOf(t)
      BY <1>0, GrantedStep
  <2> QED BY <1>1, <1>3, <1>5, <2>1, UnwatchedTends
<1> QED BY <1>4, <1>5

LEMMA HealthyExpire ==
  ASSUME IInv, HealthyInv, Expire
  PROVE  HealthyInv'
<1>1. /\ UNCHANGED <<job, box>> /\ spare' = [t \in Task |-> FALSE]
      /\ calm' = [t \in Task |-> calm[t] /\ spare[t]
                                  /\ \A u \in Task : ~Unconfirmed(job[u])]
      /\ web' = web \/ web' = [web EXCEPT !.token = "stale"]
    BY Zenon DEF Expire
<1>2. web'.session = web.session
    BY <1>1 DEF IInv, TypeOK, Web
<1>3. \A t \in Task : calm'[t] => calm[t] /\ spare[t] /\ \A u \in Task : ~Unconfirmed(job[u])
    BY <1>1
<1> SUFFICES ASSUME Healthy
             PROVE  /\ Watched' => \A u \in Task : Orderly(u)'
                    /\ \A u \in Task : Reader(u)' =>
                          IF Active(u)' THEN Reading(u)' ELSE job'[u].result = "ok"
    BY <1>1 DEF HealthyInv, Healthy
<1>4. Watched' => Watched /\ \A u \in Task : ~Unconfirmed(job[u])
    BY <1>1, <1>3 DEF Watched, Active
<1>5. ASSUME Watched', NEW u \in Task
      PROVE  Orderly(u)'
  <2>1. Orderly(u) /\ ~Unconfirmed(job[u])
      BY <1>4, <1>5, WatchedIsFine
  <2> QED BY <1>1, <1>2, <2>1 DEF Orderly, Open
<1>6. ASSUME NEW u \in Task, Reader(u)'
      PROVE  IF Active(u)' THEN Reading(u)' ELSE job'[u].result = "ok"
  <2>1. Reader(u) /\ spare[u] /\ ~spare'[u]
      BY <1>1, <1>3, <1>6 DEF Reader
  <2>2. IF Active(u) THEN Reading(u) ELSE job[u].result = "ok"
      BY <2>1 DEF HealthyInv, Healthy
  <2> QED BY <1>1, <2>1, <2>2 DEF Active, Reading
<1> QED BY <1>5, <1>6

LEMMA NextHealthyInv ==
  ASSUME IInv, HealthyInv, [Next]_vars
  PROVE  HealthyInv'
<1>0. Sound /\ web \in Web
    BY DEF IInv, Sound, TypeOK
<1>1. ASSUME NEW t \in Task, StepOf(t), box' = box, Healthy => Tends(t)
      PROVE  HealthyInv'
    BY <1>1, HealthyKeeps DEF StepOf
<1>2. ASSUME NEW t \in Task, BeginLogin(t)
      PROVE  HealthyInv'
  <2>1. PICK c \in {"login", "clock"} : Begin(t, c) /\ Login(t, Started(t, c), web)
      BY <1>2 DEF BeginLogin
  <2>2. StepOf(t) /\ box' = box
      BY <1>0, <1>2, <2>1, BeginLoginStep DEF Begin
  <2> QED BY <1>1, <2>1, <2>2, HealthyBegin, HealthyStarts
<1>3. ASSUME NEW t \in Task, BeginRead(t)
      PROVE  HealthyInv'
  <2>1. Begin(t, "read")
      BY <1>3, Zenon DEF BeginRead
  <2>2. StepOf(t) /\ box' = box
      BY <1>0, <1>3, <2>1, BeginReadStep DEF Begin
  <2> QED BY <1>1, <1>3, <2>1, <2>2, HealthyBegin, HealthyBeginRead
<1>4. ASSUME NEW t \in Task, BeginStatistics(t)
      PROVE  HealthyInv'
  <2>1. Begin(t, "statistics")
      BY <1>4, Zenon DEF BeginStatistics
  <2>2. StepOf(t) /\ box' = box
      BY <1>0, <1>4, <2>1, BeginStatisticsStep DEF Begin
  <2> QED BY <1>1, <1>4, <2>1, <2>2, HealthyBegin, HealthyBeginStatistics
<1>5. ASSUME calm' = [u \in Task |-> FALSE]
      PROVE  HealthyInv'
  <2>1. \A u \in Task : ~calm'[u]
      BY <1>5
  <2> QED BY <2>1 DEF HealthyInv, Watched, Reader
<1>6. ASSUME NEW t \in Task, CloseClient(t)
      PROVE  HealthyInv'
  <2>1. Disturbed
      BY <1>6, Zenon DEF CloseClient
  <2> QED BY <1>5, <2>1 DEF Disturbed
<1>7. ASSUME NEW t \in Task, Granted(t)
      PROVE  HealthyInv'
  <2>1. StepOf(t) /\ box' = box
      BY <1>0, <1>7, GrantedStep DEF Granted
  <2> QED BY <1>1, <1>7, <2>1, HealthyGranted
<1>8. ASSUME NEW t \in Task, InitialAnswer(t)
      PROVE  HealthyInv'
  <2>1. StepOf(t) /\ box' = box
      BY <1>0, <1>8, InitialStep DEF InitialAnswer, Answered
  <2> QED BY <1>1, <1>8, <2>1, HealthyInitial
<1>9. ASSUME NEW t \in Task, PostAnswer(t)
      PROVE  HealthyInv'
  <2>1. box' = box
      BY <1>9, Zenon DEF PostAnswer, Answered
  <2> QED BY <1>0, <1>1, <1>9, <2>1, PostStep, HealthyPost
<1>10. ASSUME NEW t \in Task, ProbeAnswer(t)
       PROVE  HealthyInv'
  <2>1. box' = box
      BY <1>10, Zenon DEF ProbeAnswer, Answered
  <2> QED BY <1>0, <1>1, <1>10, <2>1, ProbeStep, HealthyProbe
<1>11. ASSUME NEW t \in Task, GetAnswer(t)
       PROVE  HealthyInv'
  <2>1. box' = box
      BY <1>11, Zenon DEF GetAnswer, Answered
  <2> QED BY <1>0, <1>1, <1>11, <2>1, GetStep, HealthyGet
<1>12. ASSUME NEW t \in Task, StatisticsAnswer(t)
       PROVE  HealthyInv'
  <2>1. box' = box
      BY <1>12, Zenon DEF StatisticsAnswer, Answered
  <2> QED BY <1>0, <1>1, <1>12, <2>1, StatisticsStep, HealthyStatistics
<1>13. ASSUME NEW t \in Task, PutAnswer(t)
       PROVE  HealthyInv'
  <2>1. box' = box
      BY <1>13, Zenon DEF PutAnswer, Answered
  <2> QED BY <1>0, <1>1, <1>13, <2>1, PutStep, HealthyPut
<1>14. ASSUME NEW t \in Task, SessionClosed(t)
       PROVE  HealthyInv'
  <2>1. StepOf(t) /\ box' = box
      BY <1>0, <1>14, SessionClosedStep DEF SessionClosed
  <2> QED BY <1>1, <1>14, <2>1, HealthyClosed
<1>15. ASSUME NEW t \in Task, Cancel(t)
       PROVE  HealthyInv'
  <2>1. Disturbed
      BY <1>15, Zenon DEF Cancel
  <2> QED BY <1>5, <2>1 DEF Disturbed
<1>16. CASE GoesDown
    BY <1>5, <1>16 DEF GoesDown, Disturbed
<1>17. CASE UNCHANGED <<job, web, cookie, box, calm, spare>>
    BY <1>17 DEF HealthyInv, Healthy, Watched, Active, Orderly, Unconfirmed, Reader, Reading,
                 Valid, Open
<1>18. CASE Expire
    BY <1>18, HealthyExpire
<1>19. CASE ComesUp \/ UNCHANGED vars
    BY <1>17, <1>19 DEF ComesUp, vars, history
<1> QED BY <1>2, <1>3, <1>4, <1>6, <1>7, <1>8, <1>9, <1>10, <1>11, <1>12, <1>13, <1>14, <1>15,
           <1>16, <1>18, <1>19 DEF Next

(* With the right PIN and a controller that serves a start page, shows its *)
(* login page when a session has expired and answers a login it does not   *)
(* understand with nothing or its form, every calm read ends well, however *)
(* many calls run at once, whichever variant of the form the firmware      *)
(* accepts, and whatever one call drops to log in again.  A read is calm   *)
(* through one expiry, unless that falls between the answer that accepts a *)
(* login and the first page the login confirms (read_data,                 *)
(* read_statistics, login).                                                *)
THEOREM HealthyReadsEndWell == Spec => []HealthyReadsSucceed
<1>1. Init => HealthyInv
  <2> SUFFICES ASSUME Init PROVE HealthyInv
      OBVIOUS
  <2>1. \A t \in Task : ~calm[t]
      BY Zenon DEF Init
  <2> QED BY <2>1 DEF HealthyInv, Watched, Reader
<1>2. IInv /\ HealthyInv /\ [Next]_vars => HealthyInv'
    BY NextHealthyInv
<1>3. HealthyInv => HealthyReadsSucceed
    BY DEF HealthyInv, Healthy, HealthyReadsSucceed, Reader, Active
<1> QED BY <1>1, <1>2, <1>3, InvariantHolds, PTL DEF Spec
=============================================================================
