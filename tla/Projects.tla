------------------------------ MODULE Projects ------------------------------
(***************************************************************************)
(* The dashboard together with the share and delete dialogs of the job     *)
(* page.  A visitor goes from the list to the page of a job and back; the  *)
(* promises of a page that was left still settle, and a delete that does   *)
(* pushes the visitor to the dashboard from wherever they are by then.     *)
(*                                                                         *)
(* Every share replaces the job's token: a link is "current", "replaced"   *)
(* by the next share its page waits for, or "taken" by another, and of a   *)
(* deleted job even the current one is not found.  A share that was sent   *)
(* is handled, late too, whether its page still waits for it or not.       *)
(* Stages, socket and transcript of the page are in JobPage.  The export   *)
(* button keeps nothing, and the share dialog, open or closed, changes     *)
(* nothing: both are left out.                                             *)
(***************************************************************************)
EXTENDS Dashboard

CONSTANTS
  Nowhere,   \* no job: the visitor is on the dashboard
  Opened,    \* bound: jobs whose page is visited
  MaxAsks    \* bound: requests of job pages under way, one delete among them

ASSUME NowhereAssumption == Nowhere \notin Jobs /\ Opened \subseteq Jobs
ASSUME AsksAssumption == MaxAsks \in Nat

VARIABLES
  visit,    \* the page: job, loaded, confirm: showDeleteConfirm, deleting, creating:
            \* shareCreating, link: shareUrl, as far as it is still the job's
  asks,     \* requests of pages: live while the page that asked waits for the answer
  removed   \* ghost: jobs whose delete led from a page to the dashboard

allVars == <<dashboardVars, visit, asks, removed>>

AskIds == 1..MaxAsks
Links == {"none", "current", "replaced", "taken"}
NoAsk == [kind |-> "none", job |-> Nowhere, live |-> FALSE, state |-> "none", link |-> "none"]
Asked(kind) == [kind |-> kind, job |-> visit.job, live |-> TRUE, state |-> "sent", link |-> "none"]
NoVisit == [job |-> Nowhere, loaded |-> FALSE, confirm |-> FALSE, deleting |-> FALSE,
            creating |-> FALSE, link |-> "none"]
Here == visit.job = Nowhere

ProjectsInit ==
  /\ DashboardInit /\ visit = NoVisit /\ asks = [n \in AskIds |-> NoAsk] /\ removed = {}

-----------------------------------------------------------------------------
(* Moving between the pages.                                               *)

\* What a dashboard that is left has under way is answered to nobody; its orders stand.
Unlisted ==
  /\ list' = NoAnswer /\ first' = 0 /\ owed' = FALSE /\ selected' = {}
  /\ fetches' = [s \in Slots |-> Free]
  /\ orders' = [d \in DOMAIN orders |->
                  IF orders[d].kind = "share" THEN orders[d] ELSE [orders[d] EXCEPT !.kind = "over"]]

\* The dashboard mounts with nothing and asks.
Mounted ==
  /\ list' = NoAnswer /\ first' = 1 /\ selected' = {}
  /\ fetches' = [s \in Slots |-> IF s = 1 THEN Sent ELSE Free]
  /\ UNCHANGED <<owed, orders>>

\* Of the requests of a page that is left a delete still does something when it is answered
\* and a share when it is handled.
Abandoned(as) ==
  [n \in AskIds |-> IF as[n].kind = "delete" \/ as[n].state = "sent"
                    THEN [as[n] EXCEPT !.live = FALSE] ELSE NoAsk]

\* A card is opened.
OpenCard(j) ==
  /\ Here /\ Offers(j) /\ j \in Opened /\ Unlisted
  /\ visit' = [NoVisit EXCEPT !.job = j]
  /\ UNCHANGED <<db, failures, asks, removed>>

\* getJob answers with a job; of any other answer comes "Job not found.".
PageLoads ==
  /\ ~Here /\ ~visit.loaded /\ db[visit.job] \in Stages
  /\ visit' = [visit EXCEPT !.loaded = TRUE]
  /\ UNCHANGED <<dashboardVars, asks, removed>>

\* "Back to dashboard".
Back ==
  /\ ~Here /\ Mounted /\ visit' = NoVisit /\ asks' = Abandoned(asks)
  /\ UNCHANGED <<db, failures, removed>>

-----------------------------------------------------------------------------
(* The dialogs of the job page.                                            *)

Ask(kind) ==
  \E n \in AskIds : /\ asks[n] = NoAsk /\ \A k \in 1..n - 1 : asks[k] # NoAsk
                    /\ asks' = [asks EXCEPT ![n] = Asked(kind)]

\* Its X closes the dialog even while it deletes.
ToggleConfirm ==
  /\ visit.loaded /\ visit' = [visit EXCEPT !.confirm = ~@]
  /\ UNCHANGED <<dashboardVars, asks, removed>>

\* handleConfirmDelete: the button is disabled while deleting.
handleConfirmDelete ==
  /\ visit.confirm /\ ~visit.deleting /\ Ask("delete")
  /\ \A n \in AskIds : asks[n].kind # "delete"
  /\ visit' = [visit EXCEPT !.deleting = TRUE]
  /\ UNCHANGED <<dashboardVars, removed>>

\* Without the first early return.
wrongShares(v) == TRUE
\* A link that is there or on its way is not asked for again.
Shares(v) == v.link = "none" /\ ~v.creating

SharePage ==
  /\ visit.loaded /\ Shares(visit) /\ Ask("share")
  /\ visit' = [visit EXCEPT !.creating = TRUE]
  /\ UNCHANGED <<dashboardVars, removed>>

\* What the dialog shows for the link.
ShownLink(v) == IF v.creating THEN "generating" ELSE v.link

-----------------------------------------------------------------------------
(* Answers.                                                                *)

\* CreateShare of the gateway puts a new token in the job's row.
Superseded(link, own) ==
  IF link # "current" THEN link ELSE IF own THEN "replaced" ELSE "taken"
Outdated(as, j, own) ==
  [n \in AskIds |-> IF as[n].job = j THEN [as[n] EXCEPT !.link = Superseded(@, own)] ELSE as[n]]
Shared(j, own) ==
  visit' = IF visit.job # j THEN visit ELSE [visit EXCEPT !.link = Superseded(@, own)]

\* PublicShare finds the job by its token.
Works(v) == v.link = "current" /\ db[v.job] # "deleted"

\* A request of a job page is served, and its answer is lost when it fails after that; that
\* of a share nobody waits for is not awaited either.
AskServed(n) ==
  LET a == asks[n]
      found == db[a.job] \in Stages IN
  /\ a.state = "sent" /\ UNCHANGED <<list, first, fetches, owed, selected, orders, removed>>
  /\ \E outcome \in {"ok", "failed"} :
       /\ IF outcome = "ok" THEN found /\ UNCHANGED failures
          ELSE IF found THEN failures < MaxFailures /\ failures' = failures + 1
          ELSE UNCHANGED failures
       /\ \E done \in {TRUE, outcome = "ok"} :
            LET it == IF a.kind = "share" /\ ~a.live THEN NoAsk
                      ELSE [a EXCEPT !.state = outcome,
                                     !.link = IF a.kind = "share" /\ outcome = "ok"
                                              THEN "current" ELSE @] IN
            IF done /\ found /\ a.kind = "share"
            THEN /\ asks' = [Outdated(asks, a.job, a.live) EXCEPT ![n] = it]
                 /\ Shared(a.job, a.live) /\ UNCHANGED db
            ELSE /\ asks' = [asks EXCEPT ![n] = it] /\ UNCHANGED visit
                 /\ db' = IF done /\ found THEN [db EXCEPT ![a.job] = "deleted"] ELSE db

\* A share of the dashboard is served while the visitor may be on the job's page.
OrderStep ==
  \E d \in DOMAIN orders, j \in Jobs :
    /\ OrderServed(d, j) /\ UNCHANGED removed
    /\ \/ visit' = visit /\ asks' = asks /\ (orders[d].kind = "share" => j \notin orders'[d].ok)
       \/ orders[d].kind = "share" /\ db[j] \in Stages /\ asks' = Outdated(asks, j, FALSE)
          /\ Shared(j, FALSE)

\* In a finally.
wrongGoes(a) == a.kind = "delete" /\ ~Here
\* router.push of the page that asked, mounted or not; one is on the dashboard already or gets
\* there.
Goes(a) == a.kind = "delete" /\ a.state = "ok" /\ ~Here

DeleteAnswered(n) ==
  LET a == asks[n] IN
  /\ a.kind = "delete" /\ a.state \in {"ok", "failed"}
  /\ IF Goes(a)
     THEN /\ Mounted /\ visit' = NoVisit /\ removed' = removed \cup {a.job}
          /\ asks' = Abandoned([asks EXCEPT ![n] = NoAsk])
     ELSE /\ UNCHANGED <<list, first, fetches, owed, selected, orders, removed>>
          /\ asks' = [asks EXCEPT ![n] = NoAsk]
          /\ visit' = IF a.live THEN [visit EXCEPT !.deleting = FALSE] ELSE visit
  /\ UNCHANGED <<db, failures>>

\* The page that asked shows the link; an error is swallowed.
ShareAnswered(n) ==
  LET a == asks[n] IN
  /\ a.kind = "share" /\ a.state \in {"ok", "failed"}
  /\ asks' = [asks EXCEPT ![n] = NoAsk]
  /\ visit' = IF ~a.live THEN visit
              ELSE [visit EXCEPT !.creating = FALSE, !.link = IF a.state = "ok" THEN a.link ELSE @]
  /\ UNCHANGED <<dashboardVars, removed>>

\* The request fails for the page, and the server handles it later or loses it too.
ShareLost(n) ==
  /\ asks[n].kind = "share" /\ asks[n].live /\ asks[n].state = "sent"
  /\ failures < MaxFailures /\ failures' = failures + 1
  /\ asks' = [asks EXCEPT ![n].live = FALSE]
  /\ visit' = [visit EXCEPT !.creating = FALSE]
  /\ UNCHANGED <<db, list, first, fetches, owed, selected, orders, removed>>

-----------------------------------------------------------------------------
\* A bound: an order waits until the requests of pages are answered.
Few(os) == Len(os) <= Len(orders) \/ \A n \in AskIds : asks[n] = NoAsk
\* A bound: at most one request is under way that no page waits for.
OneStray == Cardinality({n \in AskIds : asks'[n] # NoAsk /\ ~asks'[n].live}) <= 1
Answers(n) == AskServed(n) \/ DeleteAnswered(n) \/ ShareAnswered(n)
ProjectsNext ==
  \/ ServerStep /\ (Here \/ owed' = owed) /\ UNCHANGED <<visit, asks, removed>>
  \/ Here /\ PageStep /\ Few(orders') /\ UNCHANGED <<visit, asks, removed>>
  \/ OrderStep \/ \E j \in Jobs : OpenCard(j)
  \/ PageLoads \/ ToggleConfirm \/ handleConfirmDelete \/ SharePage
  \/ \E n \in AskIds : Answers(n)
  \/ (Back \/ \E n \in AskIds : ShareLost(n)) /\ OneStray

\* The interval ticks and requests are answered or fail; nobody has to click.
ProjectsFairness ==
  /\ WF_allVars(Here /\ Tick /\ UNCHANGED <<visit, asks, removed>>)
  /\ \A s \in Slots : WF_allVars(Here /\ (Serve(s) \/ FetchArrives(s) \/ FetchFails(s))
                                    /\ UNCHANGED <<visit, asks, removed>>)
  /\ \A n \in AskIds : WF_allVars(Answers(n))
ProjectsSpec == ProjectsInit /\ [][ProjectsNext]_allVars /\ ProjectsFairness

-----------------------------------------------------------------------------
(* Properties.                                                             *)

\* The state has the shape the code gives it.
ProjectsTypeOK ==
  /\ DashboardTypeOK /\ removed \subseteq Jobs
  /\ visit \in [job: Jobs \cup {Nowhere}, loaded: BOOLEAN, confirm: BOOLEAN, deleting: BOOLEAN,
                creating: BOOLEAN, link: Links]
  /\ asks \in [AskIds -> [kind: {"none", "delete", "share"}, job: Jobs \cup {Nowhere},
                          live: BOOLEAN, state: {"none", "sent", "ok", "failed"}, link: Links]]

\* A card disappears only when the server has deleted its job, an answer that does not have
\* it arrives, or the dashboard is left: a delete that failed, alone or among others, keeps
\* its card.
DropsOnlyDeleted ==
  [][\A j \in Shown(list) \ Shown(list') :
       \/ db[j] = "deleted" \/ ~Here'
       \/ \E s \in Slots : fetches[s].state = "read" /\ fetches[s].jobs[j] = "absent"]_allVars

\* "Polite auto-refresh while any job is non-terminal": a job that has ended is not shown
\* unfinished for ever, although old answers arrive late and requests fail.  True of a
\* pipeline whose unfinished stages are all in NON_TERMINAL_STAGES.
PollingCatchesUp ==
  \A j \in Jobs : db[j] \in TERMINAL_STAGES \cup {"deleted"} ~> list[j] \notin NON_TERMINAL_STAGES

\* A job deleted on a page never comes back on the dashboard the page leads to, whatever was
\* under way when the visitor left the list the last time.
DeletedOnPageStaysGone == removed \cap Shown(list) = {}

\* Neither the cards nor the bulk bar, which acts on the selection, offer what has gone.
NothingGoneIsOffered == ProjectsTypeOK /\ SelectionShown /\ DeletedOnPageStaysGone

\* The link a page shows works: pressing Share again, also while an answer is late or after one
\* was lost, never leaves the visitor with a link that this page's own next share replaced.
\* Excepted are a job that is deleted (PublicShare then answers 404) and one whose last share
\* is another: of the dashboard, of an earlier visit to the page, or of this page, given up as
\* failed and handled late.
LinkWorks ==
  ShownLink(visit) \notin {"none", "generating"} =>
    Works(visit) \/ visit.link = "taken" \/ db[visit.job] = "deleted"

=============================================================================
