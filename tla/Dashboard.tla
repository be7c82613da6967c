----------------------------- MODULE Dashboard -----------------------------
(***************************************************************************)
(* The dashboard's list of jobs: the fetch on mounting, the poll every 15  *)
(* seconds while a job looks unfinished, the fetch after an upload, the    *)
(* selection, and single and bulk deletes and shares with their answers.   *)
(*                                                                         *)
(* Server, other tabs and the upload dialog are the environment.  Requests *)
(* overlap and their answers come in any order; the poll does not wait for *)
(* the last one.  The search and the filter are left out: an order acts on *)
(* cards whether they are shown or hidden by it.                           *)
(***************************************************************************)
EXTENDS Naturals, Sequences, SequencesExt

CONSTANTS
  Jobs,
  Path,        \* the stages the pipeline gives a job, in order
  Coming,      \* the jobs made after the dashboard is opened
  MaxFlight,   \* bound: getJobs calls under way, one less while an order is
  MaxFailures  \* bound: requests that fail

NON_TERMINAL_STAGES == {"uploaded", "analyzing", "transcribed", "synthesizing", "muxing"}
TERMINAL_STAGES == {"completed", "failed"}

ASSUME PathAssumption ==
  Path \in Seq(NON_TERMINAL_STAGES \cup TERMINAL_STAGES) \ {<<>>} /\ Coming \subseteq Jobs
ASSUME FlightAssumption == MaxFlight \in Nat \ {0} /\ MaxFailures \in Nat

VARIABLES
  db,        \* the jobs of the server: "unborn", a stage of Path, "deleted"
  list,      \* jobs as shown: a stage, or "absent"
  first,     \* the call of the mount effect, 0 once it has ended: loading
  fetches,   \* getJobs calls: "free", "sent", or "read" with the answer under way
  owed,      \* an upload succeeded and its onCreated has not run
  selected,
  orders,    \* deletes confirmed and shares asked for: kind ("over": nobody awaits it), ids,
             \* requests unanswered and requests that succeeded
  failures   \* requests failed so far

dashboardVars == <<db, list, first, fetches, owed, selected, orders, failures>>

Stages == {Path[k] : k \in DOMAIN Path}
Slots == 1..MaxFlight
Shown(l) == {j \in Jobs : l[j] # "absent"}
\* ListJobs of the gateway.
Answer == [j \in Jobs |-> IF db[j] \in Stages THEN db[j] ELSE "absent"]
NoAnswer == [j \in Jobs |-> "absent"]
Free == [state |-> "free", jobs |-> NoAnswer]
Sent == [state |-> "sent", jobs |-> NoAnswer]

DashboardInit ==
  /\ db = [j \in Jobs |-> IF j \in Coming THEN "unborn" ELSE Path[1]]
  /\ list = NoAnswer /\ first = 1 /\ owed = FALSE /\ selected = {}
  /\ fetches = [s \in Slots |-> IF s = 1 THEN Sent ELSE Free]
  /\ orders = <<>> /\ failures = 0

wrongActive(l) == \E j \in Jobs : l[j] \in NON_TERMINAL_STAGES \ {"muxing"}
\* hasActiveJob.
Active(l) == \E j \in Jobs : l[j] \in NON_TERMINAL_STAGES

-----------------------------------------------------------------------------
(* The server and other tabs.                                              *)

Created(j) ==
  /\ db[j] = "unborn"
  /\ db' = [db EXCEPT ![j] = Path[1]]
  /\ owed' \in {owed, TRUE}
  /\ UNCHANGED <<list, first, fetches, selected, orders, failures>>

Advance(j) ==
  /\ \E k \in DOMAIN Path :
       k + 1 \in DOMAIN Path /\ db[j] = Path[k] /\ db' = [db EXCEPT ![j] = Path[k + 1]]
  /\ UNCHANGED <<list, first, fetches, owed, selected, orders, failures>>

DeletedElsewhere(j) ==
  /\ db[j] \in Stages /\ failures < MaxFailures
  /\ db' = [db EXCEPT ![j] = "deleted"] /\ failures' = failures + 1
  /\ UNCHANGED <<list, first, fetches, owed, selected, orders>>

-----------------------------------------------------------------------------
(* fetchJobs.                                                              *)

Calls(fs) == {s \in Slots : fs[s].state # "free"}
Under(fs, os) == Cardinality(Calls(fs)) + Len(os) <= MaxFlight

Fetch(s) ==
  /\ fetches[s].state = "free" /\ s - 1 \in {0} \cup Calls(fetches)
  /\ fetches' = [fetches EXCEPT ![s] = Sent] /\ Under(fetches', orders)

\* The interval of the effect of hasActiveJob.
Tick ==
  /\ Active(list)
  /\ \E s \in Slots : Fetch(s)
  /\ UNCHANGED <<db, list, first, owed, selected, orders, failures>>

\* onCreated of the upload dialog.
OnCreated ==
  /\ owed /\ owed' = FALSE
  /\ \E s \in Slots : Fetch(s)
  /\ UNCHANGED <<db, list, first, selected, orders, failures>>

Serve(s) ==
  /\ fetches[s].state = "sent"
  /\ fetches' = [fetches EXCEPT ![s] = [state |-> "read", jobs |-> Answer]]
  /\ UNCHANGED <<db, list, first, owed, selected, orders, failures>>

\* finally: loading ends with the first call.
LoadingEnds(s) == first' = IF first = s THEN 0 ELSE first

\* The effect of [jobs]: selections that are gone go.
Pruned(l) == selected \cap Shown(l)

SetJobs(l) == list' = l /\ selected' = Pruned(l)

\* The answer replaces the list, however old it is.
FetchArrives(s) ==
  /\ fetches[s].state = "read"
  /\ fetches' = [fetches EXCEPT ![s] = Free] /\ LoadingEnds(s)
  /\ SetJobs(fetches[s].jobs)
  /\ UNCHANGED <<db, owed, orders, failures>>

\* An error is swallowed and the list stays.
FetchFails(s) ==
  /\ fetches[s].state # "free" /\ failures < MaxFailures
  /\ fetches' = [fetches EXCEPT ![s] = Free] /\ LoadingEnds(s) /\ failures' = failures + 1
  /\ UNCHANGED <<db, list, owed, selected, orders>>

-----------------------------------------------------------------------------
(* Selecting and deleting.                                                 *)

ToggleSelect(j) ==
  /\ first = 0 /\ j \in Shown(list)
  /\ selected' = IF j \in selected THEN selected \ {j} ELSE selected \cup {j}
  /\ UNCHANGED <<db, list, first, fetches, owed, orders, failures>>

ClearSelection ==
  /\ selected # {} /\ selected' = {}
  /\ UNCHANGED <<db, list, first, fetches, owed, orders, failures>>

Order(kind, ids) ==
  /\ orders = <<>> /\ Under(fetches, <<kind>>)
  /\ orders' = Append(orders, [kind |-> kind, ids |-> ids, left |-> ids, ok |-> {}])
  /\ UNCHANGED <<db, list, first, fetches, owed, selected, failures>>

\* A card with its menu.
Offers(j) == first = 0 /\ j \in Shown(list)

\* handleDelete and handleBulkDelete up to their await: window.confirm blocks the page.
handleDelete(j) == Offers(j) /\ Order("one", {j})
handleBulkDelete == selected # {} /\ Order("bulk", selected)

\* Each request is a new link for its job; the page itself does nothing with the answers.
handleShare(j) == Offers(j) /\ Order("share", {j})
handleBulkShare == selected # {} /\ Order("share", selected)

\* One request is served; a job that is gone is a 404, and the answer may be lost.
OrderServed(d, j) ==
  /\ j \in orders[d].left
  /\ LET found == db[j] \in Stages
         after == IF found /\ orders[d].kind # "share" THEN [db EXCEPT ![j] = "deleted"]
                  ELSE db IN
     \/ /\ db' = after
        /\ orders' = [orders EXCEPT ![d].left = @ \ {j},
                                      ![d].ok = IF found THEN @ \cup {j} ELSE @]
        /\ UNCHANGED failures
     \/ /\ failures < MaxFailures /\ failures' = failures + 1
        /\ orders' = [orders EXCEPT ![d].left = @ \ {j}]
        /\ db' \in {db, after}
  /\ UNCHANGED <<list, first, fetches, owed, selected>>

wrongSettled(d) == orders[d].ids
\* Promise.allSettled: those whose delete succeeded.
Settled(d) == orders[d].ok

\* The answers have come: the cards go, and after a bulk delete the whole selection.
OrderArrives(d) ==
  /\ orders[d].left = {} /\ orders' = RemoveAt(orders, d)
  /\ IF orders[d].kind \in {"share", "over"} THEN UNCHANGED <<list, selected>>
     ELSE /\ list' = [j \in Jobs |-> IF j \in Settled(d) THEN "absent" ELSE list[j]]
          /\ selected' = IF orders[d].kind = "bulk" THEN {} ELSE Pruned(list')
  /\ UNCHANGED <<db, first, fetches, owed, failures>>

-----------------------------------------------------------------------------
ServerStep ==
  \/ \E j \in Jobs : Created(j) \/ Advance(j) \/ DeletedElsewhere(j)
  \/ \E s \in Slots : Serve(s)
  \/ \E d \in DOMAIN orders : OrderArrives(d)
PageStep ==
  \/ \E j \in Jobs : ToggleSelect(j) \/ handleDelete(j) \/ handleShare(j)
  \/ Tick \/ OnCreated \/ ClearSelection \/ handleBulkDelete \/ handleBulkShare
  \/ \E s \in Slots : FetchArrives(s) \/ FetchFails(s)

-----------------------------------------------------------------------------
(* Properties.                                                             *)

\* The state has the shape the code gives it.
DashboardTypeOK ==
  /\ db \in [Jobs -> Stages \cup {"unborn", "deleted"}]
  /\ list \in [Jobs -> Stages \cup {"absent"}]
  /\ first \in {0} \cup Slots /\ owed \in BOOLEAN /\ selected \subseteq Jobs
  /\ fetches \in [Slots -> [state: {"free", "sent", "read"}, jobs: [Jobs -> Stages \cup {"absent"}]]]
  /\ orders \in Seq([kind: {"one", "bulk", "share", "over"}, ids: SUBSET Jobs, left: SUBSET Jobs,
                      ok: SUBSET Jobs])
  /\ failures \in 0..MaxFailures

\* The bulk bar never counts, shares or deletes a job that is no longer in the list, whatever
\* polls, deletes and other tabs do to it.
SelectionShown == selected \subseteq Shown(list)

=============================================================================
