----------------------------- MODULE HubProofs -----------------------------
(***************************************************************************)
(* Theorems about Hub: no subscription is leaked, no newcomer is deaf      *)
(* without a departure, and no browser is sent an event twice.             *)
(***************************************************************************)
EXTENDS Hub, TLAPS

-----------------------------------------------------------------------------
(* The invariant behind all three.                                         *)

PubSub == [job: Jobs \cup {"none"}, state: {"unused", "open", "closed"},
           buf: Seq(Events), msg: 0..MaxEvents, left: SUBSET Clients]
Client == [pc: {"idle", "subscribing", "served"}, job: Jobs \cup {"none"},
           conn: BOOLEAN, send: Seq(Events), closed: BOOLEAN]
ProcPcs == {"off", "run", "unregister", "close", "closeLast", "cleanup", "done"}

\* A goroutine that has taken its client out of the map.
Gone == {"close", "closeLast", "cleanup", "done"}

\* A client no connection has used yet has left no trace, and only a process that is up has
\* others; one that is still subscribing is in
\* the map unless a broadcast gave it up; and who is taken out of the map has departed.
ClientOK(c) ==
  /\ cl[c].pc = "idle" => got[c] = <<>> /\ \A p \in Procs : proc[c][p] = "off"
  /\ cl[c].pc # "idle" => JobOf(c) \in Jobs /\ Alive
  /\ cl[c].pc = "subscribing" =>
       /\ proc[c]["read"] = "off" /\ proc[c]["write"] = "off"
       /\ c \in jobs[JobOf(c)] \/ \E p \in Slow : proc[c][p] \in Gone
  /\ \A p \in Procs : proc[c][p] \in Gone => JobOf(c) \in departed
ClientsOK == \A c \in Clients : ClientOK(c)

\* Whoever is in a map, or in one that is being walked, is a client of that job.
WatchersOK ==
  /\ \A j \in Jobs : \A c \in jobs[j] : cl[c].pc # "idle" /\ JobOf(c) = j
  /\ \A p \in PubSubs : \A c \in ps[p].left : cl[c].pc # "idle" /\ JobOf(c) = ps[p].job

PubSubOK(p) ==
  /\ ps[p].state = "unused" => ps[p] = Unused
  /\ ps[p].state # "unused" => ps[p].job \in Jobs
  /\ ps[p].left # {} => ps[p].msg # 0
  /\ ps[p].state = "open" => up = "up" /\ subs[ps[p].job] = p
PubSubsOK == \A p \in PubSubs : PubSubOK(p)

SubOK(j) ==
  subs[j] # "none" =>
    /\ ps[subs[j]].job = j /\ ps[subs[j]].state # "unused" /\ Alive
    /\ up = "up" => ps[subs[j]].state = "open"
SubsOK == \A j \in Jobs : SubOK(j)

HubInv == TypeOK /\ ClientsOK /\ WatchersOK /\ PubSubsOK /\ SubsOK

-----------------------------------------------------------------------------
LEMMA FreshOK ==
  ASSUME up \in {"up", "down", "crashed"},
         jobs = Nobody, subs = NoSubs, ps = NoPubSubs,
         cl = [c \in Clients |-> Idle], proc = [c \in Clients |-> Off],
         published = [j \in Jobs |-> 0], got = [c \in Clients |-> <<>>], departed = {}
  PROVE  HubInv
<1> USE HubAssumption DEF Idle, Unused, Off, Nobody, NoSubs, NoPubSubs
<1>1. <<>> \in Seq(Events)
  OBVIOUS
<1>2. TypeOK
  <2>1. cl \in [Clients -> Client]
    BY <1>1 DEF Client
  <2>2. ps \in [PubSubs -> PubSub]
    BY <1>1 DEF PubSub
  <2>3. proc \in [Clients -> [Procs -> ProcPcs]]
    BY DEF ProcPcs
  <2> QED BY <1>1, <2>1, <2>2, <2>3 DEF TypeOK, Client, PubSub, ProcPcs
<1>3. ClientsOK
  BY DEF ClientsOK, ClientOK, Gone
<1>4. WatchersOK
  BY DEF WatchersOK
<1>5. PubSubsOK
  BY DEF PubSubsOK, PubSubOK
<1>6. SubsOK
  BY DEF SubsOK, SubOK
<1> QED BY <1>2, <1>3, <1>4, <1>5, <1>6 DEF HubInv

LEMMA DiesInv ==
  ASSUME NEW how \in {"down", "crashed"}, Dies(how)
  PROVE  HubInv'
<1> USE HubAssumption DEF Idle, Unused, Off, Nobody, NoSubs, NoPubSubs, Dies
<1>1. <<>> \in Seq(Events)
  OBVIOUS
<1>2. TypeOK'
  <2>1. cl' \in [Clients -> Client]
    BY <1>1 DEF Client
  <2>2. ps' \in [PubSubs -> PubSub]
    BY <1>1 DEF PubSub
  <2>3. proc' \in [Clients -> [Procs -> ProcPcs]]
    BY DEF ProcPcs
  <2> QED BY <1>1, <2>1, <2>2, <2>3 DEF TypeOK, Client, PubSub, ProcPcs
<1>3. ClientsOK'
  BY DEF ClientsOK, ClientOK, Gone
<1>4. WatchersOK'
  BY DEF WatchersOK
<1>5. PubSubsOK'
  BY DEF PubSubsOK, PubSubOK
<1>6. SubsOK'
  BY DEF SubsOK, SubOK
<1> QED BY <1>2, <1>3, <1>4, <1>5, <1>6 DEF HubInv

LEMMA Typed ==
  ASSUME HubInv
  PROVE  /\ cl \in [Clients -> Client] /\ ps \in [PubSubs -> PubSub]
         /\ proc \in [Clients -> [Procs -> ProcPcs]]
         /\ jobs \in [Jobs -> SUBSET Clients] /\ subs \in [Jobs -> PubSubs \cup {"none"}]
         /\ published \in [Jobs -> 0..MaxEvents] /\ got \in [Clients -> Seq(Events)]
         /\ departed \subseteq Jobs /\ up \in {"up", "stopping", "drained", "down", "crashed"}
  BY DEF HubInv, TypeOK, Client, PubSub, ProcPcs

LEMMA RegisterStep ==
  ASSUME HubInv, NEW c \in Clients, NEW j \in Jobs, Register(c, j)
  PROVE  HubInv'
<1>1. PICK seen \in SUBSET Iterating(j) :
        ps' = [p \in PubSubs |-> IF p \in seen THEN [ps[p] EXCEPT !.left = @ \cup {c}] ELSE ps[p]]
  BY DEF Register
<1>2. /\ cl[c].pc = "idle" /\ Alive /\ UNCHANGED <<up, subs, proc, published, got, departed>>
      /\ cl' = [cl EXCEPT ![c] = [pc |-> "subscribing", job |-> j, conn |-> TRUE,
                                  send |-> <<>>, closed |-> FALSE]]
      /\ jobs' = [jobs EXCEPT ![j] = @ \cup {c}]
  BY DEF Register, ghosts
<1>3. [pc |-> "subscribing", job |-> j, conn |-> TRUE, send |-> <<>>, closed |-> FALSE] \in Client
  BY DEF Client
<1>4. /\ cl' \in [Clients -> Client] /\ cl'[c].pc = "subscribing" /\ cl'[c].job = j
      /\ \A d \in Clients : d # c => cl'[d] = cl[d]
  BY <1>2, <1>3, Typed
<1>5. /\ jobs' \in [Jobs -> SUBSET Clients] /\ jobs'[j] = jobs[j] \cup {c}
      /\ \A k \in Jobs : k # j => jobs'[k] = jobs[k]
  BY <1>2, Typed
<1>6. \A p \in seen : p \in PubSubs /\ ps[p].job = j /\ ps[p].left # {} /\ ps[p].state # "unused"
  BY DEF Iterating, Left
<1>7. \A p \in PubSubs :
        /\ ps'[p].job = ps[p].job /\ ps'[p].state = ps[p].state /\ ps'[p].msg = ps[p].msg
        /\ ps'[p].left \in {ps[p].left, ps[p].left \cup {c}}
        /\ ps'[p] # ps[p] => p \in seen
  BY <1>1, Typed DEF PubSub
<1>8. ps' \in [PubSubs -> PubSub]
  <2>1. ASSUME NEW p \in PubSubs PROVE [ps[p] EXCEPT !.left = @ \cup {c}] \in PubSub
    <3>1. ps[p] \in PubSub /\ ps[p].left \cup {c} \in SUBSET Clients
      BY Typed DEF PubSub
    <3> QED BY <3>1 DEF PubSub
  <2> QED BY <1>1, <2>1, Typed
<1>9. TypeOK'
  BY <1>2, <1>4, <1>5, <1>8, Typed DEF TypeOK, Client, PubSub, ProcPcs
<1>10. ClientsOK'
  <2>1. ASSUME NEW d \in Clients PROVE ClientOK(d)'
    <3>1. CASE d = c
      BY <3>1, <1>2, <1>4, <1>5 DEF HubInv, ClientsOK, ClientOK, JobOf, Gone, Procs, Alive
    <3>2. CASE d # c
      BY <3>2, <1>2, <1>4, <1>5, Typed DEF HubInv, ClientsOK, ClientOK, JobOf, Client, Alive
    <3> QED BY <3>1, <3>2
  <2> QED BY <2>1 DEF ClientsOK
<1>11. WatchersOK'
  <2>1. ASSUME NEW k \in Jobs, NEW d \in jobs'[k] PROVE cl'[d].pc # "idle" /\ cl'[d].job = k
    BY <2>1, <1>2, <1>4, <1>5, Typed DEF HubInv, WatchersOK, JobOf
  <2>2. ASSUME NEW p \in PubSubs, NEW d \in ps'[p].left
        PROVE  cl'[d].pc # "idle" /\ cl'[d].job = ps'[p].job
    <3>1. CASE d \in ps[p].left
      <4>1. d \in Clients /\ cl[d].pc # "idle" /\ cl[d].job = ps[p].job
        BY <3>1, Typed DEF HubInv, WatchersOK, JobOf, PubSub
      <4> QED BY <4>1, <1>2, <1>4, <1>7
    <3>2. CASE d \notin ps[p].left
      BY <2>2, <3>2, <1>4, <1>6, <1>7
    <3> QED BY <3>1, <3>2
  <2> QED BY <2>1, <2>2 DEF WatchersOK, JobOf
<1>12. PubSubsOK'
  <2>1. ASSUME NEW p \in PubSubs PROVE PubSubOK(p)'
    <3>1. PubSubOK(p)
      BY DEF HubInv, PubSubsOK
    <3>2. CASE p \in seen
      BY <3>1, <3>2, <1>2, <1>6, <1>7 DEF PubSubOK
    <3>3. CASE ps'[p] = ps[p]
      BY <3>1, <3>3, <1>2 DEF PubSubOK
    <3> QED BY <3>2, <3>3, <1>7
  <2> QED BY <2>1 DEF PubSubsOK
<1>13. SubsOK'
  <2>1. ASSUME NEW k \in Jobs PROVE SubOK(k)'
    <3>1. SubOK(k) /\ (subs[k] = "none" \/ subs[k] \in PubSubs)
      BY Typed DEF HubInv, SubsOK
    <3>2. subs'[k] = subs[k] /\ up' = up
      BY <1>2
    <3> QED BY <3>1, <3>2, <1>7 DEF SubOK, Alive
  <2> QED BY <2>1 DEF SubsOK
<1> QED BY <1>9, <1>10, <1>11, <1>12, <1>13 DEF HubInv

\* Watchers stay watchers while the clients keep their jobs and no map takes anyone in.
LEMMA WatchersStay ==
  ASSUME HubInv,
         \A c \in Clients : cl[c].pc # "idle" => cl'[c].pc # "idle" /\ cl'[c].job = cl[c].job,
         \A j \in Jobs : jobs'[j] \subseteq jobs[j],
         \A p \in PubSubs : ps'[p].left = {} \/ (ps'[p].left \subseteq ps[p].left \cup jobs[ps[p].job]
                                               /\ ps'[p].job = ps[p].job /\ ps[p].job \in Jobs)
  PROVE  WatchersOK'
<1>1. /\ \A j \in Jobs : jobs[j] \subseteq Clients
      /\ \A p \in PubSubs : ps[p].left \subseteq Clients
      /\ WatchersOK
  BY Typed DEF PubSub, HubInv
<1>2. \A j \in Jobs : \A c \in jobs'[j] : cl'[c].pc # "idle" /\ cl'[c].job = j
  BY <1>1 DEF WatchersOK, JobOf
<1>3. \A p \in PubSubs : \A c \in ps'[p].left : cl'[c].pc # "idle" /\ cl'[c].job = ps'[p].job
  BY <1>1 DEF WatchersOK, JobOf
<1> QED BY <1>2, <1>3 DEF WatchersOK, JobOf

\* A subscription in use belongs to a job.
LEMMA InUse ==
  ASSUME HubInv, NEW p \in PubSubs
  PROVE  ps[p].left # {} \/ ps[p].buf # <<>> => ps[p].job \in Jobs
<1>1. ps[p].state = "unused" => ps[p].left = {} /\ ps[p].buf = <<>>
  BY DEF HubInv, PubSubsOK, PubSubOK, Unused
<1> QED BY <1>1 DEF HubInv, PubSubsOK, PubSubOK

LEMMA SubscribeStep ==
  ASSUME HubInv, NEW c \in Clients, Subscribe(c)
  PROVE  HubInv'
<1>0. PICK j \in Jobs : j = JobOf(c)
  BY DEF Subscribe, HubInv, ClientsOK, ClientOK
<1>1. /\ cl[c].pc = "subscribing" /\ j = JobOf(c) /\ ClientOK(c)
      /\ UNCHANGED <<up, jobs, published, got, departed>>
      /\ cl' = [cl EXCEPT ![c].pc = "served"]
      /\ proc' = [proc EXCEPT ![c].read = "run", ![c].write = "run"]
  BY <1>0 DEF Subscribe, ghosts, HubInv, ClientsOK
<1>2. /\ cl' \in [Clients -> Client] /\ cl'[c].pc = "served" /\ cl'[c].job = j
      /\ \A d \in Clients : d # c => cl'[d] = cl[d]
  BY <1>1, Typed DEF Client, JobOf
<1>3. /\ proc' \in [Clients -> [Procs -> ProcPcs]]
      /\ \A d \in Clients : d # c => proc'[d] = proc[d]
      /\ \A p \in Procs : proc'[c][p] = proc[c][p] \/ proc'[c][p] = "run"
  BY <1>1, Typed DEF ProcPcs, Procs
<1>4. ClientsOK'
  <2>1. ASSUME NEW d \in Clients PROVE ClientOK(d)'
    <3>1. CASE d = c
      BY <3>1, <1>1, <1>2, <1>3 DEF ClientOK, JobOf, Gone, Alive
    <3>2. CASE d # c
      BY <3>2, <1>1, <1>2, <1>3 DEF HubInv, ClientsOK, ClientOK, JobOf, Alive
    <3> QED BY <3>1, <3>2
  <2> QED BY <2>1 DEF ClientsOK
<1>5. CASE UNCHANGED <<ps, subs>>
  <2>1. TypeOK'
    BY <1>1, <1>2, <1>3, <1>5, Typed DEF TypeOK, Client, PubSub, ProcPcs
  <2>2. WatchersOK'
    <3>1. \A d \in Clients : cl[d].pc # "idle" => cl'[d].pc # "idle" /\ cl'[d].job = cl[d].job
      BY <1>0, <1>2 DEF JobOf
    <3> QED BY <3>1, <1>1, <1>5, InUse, WatchersStay
  <2>3. PubSubsOK' /\ SubsOK'
    BY <1>1, <1>5 DEF HubInv, PubSubsOK, PubSubOK, SubsOK, SubOK, Alive
  <2> QED BY <2>1, <2>2, <2>3, <1>4 DEF HubInv
<1>6. ASSUME NEW p \in PubSubs, subs[j] = "none", ps[p].state = "unused",
             ps' = [ps EXCEPT ![p] = Subscription(j)], subs' = [subs EXCEPT ![j] = p]
      PROVE  HubInv'
  <2>1. Subscription(j) \in PubSub
    BY <1>1, HubAssumption DEF Subscription, PubSub
  <2>2. /\ ps' \in [PubSubs -> PubSub] /\ ps'[p] = Subscription(j)
        /\ \A q \in PubSubs : q # p => ps'[q] = ps[q]
    BY <1>6, <2>1, Typed
  <2>3. /\ subs' \in [Jobs -> PubSubs \cup {"none"}] /\ subs'[j] = p
        /\ \A k \in Jobs : k # j => subs'[k] = subs[k]
    BY <1>1, <1>6, Typed
  <2>4. TypeOK'
    BY <1>1, <1>2, <1>3, <2>2, <2>3, Typed DEF TypeOK, Client, PubSub, ProcPcs
  <2>5. WatchersOK'
    <3>1. \A d \in Clients : cl[d].pc # "idle" => cl'[d].pc # "idle" /\ cl'[d].job = cl[d].job
      BY <1>0, <1>2 DEF JobOf
    <3>2. \A q \in PubSubs : ps'[q].left = {} \/ ps'[q] = ps[q]
      BY <2>2 DEF Subscription
    <3> QED BY <3>1, <3>2, <1>1, InUse, WatchersStay
  <2>6. PubSubsOK'
    <3>1. ASSUME NEW q \in PubSubs, q # p PROVE PubSubOK(q)'
      BY <3>1, <1>1, <1>6, <2>2, <2>3, NoneAssumption DEF HubInv, PubSubsOK, PubSubOK
    <3>2. PubSubOK(p)'
      BY <1>1, <2>2, <2>3 DEF PubSubOK, Subscription
    <3> QED BY <3>1, <3>2 DEF PubSubsOK
  <2>7. SubsOK'
    <3>1. ASSUME NEW k \in Jobs, k # j PROVE SubOK(k)'
      <4>1. SubOK(k) /\ subs'[k] = subs[k] /\ (subs[k] = "none" \/ subs[k] \in PubSubs)
        BY <3>1, <2>3, Typed DEF HubInv, SubsOK
      <4>2. CASE subs[k] = p
        BY <4>1, <4>2, <1>6, NoneAssumption DEF SubOK
      <4>3. CASE subs[k] # p
        BY <4>1, <4>3, <1>1, <2>2 DEF SubOK, Alive
      <4> QED BY <4>2, <4>3
    <3>2. SubOK(j)'
      <4>1. /\ subs'[j] = p /\ ps'[p].job = j /\ ps'[p].state # "unused" /\ up' = up
            /\ Alive
            /\ up = "up" => ps'[p].state = "open"
        BY <1>1, <2>2, <2>3 DEF Subscription, ClientOK
      <4> QED BY <4>1 DEF SubOK, Alive
    <3> QED BY <3>1, <3>2 DEF SubsOK
  <2> QED BY <2>4, <2>5, <2>6, <2>7, <1>4 DEF HubInv
<1> QED BY <1>0, <1>5, <1>6 DEF Subscribe

\* What the pumps and the shutdown of the connections do: no client comes, goes or leaves a
\* map, and a goroutine outside the maps stays outside.
Calm ==
  /\ UNCHANGED <<jobs, subs, ps, published, got, departed>>
  /\ up' = up \/ (up # "up" /\ up' = "drained")
  /\ cl' \in [Clients -> Client]
  /\ \A c \in Clients : cl'[c].pc = cl[c].pc /\ cl'[c].job = cl[c].job
  /\ proc' \in [Clients -> [Procs -> ProcPcs]]
  /\ \A c \in Clients, p \in Procs :
       /\ proc'[c][p] \in Gone <=> proc[c][p] \in Gone
       /\ proc[c][p] = "off" => proc'[c][p] = "off"

LEMMA CalmKeeps ==
  ASSUME HubInv, Calm
  PROVE  HubInv'
<1>1. TypeOK'
  BY Typed DEF Calm, TypeOK, Client, PubSub, ProcPcs
<1>2. ClientsOK'
  <2>1. ASSUME NEW c \in Clients PROVE ClientOK(c)'
    <3>1. ClientOK(c) /\ {"read", "write"} \cup Slow \subseteq Procs
      BY DEF HubInv, ClientsOK, Procs
    <3>2. /\ cl'[c].pc = cl[c].pc /\ JobOf(c)' = JobOf(c) /\ UNCHANGED <<jobs, got, departed>>
          /\ Alive => Alive'
          /\ \A p \in Procs : /\ proc'[c][p] \in Gone <=> proc[c][p] \in Gone
                              /\ proc[c][p] = "off" => proc'[c][p] = "off"
      BY DEF Calm, JobOf, Alive
    <3> QED BY <3>1, <3>2 DEF ClientOK
  <2> QED BY <2>1 DEF ClientsOK
<1>3. WatchersOK'
  BY InUse, WatchersStay DEF Calm
<1>4. PubSubsOK' /\ SubsOK'
  BY DEF Calm, HubInv, PubSubsOK, PubSubOK, SubsOK, SubOK, Alive
<1> QED BY <1>1, <1>2, <1>3, <1>4 DEF HubInv

LEMMA DisconnectCalm ==
  ASSUME HubInv, NEW c \in Clients, Disconnect(c)
  PROVE  Calm
<1>1. UNCHANGED <<up, jobs, subs, ps, proc, published, got, departed>>
  BY DEF Disconnect, maps, ghosts
<1>2. /\ cl' \in [Clients -> Client]
      /\ \A d \in Clients : cl'[d].pc = cl[d].pc /\ cl'[d].job = cl[d].job
  <2>1. cl \in [Clients -> Client] /\ cl' = [cl EXCEPT ![c].conn = FALSE]
    BY Typed DEF Disconnect
  <2> QED BY <2>1 DEF Client
<1> QED BY <1>1, <1>2, Typed DEF Calm

LEMMA ReadPumpCalm ==
  ASSUME HubInv, NEW c \in Clients, ReadPump(c)
  PROVE  Calm
<1>1. UNCHANGED <<up, jobs, subs, ps, cl, published, got, departed>>
  BY DEF ReadPump, maps, ghosts
<1>2. /\ proc' \in [Clients -> [Procs -> ProcPcs]]
      /\ \A d \in Clients, p \in Procs :
           proc'[d][p] = proc[d][p] \/ (proc[d][p] = "run" /\ proc'[d][p] = "unregister")
  BY Typed DEF ReadPump, Goto, ProcPcs
<1> QED BY <1>1, <1>2, Typed DEF Calm, Gone

LEMMA WritePumpCalm ==
  ASSUME HubInv, NEW c \in Clients, WritePump(c)
  PROVE  Calm
<1>1. UNCHANGED <<up, jobs, subs, ps, published, got, departed>>
  BY DEF WritePump, maps, ghosts
<1>2. /\ proc' \in [Clients -> [Procs -> ProcPcs]]
      /\ \A d \in Clients, p \in Procs :
           proc'[d][p] = proc[d][p] \/ (proc[d][p] = "run" /\ proc'[d][p] = "unregister")
  <2>1. proc \in [Clients -> [Procs -> ProcPcs]] /\ proc[c]["write"] = "run"
    BY Typed DEF WritePump
  <2>2. proc' = proc \/ proc' = [proc EXCEPT ![c]["write"] = "unregister"]
    BY DEF WritePump, Goto
  <2> QED BY <2>1, <2>2 DEF ProcPcs
<1>3. /\ cl' \in [Clients -> Client]
      /\ \A d \in Clients : cl'[d].pc = cl[d].pc /\ cl'[d].job = cl[d].job
  <2>1. CASE cl' = cl
    BY <2>1, Typed
  <2>2. CASE cl[c].send # <<>> /\ cl' = [cl EXCEPT ![c].send = Tail(@)]
    <3>1. cl \in [Clients -> Client] /\ Tail(cl[c].send) \in Seq(Events)
      BY <2>2, Typed DEF Client
    <3> QED BY <2>2, <3>1 DEF Client
  <2> QED BY <2>1, <2>2 DEF WritePump
<1> QED BY <1>1, <1>2, <1>3 DEF Calm, Gone

LEMMA CloseSendStep ==
  ASSUME HubInv, NEW c \in Clients, NEW p \in Procs, CloseSend(c, p)
  PROVE  Panic \/ Calm
<1> SUFFICES ASSUME ~Panic PROVE Calm
  OBVIOUS
<1>1. /\ UNCHANGED <<up, jobs, subs, ps, published, got, departed>>
      /\ cl' = [cl EXCEPT ![c].closed = TRUE, ![c].conn = FALSE]
      /\ proc[c][p] \in {"close", "closeLast"}
      /\ Goto(c, p, IF proc[c][p] = "closeLast" THEN "cleanup" ELSE "done")
  BY DEF CloseSend, maps, ghosts
<1>2. /\ proc' \in [Clients -> [Procs -> ProcPcs]]
      /\ \A d \in Clients, q \in Procs :
           proc'[d][q] = proc[d][q]
             \/ (proc[d][q] \in {"close", "closeLast"} /\ proc'[d][q] \in {"cleanup", "done"})
  BY <1>1, Typed DEF Goto, ProcPcs
<1>3. /\ cl' \in [Clients -> Client]
      /\ \A d \in Clients : cl'[d].pc = cl[d].pc /\ cl'[d].job = cl[d].job
  <2>1. cl \in [Clients -> Client]
    BY Typed
  <2> QED BY <1>1, <2>1 DEF Client
<1> QED BY <1>1, <1>2, <1>3 DEF Calm, Gone

LEMMA ShutdownClientsCalm ==
  ASSUME HubInv, ShutdownClients
  PROVE  Calm
<1>1. /\ UNCHANGED <<jobs, subs, ps, proc, published, got, departed>>
      /\ up = "stopping" /\ up' = "drained"
  BY DEF ShutdownClients, maps, ghosts
<1>2. /\ cl' \in [Clients -> Client]
      /\ \A d \in Clients : cl'[d].pc = cl[d].pc /\ cl'[d].job = cl[d].job
  <2>0. cl \in [Clients -> Client]
    BY Typed
  <2>1. \A d \in Clients :
          /\ [cl[d] EXCEPT !.closed = TRUE, !.conn = FALSE] \in Client
          /\ [cl[d] EXCEPT !.closed = TRUE, !.conn = FALSE].pc = cl[d].pc
          /\ [cl[d] EXCEPT !.closed = TRUE, !.conn = FALSE].job = cl[d].job
    BY <2>0 DEF Client
  <2>2. \A d \in Clients :
          cl'[d] = cl[d] \/ cl'[d] = [cl[d] EXCEPT !.closed = TRUE, !.conn = FALSE]
    BY DEF ShutdownClients
  <2>3. cl' \in [Clients -> Client]
    BY <2>0, <2>1 DEF ShutdownClients
  <2> QED BY <2>1, <2>2, <2>3
<1> QED BY <1>1, <1>2, Typed DEF Calm

\* What the subscription loops and Redis do: clients and maps stay as they are, a broadcast
\* is given the clients of its job, and only a subscription no map names is forgotten.
LoopMoves(p) ==
  \/ ps'[p] = ps[p]
  \/ ps'[p] = Unused /\ \A j \in Jobs : subs[j] # p
  \/ /\ ps[p].state # "unused" /\ ps'[p].state = ps[p].state /\ ps'[p].job = ps[p].job
     /\ ps'[p].left \subseteq ps[p].left \cup jobs[ps[p].job]
     /\ ps'[p].left # {} => ps'[p].msg # 0
Looping ==
  /\ UNCHANGED <<up, jobs, subs, departed>>
  /\ published' \in [Jobs -> 0..MaxEvents] /\ got' \in [Clients -> Seq(Events)]
  /\ cl' \in [Clients -> Client] /\ proc' \in [Clients -> [Procs -> ProcPcs]]
  /\ ps' \in [PubSubs -> PubSub]
  /\ \A c \in Clients : /\ cl'[c].pc = cl[c].pc /\ cl'[c].job = cl[c].job
                        /\ cl[c].pc = "idle" => got'[c] = got[c]
  /\ \A c \in Clients, p \in Procs :
       \/ proc'[c][p] = proc[c][p]
       \/ p \in Slow /\ cl[c].pc # "idle" /\ proc[c][p] = "off" /\ proc'[c][p] = "unregister"
  /\ \A p \in PubSubs : LoopMoves(p)

LEMMA LoopingKeeps ==
  ASSUME HubInv, Looping
  PROVE  HubInv'
<1>1. TypeOK'
  BY Typed DEF Looping, TypeOK, Client, PubSub, ProcPcs
<1>2. ClientsOK'
  <2>1. ASSUME NEW c \in Clients PROVE ClientOK(c)'
    <3>1. ClientOK(c) /\ {"read", "write"} \cup Slow \subseteq Procs
      BY DEF HubInv, ClientsOK, Procs
    <3>2. /\ cl'[c].pc = cl[c].pc /\ JobOf(c)' = JobOf(c) /\ UNCHANGED <<up, jobs, departed>>
          /\ cl[c].pc = "idle" => got'[c] = got[c]
          /\ \A p \in Procs :
               \/ proc'[c][p] = proc[c][p]
               \/ /\ p \in Slow /\ cl[c].pc # "idle"
                  /\ proc[c][p] = "off" /\ proc'[c][p] = "unregister"
      BY DEF Looping, JobOf
    <3> QED BY <3>1, <3>2, SlowAssumption DEF ClientOK, Gone, Alive
  <2> QED BY <2>1 DEF ClientsOK
<1>3. \A p \in PubSubs : LoopMoves(p) /\ PubSubOK(p)
  BY DEF Looping, HubInv, PubSubsOK
<1>4. WatchersOK'
  <2>1. \A p \in PubSubs :
          \/ ps'[p].left = {}
          \/ /\ ps'[p].left \subseteq ps[p].left \cup jobs[ps[p].job]
             /\ ps'[p].job = ps[p].job /\ ps[p].job \in Jobs
    BY <1>3, InUse DEF LoopMoves, PubSubOK, Unused
  <2> QED BY <2>1, WatchersStay DEF Looping
<1>5. PubSubsOK'
  <2>1. ASSUME NEW p \in PubSubs PROVE PubSubOK(p)'
    BY <1>3 DEF LoopMoves, PubSubOK, Unused, Looping
  <2> QED BY <2>1 DEF PubSubsOK
<1>6. SubsOK'
  <2>1. ASSUME NEW j \in Jobs PROVE SubOK(j)'
    <3>1. SubOK(j) /\ (subs[j] = "none" \/ subs[j] \in PubSubs) /\ subs' = subs /\ up' = up
      BY Typed DEF HubInv, SubsOK, Looping
    <3> QED BY <1>3, <3>1 DEF LoopMoves, SubOK, Alive
  <2> QED BY <2>1 DEF SubsOK
<1> QED BY <1>1, <1>2, <1>4, <1>5, <1>6 DEF HubInv

LEMMA PublishLooping ==
  ASSUME HubInv, NEW j \in Jobs, Publish(j)
  PROVE  Looping
<1>1. /\ published[j] < MaxEvents /\ published' = [published EXCEPT ![j] = @ + 1]
      /\ UNCHANGED <<up, jobs, subs, cl, proc, got, departed>>
  BY DEF Publish, maps, ghosts
<1>2. published' \in [Jobs -> 0..MaxEvents] /\ published'[j] \in Events
  BY <1>1, Typed, HubAssumption DEF Events
<1>3. PICK reached \in SUBSET {p \in PubSubs : ps[p].job = j /\ ps[p].state = "open"} :
        ps' = [p \in PubSubs |-> IF p \in reached
                                 THEN [ps[p] EXCEPT !.buf = Append(@, published'[j])] ELSE ps[p]]
  BY DEF Publish
<1>4. ASSUME NEW p \in PubSubs
      PROVE  /\ [ps[p] EXCEPT !.buf = Append(@, published'[j])] \in PubSub
             /\ [ps[p] EXCEPT !.buf = Append(@, published'[j])].job = ps[p].job
             /\ [ps[p] EXCEPT !.buf = Append(@, published'[j])].state = ps[p].state
             /\ [ps[p] EXCEPT !.buf = Append(@, published'[j])].left = ps[p].left
             /\ [ps[p] EXCEPT !.buf = Append(@, published'[j])].msg = ps[p].msg
  <2>1. ps[p] \in PubSub
    BY Typed
  <2>2. Append(ps[p].buf, published'[j]) \in Seq(Events)
    BY <2>1, <1>2 DEF PubSub
  <2> QED BY <2>1, <2>2 DEF PubSub
<1>5. ps' \in [PubSubs -> PubSub]
  BY <1>3, <1>4, Typed
<1>6. ASSUME NEW p \in PubSubs PROVE LoopMoves(p)
  BY <1>3, <1>4 DEF LoopMoves, HubInv, PubSubsOK, PubSubOK
<1> QED BY <1>1, <1>2, <1>5, <1>6, Typed DEF Looping

LEMMA ReceiveLooping ==
  ASSUME HubInv, NEW p \in PubSubs, Receive(p)
  PROVE  Looping
<1>1. /\ UNCHANGED <<up, jobs, subs, cl, proc, published, got, departed>>
      /\ ps[p].buf # <<>>
      /\ ps' = [ps EXCEPT ![p] = [ps[p] EXCEPT !.buf = Tail(@), !.msg = Head(ps[p].buf),
                                                !.left = jobs[ps[p].job]]]
  BY DEF Receive, maps, ghosts
<1>2. ps \in [PubSubs -> PubSub] /\ ps[p].job \in Jobs /\ jobs[ps[p].job] \in SUBSET Clients
  BY <1>1, InUse, Typed
<1>3. Tail(ps[p].buf) \in Seq(Events) /\ Head(ps[p].buf) \in Events
  BY <1>1, <1>2 DEF PubSub
<1>4. Head(ps[p].buf) \in 0..MaxEvents /\ Head(ps[p].buf) # 0
  BY <1>3, HubAssumption DEF Events
<1>5. ps[p].state # "unused"
  BY <1>1 DEF HubInv, PubSubsOK, PubSubOK, Unused
<1>6. PICK r : r = [ps[p] EXCEPT !.buf = Tail(@), !.msg = Head(ps[p].buf), !.left = jobs[ps[p].job]]
  OBVIOUS
<1>7. /\ r \in PubSub /\ r.job = ps[p].job /\ r.state = ps[p].state
      /\ r.left = jobs[ps[p].job] /\ r.msg = Head(ps[p].buf)
  <2>1. ps[p] \in PubSub
    BY <1>2
  <2> QED BY <1>2, <1>3, <1>4, <1>6, <2>1 DEF PubSub
<1>8. ps' = [ps EXCEPT ![p] = r]
  BY <1>1, <1>6
<1>9. ps' \in [PubSubs -> PubSub] /\ \A q \in PubSubs : LoopMoves(q)
  BY <1>2, <1>4, <1>5, <1>7, <1>8 DEF LoopMoves
<1> QED BY <1>1, <1>9, Typed DEF Looping

LEMMA LoopEndsLooping ==
  ASSUME HubInv, NEW p \in PubSubs, LoopEnds(p)
  PROVE  Looping
<1>1. /\ UNCHANGED <<up, jobs, subs, cl, proc, published, got, departed>>
      /\ \A j \in Jobs : subs[j] # p
      /\ ps' = [ps EXCEPT ![p] = Unused]
  BY DEF LoopEnds, maps, ghosts
<1>2. Unused \in PubSub
  BY HubAssumption DEF Unused, PubSub
<1>3. ps' \in [PubSubs -> PubSub]
  BY <1>1, <1>2, Typed
<1>4. ASSUME NEW q \in PubSubs PROVE LoopMoves(q)
  BY <1>1, Typed DEF LoopMoves
<1> QED BY <1>1, <1>3, <1>4, Typed DEF Looping

\* A turn of broadcast is for a client of the job that is in the map.
LEMMA LeftFacts ==
  ASSUME HubInv, NEW p \in PubSubs, NEW c \in Left(p)
  PROVE  /\ c \in ps[p].left /\ ps[p].job \in Jobs /\ c \in jobs[ps[p].job] /\ c \in Clients
         /\ cl[c].pc # "idle" /\ JobOf(c) = ps[p].job
         /\ ps[p].state # "unused" /\ ps[p].msg \in Events
<1>1. c \in ps[p].left /\ c \in jobs[ps[p].job] /\ ps[p].state # "unused"
  BY DEF Left
<1>2. ps[p].job \in Jobs /\ ps[p].left \subseteq Clients
  BY <1>1, InUse, Typed DEF PubSub
<1>3. ps[p].msg \in 0..MaxEvents /\ ps[p].msg # 0
  BY <1>1, Typed DEF PubSub, HubInv, PubSubsOK, PubSubOK
<1> QED BY <1>1, <1>2, <1>3, HubAssumption DEF HubInv, WatchersOK, JobOf, Events

LEMMA SendLooping ==
  ASSUME HubInv, NEW p \in PubSubs, NEW c \in Clients, Send(p, c), ~Panic
  PROVE  Looping
<1>1. /\ UNCHANGED <<up, jobs, subs, published, departed>> /\ c \in Left(p)
      /\ ps' = [ps EXCEPT ![p] = [ps[p] EXCEPT !.left = Left(p) \ {c},
                                                !.msg = IF Left(p) = {c} THEN 0 ELSE @]]
      /\ \/ /\ cl' = [cl EXCEPT ![c].send = Append(@, ps[p].msg)]
            /\ got' = [got EXCEPT ![c] = Append(@, ps[p].msg)]
            /\ UNCHANGED proc
         \/ /\ \E s \in Slow : proc[c][s] = "off" /\ Goto(c, s, "unregister")
            /\ UNCHANGED <<cl, got>>
  BY DEF Send, maps
<1>2. /\ ps \in [PubSubs -> PubSub] /\ cl \in [Clients -> Client]
      /\ got \in [Clients -> Seq(Events)] /\ proc \in [Clients -> [Procs -> ProcPcs]]
  BY Typed
<1>3. /\ cl[c].pc # "idle" /\ ps[p].state # "unused" /\ ps[p].msg \in Events
  BY <1>1, LeftFacts
<1>4. cl' \in [Clients -> Client] /\ \A d \in Clients : cl'[d].pc = cl[d].pc /\ cl'[d].job = cl[d].job
  <2>1. CASE cl' = [cl EXCEPT ![c].send = Append(@, ps[p].msg)]
    <3>1. Append(cl[c].send, ps[p].msg) \in Seq(Events)
      BY <1>2, <1>3 DEF Client
    <3> QED BY <1>2, <2>1, <3>1 DEF Client
  <2> QED BY <1>1, <1>2, <2>1
<1>5. got' \in [Clients -> Seq(Events)] /\ \A d \in Clients : d # c => got'[d] = got[d]
  <2>1. Append(got[c], ps[p].msg) \in Seq(Events)
    BY <1>2, <1>3
  <2> QED BY <1>1, <1>2, <2>1
<1>6. /\ proc' \in [Clients -> [Procs -> ProcPcs]]
      /\ \A d \in Clients, q \in Procs :
           \/ proc'[d][q] = proc[d][q]
           \/ d = c /\ q \in Slow /\ proc[d][q] = "off" /\ proc'[d][q] = "unregister"
  <2>1. ASSUME NEW s \in Slow, proc[c][s] = "off", Goto(c, s, "unregister")
        PROVE  /\ proc' \in [Clients -> [Procs -> ProcPcs]]
               /\ \A d \in Clients, q \in Procs :
                    \/ proc'[d][q] = proc[d][q]
                    \/ d = c /\ q \in Slow /\ proc[d][q] = "off" /\ proc'[d][q] = "unregister"
    <3>1. s \in Procs
      BY DEF Procs
    <3> QED BY <1>2, <2>1, <3>1 DEF Goto, ProcPcs
  <2> QED BY <1>1, <1>2, <2>1
<1>7. Left(p) \subseteq ps[p].left
  BY DEF Left
<1>8. PICK r : r = [ps[p] EXCEPT !.left = Left(p) \ {c}, !.msg = IF Left(p) = {c} THEN 0 ELSE @]
  OBVIOUS
<1>9. /\ r \in PubSub /\ r.job = ps[p].job /\ r.state = ps[p].state
      /\ r.left = Left(p) \ {c} /\ r.msg = IF Left(p) = {c} THEN 0 ELSE ps[p].msg
  <2>1. /\ ps[p] \in PubSub /\ Left(p) \ {c} \in SUBSET Clients
        /\ (IF Left(p) = {c} THEN 0 ELSE ps[p].msg) \in 0..MaxEvents
    BY <1>2, <1>7, HubAssumption DEF PubSub
  <2> QED BY <1>8, <2>1 DEF PubSub
<1>10. ps' = [ps EXCEPT ![p] = r]
  BY <1>1, <1>8
<1>11. r.left # {} => r.msg # 0
  BY <1>9, <1>1, <1>3, HubAssumption DEF Events
<1>12. ps' \in [PubSubs -> PubSub] /\ \A q \in PubSubs : LoopMoves(q)
  BY <1>2, <1>3, <1>7, <1>9, <1>10, <1>11 DEF LoopMoves
<1> QED BY <1>1, <1>3, <1>4, <1>5, <1>6, <1>12, Typed DEF Looping

\* The client leaves the map as its goroutine comes to stand outside it.
LEMMA UnregisterStep ==
  ASSUME HubInv, NEW c \in Clients, NEW p \in Procs, Unregister(c, p)
  PROVE  HubInv'
<1>1. /\ UNCHANGED <<up, subs, ps, cl, published, got>>
      /\ proc[c][p] = "unregister" /\ departed' = departed \cup {JobOf(c)}
      /\ jobs' = [jobs EXCEPT ![JobOf(c)] = jobs[JobOf(c)] \ {c}]
      /\ \E s \in {"closeLast", "close"} : Goto(c, p, s)
  BY DEF Unregister
<1>2. ClientOK(c) /\ cl[c].pc # "idle" /\ JobOf(c) \in Jobs
  BY <1>1 DEF HubInv, ClientsOK, ClientOK
<1>3. /\ jobs' \in [Jobs -> SUBSET Clients] /\ departed' \subseteq Jobs
      /\ \A j \in Jobs : jobs'[j] \subseteq jobs[j]
      /\ \A j \in Jobs, d \in Clients : d # c /\ d \in jobs[j] => d \in jobs'[j]
  BY <1>1, <1>2, Typed
<1>4. /\ proc' \in [Clients -> [Procs -> ProcPcs]] /\ proc'[c][p] \in Gone
      /\ \A d \in Clients, q \in Procs : proc'[d][q] = proc[d][q] \/ (d = c /\ q = p)
  BY <1>1, Typed DEF Goto, ProcPcs, Gone
<1>5. TypeOK'
  BY <1>1, <1>3, <1>4, Typed DEF TypeOK, Client, PubSub, ProcPcs
<1>6. ClientsOK'
  <2>1. ASSUME NEW d \in Clients PROVE ClientOK(d)'
    <3>1. /\ ClientOK(d) /\ {"read", "write"} \cup Slow = Procs
          /\ cl'[d] = cl[d] /\ JobOf(d)' = JobOf(d) /\ got'[d] = got[d] /\ up' = up
      BY <1>1 DEF HubInv, ClientsOK, Procs, JobOf
    <3>2. CASE d = c
      <4>1. cl[c].pc = "subscribing" => p \in Slow
        BY <1>1, <1>2, <3>1 DEF ClientOK
      <4>2. \A q \in Procs : q = p \/ proc'[c][q] = proc[c][q]
        BY <1>4
      <4>3. cl[c].pc = "subscribing" => proc'[c]["read"] = "off" /\ proc'[c]["write"] = "off"
        BY <4>1, <4>2, <1>2, <3>1, SlowAssumption DEF ClientOK
      <4>4. cl[c].pc = "subscribing" => \E s \in Slow : proc'[c][s] \in Gone
        BY <4>1, <1>4
      <4>5. JobOf(c) \in departed'
        BY <1>1
      <4> QED BY <3>1, <3>2, <4>3, <4>4, <4>5, <1>2 DEF ClientOK, Alive
    <3>3. CASE d # c
      <4>1. \A q \in Procs : proc'[d][q] = proc[d][q]
        BY <3>3, <1>4
      <4> QED BY <3>1, <3>3, <4>1, <1>1, <1>3 DEF ClientOK, Alive
    <3> QED BY <3>2, <3>3
  <2> QED BY <2>1 DEF ClientsOK
<1>7. WatchersOK'
  BY <1>1, <1>3, InUse, WatchersStay
<1>8. PubSubsOK' /\ SubsOK'
  BY <1>1 DEF HubInv, PubSubsOK, PubSubOK, SubsOK, SubOK, Alive
<1> QED BY <1>5, <1>6, <1>7, <1>8 DEF HubInv

LEMMA CleanupSubStep ==
  ASSUME HubInv, NEW c \in Clients, NEW p \in Procs, CleanupSub(c, p)
  PROVE  HubInv'
<1>1. PICK j \in Jobs : j = JobOf(c)
  BY DEF CleanupSub, HubInv, ClientsOK, ClientOK
<1>2. /\ UNCHANGED <<up, jobs, cl, published, got, departed>>
      /\ proc[c][p] = "cleanup" /\ Goto(c, p, "done")
      /\ subs' = [subs EXCEPT ![j] = "none"]
      /\ ps' = IF subs[j] = "none" THEN ps ELSE [ps EXCEPT ![subs[j]].state = "closed"]
  BY <1>1 DEF CleanupSub, ghosts
<1>3. /\ subs' \in [Jobs -> PubSubs \cup {"none"}] /\ subs'[j] = "none"
      /\ \A k \in Jobs : k # j => subs'[k] = subs[k]
  BY <1>2, Typed
<1>4. /\ proc' \in [Clients -> [Procs -> ProcPcs]]
      /\ \A d \in Clients, q \in Procs : /\ proc'[d][q] \in Gone <=> proc[d][q] \in Gone
                                         /\ proc[d][q] = "off" => proc'[d][q] = "off"
  BY <1>2, Typed DEF Goto, ProcPcs, Gone
<1>5. /\ ps' \in [PubSubs -> PubSub]
      /\ \A q \in PubSubs : /\ ps'[q].job = ps[q].job /\ ps'[q].left = ps[q].left
                            /\ ps'[q].msg = ps[q].msg
                            /\ q # subs[j] => ps'[q] = ps[q]
                            /\ q = subs[j] => ps'[q].state = "closed"
  <2>1. ps \in [PubSubs -> PubSub] /\ (subs[j] = "none" \/ subs[j] \in PubSubs)
    BY Typed
  <2>2. CASE subs[j] = "none"
    BY <2>1, <2>2, <1>2, NoneAssumption
  <2>3. CASE subs[j] # "none"
    <3>1. PICK r : r = [ps[subs[j]] EXCEPT !.state = "closed"]
      OBVIOUS
    <3>2. /\ r \in PubSub /\ r.job = ps[subs[j]].job /\ r.left = ps[subs[j]].left
          /\ r.msg = ps[subs[j]].msg /\ r.state = "closed"
      <4>1. ps[subs[j]] \in PubSub
        BY <2>1, <2>3
      <4> QED BY <3>1, <4>1 DEF PubSub
    <3>3. ps' = [ps EXCEPT ![subs[j]] = r]
      BY <1>2, <2>3, <3>1
    <3> QED BY <2>1, <2>3, <3>2, <3>3
  <2> QED BY <2>2, <2>3
<1>6. TypeOK'
  BY <1>2, <1>3, <1>4, <1>5, Typed DEF TypeOK, Client, PubSub, ProcPcs
<1>7. ClientsOK'
  <2>1. ASSUME NEW d \in Clients PROVE ClientOK(d)'
    <3>1. ClientOK(d) /\ {"read", "write"} \cup Slow = Procs
      BY DEF HubInv, ClientsOK, Procs
    <3> QED BY <3>1, <1>2, <1>4 DEF ClientOK, JobOf, Alive
  <2> QED BY <2>1 DEF ClientsOK
<1>8. WatchersOK'
  BY <1>2, <1>5, InUse, WatchersStay
<1>9. \A k \in Jobs : /\ SubOK(k) /\ (subs[k] = "none" \/ subs[k] \in PubSubs)
                      /\ subs[k] # "none" /\ k # j => subs[k] # subs[j]
  <2>1. \A k \in Jobs : SubOK(k) /\ (subs[k] = "none" \/ subs[k] \in PubSubs)
    BY Typed DEF HubInv, SubsOK
  <2> QED BY <2>1, <1>1 DEF SubOK
<1>10. PubSubsOK'
  <2>1. ASSUME NEW q \in PubSubs PROVE PubSubOK(q)'
    <3>1. PubSubOK(q)
      BY DEF HubInv, PubSubsOK
    <3>2. CASE q = subs[j]
      BY <3>1, <3>2, <1>1, <1>5, <1>9, NoneAssumption DEF PubSubOK, SubOK
    <3>3. CASE q # subs[j]
      BY <3>1, <3>3, <1>2, <1>3, <1>5 DEF PubSubOK
    <3> QED BY <3>2, <3>3
  <2> QED BY <2>1 DEF PubSubsOK
<1>11. SubsOK'
  BY <1>2, <1>3, <1>5, <1>9 DEF SubsOK, SubOK, Alive
<1> QED BY <1>6, <1>7, <1>8, <1>10, <1>11 DEF HubInv

LEMMA ShutdownSubsStep ==
  ASSUME HubInv, ShutdownSubs
  PROVE  HubInv'
<1>1. /\ UNCHANGED <<jobs, subs, cl, proc, published, got, departed>>
      /\ up' = "stopping"
      /\ ps' = [p \in PubSubs |-> IF \E j \in Jobs : subs[j] = p
                                  THEN [ps[p] EXCEPT !.state = "closed"] ELSE ps[p]]
  BY DEF ShutdownSubs, maps, ghosts
<1>2. /\ ps' \in [PubSubs -> PubSub]
      /\ \A p \in PubSubs : /\ ps'[p].job = ps[p].job /\ ps'[p].left = ps[p].left
                            /\ ps'[p].msg = ps[p].msg
                            /\ IF \E j \in Jobs : subs[j] = p THEN ps'[p].state = "closed"
                                                              ELSE ps'[p] = ps[p]
  <2>1. \A p \in PubSubs : ps[p] \in PubSub
    BY Typed
  <2> QED BY <1>1, <2>1 DEF PubSub
<1>3. TypeOK'
  BY <1>1, <1>2, Typed DEF TypeOK, Client, PubSub, ProcPcs
<1>4. ClientsOK'
  BY <1>1 DEF HubInv, ClientsOK, ClientOK, JobOf, Alive
<1>5. WatchersOK'
  BY <1>1, <1>2, InUse, WatchersStay
<1>6. PubSubsOK'
  <2>1. ASSUME NEW p \in PubSubs PROVE PubSubOK(p)'
    <3>1. PubSubOK(p) /\ \A j \in Jobs : SubOK(j)
      BY DEF HubInv, PubSubsOK, SubsOK
    <3>2. CASE \E j \in Jobs : subs[j] = p
      BY <3>1, <3>2, <1>1, <1>2, NoneAssumption DEF PubSubOK, SubOK
    <3>3. CASE ~ \E j \in Jobs : subs[j] = p
      BY <3>1, <3>3, <1>1, <1>2 DEF PubSubOK
    <3> QED BY <3>2, <3>3
  <2> QED BY <2>1 DEF PubSubsOK
<1>7. SubsOK'
  <2>1. \A j \in Jobs : SubOK(j) /\ (subs[j] = "none" \/ subs[j] \in PubSubs)
    BY Typed DEF HubInv, SubsOK
  <2> QED BY <2>1, <1>1, <1>2 DEF SubsOK, SubOK, Alive
<1> QED BY <1>3, <1>4, <1>5, <1>6, <1>7 DEF HubInv

\* In a process that is not running there are no subscriptions, clients or watchers.
LEMMA RestartStep ==
  ASSUME HubInv, Restart
  PROVE  HubInv'
<1>1. UNCHANGED <<jobs, subs, ps, cl, proc, published, got, departed>> /\ up' = "up" /\ ~Alive
  BY DEF Restart, maps, ghosts
<1>2. TypeOK' /\ ClientsOK' /\ WatchersOK'
  BY <1>1 DEF HubInv, TypeOK, ClientsOK, ClientOK, WatchersOK, JobOf
<1>3. PubSubsOK' /\ SubsOK'
  BY <1>1 DEF HubInv, PubSubsOK, PubSubOK, SubsOK, SubOK, Alive
<1> QED BY <1>2, <1>3 DEF HubInv

LEMMA HubInvInit == Init => HubInv
  BY FreshOK DEF Init

LEMMA HubInvStep == HubInv /\ [Next]_vars => HubInv'
<1> SUFFICES ASSUME HubInv, [Next]_vars PROVE HubInv'
  OBVIOUS
<1>1. ASSUME NEW c \in Clients, NEW j \in Jobs, Register(c, j) PROVE HubInv'
  BY <1>1, RegisterStep
<1>2. ASSUME NEW c \in Clients, Subscribe(c) \/ Disconnect(c) \/ WritePump(c) \/ ReadPump(c)
      PROVE  HubInv'
  BY <1>2, SubscribeStep, DisconnectCalm, WritePumpCalm, ReadPumpCalm, CalmKeeps
<1>3. ASSUME NEW c \in Clients, NEW p \in Procs,
             Unregister(c, p) \/ CloseSend(c, p) \/ CleanupSub(c, p)
      PROVE  HubInv'
  BY <1>3, UnregisterStep, CloseSendStep, CalmKeeps, CleanupSubStep, DiesInv DEF Panic
<1>4. ASSUME NEW p \in PubSubs, Receive(p) \/ LoopEnds(p) PROVE HubInv'
  BY <1>4, ReceiveLooping, LoopEndsLooping, LoopingKeeps
<1>5. ASSUME NEW p \in PubSubs, NEW c \in Clients, Send(p, c) PROVE HubInv'
  BY <1>5, SendLooping, LoopingKeeps, DiesInv DEF Panic
<1>6. ASSUME NEW j \in Jobs, Publish(j) PROVE HubInv'
  BY <1>6, PublishLooping, LoopingKeeps
<1>7. ASSUME MapRace \/ Exit PROVE HubInv'
  BY <1>7, DiesInv DEF MapRace, Panic, Exit
<1>8. ASSUME ShutdownSubs \/ ShutdownClients \/ Restart PROVE HubInv'
  BY <1>8, ShutdownSubsStep, ShutdownClientsCalm, CalmKeeps, RestartStep
<1>9. CASE UNCHANGED vars
  BY <1>9 DEF vars, HubInv, TypeOK, ClientsOK, ClientOK, WatchersOK, PubSubsOK, PubSubOK,
              SubsOK, SubOK, JobOf, Alive
<1> QED BY <1>1, <1>2, <1>3, <1>4, <1>5, <1>6, <1>7, <1>8, <1>9 DEF Next

-----------------------------------------------------------------------------
(* No leaked subscription, and no deaf newcomer.                           *)

\* Somebody stands to close the subscription of job j, or is about to panic.
Tending(c, j) ==
  /\ JobOf(c) = j
  /\ \/ \E p \in Procs : proc[c][p] \in {"closeLast", "cleanup"}
     \/ cl[c].pc = "served" /\ \E p \in Slow : proc[c][p] \in {"close", "done"}
Tended == \A j \in Jobs : subs[j] # "none" /\ jobs[j] = {} => \E c \in Clients : Tending(c, j)

\* A served client's job has its subscription until a client of the job departs.
Served ==
  \A c \in Clients : cl[c].pc = "served" /\ subs[JobOf(c)] = "none" => JobOf(c) \in departed

\* What concerns neither: the maps stay, and whoever was tending still is.
Quiet ==
  /\ UNCHANGED <<jobs, subs, departed>>
  /\ \A c \in Clients :
       /\ cl'[c].pc = cl[c].pc /\ cl'[c].job = cl[c].job
       /\ \A p \in Procs :
            /\ proc[c][p] \in {"closeLast", "cleanup"} => proc'[c][p] \in {"closeLast", "cleanup"}
            /\ proc[c][p] \in {"close", "done"} => proc'[c][p] \in {"close", "done"}

LEMMA QuietKeeps ==
  ASSUME Tended, Served, Quiet
  PROVE  Tended' /\ Served'
<1>1. Tended'
  <2>1. ASSUME NEW c \in Clients, NEW j \in Jobs, Tending(c, j) PROVE Tending(c, j)'
    BY <2>1 DEF Tending, Quiet, JobOf, Procs
  <2> QED BY <2>1 DEF Tended, Quiet
<1>2. Served'
  BY DEF Served, Quiet, JobOf
<1> QED BY <1>1, <1>2

LEMMA LoopingQuiet ==
  ASSUME Looping
  PROVE  Quiet
  BY DEF Looping, Quiet

\* A dead process has no subscription to leak and no client to be deaf.
LEMMA DiesTended ==
  ASSUME NEW how, Dies(how)
  PROVE  Tended' /\ Served'
<1>1. subs' = NoSubs /\ \A c \in Clients : cl'[c].pc = "idle"
  BY DEF Dies, Idle
<1> QED BY <1>1 DEF Tended, Served, NoSubs

\* The connection pumps.
LEMMA PumpsQuiet ==
  ASSUME HubInv, NEW c \in Clients, Disconnect(c) \/ ReadPump(c) \/ WritePump(c)
  PROVE  Quiet
<1>1. Calm /\ \E p \in {"read", "write"} : proc' = proc \/ (proc[c][p] = "run" /\ Goto(c, p, "unregister"))
  BY DisconnectCalm, ReadPumpCalm, WritePumpCalm DEF Disconnect, ReadPump, WritePump
<1>2. \A d \in Clients, q \in Procs : proc'[d][q] = proc[d][q] \/ proc[d][q] = "run"
  <2>1. PICK p \in Procs : proc' = proc \/ (proc[c][p] = "run" /\ Goto(c, p, "unregister"))
    BY <1>1 DEF Procs
  <2>2. proc \in [Clients -> [Procs -> ProcPcs]]
    BY Typed
  <2>3. CASE proc' = [proc EXCEPT ![c][p] = "unregister"] /\ proc[c][p] = "run"
    BY <2>2, <2>3
  <2> QED BY <2>1, <2>3 DEF Goto
<1> QED BY <1>1, <1>2 DEF Calm, Quiet

LEMMA CloseSendQuiet ==
  ASSUME HubInv, NEW c \in Clients, NEW p \in Procs, CloseSend(c, p), ~Panic
  PROVE  Quiet
<1>1. Calm /\ Goto(c, p, IF proc[c][p] = "closeLast" THEN "cleanup" ELSE "done")
  BY CloseSendStep DEF CloseSend
<1>2. \A d \in Clients, q \in Procs :
        IF d = c /\ q = p THEN proc'[d][q] = IF proc[d][q] = "closeLast" THEN "cleanup" ELSE "done"
                          ELSE proc'[d][q] = proc[d][q]
  BY <1>1, Typed DEF Goto
<1>3. proc[c][p] \in {"close", "closeLast"}
  BY DEF CloseSend
<1> QED BY <1>1, <1>2, <1>3 DEF Calm, Quiet

\* A newcomer's map is not empty, and nobody tends as a client nobody has used.
LEMMA RegisterTended ==
  ASSUME HubInv, Tended, Served, NEW c \in Clients, NEW j \in Jobs, Register(c, j)
  PROVE  Tended' /\ Served'
<1>1. /\ cl[c].pc = "idle" /\ UNCHANGED <<subs, proc, departed>>
      /\ cl'[c].pc = "subscribing" /\ \A d \in Clients : d # c => cl'[d] = cl[d]
      /\ c \in jobs'[j] /\ \A k \in Jobs : k # j => jobs'[k] = jobs[k]
  BY Typed DEF Register, ghosts
<1>2. ASSUME NEW k \in Jobs, subs'[k] # "none", jobs'[k] = {}
      PROVE  \E d \in Clients : Tending(d, k)'
  <2>1. PICK d \in Clients : Tending(d, k)
    BY <1>1, <1>2 DEF Tended
  <2>2. d # c
    BY <2>1, <1>1 DEF Tending, HubInv, ClientsOK, ClientOK, Procs
  <2> QED BY <2>1, <2>2, <1>1 DEF Tending, JobOf
<1>3. Served'
  BY <1>1 DEF Served, JobOf
<1> QED BY <1>2, <1>3 DEF Tended

\* Only a client a broadcast gave up subscribes without being in the map: its pumps, started
\* now, will panic.
LEMMA SubscribeTended ==
  ASSUME HubInv, Tended, Served, NEW c \in Clients, Subscribe(c)
  PROVE  Tended' /\ Served'
<1>0. PICK j \in Jobs : j = JobOf(c)
  BY DEF Subscribe, HubInv, ClientsOK, ClientOK
<1>1. /\ cl[c].pc = "subscribing" /\ UNCHANGED <<jobs, departed>>
      /\ cl'[c].pc = "served" /\ cl'[c].job = j /\ \A d \in Clients : d # c => cl'[d] = cl[d]
  BY <1>0, Typed DEF Subscribe, ghosts, Client, JobOf
<1>2. \A d \in Clients, p \in Procs : proc'[d][p] = proc[d][p] \/ (d = c /\ p \in {"read", "write"})
  BY Typed DEF Subscribe, Procs
<1>3. subs'[j] # "none" /\ \A k \in Jobs : k # j => subs'[k] = subs[k]
  BY <1>0, Typed, NoneAssumption DEF Subscribe
<1>4. Served'
  <2>1. ASSUME NEW d \in Clients, cl'[d].pc = "served", subs'[cl'[d].job] = "none"
        PROVE  cl'[d].job \in departed'
    <3>1. d # c
      BY <2>1, <1>1, <1>3
    <3>2. cl[d].pc = "served" /\ cl'[d].job = JobOf(d) /\ JobOf(d) \in Jobs
      BY <2>1, <3>1, <1>1 DEF HubInv, ClientsOK, ClientOK, JobOf
    <3>3. subs[JobOf(d)] = "none"
      BY <2>1, <3>2, <1>3
    <3> QED BY <3>2, <3>3, <1>1 DEF Served
  <2> QED BY <2>1 DEF Served, JobOf
<1>5. ASSUME NEW k \in Jobs, subs'[k] # "none", jobs'[k] = {}
      PROVE  \E d \in Clients : Tending(d, k)'
  <2>0. ClientOK(c) /\ Slow \subseteq Procs
    BY DEF HubInv, ClientsOK, Procs
  <2>1. CASE k = j
    <3>1. PICK s \in Slow : proc[c][s] \in Gone
      BY <2>0, <2>1, <1>0, <1>1, <1>5 DEF ClientOK
    <3>2. s \in Procs /\ proc'[c][s] \in Gone
      BY <2>0, <3>1, <1>2, SlowAssumption
    <3> QED BY <3>1, <3>2, <1>1, <2>1 DEF Tending, JobOf, Gone
  <2>2. CASE k # j
    <3>1. PICK d \in Clients : Tending(d, k)
      BY <2>2, <1>1, <1>3, <1>5 DEF Tended
    <3>2. d # c
      BY <3>1, <2>2, <1>0 DEF Tending
    <3> QED BY <3>1, <3>2, <2>0, <1>1, <1>2 DEF Tending, JobOf
  <2> QED BY <2>1, <2>2
<1> QED BY <1>4, <1>5 DEF Tended

\* The goroutine that empties the map is bound to close the subscription.
LEMMA UnregisterTended ==
  ASSUME HubInv, Tended, Served, NEW c \in Clients, NEW p \in Procs, Unregister(c, p)
  PROVE  Tended' /\ Served'
<1>1. /\ UNCHANGED <<subs, cl>> /\ departed \subseteq departed' /\ proc[c][p] = "unregister"
      /\ jobs' = [jobs EXCEPT ![JobOf(c)] = jobs[JobOf(c)] \ {c}]
      /\ Goto(c, p, IF jobs[JobOf(c)] # {} /\ jobs[JobOf(c)] \ {c} = {} THEN "closeLast" ELSE "close")
  BY DEF Unregister
<1>2. JobOf(c) \in Jobs
  BY <1>1 DEF HubInv, ClientsOK, ClientOK
<1>3. \A d \in Clients, q \in Procs : proc'[d][q] = proc[d][q] \/ proc[d][q] = "unregister"
  BY <1>1, Typed DEF Goto
<1>4. jobs[JobOf(c)] # {} /\ jobs[JobOf(c)] \ {c} = {} => proc'[c][p] = "closeLast"
  BY <1>1, Typed DEF Goto
<1>5. ASSUME NEW d \in Clients, NEW k \in Jobs, Tending(d, k) PROVE Tending(d, k)'
  BY <1>1, <1>3, <1>5 DEF Tending, JobOf, Procs
<1>6. ASSUME NEW k \in Jobs, subs'[k] # "none", jobs'[k] = {}
      PROVE  \E d \in Clients : Tending(d, k)'
  <2>1. CASE jobs[k] = {}
    BY <2>1, <1>1, <1>5, <1>6 DEF Tended
  <2>2. CASE jobs[k] # {}
    <3>1. k = JobOf(c) /\ jobs[k] \ {c} = {}
      BY <2>2, <1>1, <1>2, <1>6, Typed
    <3>2. proc'[c][p] = "closeLast" /\ JobOf(c)' = k
      BY <2>2, <3>1, <1>1, <1>4 DEF JobOf
    <3> QED BY <3>2 DEF Tending
  <2> QED BY <2>1, <2>2
<1>7. Served'
  BY <1>1 DEF Served, JobOf
<1> QED BY <1>6, <1>7 DEF Tended

\* cleanupSub closes the subscription of its own job, for which it departed.
LEMMA CleanupSubTended ==
  ASSUME HubInv, Tended, Served, NEW c \in Clients, NEW p \in Procs, CleanupSub(c, p)
  PROVE  Tended' /\ Served'
<1>1. /\ UNCHANGED <<jobs, cl, departed>> /\ proc[c][p] = "cleanup" /\ Goto(c, p, "done")
      /\ subs' = [subs EXCEPT ![JobOf(c)] = "none"]
  BY DEF CleanupSub, ghosts
<1>2. JobOf(c) \in Jobs /\ JobOf(c) \in departed
  BY <1>1 DEF HubInv, ClientsOK, ClientOK, Gone
<1>3. subs'[JobOf(c)] = "none" /\ \A k \in Jobs : k # JobOf(c) => subs'[k] = subs[k]
  BY <1>1, <1>2, Typed
<1>4. \A d \in Clients, q \in Procs : d # c => proc'[d][q] = proc[d][q]
  BY <1>1, Typed DEF Goto
<1>5. ASSUME NEW k \in Jobs, subs'[k] # "none", jobs'[k] = {}
      PROVE  \E d \in Clients : Tending(d, k)'
  <2>1. PICK d \in Clients : Tending(d, k)
    BY <1>1, <1>3, <1>5 DEF Tended
  <2>2. d # c
    BY <2>1, <1>3, <1>5 DEF Tending
  <2> QED BY <2>1, <2>2, <1>1, <1>4 DEF Tending, JobOf, Procs
<1>6. Served'
  BY <1>1, <1>2, <1>3 DEF Served, JobOf, HubInv, ClientsOK, ClientOK
<1> QED BY <1>5, <1>6 DEF Tended

LEMMA TendedStep == HubInv /\ Tended /\ Served /\ [Next]_vars => Tended' /\ Served'
<1> SUFFICES ASSUME HubInv, Tended, Served, [Next]_vars PROVE Tended' /\ Served'
  OBVIOUS
<1>1. ASSUME NEW c \in Clients, NEW j \in Jobs, Register(c, j) PROVE Tended' /\ Served'
  BY <1>1, RegisterTended
<1>2. ASSUME NEW c \in Clients, Subscribe(c) \/ Disconnect(c) \/ WritePump(c) \/ ReadPump(c)
      PROVE  Tended' /\ Served'
  BY <1>2, SubscribeTended, PumpsQuiet, QuietKeeps
<1>3. ASSUME NEW c \in Clients, NEW p \in Procs,
             Unregister(c, p) \/ CloseSend(c, p) \/ CleanupSub(c, p)
      PROVE  Tended' /\ Served'
  BY <1>3, UnregisterTended, CloseSendQuiet, QuietKeeps, CleanupSubTended, DiesTended DEF Panic
<1>4. ASSUME NEW p \in PubSubs, Receive(p) \/ LoopEnds(p) PROVE Tended' /\ Served'
  BY <1>4, ReceiveLooping, LoopEndsLooping, LoopingQuiet, QuietKeeps
<1>5. ASSUME NEW p \in PubSubs, NEW c \in Clients, Send(p, c) PROVE Tended' /\ Served'
  BY <1>5, SendLooping, LoopingQuiet, QuietKeeps, DiesTended DEF Panic
<1>6. ASSUME NEW j \in Jobs, Publish(j) PROVE Tended' /\ Served'
  BY <1>6, PublishLooping, LoopingQuiet, QuietKeeps
<1>7. ASSUME MapRace \/ Exit PROVE Tended' /\ Served'
  BY <1>7, DiesTended DEF MapRace, Panic, Exit
<1>8. ASSUME ShutdownSubs \/ ShutdownClients \/ Restart PROVE Tended' /\ Served'
  <2>1. CASE ShutdownSubs \/ Restart
    BY <2>1, QuietKeeps DEF Quiet, ShutdownSubs, Restart, maps, ghosts
  <2>2. CASE ShutdownClients
    <3>1. Calm /\ proc' = proc
      BY <2>2, ShutdownClientsCalm DEF ShutdownClients
    <3> QED BY <3>1, QuietKeeps DEF Quiet, Calm
  <2> QED BY <1>8, <2>1, <2>2
<1>9. CASE UNCHANGED vars
  BY <1>9, QuietKeeps DEF vars, Quiet
<1> QED BY <1>1, <1>2, <1>3, <1>4, <1>5, <1>6, <1>7, <1>8, <1>9 DEF Next

LEMMA TendedInit == Init => Tended /\ Served
  BY DEF Init, Tended, Served, NoSubs, Idle

\* The two maps under their two locks: unregister leaves a subscription without clients only
\* to a goroutine that will close it, or with one that will bring the process down.
THEOREM NoLeakedSubscriptionHolds == Spec => []NoLeakedSubscription
<1>1. HubInv /\ Tended => NoLeakedSubscription
  BY DEF HubInv, Tended, Tending, NoLeakedSubscription
<1> QED BY <1>1, HubInvInit, HubInvStep, TendedInit, TendedStep, PTL DEF Spec

\* A served client of a running gateway is without an open subscription only once a client
\* of its job has departed.
THEOREM DeafOnlyAfterDepartureHolds == Spec => []DeafOnlyAfterDeparture
<1>1. HubInv /\ Served => DeafOnlyAfterDeparture
  <2> SUFFICES ASSUME HubInv, Served, NEW c \in Clients, up = "up", cl[c].pc = "served",
                      subs[JobOf(c)] = "none" \/ ps[subs[JobOf(c)]].state = "closed"
               PROVE  JobOf(c) \in departed
    BY DEF DeafOnlyAfterDeparture
  <2>1. JobOf(c) \in Jobs
    BY DEF HubInv, ClientsOK, ClientOK
  <2>2. subs[JobOf(c)] # "none" => ps[subs[JobOf(c)]].state = "open"
    BY <2>1 DEF HubInv, SubsOK, SubOK
  <2> QED BY <2>2 DEF Served
<1> QED BY <1>1, HubInvInit, HubInvStep, TendedInit, TendedStep, PTL DEF Spec

-----------------------------------------------------------------------------
(* No event twice.                                                         *)

Elems(s) == {s[i] : i \in DOMAIN s}
Distinct(s) == \A i, k \in DOMAIN s : s[i] = s[k] => i = k

LEMMA AppendElems ==
  ASSUME NEW S, NEW s \in Seq(S), NEW e \in S
  PROVE  /\ Elems(Append(s, e)) = Elems(s) \cup {e}
         /\ Distinct(s) /\ e \notin Elems(s) => Distinct(Append(s, e))
<1>1. PICK t : t = Append(s, e)
  OBVIOUS
<1>2. /\ DOMAIN s = 1..Len(s) /\ Len(s) \in Nat /\ DOMAIN t = 1..(Len(s) + 1)
      /\ t[Len(s) + 1] = e /\ \A i \in 1..Len(s) : t[i] = s[i]
  BY <1>1
<1>3. Elems(t) = Elems(s) \cup {e}
  <2>1. ASSUME NEW i \in DOMAIN t PROVE t[i] \in Elems(s) \cup {e}
    <3>1. i = Len(s) + 1 \/ i \in 1..Len(s)
      BY <1>2, <2>1
    <3> QED BY <3>1, <1>2 DEF Elems
  <2>2. ASSUME NEW i \in DOMAIN s PROVE s[i] \in Elems(t)
    <3>1. i \in DOMAIN t /\ t[i] = s[i]
      BY <1>2, <2>2
    <3> QED BY <3>1 DEF Elems
  <2>3. e \in Elems(t)
    <3>1. Len(s) + 1 \in DOMAIN t
      BY <1>2
    <3> QED BY <3>1, <1>2 DEF Elems
  <2> QED BY <2>1, <2>2, <2>3 DEF Elems
<1>4. ASSUME Distinct(s), e \notin Elems(s) PROVE Distinct(t)
  <2>1. \A i \in 1..Len(s) : s[i] # e
    BY <1>2, <1>4 DEF Elems
  <2>2. ASSUME NEW i \in DOMAIN t, NEW k \in DOMAIN t, t[i] = t[k] PROVE i = k
    <3>1. (i = Len(s) + 1 \/ i \in 1..Len(s)) /\ (k = Len(s) + 1 \/ k \in 1..Len(s))
      BY <1>2, <2>2
    <3> QED BY <3>1, <2>1, <2>2, <1>2, <1>4 DEF Distinct
  <2> QED BY <2>2 DEF Distinct
<1> QED BY <1>1, <1>3, <1>4

LEMMA TailElems ==
  ASSUME NEW S, NEW s \in Seq(S), s # <<>>, Distinct(s)
  PROVE  /\ Head(s) \in Elems(s) /\ Elems(Tail(s)) \subseteq Elems(s)
         /\ Distinct(Tail(s)) /\ Head(s) \notin Elems(Tail(s))
<1>1. PICK t : t = Tail(s)
  OBVIOUS
<1>2. /\ DOMAIN s = 1..Len(s) /\ Len(s) \in Nat \ {0} /\ DOMAIN t = 1..(Len(s) - 1)
      /\ Head(s) = s[1] /\ \A i \in 1..(Len(s) - 1) : t[i] = s[i + 1]
  BY <1>1
<1>3. Head(s) \in Elems(s)
  <2>1. 1 \in DOMAIN s
    BY <1>2
  <2> QED BY <2>1, <1>2 DEF Elems
<1>4. \A i \in DOMAIN t : i + 1 \in DOMAIN s /\ i + 1 # 1 /\ t[i] = s[i + 1]
  BY <1>2
<1>5. Elems(t) \subseteq Elems(s)
  BY <1>4 DEF Elems
<1>6. Distinct(t)
  <2>1. ASSUME NEW i \in DOMAIN t, NEW k \in DOMAIN t, t[i] = t[k] PROVE i = k
    <3>1. i + 1 = k + 1
      BY <2>1, <1>4 DEF Distinct
    <3> QED BY <3>1, <1>2
  <2> QED BY <2>1 DEF Distinct
<1>7. Head(s) \notin Elems(t)
  <2>1. ASSUME NEW i \in DOMAIN t PROVE t[i] # Head(s)
    <3>1. 1 \in DOMAIN s
      BY <1>2
    <3> QED BY <3>1, <1>2, <1>4 DEF Distinct
  <2> QED BY <2>1 DEF Elems
<1> QED BY <1>1, <1>3, <1>5, <1>6, <1>7

LEMMA NoElems == Elems(<<>>) = {} /\ Distinct(<<>>)
  BY DEF Elems, Distinct

\* The events a subscription has still to deliver: its buffer and the one in hand.
Held(p) == Elems(ps[p].buf) \cup ({ps[p].msg} \ {0})

\* Each subscription holds an event once, and two of the same job none in common: only the
\* open one is reached, so the one that drains holds what was published before.
StreamOK(p) ==
  /\ Distinct(ps[p].buf) /\ ps[p].msg \notin Elems(ps[p].buf)
  /\ ps[p].job \in Jobs => \A n \in Held(p) : n <= published[ps[p].job]
Apart(p, q) == p # q /\ ps[p].job = ps[q].job => Held(p) \cap Held(q) = {}

\* A client has each event once, and none that a subscription of its job has still to send it.
GotOK(c) ==
  /\ Distinct(got[c])
  /\ cl[c].pc # "idle" => \A n \in Elems(got[c]) : n <= published[JobOf(c)]
FreshTo(c, p) ==
  cl[c].pc # "idle" /\ ps[p].job = JobOf(c) =>
    /\ Elems(got[c]) \cap Elems(ps[p].buf) = {}
    /\ c \in ps[p].left => ps[p].msg \notin Elems(got[c])

StreamInv ==
  /\ \A p \in PubSubs : StreamOK(p)
  /\ \A p, q \in PubSubs : Apart(p, q)
  /\ \A c \in Clients : GotOK(c)
  /\ \A c \in Clients, p \in PubSubs : FreshTo(c, p)

\* What holds no new event and reaches nobody with an old one.
NoNews ==
  /\ UNCHANGED <<published, got>>
  /\ \A p \in PubSubs :
       \/ ps'[p].buf = <<>> /\ ps'[p].msg = 0 /\ ps'[p].left = {}
       \/ /\ ps'[p].buf = ps[p].buf /\ ps'[p].msg = ps[p].msg /\ ps'[p].job = ps[p].job
          /\ \A c \in ps'[p].left : c \in ps[p].left \/ got[c] = <<>>
  /\ \A c \in Clients : \/ cl'[c].pc = "idle"
                        \/ got[c] = <<>>
                        \/ cl[c].pc # "idle" /\ cl'[c].job = cl[c].job

LEMMA NoNewsKeeps ==
  ASSUME HubInv, StreamInv, NoNews
  PROVE  StreamInv'
<1>1. ASSUME NEW p \in PubSubs PROVE Held(p)' = {} \/ (Held(p)' = Held(p) /\ ps'[p].job = ps[p].job)
  BY NoElems DEF NoNews, Held
<1>2. \A p \in PubSubs : StreamOK(p)'
  BY <1>1, NoElems DEF NoNews, StreamInv, StreamOK
<1>3. \A p, q \in PubSubs : Apart(p, q)'
  BY <1>1 DEF StreamInv, Apart
<1>4. \A c \in Clients : GotOK(c)'
  BY NoElems DEF NoNews, StreamInv, GotOK, JobOf
<1>5. ASSUME NEW c \in Clients, NEW p \in PubSubs PROVE FreshTo(c, p)'
  BY NoElems DEF NoNews, StreamInv, FreshTo, JobOf
<1> QED BY <1>2, <1>3, <1>4, <1>5 DEF StreamInv

LEMMA DiesStream ==
  ASSUME NEW how, Dies(how)
  PROVE  StreamInv'
<1>1. /\ \A p \in PubSubs : ps'[p].buf = <<>> /\ ps'[p].msg = 0 /\ ps'[p].left = {}
      /\ \A c \in Clients : got'[c] = <<>>
  BY DEF Dies, NoPubSubs, Unused
<1>2. \A p \in PubSubs : Held(p)' = {}
  BY <1>1, NoElems DEF Held
<1> QED BY <1>1, <1>2, NoElems DEF StreamInv, StreamOK, Apart, GotOK, FreshTo

LEMMA CalmNoNews ==
  ASSUME HubInv, Calm
  PROVE  NoNews
  BY DEF Calm, NoNews

LEMMA RegisterNoNews ==
  ASSUME HubInv, NEW c \in Clients, NEW j \in Jobs, Register(c, j)
  PROVE  NoNews
<1>1. PICK seen \in SUBSET Iterating(j) :
        ps' = [p \in PubSubs |-> IF p \in seen THEN [ps[p] EXCEPT !.left = @ \cup {c}] ELSE ps[p]]
  BY DEF Register
<1>2. \A p \in PubSubs :
        /\ ps'[p].buf = ps[p].buf /\ ps'[p].job = ps[p].job /\ ps'[p].msg = ps[p].msg
        /\ ps'[p].left \subseteq ps[p].left \cup {c}
  <2>1. \A p \in PubSubs : ps[p] \in PubSub
    BY Typed
  <2> QED BY <1>1, <2>1 DEF PubSub
<1>3. got[c] = <<>>
  BY DEF Register, HubInv, ClientsOK, ClientOK
<1>4. \A d \in Clients : d # c => cl'[d] = cl[d]
  BY Typed DEF Register
<1> QED BY <1>2, <1>3, <1>4 DEF NoNews, Register, ghosts, HubInv, ClientsOK, ClientOK

LEMMA SubscribeNoNews ==
  ASSUME HubInv, NEW c \in Clients, Subscribe(c)
  PROVE  NoNews
<1>1. \A d \in Clients : cl'[d].job = cl[d].job /\ (cl'[d].pc = cl[d].pc \/ cl[d].pc # "idle")
  BY Typed DEF Subscribe, Client
<1>2. \A p \in PubSubs : ps'[p] = ps[p] \/ ps'[p] = Subscription(JobOf(c))
  BY Typed DEF Subscribe
<1> QED BY <1>1, <1>2 DEF NoNews, Subscribe, Subscription, ghosts

LEMMA CleanupSubNoNews ==
  ASSUME HubInv, NEW c \in Clients, NEW p \in Procs, CleanupSub(c, p)
  PROVE  NoNews
<1>1. PICK q : q = subs[JobOf(c)]
  OBVIOUS
<1>2. ps' = ps \/ ps' = [ps EXCEPT ![q].state = "closed"]
  BY <1>1 DEF CleanupSub
<1>3. \A r \in PubSubs : /\ ps'[r].buf = ps[r].buf /\ ps'[r].job = ps[r].job
                         /\ ps'[r].msg = ps[r].msg /\ ps'[r].left = ps[r].left
  <2>1. ps \in [PubSubs -> PubSub]
    BY Typed
  <2>2. ASSUME NEW r \in PubSubs
        PROVE  ps'[r] = ps[r] \/ ps'[r] = [ps[r] EXCEPT !.state = "closed"]
    BY <1>2, <2>1
  <2>3. \A r \in PubSubs : ps[r] \in PubSub
    BY <2>1
  <2> QED BY <2>2, <2>3 DEF PubSub
<1> QED BY <1>3 DEF NoNews, CleanupSub, ghosts

LEMMA ShutdownSubsNoNews ==
  ASSUME HubInv, ShutdownSubs
  PROVE  NoNews
<1>1. \A r \in PubSubs : /\ ps'[r].buf = ps[r].buf /\ ps'[r].job = ps[r].job
                         /\ ps'[r].msg = ps[r].msg /\ ps'[r].left = ps[r].left
  <2>1. \A p \in PubSubs : ps[p] \in PubSub
    BY Typed
  <2> QED BY <2>1 DEF PubSub, ShutdownSubs
<1> QED BY <1>1 DEF NoNews, ShutdownSubs, ghosts

LEMMA LoopEndsNoNews ==
  ASSUME HubInv, NEW p \in PubSubs, LoopEnds(p)
  PROVE  NoNews
<1>1. \A r \in PubSubs : ps'[r] = ps[r] \/ ps'[r] = Unused
  BY Typed DEF LoopEnds
<1> QED BY <1>1 DEF NoNews, LoopEnds, Unused, ghosts

\* The numbers of events, for the arithmetic.
LEMMA Numbers ==
  ASSUME HubInv
  PROVE  /\ \A p \in PubSubs : /\ ps[p].buf \in Seq(Events) /\ Elems(ps[p].buf) \subseteq Events
                               /\ ps[p].msg \in Nat /\ Held(p) \subseteq Events
         /\ \A c \in Clients : got[c] \in Seq(Events) /\ Elems(got[c]) \subseteq Events
         /\ \A j \in Jobs : published[j] \in Nat
         /\ Events \subseteq Nat \ {0}
<1>1. \A s \in Seq(Events) : Elems(s) \subseteq Events
  BY DEF Elems
<1>2. \A p \in PubSubs : ps[p].buf \in Seq(Events) /\ ps[p].msg \in 0..MaxEvents
  BY Typed DEF PubSub
<1>3. \A p \in PubSubs : {ps[p].msg} \ {0} \subseteq Events
  BY <1>2, HubAssumption DEF Events
<1>4. Events \subseteq Nat \ {0} /\ \A j \in Jobs : published[j] \in Nat
  BY Typed, HubAssumption DEF Events
<1>5. \A p \in PubSubs : Elems(ps[p].buf) \subseteq Events /\ ps[p].msg \in Nat
  BY <1>1, <1>2, HubAssumption
<1>6. \A c \in Clients : got[c] \in Seq(Events) /\ Elems(got[c]) \subseteq Events
  BY <1>1, Typed
<1> QED BY <1>2, <1>3, <1>4, <1>5, <1>6 DEF Held

\* An event is new to everybody, and the one subscription that gets it is the open one.
LEMMA PublishStream ==
  ASSUME HubInv, StreamInv, NEW j \in Jobs, Publish(j)
  PROVE  StreamInv'
<1>1. /\ published[j] < MaxEvents /\ published' = [published EXCEPT ![j] = @ + 1]
      /\ UNCHANGED <<cl, got>>
  BY DEF Publish, ghosts
<1>2. PICK n : n = published[j] + 1
  OBVIOUS
<1>3. PICK reached \in SUBSET {p \in PubSubs : ps[p].job = j /\ ps[p].state = "open"} :
        ps' = [p \in PubSubs |-> IF p \in reached
                                 THEN [ps[p] EXCEPT !.buf = Append(@, published'[j])] ELSE ps[p]]
  BY DEF Publish
<1>4. /\ published'[j] = n /\ n \in Events /\ n \in Nat \ {0} /\ published[j] < n
      /\ \A k \in Jobs : published[k] <= published'[k] /\ published'[k] \in Nat
      /\ \A k \in Jobs : k # j => published'[k] = published[k]
  BY <1>1, <1>2, Typed, HubAssumption DEF Events
<1>5. ASSUME NEW p \in PubSubs
      PROVE  /\ ps'[p].job = ps[p].job /\ ps'[p].left = ps[p].left /\ ps'[p].msg = ps[p].msg
             /\ p \in reached => ps'[p].buf = Append(ps[p].buf, n)
             /\ p \notin reached => ps'[p].buf = ps[p].buf
  <2>1. ps[p] \in PubSub
    BY Typed
  <2> QED BY <1>3, <1>4, <2>1 DEF PubSub
<1>6. \A p \in PubSubs : p \notin reached => Held(p)' = Held(p)
  BY <1>5 DEF Held
<1>7. ASSUME NEW p \in reached
      PROVE  /\ p \in PubSubs /\ ps[p].job = j /\ p = subs[j] /\ n \notin Held(p)
             /\ Held(p)' = Held(p) \cup {n} /\ Elems(ps'[p].buf) = Elems(ps[p].buf) \cup {n}
             /\ Distinct(ps'[p].buf) /\ ps'[p].msg \notin Elems(ps'[p].buf)
  <2>1. p \in PubSubs /\ ps[p].job = j /\ p = subs[j]
    BY DEF HubInv, PubSubsOK, PubSubOK
  <2>2. \A m \in Held(p) : m <= published[j] /\ m \in Nat
    BY <2>1, Numbers DEF StreamInv, StreamOK
  <2>3. n \notin Held(p)
    BY <2>2, <1>4, Numbers
  <2>4. n # ps[p].msg
    BY <2>3, <1>4 DEF Held
  <2>5. /\ Elems(Append(ps[p].buf, n)) = Elems(ps[p].buf) \cup {n}
        /\ Distinct(Append(ps[p].buf, n))
    <3>1. ps[p].buf \in Seq(Events) /\ Distinct(ps[p].buf) /\ n \notin Elems(ps[p].buf)
      BY <2>1, <2>3, Numbers DEF StreamInv, StreamOK, Held
    <3> QED BY <3>1, <1>4, AppendElems
  <2>6. ps'[p].buf = Append(ps[p].buf, n) /\ ps'[p].msg = ps[p].msg
    BY <1>5, <2>1
  <2>7. ps[p].msg \notin Elems(ps[p].buf)
    BY <2>1 DEF StreamInv, StreamOK
  <2> QED BY <2>1, <2>3, <2>4, <2>5, <2>6, <2>7 DEF Held
<1>8. ASSUME NEW p \in PubSubs PROVE StreamOK(p)'
  <2>1. StreamOK(p) /\ Held(p) \subseteq Nat
    BY Numbers DEF StreamInv
  <2>2. ps'[p].job \in Jobs => \A m \in Held(p) : m <= published'[ps'[p].job]
    <3>1. ASSUME ps[p].job \in Jobs, NEW m \in Held(p) PROVE m <= published'[ps[p].job]
      <4>1. m <= published[ps[p].job] /\ published[ps[p].job] <= published'[ps[p].job]
        BY <2>1, <3>1, <1>4 DEF StreamOK
      <4> QED BY <4>1, <3>1, <2>1, <1>4, Numbers
    <3> QED BY <3>1, <1>5
  <2>3. CASE p \in reached
    BY <2>1, <2>2, <2>3, <1>4, <1>5, <1>7 DEF StreamOK
  <2>4. CASE p \notin reached
    BY <2>1, <2>2, <2>4, <1>5, <1>6 DEF StreamOK
  <2> QED BY <2>3, <2>4
<1>9. ASSUME NEW p \in PubSubs, NEW q \in PubSubs, p # q, ps'[p].job = ps'[q].job
      PROVE  Held(p)' \cap Held(q)' = {}
  <2>1. ps[p].job = ps[q].job /\ Held(p) \cap Held(q) = {}
    BY <1>5, <1>9 DEF StreamInv, Apart
  <2>2. \A r \in PubSubs : ps[r].job = j => n \notin Held(r)
    BY <1>4, Numbers DEF StreamInv, StreamOK
  <2>3. CASE p \notin reached /\ q \notin reached
    BY <2>1, <2>3, <1>6
  <2>4. CASE p \in reached
    BY <2>1, <2>2, <2>4, <1>6, <1>7, <1>9
  <2>5. CASE q \in reached
    BY <2>1, <2>2, <2>5, <1>6, <1>7, <1>9
  <2> QED BY <2>3, <2>4, <2>5
<1>10. ASSUME NEW c \in Clients PROVE GotOK(c)'
  <2>1. GotOK(c) /\ Elems(got[c]) \subseteq Nat /\ cl' = cl /\ got' = got
    BY Numbers, <1>1 DEF StreamInv
  <2>2. cl[c].pc # "idle" => JobOf(c) \in Jobs
    BY DEF HubInv, ClientsOK, ClientOK
  <2>3. ASSUME cl[c].pc # "idle", NEW m \in Elems(got[c]) PROVE m <= published'[JobOf(c)]
    <3>1. m <= published[JobOf(c)] /\ published[JobOf(c)] <= published'[JobOf(c)]
      BY <2>1, <2>2, <2>3, <1>4 DEF GotOK
    <3> QED BY <3>1, <2>1, <2>2, <2>3, <1>4, Numbers
  <2> QED BY <2>1, <2>3 DEF GotOK, JobOf
<1>11. ASSUME NEW c \in Clients, NEW p \in PubSubs PROVE FreshTo(c, p)'
  <2>1. FreshTo(c, p) /\ cl' = cl /\ got' = got /\ JobOf(c)' = JobOf(c)
    BY <1>1 DEF StreamInv, JobOf
  <2>2. CASE p \notin reached
    BY <2>1, <2>2, <1>5 DEF FreshTo
  <2>3. CASE p \in reached
    <3>1. cl[c].pc # "idle" /\ JobOf(c) = j => n \notin Elems(got[c])
      <4>1. GotOK(c) /\ Elems(got[c]) \subseteq Nat /\ published[j] \in Nat
        BY Numbers DEF StreamInv
      <4> QED BY <4>1, <1>4 DEF GotOK
    <3> QED BY <2>1, <2>3, <3>1, <1>5, <1>7 DEF FreshTo
  <2> QED BY <2>2, <2>3
<1> QED BY <1>8, <1>9, <1>10, <1>11 DEF StreamInv, Apart

\* The head of the buffer comes into hand: nothing is held that was not.
LEMMA ReceiveStream ==
  ASSUME HubInv, StreamInv, NEW p \in PubSubs, Receive(p)
  PROVE  StreamInv'
<1>1. /\ UNCHANGED <<cl, published, got>> /\ ps[p].buf # <<>>
      /\ ps' = [ps EXCEPT ![p] = [ps[p] EXCEPT !.buf = Tail(@), !.msg = Head(ps[p].buf),
                                                !.left = jobs[ps[p].job]]]
  BY DEF Receive, maps, ghosts
<1>2. /\ ps'[p].buf = Tail(ps[p].buf) /\ ps'[p].msg = Head(ps[p].buf) /\ ps'[p].job = ps[p].job
      /\ \A q \in PubSubs : q # p => ps'[q] = ps[q]
  <2>1. PICK r : r = [ps[p] EXCEPT !.buf = Tail(@), !.msg = Head(ps[p].buf), !.left = jobs[ps[p].job]]
    OBVIOUS
  <2>2. r.buf = Tail(ps[p].buf) /\ r.msg = Head(ps[p].buf) /\ r.job = ps[p].job
    <3>1. ps[p] \in PubSub
      BY Typed
    <3> QED BY <2>1, <3>1 DEF PubSub
  <2>3. ps' = [ps EXCEPT ![p] = r]
    BY <1>1, <2>1
  <2> QED BY <2>2, <2>3, Typed
<1>3. /\ Distinct(ps'[p].buf) /\ ps'[p].msg \notin Elems(ps'[p].buf)
      /\ ps'[p].msg \in Elems(ps[p].buf) /\ Elems(ps'[p].buf) \subseteq Elems(ps[p].buf)
  <2>1. ps[p].buf \in Seq(Events) /\ Distinct(ps[p].buf)
    BY Numbers DEF StreamInv, StreamOK
  <2> QED BY <2>1, <1>1, <1>2, TailElems
<1>4. \A q \in PubSubs : Held(q)' \subseteq Held(q) /\ ps'[q].job = ps[q].job
  BY <1>2, <1>3 DEF Held
<1>5. \A q \in PubSubs : StreamOK(q)'
  BY <1>1, <1>2, <1>3, <1>4 DEF StreamInv, StreamOK
<1>6. \A q, r \in PubSubs : Apart(q, r)'
  BY <1>4 DEF StreamInv, Apart
<1>7. \A c \in Clients : GotOK(c)'
  BY <1>1 DEF StreamInv, GotOK, JobOf
<1>8. ASSUME NEW c \in Clients, NEW q \in PubSubs PROVE FreshTo(c, q)'
  <2>1. FreshTo(c, q) /\ cl' = cl /\ got' = got
    BY <1>1 DEF StreamInv
  <2>2. CASE q = p
    BY <2>1, <2>2, <1>2, <1>3 DEF FreshTo, JobOf
  <2>3. CASE q # p
    BY <2>1, <2>3, <1>2 DEF FreshTo, JobOf
  <2> QED BY <2>2, <2>3
<1> QED BY <1>5, <1>6, <1>7, <1>8 DEF StreamInv

\* The event in hand goes to a client once, and no other subscription of the job holds it.
LEMMA SendStream ==
  ASSUME HubInv, StreamInv, NEW p \in PubSubs, NEW c \in Clients, Send(p, c), ~Panic
  PROVE  StreamInv'
<1>1. /\ UNCHANGED published /\ c \in Left(p)
      /\ ps' = [ps EXCEPT ![p] = [ps[p] EXCEPT !.left = Left(p) \ {c},
                                                !.msg = IF Left(p) = {c} THEN 0 ELSE @]]
      /\ got' = got \/ got' = [got EXCEPT ![c] = Append(@, ps[p].msg)]
  BY DEF Send, maps
<1>2. /\ ps'[p].buf = ps[p].buf /\ ps'[p].job = ps[p].job /\ ps'[p].left = Left(p) \ {c}
      /\ ps'[p].msg = ps[p].msg \/ (ps'[p].msg = 0 /\ ps'[p].left = {})
      /\ \A q \in PubSubs : q # p => ps'[q] = ps[q]
  <2>1. PICK r : r = [ps[p] EXCEPT !.left = Left(p) \ {c}, !.msg = IF Left(p) = {c} THEN 0 ELSE @]
    OBVIOUS
  <2>2. /\ r.buf = ps[p].buf /\ r.left = Left(p) \ {c} /\ r.job = ps[p].job
        /\ r.msg = IF Left(p) = {c} THEN 0 ELSE ps[p].msg
    <3>1. ps[p] \in PubSub
      BY Typed
    <3> QED BY <2>1, <3>1 DEF PubSub
  <2>3. ps' = [ps EXCEPT ![p] = r]
    BY <1>1, <2>1
  <2>4. ps'[p] = r /\ \A q \in PubSubs : q # p => ps'[q] = ps[q]
    BY <2>3, Typed
  <2> QED BY <2>2, <2>4
<1>3. /\ c \in ps[p].left /\ JobOf(c) = ps[p].job /\ ps[p].job \in Jobs
      /\ cl[c].pc # "idle" /\ ps[p].msg \in Events
  BY <1>1, LeftFacts
<1>4. \A d \in Clients : cl'[d].pc = cl[d].pc /\ cl'[d].job = cl[d].job
  BY SendLooping DEF Looping
<1>5. \A d \in Clients : d # c => got'[d] = got[d]
  BY <1>1, Typed
<1>6. /\ ps[p].msg \in Held(p) /\ ps[p].msg \notin Elems(got[c])
      /\ ps[p].msg <= published[JobOf(c)]
  BY <1>3, Numbers DEF Held, StreamInv, FreshTo, StreamOK
<1>7. \/ got'[c] = got[c]
      \/ /\ Elems(got'[c]) = Elems(got[c]) \cup {ps[p].msg}
         /\ Distinct(got[c]) => Distinct(got'[c])
  <2>1. got[c] \in Seq(Events) /\ (got'[c] = got[c] \/ got'[c] = Append(got[c], ps[p].msg))
    BY <1>1, Typed
  <2>2. /\ Elems(Append(got[c], ps[p].msg)) = Elems(got[c]) \cup {ps[p].msg}
        /\ Distinct(got[c]) => Distinct(Append(got[c], ps[p].msg))
    BY <2>1, <1>3, <1>6, AppendElems
  <2> QED BY <2>1, <2>2
<1>8. \A q \in PubSubs : /\ Held(q)' \subseteq Held(q) /\ ps'[q].job = ps[q].job
                         /\ ps'[q].buf = ps[q].buf /\ ps'[q].left \subseteq ps[q].left
                         /\ ps'[q].msg = ps[q].msg \/ (ps'[q].msg = 0 /\ ps'[q].left = {})
  BY <1>2 DEF Held, Left
<1>9. ASSUME NEW q \in PubSubs PROVE StreamOK(q)'
  <2>1. StreamOK(q) /\ 0 \notin Elems(ps[q].buf)
    BY Numbers DEF StreamInv
  <2> QED BY <2>1, <1>1, <1>8 DEF StreamOK
<1>10. \A q, r \in PubSubs : Apart(q, r)'
  BY <1>8 DEF StreamInv, Apart
<1>11. ASSUME NEW d \in Clients PROVE GotOK(d)'
  <2>1. GotOK(d) /\ JobOf(d)' = JobOf(d) /\ published' = published
    BY <1>1, <1>4 DEF StreamInv, JobOf
  <2> QED BY <2>1, <1>4, <1>5, <1>6, <1>7 DEF GotOK
<1>12. ASSUME NEW d \in Clients, NEW q \in PubSubs PROVE FreshTo(d, q)'
  <2>1. FreshTo(d, q) /\ JobOf(d)' = JobOf(d) /\ cl'[d].pc = cl[d].pc
    BY <1>4 DEF StreamInv, JobOf
  <2>2. CASE got'[d] = got[d]
    BY <2>1, <2>2, <1>8 DEF FreshTo
  <2>3. CASE d = c /\ Elems(got'[c]) = Elems(got[c]) \cup {ps[p].msg}
    <3>1. CASE q = p
      <4>1. ps[p].msg \notin Elems(ps[p].buf) /\ c \notin ps'[p].left
        BY <1>2 DEF StreamInv, StreamOK
      <4> QED BY <2>1, <2>3, <3>1, <4>1, <1>8 DEF FreshTo
    <3>2. CASE q # p /\ ps[q].job = ps[p].job
      <4>1. ps[p].msg \notin Held(q)
        BY <3>2, <1>6 DEF StreamInv, Apart
      <4>2. ps[p].msg # ps[q].msg /\ ps[p].msg \notin Elems(ps[q].buf)
        BY <4>1, <1>3, Numbers DEF Held
      <4> QED BY <2>1, <2>3, <3>2, <4>2, <1>2 DEF FreshTo
    <3>3. CASE ps[q].job # ps[p].job
      BY <2>1, <2>3, <3>3, <1>3, <1>8 DEF FreshTo
    <3> QED BY <3>1, <3>2, <3>3
  <2> QED BY <2>2, <2>3, <1>5, <1>7
<1> QED BY <1>9, <1>10, <1>11, <1>12 DEF StreamInv

LEMMA StreamStep == HubInv /\ StreamInv /\ [Next]_vars => StreamInv'
<1> SUFFICES ASSUME HubInv, StreamInv, [Next]_vars PROVE StreamInv'
  OBVIOUS
<1>1. ASSUME NEW c \in Clients, NEW j \in Jobs, Register(c, j) PROVE StreamInv'
  BY <1>1, RegisterNoNews, NoNewsKeeps
<1>2. ASSUME NEW c \in Clients, Subscribe(c) \/ Disconnect(c) \/ WritePump(c) \/ ReadPump(c)
      PROVE  StreamInv'
  BY <1>2, SubscribeNoNews, DisconnectCalm, WritePumpCalm, ReadPumpCalm, CalmNoNews, NoNewsKeeps
<1>3. ASSUME NEW c \in Clients, NEW p \in Procs,
             Unregister(c, p) \/ CloseSend(c, p) \/ CleanupSub(c, p)
      PROVE  StreamInv'
  <2>1. CASE Unregister(c, p)
    BY <2>1, NoNewsKeeps DEF Unregister, NoNews
  <2> QED BY <2>1, <1>3, CloseSendStep, CalmNoNews, CleanupSubNoNews, NoNewsKeeps, DiesStream
          DEF Panic
<1>4. ASSUME NEW p \in PubSubs, Receive(p) \/ LoopEnds(p) PROVE StreamInv'
  BY <1>4, ReceiveStream, LoopEndsNoNews, NoNewsKeeps
<1>5. ASSUME NEW p \in PubSubs, NEW c \in Clients, Send(p, c) PROVE StreamInv'
  BY <1>5, SendStream, DiesStream DEF Panic
<1>6. ASSUME NEW j \in Jobs, Publish(j) PROVE StreamInv'
  BY <1>6, PublishStream
<1>7. ASSUME MapRace \/ Exit PROVE StreamInv'
  BY <1>7, DiesStream DEF MapRace, Panic, Exit
<1>8. ASSUME ShutdownSubs \/ ShutdownClients \/ Restart PROVE StreamInv'
  <2>1. CASE Restart
    BY <2>1, NoNewsKeeps DEF Restart, NoNews, maps, ghosts
  <2> QED BY <2>1, <1>8, ShutdownSubsNoNews, ShutdownClientsCalm, CalmNoNews, NoNewsKeeps
<1>9. CASE UNCHANGED vars
  BY <1>9, NoNewsKeeps DEF vars, NoNews
<1> QED BY <1>1, <1>2, <1>3, <1>4, <1>5, <1>6, <1>7, <1>8, <1>9 DEF Next

LEMMA StreamInit == Init => StreamInv
<1> SUFFICES ASSUME Init PROVE StreamInv
  OBVIOUS
<1>1. /\ \A p \in PubSubs : ps[p].buf = <<>> /\ ps[p].msg = 0 /\ ps[p].left = {}
      /\ \A c \in Clients : got[c] = <<>>
  BY DEF Init, NoPubSubs, Unused
<1>2. \A p \in PubSubs : Held(p) = {}
  BY <1>1, NoElems DEF Held
<1> QED BY <1>1, <1>2, NoElems DEF StreamInv, StreamOK, Apart, GotOK, FreshTo

\* However the loops of a torn down subscription and of its successor interleave, no browser
\* is sent an event twice over one connection.
THEOREM OncePerClientHolds == Spec => []OncePerClient
<1>1. StreamInv => OncePerClient
  BY DEF StreamInv, GotOK, Distinct, OncePerClient
<1> QED BY <1>1, HubInvInit, HubInvStep, StreamInit, StreamStep, PTL DEF Spec

=============================================================================
