-------------------------------- MODULE Hub --------------------------------
(***************************************************************************)
(* The websocket hub of the api-gateway: the browsers watching a job, one  *)
(* Redis subscription per watched job, two pumps per connection, and the   *)
(* two maps behind two locks that tie them together.                       *)
(*                                                                         *)
(* A goroutine step is what it does under one lock, or between two of its  *)
(* calls.  A panic in a goroutine ends the process: chi's Recoverer covers *)
(* the handlers only.  The hub's users are the mux and delivery services,  *)
(* which publish on the job's channel, and browsers, which connect and go  *)
(* away.                                                                   *)
(***************************************************************************)
EXTENDS Naturals, Sequences, FiniteSets

CONSTANTS
  Jobs,       \* the watched jobs
  Clients,    \* bound: connections in one life of the process
  PubSubs,    \* bound: subscriptions alive at a time
  Slow,       \* bound: go unregister(c) calls of one client by broadcast
  SendCap,    \* capacity of a client's send channel (64 in the code)
  MaxEvents   \* bound: events published per job in one life of the process

ASSUME HubAssumption == SendCap \in Nat \ {0} /\ MaxEvents \in Nat
ASSUME NoneAssumption == "none" \notin Jobs \cup PubSubs
ASSUME SlowAssumption == {"read", "write"} \cap Slow = {}

VARIABLES
  up,         \* the gateway process: up, stopping, drained, down or crashed
  jobs,       \* Hub.jobs: the clients of each job (no entry when empty)
  subs,       \* Hub.subs: the subscription of each job, "none" when absent
  ps,         \* the PubSub objects and the loops that read them
  cl,         \* the client objects with their connections
  proc,       \* where the goroutines that may unregister a client stand
  published,  \* events published on each job's channel in this life of the process
  got,        \* ghost: the events put into each client's channel
  departed    \* ghost: the jobs a client has left in this life of the process

vars == <<up, jobs, subs, ps, cl, proc, published, got, departed>>
maps == <<jobs, subs>>
ghosts == <<got, departed>>

Procs == {"read", "write"} \cup Slow
Events == 1..MaxEvents
Unused == [job |-> "none", state |-> "unused", buf |-> <<>>, msg |-> 0, left |-> {}]
Idle == [pc |-> "idle", job |-> "none", conn |-> FALSE, send |-> <<>>, closed |-> FALSE]
Off == [p \in Procs |-> "off"]

Nobody == [j \in Jobs |-> {}]
NoSubs == [j \in Jobs |-> "none"]
NoPubSubs == [p \in PubSubs |-> Unused]

Init ==
  /\ up = "up"
  /\ jobs = Nobody /\ subs = NoSubs /\ ps = NoPubSubs
  /\ cl = [c \in Clients |-> Idle] /\ proc = [c \in Clients |-> Off]
  /\ published = [j \in Jobs |-> 0]
  /\ got = [c \in Clients |-> <<>>] /\ departed = {}

JobOf(c) == cl[c].job
Alive == up \in {"up", "stopping", "drained"}
Goto(c, p, s) == proc' = [proc EXCEPT ![c][p] = s]
\* On a cancelled context Subscribe returns a PubSub that delivers nothing.
Subscription(j) ==
  [job |-> j, state |-> IF up = "up" THEN "open" ELSE "closed", buf |-> <<>>, msg |-> 0, left |-> {}]
\* The clients a broadcast still has to reach: the range over the map skips those
\* deleted from it.
Left(p) == IF ps[p].state = "unused" THEN {} ELSE ps[p].left \cap jobs[ps[p].job]
Iterating(j) == {p \in PubSubs : ps[p].job = j /\ Left(p) # {}}

\* The process ends, and its connections with it.
Dies(how) ==
  /\ up' = how
  /\ jobs' = Nobody /\ subs' = NoSubs /\ ps' = NoPubSubs
  /\ cl' = [c \in Clients |-> Idle] /\ proc' = [c \in Clients |-> Off]
  /\ published' = [j \in Jobs |-> 0]
  /\ got' = [c \in Clients |-> <<>>] /\ departed' = {}
Panic == Dies("crashed")

-----------------------------------------------------------------------------
(* HandleWS and register.                                                  *)

\* Under mu.  A broadcast that is walking the same map may or may not see the entry.
Register(c, j) ==
  /\ Alive /\ cl[c].pc = "idle"
  /\ cl' = [cl EXCEPT ![c] = [pc |-> "subscribing", job |-> j, conn |-> TRUE,
                             send |-> <<>>, closed |-> FALSE]]
  /\ jobs' = [jobs EXCEPT ![j] = @ \cup {c}]
  /\ \E seen \in SUBSET Iterating(j) :
        ps' = [p \in PubSubs |-> IF p \in seen THEN [ps[p] EXCEPT !.left = @ \cup {c}]
                                                ELSE ps[p]]
  /\ UNCHANGED <<up, subs, proc, published, ghosts>>

\* Whether to subscribe decided by the map of clients.
wrongSubscribe(c) ==
  /\ cl[c].pc = "subscribing"
  /\ IF jobs[JobOf(c)] = {c}
     THEN \E p \in PubSubs :
            /\ ps[p].state = "unused"
            /\ ps' = [ps EXCEPT ![p] = Subscription(JobOf(c))]
            /\ subs' = [subs EXCEPT ![JobOf(c)] = p]
     ELSE UNCHANGED <<ps, subs>>
  /\ cl' = [cl EXCEPT ![c].pc = "served"]
  /\ proc' = [proc EXCEPT ![c].read = "run", ![c].write = "run"]
  /\ UNCHANGED <<up, jobs, published, ghosts>>

\* Under subsMu; then HandleWS starts the pumps.
Subscribe(c) ==
  /\ cl[c].pc = "subscribing"
  /\ IF subs[JobOf(c)] = "none"
     THEN \E p \in PubSubs :
            /\ ps[p].state = "unused"
            /\ ps' = [ps EXCEPT ![p] = Subscription(JobOf(c))]
            /\ subs' = [subs EXCEPT ![JobOf(c)] = p]
     ELSE UNCHANGED <<ps, subs>>
  /\ cl' = [cl EXCEPT ![c].pc = "served"]
  /\ proc' = [proc EXCEPT ![c].read = "run", ![c].write = "run"]
  /\ UNCHANGED <<up, jobs, published, ghosts>>

-----------------------------------------------------------------------------
(* Redis pub/sub and the subscription loop.                                *)

\* publishEvent: a subscription gets it, or loses it when Redis has not processed its
\* SUBSCRIBE yet or its link is down.
Publish(j) ==
  /\ published[j] < MaxEvents
  /\ published' = [published EXCEPT ![j] = @ + 1]
  /\ \E reached \in SUBSET {p \in PubSubs : ps[p].job = j /\ ps[p].state = "open"} :
        ps' = [p \in PubSubs |-> IF p \in reached
                                 THEN [ps[p] EXCEPT !.buf = Append(@, published'[j])]
                                 ELSE ps[p]]
  /\ UNCHANGED <<up, maps, cl, proc, ghosts>>

\* subscriptionLoop takes the next message; broadcast picks the job's map up.  A closed
\* subscription is read to the end of its buffer.
Receive(p) ==
  /\ ps[p].buf # <<>> /\ Left(p) = {}
  /\ ps' = [ps EXCEPT ![p] = [ps[p] EXCEPT !.buf = Tail(@), !.msg = Head(ps[p].buf),
                                           !.left = jobs[ps[p].job]]]
  /\ UNCHANGED <<up, maps, cl, proc, published, ghosts>>

LoopEnds(p) ==
  /\ ps[p].state = "closed" /\ ps[p].buf = <<>> /\ Left(p) = {}
  /\ \A j \in Jobs : subs[j] # p
  /\ ps' = [ps EXCEPT ![p] = Unused]
  /\ UNCHANGED <<up, maps, cl, proc, published, ghosts>>

\* One turn of broadcast's loop, outside the lock.
Send(p, c) ==
  /\ c \in Left(p)
  /\ IF cl[c].closed THEN Panic                 \* send on a closed channel
     ELSE /\ ps' = [ps EXCEPT ![p] = [ps[p] EXCEPT !.left = Left(p) \ {c},
                                                  !.msg = IF Left(p) = {c} THEN 0 ELSE @]]
          /\ IF Len(cl[c].send) < SendCap
             THEN /\ cl' = [cl EXCEPT ![c].send = Append(@, ps[p].msg)]
                  /\ got' = [got EXCEPT ![c] = Append(@, ps[p].msg)]
                  /\ UNCHANGED proc
             ELSE /\ \E s \in Slow : proc[c][s] = "off" /\ Goto(c, s, "unregister")
                  /\ UNCHANGED <<cl, got>>
          /\ UNCHANGED <<up, maps, published, departed>>

-----------------------------------------------------------------------------
(* The pumps.                                                              *)

\* A tab is closed, a link drops, a pong is overdue.
Disconnect(c) ==
  /\ cl[c].conn
  /\ cl' = [cl EXCEPT ![c].conn = FALSE]
  /\ UNCHANGED <<up, maps, ps, proc, published, ghosts>>

WritePump(c) ==
  /\ proc[c].write = "run"
  /\ \/ /\ cl[c].send # <<>> /\ cl[c].conn
        /\ cl' = [cl EXCEPT ![c].send = Tail(@)]
        /\ UNCHANGED proc
     \/ /\ \/ ~cl[c].conn                              \* the write or the ping fails
           \/ cl[c].closed /\ cl[c].send = <<>>
        /\ Goto(c, "write", "unregister")
        /\ UNCHANGED cl
  /\ UNCHANGED <<up, maps, ps, published, ghosts>>

ReadPump(c) ==
  /\ proc[c].read = "run" /\ ~cl[c].conn
  /\ Goto(c, "read", "unregister")
  /\ UNCHANGED <<up, maps, ps, cl, published, ghosts>>

-----------------------------------------------------------------------------
(* unregister, run by whichever goroutine p gives the client up.           *)

\* Without the defer.
wrongUnregister(c, p) ==
  /\ proc[c][p] = "unregister"
  /\ jobs' = [jobs EXCEPT ![JobOf(c)] = @ \ {c}]
  /\ Goto(c, p, "close")
  /\ departed' = departed \cup {JobOf(c)}
  /\ UNCHANGED <<up, subs, ps, cl, published, got>>

\* Under mu.
Unregister(c, p) ==
  /\ proc[c][p] = "unregister"
  /\ LET rest == jobs[JobOf(c)] \ {c} IN
     /\ jobs' = [jobs EXCEPT ![JobOf(c)] = rest]
     /\ Goto(c, p, IF jobs[JobOf(c)] # {} /\ rest = {} THEN "closeLast" ELSE "close")
  /\ departed' = departed \cup {JobOf(c)}
  /\ UNCHANGED <<up, subs, ps, cl, published, got>>

\* close(c.send) panics the second time.
CloseSend(c, p) ==
  /\ proc[c][p] \in {"close", "closeLast"}
  /\ IF cl[c].closed THEN Panic
     ELSE /\ cl' = [cl EXCEPT ![c].closed = TRUE, ![c].conn = FALSE]
          /\ Goto(c, p, IF proc[c][p] = "closeLast" THEN "cleanup" ELSE "done")
          /\ UNCHANGED <<up, maps, ps, published, ghosts>>

wrongCleanup(c, p) ==
  /\ proc[c][p] = "cleanup"
  /\ subs' = [subs EXCEPT ![JobOf(c)] = "none"]
  /\ Goto(c, p, "done")
  /\ UNCHANGED <<up, jobs, ps, cl, published, ghosts>>

\* cleanupSub, deferred: under subsMu, after mu was released.
CleanupSub(c, p) ==
  /\ proc[c][p] = "cleanup"
  /\ LET q == subs[JobOf(c)] IN
     /\ ps' = IF q = "none" THEN ps ELSE [ps EXCEPT ![q].state = "closed"]
     /\ subs' = [subs EXCEPT ![JobOf(c)] = "none"]
  /\ Goto(c, p, "done")
  /\ UNCHANGED <<up, jobs, cl, published, ghosts>>

\* The maps are written under mu but walked outside it: the runtime may notice and stop.
MapRace ==
  /\ \E j \in Jobs : Iterating(j) # {}
       /\ \/ \E c \in Clients : cl[c].pc = "idle" /\ Alive
          \/ \E c \in Clients, p \in Procs : JobOf(c) = j /\ proc[c][p] = "unregister"
  /\ Panic

-----------------------------------------------------------------------------
(* Shutdown, the end of the drain, and the next life of the process.       *)

ShutdownSubs ==
  /\ up = "up" /\ up' = "stopping"
  /\ ps' = [p \in PubSubs |-> IF \E j \in Jobs : subs[j] = p
                              THEN [ps[p] EXCEPT !.state = "closed"] ELSE ps[p]]
  /\ UNCHANGED <<maps, cl, proc, published, ghosts>>

ShutdownClients ==
  /\ up = "stopping" /\ up' = "drained"
  /\ cl' = [c \in Clients |-> IF \E j \in Jobs : c \in jobs[j]
                              THEN [cl[c] EXCEPT !.closed = TRUE, !.conn = FALSE] ELSE cl[c]]
  /\ UNCHANGED <<maps, ps, proc, published, ghosts>>

Exit == up = "drained" /\ Dies("down")

Restart == ~Alive /\ up' = "up" /\ UNCHANGED <<maps, ps, cl, proc, published, ghosts>>

-----------------------------------------------------------------------------
Next ==
  \/ \E c \in Clients : \/ \E j \in Jobs : Register(c, j)
                        \/ Subscribe(c) \/ Disconnect(c) \/ WritePump(c) \/ ReadPump(c)
                        \/ \E p \in Procs : Unregister(c, p) \/ CloseSend(c, p) \/ CleanupSub(c, p)
  \/ \E p \in PubSubs : Receive(p) \/ LoopEnds(p) \/ \E c \in Clients : Send(p, c)
  \/ \E j \in Jobs : Publish(j)
  \/ MapRace \/ ShutdownSubs \/ ShutdownClients \/ Exit \/ Restart

Spec == Init /\ [][Next]_vars

-----------------------------------------------------------------------------
(* Properties.                                                             *)

\* The state has the shape the code gives it.
TypeOK ==
  /\ up \in {"up", "stopping", "drained", "down", "crashed"}
  /\ jobs \in [Jobs -> SUBSET Clients]
  /\ subs \in [Jobs -> PubSubs \cup {"none"}]
  /\ ps \in [PubSubs -> [job: Jobs \cup {"none"},
                         state: {"unused", "open", "closed"},
                         buf: Seq(Events), msg: 0..MaxEvents, left: SUBSET Clients]]
  /\ cl \in [Clients -> [pc: {"idle", "subscribing", "served"}, job: Jobs \cup {"none"},
                         conn: BOOLEAN, send: Seq(Events), closed: BOOLEAN]]
  /\ proc \in [Clients -> [Procs -> {"off", "run", "unregister", "close", "closeLast",
                                    "cleanup", "done"}]]
  /\ published \in [Jobs -> 0..MaxEvents]
  /\ got \in [Clients -> Seq(Events)]
  /\ departed \subseteq Jobs

\* unregister tears the subscription down when the last client goes, although the two maps
\* are under two locks and cleanupSub looks at neither the clients nor who subscribed.  A
\* subscription without clients is always one that some goroutine is about to close, or one
\* of a client dropped as slow while it was registering, whose pumps are about to panic.
NoLeakedSubscription ==
  /\ TypeOK
  /\ \A j \in Jobs : subs[j] # "none" /\ jobs[j] = {} =>
       \E c \in Clients :
         /\ JobOf(c) = j
         /\ \/ \E p \in Procs : proc[c][p] \in {"closeLast", "cleanup"}
            \/ cl[c].pc = "served" /\ \E p \in Slow : proc[c][p] \in {"close", "done"}

\* A connection is never sent one event twice, even while the loop of a subscription that
\* was torn down drains beside the loop of the one that replaced it.
OncePerClient ==
  \A c \in Clients : \A i, k \in DOMAIN got[c] : got[c][i] = got[c][k] => i = k

\* A served client without a live subscription needs another client of its job to have
\* left: cleanupSub, which runs after the lock on the clients was released, closes the
\* subscription the newcomer found in the map.
DeafOnlyAfterDeparture ==
  \A c \in Clients :
    /\ up = "up" /\ cl[c].pc = "served" /\ c \in jobs[JobOf(c)]
    /\ (subs[JobOf(c)] = "none" \/ ps[subs[JobOf(c)]].state = "closed")
    => JobOf(c) \in departed

=============================================================================
