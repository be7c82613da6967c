--------------------------- MODULE JobPageProofs ---------------------------
(***************************************************************************)
(* Proofs about one visit of the job page: its sockets end with it, the    *)
(* status it shows is the server's unless the last change was never heard, *)
(* the progress bar is never ahead of the job, and a text without the      *)
(* unsaved mark is one the server has had.                                 *)
(***************************************************************************)
EXTENDS JobPage, FiniteSetTheorems, SequenceTheorems, TLAPS

Told == {"null", "undefined"}
Conns == Sockets \cup {"none", "timer", "over"}
CallType == [conn: Conns, attempt: 0..MAX_ATTEMPTS, closed: BOOLEAN, lastStage: Stages \cup {""},
             inbox: Seq(Stages), opened: Nat]

\* A call that is closing is closed, only an open socket has messages, and a socket that was
\* opened again used up an attempt.
CallOK(r) ==
  /\ r.conn = "closing" => r.closed
  /\ r.conn # "open" => r.inbox = <<>>
  /\ r.opened <= r.attempt + 1
  /\ r.conn = "timer" => r.opened <= r.attempt
Good(r) == r \in CallType /\ CallOK(r)

\* Call i is no later than the current one, and can act only if it is the current one on a
\* page that watches the job.
Tended(i) ==
  /\ i > cur => calls[i] = NoCall
  /\ calls[i].conn \in Active => i = cur /\ here /\ Watches(status)
CallsOK == \A i \in CallIds : Good(calls[i]) /\ Tended(i)

\* The page is not left while it loads, and has no status before the job came.
LoadsOK ==
  /\ load.pc # "done" => here
  /\ load.pc \in {"job", "jobRead"} => status = "null"

\* Whatever is shown or under way was the server's stage once.
Passed == {Path[k] : k \in 1..at}
StagesOK ==
  /\ {status, load.stage} \subseteq Passed \cup Told
  /\ \A i \in CallIds : \A n \in 1..Len(calls[i].inbox) : calls[i].inbox[n] \in Passed

\* If the last change was heard, the last word under way tells it, or the status does.
Waiting == cur # 0 /\ calls[cur].inbox # <<>>
Last == calls[cur].inbox[Len(calls[cur].inbox)]
TrackInv ==
  here /\ ~missed =>
    /\ Waiting => Last = Stage
    /\ ~Waiting => status \in {Stage} \cup Told
    /\ load.pc = "jobRead" => load.stage \in {Stage, "undefined"}

LineTypes ==
  /\ calls \in [CallIds -> CallType] /\ at \in DOMAIN Path
  /\ status \in Stages \cup Told /\ cur \in 0..MaxCalls /\ drops \in 0..MaxDrops
  /\ missed \in BOOLEAN /\ here \in BOOLEAN

LineInv == LineTypes /\ CallsOK /\ LoadsOK /\ StagesOK /\ TrackInv

-----------------------------------------------------------------------------
(* The calls.                                                              *)

LEMMA CallFields ==
  ASSUME NEW r \in CallType
  PROVE  /\ r.conn \in Conns /\ r.attempt \in Nat /\ r.attempt <= MAX_ATTEMPTS
         /\ r.closed \in BOOLEAN /\ r.inbox \in Seq(Stages) /\ r.opened \in Nat
<1>1. r.attempt \in 0..MAX_ATTEMPTS /\ r.closed \in BOOLEAN
  BY DEF CallType
<1>2. r.conn \in Conns /\ r.inbox \in Seq(Stages) /\ r.opened \in Nat
  BY DEF CallType
<1> QED BY <1>1, <1>2, SocketAssumption

LEMMA NoCallGood == Good(NoCall) /\ Good(Started(NoCall))
<1>1. NoCall \in CallType
  BY SocketAssumption DEF NoCall, CallType, Conns
<1>2. NoCall.conn = "none" /\ NoCall.inbox = <<>> /\ NoCall.opened = 0 /\ NoCall.attempt = 0
  BY DEF NoCall
<1>3. /\ Started(NoCall) \in CallType
      /\ Started(NoCall).conn = "connecting" /\ Started(NoCall).inbox = NoCall.inbox
      /\ Started(NoCall).opened = 1 /\ Started(NoCall).attempt = NoCall.attempt
  BY <1>1 DEF Started, CallType, Conns, Sockets
<1> QED BY <1>1, <1>2, <1>3 DEF Good, CallOK

LEMMA CleanedGood ==
  ASSUME NEW r, Good(r)
  PROVE  Good(Cleaned(r)) /\ Cleaned(r).conn \notin Active /\ Cleaned(r).inbox = <<>>
<1> DEFINE c == Cleaned(r)
           k == CASE r.conn \in {"connecting", "open"} -> "closing"
                  [] r.conn = "timer"                  -> "over"
                  [] OTHER                             -> r.conn
<1>1. r \in CallType
  BY DEF Good
<1>2. k \in Conns \ Active /\ (k \notin {"closing", "over"} => k = r.conn)
  BY <1>1 DEF CallType, Conns, Sockets, Active
<1>3. c = [r EXCEPT !.closed = TRUE, !.inbox = <<>>, !.conn = k]
  BY <1>1 DEF Cleaned, CallType
<1>4. c \in CallType
  <2>1. <<>> \in Seq(Stages)
    OBVIOUS
  <2> HIDE DEF k
  <2> QED BY <1>1, <1>2, <1>3, <2>1 DEF CallType
<1>5. /\ c.conn = k /\ c.closed = TRUE /\ c.inbox = <<>>
      /\ c.opened = r.opened /\ c.attempt = r.attempt
  <2> HIDE DEF k
  <2> QED BY <1>1, <1>3 DEF CallType
<1>6. CallOK(c)
  <2> HIDE DEF c, k
  <2> QED BY <1>1, <1>2, <1>5 DEF Good, CallOK, Active
<1> QED BY <1>2, <1>4, <1>5, <1>6 DEF Good

LEMMA OpenedGood ==
  ASSUME NEW r, Good(r), r.conn = "connecting"
  PROVE  Good(Opened(r)) /\ Opened(r).conn = "open" /\ Opened(r).inbox = <<>>
<1>1. r \in CallType
  BY DEF Good
<1>2. Opened(r) \in CallType
  BY <1>1 DEF Opened, CallType, Conns, Sockets
<1>3. /\ Opened(r).conn = "open" /\ Opened(r).inbox = r.inbox
      /\ Opened(r).opened = r.opened /\ Opened(r).attempt = r.attempt
  BY <1>1 DEF Opened, CallType
<1> QED BY <1>1, <1>2, <1>3 DEF Good, CallOK

LEMMA ClosedGood ==
  ASSUME NEW r, Good(r), r.conn \in Sockets
  PROVE  /\ Good(Closed(r)) /\ Closed(r).conn \in {"timer", "over"} /\ Closed(r).inbox = <<>>
         /\ r.conn = "closing" => Closed(r).conn = "over"
<1>1. r \in CallType
  BY DEF Good
<1>4. r.conn = "closing" => GivesUp(r)
  BY DEF Good, CallOK, GivesUp
<1>2. CASE GivesUp(r)
  <2>1. Closed(r) = [r EXCEPT !.conn = "over", !.inbox = <<>>]
    BY <1>2 DEF Closed
  <2>2. /\ Closed(r).conn = "over" /\ Closed(r).inbox = <<>>
        /\ Closed(r).opened = r.opened /\ Closed(r).attempt = r.attempt
    BY <1>1, <2>1 DEF CallType
  <2>3. <<>> \in Seq(Stages)
    OBVIOUS
  <2>4. Closed(r) \in CallType
    BY <1>1, <2>1, <2>3 DEF CallType, Conns
  <2> QED BY <2>2, <2>4 DEF Good, CallOK
<1>3. CASE ~GivesUp(r)
  <2>1. ~r.closed /\ r.attempt < MAX_ATTEMPTS
    <3>1. ~r.closed /\ ~(r.attempt >= MAX_ATTEMPTS)
      BY <1>3 DEF GivesUp
    <3>2. r.attempt \in Nat /\ MAX_ATTEMPTS \in Nat
      BY <1>1, CallFields, SocketAssumption
    <3> QED BY <3>1, <3>2
  <2>2. Closed(r) = [r EXCEPT !.conn = "timer", !.attempt = r.attempt + 1, !.inbox = <<>>]
    BY <1>1, <1>3 DEF Closed, CallType
  <2>3. /\ Closed(r).conn = "timer" /\ Closed(r).inbox = <<>>
        /\ Closed(r).opened = r.opened /\ Closed(r).attempt = r.attempt + 1
    BY <1>1, <2>2 DEF CallType
  <2>4. <<>> \in Seq(Stages) /\ r.attempt + 1 \in 0..MAX_ATTEMPTS
    BY <1>1, <2>1, CallFields, SocketAssumption
  <2>5. Closed(r) \in CallType
    BY <1>1, <2>2, <2>4 DEF CallType, Conns
  <2>6. r.opened <= r.attempt + 1 /\ r.opened \in Nat /\ r.attempt \in Nat
    BY <1>1, CallFields DEF Good, CallOK
  <2> QED BY <1>3, <2>3, <2>5, <2>6, <1>4 DEF Good, CallOK
<1> QED BY <1>2, <1>3, <1>4

LEMMA ReopenedGood ==
  ASSUME NEW r, Good(r), r.conn = "timer"
  PROVE  Good(Reopened(r)) /\ Reopened(r).conn \in {"over", "connecting"} /\ Reopened(r).inbox = <<>>
<1>1. r \in CallType /\ r.inbox = <<>>
  BY DEF Good, CallOK
<1>2. CASE r.closed
  <2>1. /\ Reopened(r) \in CallType
        /\ Reopened(r).conn = "over" /\ Reopened(r).inbox = r.inbox
        /\ Reopened(r).opened = r.opened /\ Reopened(r).attempt = r.attempt
    BY <1>1, <1>2 DEF Reopened, CallType, Conns
  <2> QED BY <1>1, <2>1 DEF Good, CallOK
<1>3. CASE ~r.closed
  <2>1. /\ Reopened(r) \in CallType
        /\ Reopened(r).conn = "connecting" /\ Reopened(r).inbox = r.inbox
        /\ Reopened(r).opened = r.opened + 1 /\ Reopened(r).attempt = r.attempt
    <3>1. r.opened + 1 \in Nat
      BY <1>1, CallFields
    <3>2. Reopened(r) = [r EXCEPT !.conn = "connecting", !.opened = r.opened + 1]
      BY <1>1, <1>3 DEF Reopened, CallType
    <3> QED BY <1>1, <3>1, <3>2 DEF CallType, Conns, Sockets
  <2>2. r.opened <= r.attempt /\ r.opened \in Nat /\ r.attempt \in Nat
    BY <1>1, CallFields DEF Good, CallOK
  <2> QED BY <1>1, <2>1, <2>2 DEF Good, CallOK
<1> QED BY <1>2, <1>3

LEMMA HandledGood ==
  ASSUME NEW r, Good(r), r.conn = "open", NEW n \in 1..Len(r.inbox)
  PROVE  /\ Good(Handled(r, n)) /\ Handled(r, n).conn = "open"
         /\ Handled(r, n).inbox = SubSeq(r.inbox, n + 1, Len(r.inbox))
<1>1. r \in CallType
  BY DEF Good
<1>2. Handled(r, n) = [r EXCEPT !.inbox = SubSeq(r.inbox, n + 1, Len(r.inbox)),
                                !.lastStage = r.inbox[n]]
  BY <1>1 DEF Handled, CallType
<1>3. /\ Handled(r, n).conn = "open"
      /\ Handled(r, n).inbox = SubSeq(r.inbox, n + 1, Len(r.inbox))
      /\ Handled(r, n).opened = r.opened /\ Handled(r, n).attempt = r.attempt
  BY <1>1, <1>2 DEF CallType
<1>4. r.inbox \in Seq(Stages)
  BY <1>1 DEF CallType
<1>5. r.inbox[n] \in Stages
  BY <1>4, ElementOfSeq
<1>6. SubSeq(r.inbox, n + 1, Len(r.inbox)) \in Seq(Stages)
  <2> DEFINE b == r.inbox
  <2>1. \A x \in n + 1..Len(b) : b[x] \in Stages
    BY <1>4, ElementOfSeq
  <2> QED BY <1>4, <2>1, SubSeqProperties
<1>7. Handled(r, n) \in CallType
  <2> DEFINE b == SubSeq(r.inbox, n + 1, Len(r.inbox))
             l == r.inbox[n]
  <2> HIDE DEF b, l
  <2>1. Handled(r, n) = [r EXCEPT !.inbox = b, !.lastStage = l] /\ b \in Seq(Stages) /\ l \in Stages
    BY <1>2, <1>5, <1>6 DEF b, l
  <2> QED BY <1>1, <2>1 DEF CallType
<1> QED BY <1>3, <1>7 DEF Good, CallOK

LEMMA HearsGood ==
  ASSUME NEW r, Good(r), r.conn = "open", NEW st \in Stages
  PROVE  LET h == [r EXCEPT !.inbox = Append(@, st)] IN
         Good(h) /\ h.conn = "open" /\ h.inbox = Append(r.inbox, st)
<1> DEFINE h == [r EXCEPT !.inbox = Append(@, st)]
           b == Append(r.inbox, st)
<1>1. r \in CallType
  BY DEF Good
<1>2. b \in Seq(Stages)
  BY <1>1, CallFields, AppendProperties
<1> HIDE DEF b
<1>3. h = [r EXCEPT !.inbox = b]
  BY <1>1 DEF CallType, b
<1>4. h \in CallType /\ h.conn = "open" /\ h.inbox = b /\ h.opened = r.opened /\ h.attempt = r.attempt
  BY <1>1, <1>2, <1>3 DEF CallType
<1> HIDE DEF h
<1>5. Good(h) /\ h.conn = "open" /\ h.inbox = b
  BY <1>4 DEF Good, CallOK
<1> QED BY <1>5 DEF h, b

-----------------------------------------------------------------------------
(* One call moves, or the page follows another status.                     *)

LEMMA PassedGrows ==
  ASSUME at \in DOMAIN Path, at' \in DOMAIN Path, at' \in {at, at + 1}
  PROVE  Passed \subseteq Passed' /\ Stage' \in Passed' /\ Passed' \subseteq Stages
<1>1. DOMAIN Path = 1..Len(Path) /\ Len(Path) \in Nat
  BY PathAssumption
<1> QED BY <1>1 DEF Passed, Stage, Stages

LEMMA OneMoves ==
  ASSUME calls \in [CallIds -> CallType], CallsOK, NEW i \in CallIds, NEW r, Good(r),
         calls' = [calls EXCEPT ![i] = r], UNCHANGED <<cur, here, status>>,
         calls[i].conn # "none", r.conn \in Active => calls[i].conn \in Active
  PROVE  calls' \in [CallIds -> CallType] /\ CallsOK'
<1>1. calls' \in [CallIds -> CallType]
  BY DEF Good
<1>2. ASSUME NEW j \in CallIds PROVE Good(calls'[j]) /\ Tended(j)'
  <2>1. CASE j = i
    <3>1. calls'[j] = r
      BY <2>1
    <3>2. ~(j > cur)
      <4>1. Tended(j)
        BY DEF CallsOK
      <4>2. NoCall.conn = "none" /\ calls[j].conn # "none"
        BY <2>1 DEF NoCall
      <4> QED BY <4>1, <4>2 DEF Tended
    <3> QED BY <2>1, <3>1, <3>2 DEF CallsOK, Tended, Watches
  <2>2. CASE j # i
    <3>1. calls'[j] = calls[j]
      BY <2>2
    <3> QED BY <3>1 DEF CallsOK, Tended, Watches
  <2> QED BY <2>1, <2>2
<1> QED BY <1>1, <1>2 DEF CallsOK

LEMMA Followed ==
  ASSUME LineTypes, CallsOK, NEW st, st # status, Follow(st), status' = st, here' = here, here
  PROVE  /\ calls' \in [CallIds -> CallType] /\ cur' \in 0..MaxCalls /\ CallsOK'
         /\ \A i \in CallIds : calls'[i].inbox \in {<<>>, calls[i].inbox}
         /\ ~Waiting'
<1> DEFINE cleaned == [i \in CallIds |-> IF i = cur THEN Cleaned(calls[i]) ELSE calls[i]]
<1>1. cur \in 0..MaxCalls /\ CallIds = 1..MaxCalls /\ MaxCalls \in Nat
  BY SocketAssumption DEF LineTypes, CallIds
<1>2. ASSUME NEW i \in CallIds
      PROVE  /\ Good(cleaned[i]) /\ cleaned[i].conn \notin Active
             /\ cleaned[i].inbox \in {<<>>, calls[i].inbox} /\ (i = cur => cleaned[i].inbox = <<>>)
             /\ (i > cur => cleaned[i] = NoCall)
  <2>1. Good(calls[i]) /\ Tended(i)
    BY DEF CallsOK
  <2>2. CASE i = cur
    <3>1. cleaned[i] = Cleaned(calls[i])
      BY <2>2
    <3> QED BY <1>1, <2>1, <2>2, <3>1, CleanedGood
  <2>3. CASE i # cur
    <3>1. cleaned[i] = calls[i]
      BY <2>3
    <3> QED BY <2>1, <2>3, <3>1 DEF Tended
  <2> QED BY <2>2, <2>3
<1>3. CASE Watches(st)
  <2>1. cur < MaxCalls /\ cur' = cur + 1 /\ calls' = [cleaned EXCEPT ![cur + 1] = Started(NoCall)]
    BY <1>3 DEF Follow
  <2> HIDE DEF cleaned
  <2>2. cleaned \in [CallIds -> CallType]
    BY <1>2 DEF cleaned, Good
  <2>3. Started(NoCall).inbox = <<>>
    BY DEF Started, NoCall
  <2>4. cur + 1 \in CallIds /\ cur' \in 0..MaxCalls
    BY <1>1, <2>1
  <2>5. \A i \in CallIds : calls'[i] = IF i = cur + 1 THEN Started(NoCall) ELSE cleaned[i]
    BY <2>1, <2>2
  <2>6. calls' \in [CallIds -> CallType]
    BY <2>1, <2>2, NoCallGood DEF Good
  <2>7. \A i \in CallIds : Good(calls'[i]) /\ Tended(i)'
    <3> SUFFICES ASSUME NEW i \in CallIds PROVE Good(calls'[i]) /\ Tended(i)'
      OBVIOUS
    <3>1. CASE i = cur + 1
      BY <1>1, <1>3, <2>1, <2>5, <3>1, NoCallGood DEF Tended, Watches
    <3>2. CASE i # cur + 1
      BY <1>1, <1>2, <2>1, <2>5, <3>2 DEF Tended
    <3> QED BY <3>1, <3>2
  <2>8. \A i \in CallIds : calls'[i].inbox \in {<<>>, calls[i].inbox}
    BY <1>2, <2>3, <2>5
  <2>9. ~Waiting'
    BY <2>1, <2>3, <2>4, <2>5 DEF Waiting
  <2> QED BY <2>4, <2>6, <2>7, <2>8, <2>9 DEF CallsOK
<1>4. CASE ~Watches(st)
  <2>1. calls' = cleaned /\ cur' = cur
    BY <1>4 DEF Follow
  <2>2. calls' \in [CallIds -> CallType] /\ \A i \in CallIds : calls'[i] = cleaned[i]
    BY <1>2, <2>1 DEF Good
  <2> HIDE DEF cleaned
  <2>3. \A i \in CallIds : Good(calls'[i]) /\ Tended(i)'
    BY <1>2, <2>1, <2>2 DEF Tended
  <2>4. ~Waiting'
    BY <1>1, <1>2, <2>1, <2>2 DEF Waiting
  <2>5. \A i \in CallIds : calls'[i].inbox \in {<<>>, calls[i].inbox}
    BY <1>2, <2>2
  <2> QED BY <1>1, <2>1, <2>2, <2>3, <2>4, <2>5 DEF CallsOK
<1> QED BY <1>3, <1>4

\* Nothing but one inbox or the missed mark changes for the reader of the page.
LEMMA TrackKeeps ==
  ASSUME TrackInv, UNCHANGED <<cur, status, at, load, here>>, missed \in BOOLEAN, missed' \in BOOLEAN,
         ~missed' => ~missed /\ (cur # 0 => calls'[cur].inbox = calls[cur].inbox)
  PROVE  TrackInv'
<1> SUFFICES ASSUME here, ~missed'
             PROVE  /\ Waiting' => Last' = Stage'
                    /\ ~Waiting' => status' \in {Stage'} \cup Told
                    /\ load'.pc = "jobRead" => load'.stage \in {Stage', "undefined"}
  BY DEF TrackInv
<1>1. Waiting' <=> Waiting
  BY DEF Waiting
<1>2. Waiting => Last' = Last
  BY DEF Waiting, Last
<1>3. Stage' = Stage
  BY DEF Stage
<1> QED BY <1>1, <1>2, <1>3 DEF TrackInv

LEMMA StagesKept ==
  ASSUME LineTypes, StagesOK, at' \in DOMAIN Path, at' \in {at, at + 1},
         {status', load'.stage} \subseteq Passed \cup Passed' \cup Told,
         \A i \in CallIds : \A n \in 1..Len(calls'[i].inbox) : calls'[i].inbox[n] \in Passed \cup Passed'
  PROVE  StagesOK'
<1>1. Passed \subseteq Passed'
  BY PassedGrows DEF LineTypes
<1> QED BY <1>1 DEF StagesOK

-----------------------------------------------------------------------------
(* Every step keeps what is known of the calls, the status and the load.   *)

LoadType == [pc: Loads, stage: Stages \cup Told, text: Texts]

LEMMA InitLine == Init => LineInv /\ load \in LoadType
<1> SUFFICES ASSUME Init PROVE LineInv /\ load \in LoadType
  OBVIOUS
<1> USE DEF Init
<1>1. CallIds = 1..MaxCalls /\ MaxCalls \in Nat /\ MaxDrops \in Nat
  BY SocketAssumption, DropsAssumption DEF CallIds
<1>2. calls \in [CallIds -> CallType] /\ \A i \in CallIds : calls[i] = NoCall
  BY NoCallGood DEF Good
<1>3. LineTypes
  BY <1>1, <1>2 DEF LineTypes, Told
<1>4. CallsOK
  BY <1>2, NoCallGood DEF CallsOK, Tended, NoCall, Active
<1>5. LoadsOK
  BY DEF LoadsOK
<1>6. StagesOK
  <2>1. \A i \in CallIds : calls[i].inbox = <<>>
    BY <1>2 DEF NoCall
  <2> QED BY <2>1 DEF StagesOK, Told
<1>7. TrackInv
  BY DEF TrackInv
<1>8. load \in LoadType
  BY TextAssumption DEF LoadType, Loads, Told, Texts
<1> QED BY <1>3, <1>4, <1>5, <1>6, <1>7, <1>8 DEF LineInv

LEMMA AdvanceLine == LineInv /\ Advance => LineInv'
<1> SUFFICES ASSUME LineInv, Advance PROVE LineInv'
  OBVIOUS
<1> DEFINE st == Path[at + 1]
<1>1. /\ LineTypes /\ CallsOK /\ LoadsOK /\ StagesOK /\ TrackInv
      /\ at' = at + 1 /\ at' \in DOMAIN Path /\ Publish(st)
      /\ UNCHANGED <<drops, status, load, cur, here>>
  BY DEF LineInv, Advance, page
<1>2. st \in Stages /\ Stage' = st /\ st \in Passed' /\ Passed \subseteq Passed'
  BY <1>1, PassedGrows DEF LineTypes, Stage, Stages
<1> HIDE DEF st
<1>3. CASE st \in Heard /\ cur # 0 /\ calls[cur].conn = "open"
  <2> DEFINE h == [calls[cur] EXCEPT !.inbox = Append(@, st)]
  <2>1. cur \in CallIds /\ Good(calls[cur]) /\ Tended(cur)
    BY <1>1, <1>3, SocketAssumption DEF LineTypes, CallIds, CallsOK
  <2>2. calls' = [calls EXCEPT ![cur] = h] /\ missed' = FALSE
    BY <1>1, <1>3 DEF Publish
  <2>3. Good(h) /\ h.conn = "open" /\ h.inbox = Append(calls[cur].inbox, st)
    BY <1>2, <1>3, <2>1, HearsGood
  <2> HIDE DEF h
  <2>4. calls' \in [CallIds -> CallType] /\ CallsOK'
    BY <1>1, <1>3, <2>1, <2>2, <2>3, OneMoves DEF LineTypes
  <2>5. \A i \in CallIds : calls'[i].inbox = IF i = cur THEN h.inbox ELSE calls[i].inbox
    BY <1>1, <2>2 DEF LineTypes
  <2>6. /\ calls[cur].inbox \in Seq(Stages) /\ Len(h.inbox) = Len(calls[cur].inbox) + 1
        /\ h.inbox # <<>> /\ h.inbox[Len(h.inbox)] = st
        /\ \A n \in 1..Len(h.inbox) :
             h.inbox[n] = st \/ (n \in 1..Len(calls[cur].inbox) /\ h.inbox[n] = calls[cur].inbox[n])
    <3>1. calls[cur].inbox \in Seq(Stages)
      BY <2>1, CallFields DEF Good
    <3> QED BY <1>2, <2>3, <3>1, AppendProperties
  <2>7. StagesOK'
    <3>1. \A i \in CallIds : \A n \in 1..Len(calls'[i].inbox) : calls'[i].inbox[n] \in Passed'
      <4> SUFFICES ASSUME NEW i \in CallIds, NEW n \in 1..Len(calls'[i].inbox)
                   PROVE  calls'[i].inbox[n] \in Passed'
        OBVIOUS
      <4>1. CASE i = cur
        BY <1>1, <1>2, <2>1, <2>5, <2>6, <4>1 DEF StagesOK
      <4>2. CASE i # cur
        BY <1>1, <1>2, <2>5, <4>2 DEF StagesOK
      <4> QED BY <4>1, <4>2
    <3> QED BY <1>1, <1>2, <3>1 DEF StagesOK
  <2>8. TrackInv'
    <3>1. load.pc # "jobRead"
      BY <1>1, <1>3, <2>1 DEF LoadsOK, Tended, Watches, Active
    <3>2. Waiting' /\ Last' = st
      BY <1>1, <1>3, <2>1, <2>5, <2>6 DEF Waiting, Last
    <3> QED BY <1>1, <1>2, <3>1, <3>2 DEF TrackInv
  <2>9. LineTypes'
    BY <1>1, <2>2, <2>4 DEF LineTypes
  <2> QED BY <1>1, <2>4, <2>7, <2>8, <2>9 DEF LineInv, LoadsOK
<1>4. CASE ~(st \in Heard /\ cur # 0 /\ calls[cur].conn = "open")
  <2>1. calls' = calls /\ missed' = TRUE
    BY <1>1, <1>4 DEF Publish
  <2>2. LineTypes' /\ LoadsOK' /\ TrackInv'
    BY <1>1, <2>1 DEF LineTypes, LoadsOK, TrackInv
  <2>3. CallsOK'
    BY <1>1, <2>1 DEF CallsOK, Tended, Watches
  <2>4. StagesOK'
    BY <1>1, <1>2, <2>1 DEF StagesOK
  <2> QED BY <2>2, <2>3, <2>4 DEF LineInv
<1> QED BY <1>3, <1>4

\* A call of which only the socket or the timer moves.
LEMMA SocketLine ==
  ASSUME LineInv, NEW i \in CallIds, NEW r, Good(r), r.inbox = <<>>, calls' = [calls EXCEPT ![i] = r],
         UNCHANGED <<at, status, load, cur, here>>, drops' \in 0..MaxDrops, missed' \in BOOLEAN,
         ~missed' => ~missed /\ calls[i].inbox = <<>>,
         calls[i].conn # "none", r.conn \in Active => calls[i].conn \in Active
  PROVE  LineInv'
<1>1. LineTypes /\ CallsOK /\ LoadsOK /\ StagesOK /\ TrackInv
  BY DEF LineInv
<1>2. calls' \in [CallIds -> CallType] /\ CallsOK'
  BY <1>1, OneMoves DEF LineTypes
<1>3. \A j \in CallIds : calls'[j].inbox = IF j = i THEN <<>> ELSE calls[j].inbox
  BY <1>1 DEF LineTypes
<1>4. LineTypes' /\ LoadsOK'
  BY <1>1, <1>2 DEF LineTypes, LoadsOK
<1>5. StagesOK'
  BY <1>1, <1>3 DEF StagesOK, Passed
<1>6. cur # 0 => cur \in CallIds
  BY <1>1, SocketAssumption DEF LineTypes, CallIds
<1>7. TrackInv'
  BY <1>1, <1>3, <1>6, TrackKeeps DEF LineTypes
<1> QED BY <1>2, <1>4, <1>5, <1>7 DEF LineInv

LEMMA SocketsLine ==
  ASSUME LineInv, NEW i \in CallIds, SocketOpens(i) \/ SocketDrops(i) \/ CloseEvent(i) \/ TimerFires(i)
  PROVE  LineInv'
<1>1. LineTypes /\ CallsOK /\ Good(calls[i])
  BY DEF LineInv, CallsOK
<1>2. drops \in 0..MaxDrops /\ missed \in BOOLEAN
  BY <1>1 DEF LineTypes
<1>3. CASE SocketOpens(i)
  <2>1. /\ calls' = [calls EXCEPT ![i] = Opened(calls[i])] /\ calls[i].conn = "connecting"
        /\ UNCHANGED <<at, status, load, cur, here, drops, missed>>
    BY <1>3 DEF SocketOpens, server, page
  <2>2. calls[i].inbox = <<>>
    BY <1>1, <2>1 DEF Good, CallOK
  <2> QED BY <1>1, <1>2, <2>1, <2>2, OpenedGood, SocketLine DEF Active
<1>4. CASE SocketDrops(i)
  <2>1. /\ calls' = [calls EXCEPT ![i] = Closed(calls[i])] /\ calls[i].conn \in {"connecting", "open"}
        /\ drops < MaxDrops /\ drops' = drops + 1 /\ missed' = (missed \/ calls[i].inbox # <<>>)
        /\ UNCHANGED <<at, status, load, cur, here>>
    BY <1>4 DEF SocketDrops, page
  <2>2. drops' \in 0..MaxDrops
    BY <1>2, <2>1, DropsAssumption
  <2> QED BY <1>1, <1>2, <2>1, <2>2, ClosedGood, SocketLine DEF Active, Sockets
<1>5. CASE CloseEvent(i)
  <2>1. /\ calls' = [calls EXCEPT ![i] = Closed(calls[i])] /\ calls[i].conn = "closing"
        /\ UNCHANGED <<at, status, load, cur, here, drops, missed>>
    BY <1>5 DEF CloseEvent, server, page
  <2>2. calls[i].inbox = <<>>
    BY <1>1, <2>1 DEF Good, CallOK
  <2>3. Good(Closed(calls[i])) /\ Closed(calls[i]).inbox = <<>> /\ Closed(calls[i]).conn = "over"
    BY <1>1, <2>1, ClosedGood DEF Sockets
  <2> QED BY <1>1, <1>2, <2>1, <2>2, <2>3, SocketLine DEF Active
<1>6. CASE TimerFires(i)
  <2>1. /\ calls' = [calls EXCEPT ![i] = Reopened(calls[i])] /\ calls[i].conn = "timer"
        /\ UNCHANGED <<at, status, load, cur, here, drops, missed>>
    BY <1>6 DEF TimerFires, server, page
  <2>2. calls[i].inbox = <<>>
    BY <1>1, <2>1 DEF Good, CallOK
  <2> QED BY <1>1, <1>2, <2>1, <2>2, ReopenedGood, SocketLine DEF Active
<1> QED BY <1>3, <1>4, <1>5, <1>6

LEMMA LoadedFields ==
  ASSUME load \in LoadType, NEW pc \in Loads, Loaded(pc)
  PROVE  load' \in LoadType /\ load'.pc = pc /\ load'.stage = "null" /\ load'.text = 0
<1>1. load' = [load EXCEPT !.pc = pc, !.stage = "null", !.text = 0] /\ 0 \in Texts
  BY TextAssumption DEF Loaded, Texts
<1> QED BY <1>1 DEF LoadType, Told

LEMMA AnswersLoadLine ==
  ASSUME LineInv, load \in LoadType, text \in Texts, AnswersLoad
  PROVE  LineInv' /\ load' \in LoadType
<1>1. /\ LineTypes /\ CallsOK /\ LoadsOK /\ StagesOK /\ TrackInv
      /\ UNCHANGED <<calls, at, drops, status, cur, here>>
  BY DEF LineInv, AnswersLoad, server
<1>2. CallsOK'
  BY <1>1 DEF CallsOK, Tended, Watches
<1>3. Stage \in Passed /\ Stage \in Stages /\ Stage' = Stage /\ Passed' = Passed
  BY <1>1, PathAssumption DEF LineTypes, Stage, Stages, Passed
<1>4. CASE load.pc = "job"
  <2>1. PICK st \in {Stage, "undefined"} : load' = [load EXCEPT !.pc = "jobRead", !.stage = st]
    BY <1>4 DEF AnswersLoad
  <2>2. missed' = FALSE
    BY <1>4 DEF AnswersLoad
  <2>3. load' \in LoadType /\ load'.pc = "jobRead" /\ load'.stage = st
    BY <1>3, <2>1 DEF LoadType, Loads, Told
  <2>4. LineTypes' /\ LoadsOK'
    BY <1>1, <1>4, <2>2, <2>3 DEF LineTypes, LoadsOK
  <2>5. StagesOK'
    BY <1>1, <1>3, <2>3 DEF StagesOK, Told
  <2>6. ~Waiting
    <3>1. status = "null"
      BY <1>1, <1>4 DEF LoadsOK
    <3>2. ASSUME cur # 0 PROVE calls[cur].inbox = <<>>
      <4>1. cur \in CallIds
        BY <1>1, <3>2, SocketAssumption DEF LineTypes, CallIds
      <4> QED BY <1>1, <3>1, <4>1 DEF CallsOK, Tended, Good, CallOK, Watches, Active
    <3> QED BY <3>2 DEF Waiting
  <2>7. TrackInv'
    BY <1>1, <1>3, <1>4, <2>1, <2>3, <2>6 DEF TrackInv, Waiting, LoadsOK, Told
  <2> QED BY <1>2, <2>3, <2>4, <2>5, <2>7 DEF LineInv
<1>5. CASE load.pc # "job"
  <2>1. /\ load.pc = "transcript" /\ missed' = missed
        /\ load' = [load EXCEPT !.pc = "transcriptRead", !.text = text]
    BY <1>5 DEF AnswersLoad
  <2>2. load' \in LoadType /\ load'.pc = "transcriptRead" /\ load'.stage = load.stage
    BY <2>1 DEF LoadType, Loads
  <2>3. LineTypes' /\ LoadsOK'
    BY <1>1, <2>1, <2>2 DEF LineTypes, LoadsOK
  <2>4. StagesOK'
    BY <1>1, <1>3, <2>2 DEF StagesOK
  <2>5. TrackInv'
    BY <1>1, <1>3, <2>1, <2>2 DEF TrackInv, Waiting, Last
  <2> QED BY <1>2, <2>2, <2>3, <2>4, <2>5 DEF LineInv
<1> QED BY <1>4, <1>5

LEMMA JobArrivesLine ==
  ASSUME LineInv, load \in LoadType, JobArrives
  PROVE  LineInv' /\ load' \in LoadType
<1> DEFINE st == load.stage
           pc == IF st \in TRANSCRIPT_STAGES THEN "transcript" ELSE "done"
<1>1. /\ LineTypes /\ CallsOK /\ LoadsOK /\ StagesOK /\ TrackInv
      /\ load.pc = "jobRead" /\ status' = st /\ Loaded(pc) /\ Follow(st)
      /\ UNCHANGED <<at, drops, missed, here>>
  BY DEF LineInv, JobArrives, server
<1>2. pc \in {"transcript", "done"} /\ pc \in Loads /\ st \in Stages \cup Told
  BY DEF LoadType, Loads
<1>3. load' \in LoadType /\ load'.pc = pc /\ load'.stage = "null"
  BY <1>1, <1>2, LoadedFields
<1> HIDE DEF pc, st
<1>4. here /\ Stage' = Stage /\ Passed' = Passed
  BY <1>1 DEF LoadsOK, Stage, Passed
<1>5. st \in Passed \cup Told /\ (~missed => st \in {Stage, "undefined"})
  BY <1>1, <1>4 DEF StagesOK, TrackInv, st
<1>6. LoadsOK'
  BY <1>1, <1>2, <1>3, <1>4 DEF LoadsOK
<1>7. CASE st = status
  <2>1. calls' = calls /\ cur' = cur
    BY <1>1, <1>7 DEF Follow
  <2>2. LineTypes' /\ CallsOK'
    BY <1>1, <1>7, <2>1 DEF LineTypes, CallsOK, Tended, Watches
  <2>3. StagesOK'
    BY <1>1, <1>3, <1>4, <1>7, <2>1 DEF StagesOK, Told
  <2>4. TrackInv'
    BY <1>1, <1>2, <1>3, <1>4, <1>7, <2>1 DEF TrackInv, Waiting, Last
  <2> QED BY <1>3, <1>6, <2>2, <2>3, <2>4 DEF LineInv
<1>8. CASE st # status
  <2>1. /\ calls' \in [CallIds -> CallType] /\ cur' \in 0..MaxCalls /\ CallsOK' /\ ~Waiting'
        /\ \A i \in CallIds : calls'[i].inbox \in {<<>>, calls[i].inbox}
    BY <1>1, <1>4, <1>8, Followed
  <2>2. LineTypes'
    BY <1>1, <1>2, <2>1 DEF LineTypes
  <2>3. StagesOK'
    <3>1. \A i \in CallIds : \A n \in 1..Len(calls'[i].inbox) : calls'[i].inbox[n] \in Passed'
      <4> SUFFICES ASSUME NEW i \in CallIds, NEW n \in 1..Len(calls'[i].inbox)
                   PROVE  calls'[i].inbox[n] \in Passed'
        OBVIOUS
      <4>1. calls'[i].inbox # <<>>
        OBVIOUS
      <4> QED BY <1>1, <1>4, <2>1, <4>1 DEF StagesOK
    <3> QED BY <1>1, <1>3, <1>4, <1>5, <3>1 DEF StagesOK, Told
  <2>4. TrackInv'
    BY <1>1, <1>2, <1>3, <1>4, <1>5, <2>1 DEF TrackInv, Told
  <2> QED BY <1>3, <1>6, <2>1, <2>2, <2>3, <2>4 DEF LineInv
<1> QED BY <1>7, <1>8

\* The rest of the load reads the transcript only.
LEMMA LoadEndsLine ==
  ASSUME LineInv, load \in LoadType, TranscriptArrives \/ LoadFails
  PROVE  LineInv' /\ load' \in LoadType
<1>1. /\ LineTypes /\ CallsOK /\ LoadsOK /\ StagesOK /\ TrackInv /\ Loaded("done")
      /\ UNCHANGED <<calls, at, drops, missed, status, cur, here>>
  BY DEF LineInv, TranscriptArrives, LoadFails, server
<1>2. load' \in LoadType /\ load'.pc = "done" /\ load'.stage = "null"
  BY <1>1, LoadedFields DEF Loads
<1>3. LineTypes' /\ LoadsOK'
  BY <1>1, <1>2 DEF LineTypes, LoadsOK
<1>4. CallsOK'
  BY <1>1 DEF CallsOK, Tended, Watches
<1>5. StagesOK'
  BY <1>1, <1>2 DEF StagesOK, Told, Passed
<1>6. TrackInv'
  BY <1>1, <1>2 DEF TrackInv, Waiting, Last, Stage
<1> QED BY <1>2, <1>3, <1>4, <1>5, <1>6 DEF LineInv

LEMMA EventLine ==
  ASSUME LineInv, NEW i \in CallIds, Event(i)
  PROVE  LineInv' /\ load' = load
<1> DEFINE box == calls[i].inbox
<1>1. PICK n \in 1..Len(box) :
         LET new == Taken(status, SubSeq(box, 1, n)[n]) IN
         /\ status' = new
         /\ IF new = status
            THEN calls' = [calls EXCEPT ![i] = Handled(@, n)] /\ UNCHANGED <<cur, missed>>
            ELSE Follow(new) /\ missed' = (missed \/ n < Len(box))
  BY DEF Event
<1>2. /\ LineTypes /\ CallsOK /\ LoadsOK /\ StagesOK /\ TrackInv
      /\ calls[i].conn = "open" /\ UNCHANGED <<at, drops, load, here>>
  BY DEF LineInv, Event, server
<1>3. Good(calls[i]) /\ i = cur /\ here /\ Watches(status) /\ cur # 0
  BY <1>2, SocketAssumption DEF CallsOK, Tended, Active, CallIds
<1>4. box \in Seq(Stages)
  BY <1>3, CallFields DEF Good
<1> DEFINE st == box[n]
<1>5. st \in Stages /\ st \in Passed /\ SubSeq(box, 1, n)[n] = st
  <2>1. \A x \in 1..n : box[x] \in Stages
    BY <1>4, ElementOfSeq
  <2> QED BY <1>2, <1>4, <2>1, SubSeqProperties, ElementOfSeq DEF StagesOK
<1>6. Taken(status, SubSeq(box, 1, n)[n]) = st
  BY <1>3, <1>5 DEF Taken, Watches
<1>7. Passed' = Passed /\ Stage' = Stage /\ LoadsOK'
  <2>1. load.pc \notin {"job", "jobRead"}
    BY <1>2, <1>3 DEF LoadsOK, Watches
  <2> QED BY <1>2, <2>1 DEF Passed, Stage, LoadsOK
<1>8. ~missed => box[Len(box)] = Stage
  BY <1>2, <1>3, <1>4, EmptySeq DEF TrackInv, Waiting, Last
<1>9. load.pc # "jobRead"
  BY <1>2, <1>3 DEF LoadsOK, Watches
<1>10. CASE st = status
  <2> DEFINE r == Handled(calls[i], n)
  <2>1. calls' = [calls EXCEPT ![i] = r] /\ UNCHANGED <<cur, missed, status>>
    BY <1>1, <1>6, <1>10
  <2>2. Good(r) /\ r.conn = "open" /\ r.inbox = SubSeq(box, n + 1, Len(box))
    BY <1>2, <1>3, HandledGood
  <2> HIDE DEF r
  <2>3. calls' \in [CallIds -> CallType] /\ CallsOK'
    BY <1>2, <2>1, <2>2, OneMoves DEF LineTypes
  <2>4. \A j \in CallIds : calls'[j].inbox = IF j = i THEN r.inbox ELSE calls[j].inbox
    BY <1>2, <2>1 DEF LineTypes
  <2>5. /\ Len(r.inbox) = Len(box) - n
        /\ \A m \in 1..Len(r.inbox) : r.inbox[m] = box[m + n] /\ m + n \in 1..Len(box)
    <3>1. \A x \in n + 1..Len(box) : box[x] \in Stages
      BY <1>4, ElementOfSeq
    <3>2. Len(box) \in Nat /\ n \in 1..Len(box) /\ n + 1 \in 1..Len(box) + 1
      BY <1>4
    <3> DEFINE e == Len(box)
               f == n + 1
    <3>3. /\ Len(SubSeq(box, f, e)) = IF f <= e THEN e - f + 1 ELSE 0
          /\ \A m \in 1..(e - f + 1) : SubSeq(box, f, e)[m] = box[f + m - 1]
      <4>1. e \in Int /\ f \in Int
        BY <3>2
      <4> HIDE DEF e, f
      <4> QED BY <1>4, <3>1, <4>1, SubSeqProperties DEF e, f
    <3>4. Len(r.inbox) = Len(box) - n
      BY <2>2, <3>2, <3>3
    <3>5. \A m \in 1..Len(box) - n : r.inbox[m] = box[m + n] /\ m + n \in 1..Len(box)
      <4> SUFFICES ASSUME NEW m \in 1..Len(box) - n
                   PROVE  r.inbox[m] = box[m + n] /\ m + n \in 1..Len(box)
        OBVIOUS
      <4>1. e - f + 1 = Len(box) - n /\ f + m - 1 = m + n /\ m + n \in 1..Len(box)
        BY <3>2
      <4>2. SubSeq(box, f, e)[m] = box[f + m - 1]
        BY <3>3, <4>1
      <4>3. box[f + m - 1] = box[m + n]
        BY <4>1
      <4> QED BY <2>2, <4>1, <4>2, <4>3
    <3> QED BY <3>4, <3>5
  <2>6. r.inbox = <<>> => n = Len(box)
    BY <1>4, <2>5
  <2>7. LineTypes'
    BY <1>2, <2>1, <2>3 DEF LineTypes
  <2>8. StagesOK'
    <3>1. \A j \in CallIds : \A m \in 1..Len(calls'[j].inbox) : calls'[j].inbox[m] \in Passed
      BY <1>2, <2>4, <2>5 DEF StagesOK
    <3> QED BY <1>2, <1>7, <2>1, <3>1 DEF StagesOK
  <2>9. TrackInv'
    <3> SUFFICES ASSUME ~missed
                 PROVE  (Waiting' => Last' = Stage') /\ (~Waiting' => status' = Stage')
      BY <1>2, <1>9, <2>1 DEF TrackInv
    <3>1. calls'[cur].inbox = r.inbox /\ cur' = cur
      BY <1>3, <2>1, <2>4
    <3>2. ASSUME Waiting' PROVE Last' = Stage'
      <4>1. Len(r.inbox) \in 1..Len(r.inbox) /\ Len(r.inbox) + n = Len(box)
        <5>1. r.inbox \in Seq(Stages) /\ r.inbox # <<>>
          BY <2>2, <3>1, <3>2, CallFields DEF Good, Waiting
        <5> QED BY <1>4, <2>5, <5>1, EmptySeq
      <4> QED BY <1>7, <1>8, <2>5, <3>1, <4>1 DEF Last
    <3>3. ASSUME ~Waiting' PROVE status' = Stage'
      BY <1>3, <1>7, <1>8, <1>10, <2>1, <2>6, <3>1, <3>3 DEF Waiting
    <3> QED BY <3>2, <3>3
  <2> QED BY <1>2, <1>7, <2>3, <2>7, <2>8, <2>9 DEF LineInv
<1>11. CASE st # status
  <2>1. Follow(st) /\ status' = st /\ missed' = (missed \/ n < Len(box))
    BY <1>1, <1>6, <1>11
  <2>2. /\ calls' \in [CallIds -> CallType] /\ cur' \in 0..MaxCalls /\ CallsOK' /\ ~Waiting'
        /\ \A j \in CallIds : calls'[j].inbox \in {<<>>, calls[j].inbox}
    BY <1>2, <1>3, <1>11, <2>1, Followed
  <2>3. LineTypes'
    <3>1. missed' \in BOOLEAN
      BY <2>1
    <3> QED BY <1>2, <1>5, <2>1, <2>2, <3>1 DEF LineTypes
  <2>4. StagesOK'
    <3>1. \A j \in CallIds : \A m \in 1..Len(calls'[j].inbox) : calls'[j].inbox[m] \in Passed
      <4> SUFFICES ASSUME NEW j \in CallIds, NEW m \in 1..Len(calls'[j].inbox)
                   PROVE  calls'[j].inbox[m] \in Passed
        OBVIOUS
      <4>1. calls'[j].inbox # <<>>
        OBVIOUS
      <4> QED BY <1>2, <2>2, <4>1 DEF StagesOK
    <3> QED BY <1>2, <1>5, <1>7, <2>1, <3>1 DEF StagesOK
  <2>5. TrackInv'
    <3>1. ~missed' => ~missed /\ n = Len(box)
      <4>1. Len(box) \in Nat /\ n \in 1..Len(box)
        BY <1>4
      <4>2. ~missed' => ~missed /\ ~(n < Len(box))
        BY <2>1
      <4> QED BY <4>1, <4>2
    <3> QED BY <1>2, <1>7, <1>8, <1>9, <2>1, <2>2, <3>1 DEF TrackInv
  <2> QED BY <1>2, <1>7, <2>2, <2>3, <2>4, <2>5 DEF LineInv
<1> QED BY <1>2, <1>10, <1>11

LEMMA LeaveLine ==
  ASSUME LineInv, load \in LoadType, Leave
  PROVE  LineInv' /\ load' \in LoadType
<1>1. /\ LineTypes /\ CallsOK /\ LoadsOK /\ StagesOK /\ here' = FALSE /\ status' = "null" /\ Loaded("done")
      /\ calls' = [i \in CallIds |-> IF i = cur THEN Cleaned(calls[i]) ELSE calls[i]]
      /\ UNCHANGED <<at, drops, missed, cur>>
  BY DEF LineInv, Leave, server
<1>2. load' \in LoadType /\ load'.pc = "done" /\ load'.stage = "null"
  BY <1>1, LoadedFields DEF Loads
<1>3. ASSUME NEW i \in CallIds
      PROVE  Good(calls'[i]) /\ Tended(i)' /\ calls'[i].inbox \in {<<>>, calls[i].inbox}
  <2>1. Good(calls[i]) /\ Tended(i)
    BY <1>1 DEF CallsOK
  <2>2. CASE i = cur
    <3>1. calls'[i] = Cleaned(calls[i])
      BY <1>1, <2>2
    <3>2. cur \in Nat
      BY <1>1 DEF LineTypes
    <3> QED BY <1>1, <2>1, <2>2, <3>1, <3>2, CleanedGood DEF Tended
  <2>3. CASE i # cur
    BY <1>1, <2>1, <2>3 DEF Tended
  <2> QED BY <2>2, <2>3
<1>4. calls' \in [CallIds -> CallType]
  <2>1. \A i \in CallIds : calls'[i] \in CallType
    BY <1>3 DEF Good
  <2> QED BY <1>1, <2>1
<1>5. LineTypes' /\ CallsOK' /\ LoadsOK'
  BY <1>1, <1>2, <1>3, <1>4 DEF LineTypes, CallsOK, LoadsOK, Told
<1>6. StagesOK'
  <2>1. Passed' = Passed
    BY <1>1 DEF Passed
  <2>2. \A i \in CallIds : \A n \in 1..Len(calls'[i].inbox) : calls'[i].inbox[n] \in Passed
    <3> SUFFICES ASSUME NEW i \in CallIds, NEW n \in 1..Len(calls'[i].inbox)
                 PROVE  calls'[i].inbox[n] \in Passed
      OBVIOUS
    <3>1. calls'[i].inbox # <<>>
      OBVIOUS
    <3> QED BY <1>1, <1>3, <3>1 DEF StagesOK
  <2> QED BY <1>1, <1>2, <2>1, <2>2 DEF StagesOK, Told
<1>7. TrackInv'
  BY <1>1 DEF TrackInv
<1> QED BY <1>2, <1>5, <1>6, <1>7 DEF LineInv

LEMMA SameLine ==
  ASSUME LineInv, UNCHANGED <<calls, at, drops, missed, status, load, cur, here>>
  PROVE  LineInv'
<1>1. /\ LineTypes /\ CallsOK /\ LoadsOK /\ StagesOK /\ TrackInv
  BY DEF LineInv
<1>2. LineTypes' /\ LoadsOK'
  BY <1>1 DEF LineTypes, LoadsOK
<1>3. CallsOK'
  BY <1>1 DEF CallsOK, Tended, Watches
<1>4. StagesOK'
  BY <1>1 DEF StagesOK, Passed
<1>5. TrackInv'
  BY <1>1 DEF TrackInv, Waiting, Last, Stage
<1> QED BY <1>2, <1>3, <1>4, <1>5 DEF LineInv

LEMMA NextLine ==
  ASSUME LineInv, load \in LoadType, text \in Texts, [Next]_vars
  PROVE  LineInv' /\ load' \in LoadType
<1> DEFINE Quiet == UNCHANGED <<calls, at, drops, missed, status, load, cur, here>>
<1>1. CASE Advance
  BY <1>1, AdvanceLine DEF Advance, page
<1>2. CASE AnswersLoad
  BY <1>2, AnswersLoadLine
<1>3. CASE JobArrives
  BY <1>3, JobArrivesLine
<1>4. CASE TranscriptArrives \/ LoadFails
  BY <1>4, LoadEndsLine
<1>5. ASSUME NEW i \in CallIds, SocketOpens(i) \/ SocketDrops(i) \/ CloseEvent(i) \/ TimerFires(i)
      PROVE  LineInv' /\ load' \in LoadType
  <2>1. load' = load
    BY <1>5 DEF SocketOpens, SocketDrops, CloseEvent, TimerFires, page
  <2> QED BY <1>5, <2>1, SocketsLine
<1>6. ASSUME NEW i \in CallIds, Event(i) PROVE LineInv' /\ load' \in LoadType
  BY <1>6, EventLine
<1>7. CASE Leave
  BY <1>7, LeaveLine
<1>8. CASE AnswersFetch \/ FetchFails \/ \E t \in Texts : FetchArrives(t)
  <2>1. Quiet
    BY <1>8 DEF AnswersFetch, FetchFails, FetchArrives, server
  <2> QED BY <2>1, SameLine
<1>9. CASE \E s \in saves : AnswersSave(s) \/ SaveArrives(s)
  <2>1. Quiet
    BY <1>9 DEF AnswersSave, SaveArrives, server, page
  <2> QED BY <2>1, SameLine
<1>10. CASE Type \/ PressSave \/ onKey \/ PressEditorSave \/ Revert
  <2>1. Quiet
    BY <1>10 DEF Type, PressSave, onKey, PressEditorSave, Saves, Revert, server, page
  <2> QED BY <2>1, SameLine
<1>11. CASE UNCHANGED vars
  <2>1. Quiet
    BY <1>11 DEF vars, server, page
  <2> QED BY <2>1, SameLine
<1> QED BY <1>1, <1>2, <1>3, <1>4, <1>5, <1>6, <1>7, <1>8, <1>9, <1>10, <1>11 DEF Next

-----------------------------------------------------------------------------
(* The texts.                                                              *)

EdType == [mounted: BOOLEAN, local: Texts, baseline: Texts, saving: BOOLEAN]
FetchType == [sent: Nat, read: [Texts -> Nat]]
Had == stored \cup {0}

TextTypes ==
  /\ text \in Texts /\ segs \in Texts /\ stored \subseteq Texts /\ words \in Texts
  /\ fetches \in FetchType

\* Every text under way to the page is one the server has had.
AnswersOK ==
  /\ text \in stored /\ segs \in Had /\ load.text \in Had
  /\ \A t \in Texts : fetches.read[t] > 0 => t \in stored

\* So is the baseline; nobody types into the empty list of segments.
EdOK ==
  /\ ed \in EdType
  /\ ed.baseline \in Had
  /\ ed.baseline = 0 => ed.local = 0

\* A mounted editor that is not saving has no request under way.
SavesOK ==
  /\ saves \subseteq Save /\ mounts \in Nat
  /\ \A s \in saves : s.by <= mounts
  /\ \A s, t \in saves : s.by = t.by => s = t
  /\ ed.mounted /\ ~ed.saving => \A s \in saves : s.by # mounts
  /\ \A s \in saves : s.state = "stored" => s.sent \in stored

TextInv == TextTypes /\ AnswersOK /\ EdOK /\ SavesOK

LEMMA NoEditorOK == ed' = NoEditor /\ 0 \in Had' => EdOK' /\ ~ed'.mounted
<1>1. 0 \in Texts
  BY TextAssumption DEF Texts
<1>2. NoEditor \in EdType /\ NoEditor.baseline = 0 /\ NoEditor.local = 0 /\ NoEditor.mounted = FALSE
  BY <1>1 DEF NoEditor, EdType
<1> QED BY <1>2 DEF EdOK

LEMMA ShowsOK ==
  ASSUME NEW e \in EdType, NEW t \in Texts
  PROVE  /\ Shows(e, t) \in EdType /\ Shows(e, t).local = t /\ Shows(e, t).baseline = t
         /\ Shows(e, t).mounted = e.mounted /\ Shows(e, t).saving = e.saving
BY DEF Shows, EdType

LEMMA SavingOK ==
  ASSUME NEW e \in EdType
  PROVE  LET d == [e EXCEPT !.saving = TRUE]
             f == [e EXCEPT !.saving = FALSE] IN
         /\ d \in EdType /\ d.saving = TRUE /\ d.local = e.local /\ d.baseline = e.baseline
         /\ d.mounted = e.mounted
         /\ f \in EdType /\ f.saving = FALSE /\ f.local = e.local /\ f.baseline = e.baseline
         /\ f.mounted = e.mounted
BY DEF EdType

\* A request of an editor that has none under way.
LEMMA OneMoreSave ==
  ASSUME SavesOK, NEW t \in Texts, mounts' \in {mounts, mounts + 1}, stored' = stored,
         mounts' = mounts => \A s \in saves : s.by # mounts,
         saves' = saves \cup {[by |-> mounts', sent |-> t, state |-> "sent"]}, ed'.saving = TRUE
  PROVE  SavesOK'
<1> DEFINE new == [by |-> mounts', sent |-> t, state |-> "sent"]
<1>1. mounts' \in Nat /\ mounts <= mounts'
  BY DEF SavesOK
<1>2. new \in Save /\ new.by = mounts' /\ new.state = "sent"
  BY <1>1 DEF Save
<1> HIDE DEF new
<1>3. saves' = saves \cup {new}
  BY DEF new
<1>4. \A s \in saves : s.by \in Nat /\ s.by <= mounts /\ s.by # mounts'
  BY DEF SavesOK, Save
<1>5. \A s, u \in saves' : s.by = u.by => s = u
  BY <1>2, <1>3, <1>4 DEF SavesOK
<1>6. \A s \in saves' : s.by <= mounts'
  BY <1>1, <1>2, <1>3, <1>4 DEF SavesOK
<1>7. \A s \in saves' : s.state = "stored" => s.sent \in stored'
  BY <1>2, <1>3 DEF SavesOK
<1> QED BY <1>1, <1>2, <1>3, <1>5, <1>6, <1>7 DEF SavesOK

LEMMA MountOK ==
  ASSUME EdOK, SavesOK, stored' = stored, NEW t \in Texts, t \in Had, Mount(t)
  PROVE  EdOK' /\ SavesOK'
<1> DEFINE n == [NoEditor EXCEPT !.mounted = TRUE]
           e == Shows(n, t)
           d == [e EXCEPT !.saving = TRUE]
<1>1. n \in EdType /\ n.saving = FALSE
  <2>1. NoEditor \in EdType /\ NoEditor.saving = FALSE
    BY TextAssumption DEF NoEditor, EdType, Texts
  <2> QED BY <2>1 DEF EdType
<1>2. e \in EdType /\ e.saving = FALSE /\ e.local = t /\ e.baseline = t
  BY <1>1, ShowsOK
<1> HIDE DEF n, e
<1>3. /\ mounts' = mounts + 1 /\ ed' = d
      /\ saves' = saves \cup {[by |-> mounts', sent |-> t, state |-> "sent"]}
  BY <1>2 DEF Mount, handleSave, n, e
<1>4. ed' \in EdType /\ ed'.saving = TRUE /\ ed'.local = t /\ ed'.baseline = t
  BY <1>2, <1>3, SavingOK
<1>5. EdOK'
  BY <1>4 DEF EdOK, Had
<1>6. SavesOK'
  <2>1. mounts' # mounts
    BY <1>3 DEF SavesOK
  <2> QED BY <1>3, <1>4, <2>1, OneMoreSave
<1> QED BY <1>5, <1>6

LEMMA RenderedOK ==
  ASSUME EdOK, SavesOK, stored' = stored, NEW t \in Texts, t \in Had, NEW st, NEW pc, Rendered(st, pc, t)
  PROVE  EdOK' /\ SavesOK'
<1>1. CASE ~ShowsEditor(st, pc)
  <2>1. ed' = NoEditor /\ UNCHANGED <<saves, mounts>>
    BY <1>1 DEF Rendered
  <2>2. EdOK' /\ ~ed'.mounted
    BY <2>1, NoEditorOK DEF Had
  <2> QED BY <2>1, <2>2 DEF SavesOK
<1>2. CASE ShowsEditor(st, pc) /\ ~ed.mounted
  BY <1>2, MountOK DEF Rendered
<1>3. CASE ShowsEditor(st, pc) /\ ed.mounted
  BY <1>3 DEF Rendered, editor, EdOK, SavesOK, Had
<1> QED BY <1>1, <1>2, <1>3

-----------------------------------------------------------------------------
(* Every step keeps the texts.                                             *)

LEMMA InitText == Init => TextInv
<1> SUFFICES ASSUME Init PROVE TextInv
  OBVIOUS
<1>1. MaxText \in Nat \ {0} /\ Texts = 0..MaxText /\ text \in Texts /\ stored = {text}
  BY TextAssumption DEF Init, Texts
<1>2. fetches = NoFetch /\ NoFetch.sent = 0 /\ \A t \in Texts : NoFetch.read[t] = 0
  BY DEF Init, NoFetch
<1>3. NoFetch \in FetchType
  BY DEF NoFetch, FetchType
<1>4. load.text = 0 /\ segs = 0 /\ words = 1
  BY DEF Init
<1>5. TextTypes /\ AnswersOK
  BY <1>1, <1>2, <1>3, <1>4 DEF TextTypes, AnswersOK, Had
<1>6. EdOK
  <2>1. ed = NoEditor
    BY DEF Init
  <2>2. NoEditor \in EdType /\ NoEditor.baseline = 0 /\ NoEditor.local = 0
    BY <1>1 DEF NoEditor, EdType
  <2> QED BY <2>1, <2>2 DEF EdOK, Had
<1>7. SavesOK
  BY DEF Init, SavesOK
<1> QED BY <1>5, <1>6, <1>7 DEF TextInv

LEMMA SameText ==
  ASSUME TextInv, UNCHANGED <<text, stored, words, segs, fetches, editor>>,
         load'.text \in {load.text, 0, text}
  PROVE  TextInv'
<1>1. TextTypes' /\ AnswersOK'
  BY DEF TextInv, TextTypes, AnswersOK, Had
<1>2. EdOK' /\ SavesOK'
  BY DEF TextInv, EdOK, SavesOK, Had, editor
<1> QED BY <1>1, <1>2 DEF TextInv

LEMMA AdvanceText == TextInv /\ Advance => TextInv'
<1> SUFFICES ASSUME TextInv, Advance PROVE TextInv'
  OBVIOUS
<1>1. /\ text' \in {text, 1} /\ stored' = stored \cup {text'}
      /\ UNCHANGED <<words, segs, fetches, load, ed, saves, mounts>>
  BY DEF Advance, page, editor
<1>2. 1 \in Texts
  BY TextAssumption DEF Texts
<1>3. TextTypes' /\ AnswersOK'
  BY <1>1, <1>2 DEF TextInv, TextTypes, AnswersOK, Had
<1>4. EdOK' /\ SavesOK'
  BY <1>1 DEF TextInv, EdOK, SavesOK, Had
<1> QED BY <1>3, <1>4 DEF TextInv

LEMMA LoadText ==
  ASSUME TextInv, load \in LoadType, AnswersLoad \/ JobArrives \/ TranscriptArrives \/ LoadFails
  PROVE  TextInv'
<1>1. TextTypes /\ AnswersOK /\ EdOK /\ SavesOK
  BY DEF TextInv
<1>2. CASE AnswersLoad
  <2>1. load'.text \in {load.text, text} /\ UNCHANGED <<text, stored, words, segs, fetches, editor>>
    BY <1>2 DEF AnswersLoad, LoadType, server
  <2> QED BY <2>1, SameText
<1>3. ASSUME Loaded("done") \/ Loaded("transcript"), UNCHANGED <<text, stored, words, fetches>>,
             NEW st, NEW pc, segs' \in Texts, segs' \in Had, Rendered(st, pc, segs')
      PROVE  TextInv'
  <2>1. load'.text = 0
    BY <1>3, LoadedFields DEF Loads
  <2>2. EdOK' /\ SavesOK'
    <3> DEFINE new == segs'
    <3>1. new \in Texts /\ new \in Had /\ Rendered(st, pc, new) /\ stored' = stored
      BY <1>3
    <3> HIDE DEF new
    <3> QED BY <1>1, <3>1, RenderedOK
  <2>3. TextTypes' /\ AnswersOK'
    BY <1>1, <1>3, <2>1 DEF TextTypes, AnswersOK, Had
  <2> QED BY <2>2, <2>3 DEF TextInv
<1>4. segs \in Texts /\ segs \in Had /\ load.text \in Texts /\ load.text \in Had
  BY <1>1 DEF TextTypes, AnswersOK, LoadType
<1>5. CASE JobArrives
  <2> DEFINE st == load.stage
             pc == IF st \in TRANSCRIPT_STAGES THEN "transcript" ELSE "done"
  <2>1. Loaded(pc) /\ Rendered(st, pc, segs) /\ segs' = segs /\ UNCHANGED <<text, stored, words, fetches>>
    BY <1>5 DEF JobArrives, server
  <2>2. Loaded("done") \/ Loaded("transcript")
    BY <2>1
  <2> HIDE DEF st, pc
  <2> QED BY <1>3, <1>4, <2>1, <2>2
<1>6. CASE TranscriptArrives
  BY <1>3, <1>4, <1>6 DEF TranscriptArrives, server
<1>7. CASE LoadFails
  BY <1>3, <1>4, <1>7 DEF LoadFails, server
<1> QED BY <1>2, <1>5, <1>6, <1>7

LEMMA EventText == ASSUME TextInv, NEW i \in CallIds, LineInv, Event(i) PROVE TextInv'
<1> DEFINE box == calls[i].inbox
           asks(n) == {k \in 1..n : SubSeq(box, 1, n)[k] \in TRANSCRIPT_STAGES}
<1>1. PICK n \in 1..Len(box) :
         /\ fetches' = [fetches EXCEPT !.sent = @ + Cardinality(asks(n))]
         /\ Rendered(Taken(status, SubSeq(box, 1, n)[n]), load.pc, segs)
  BY DEF Event
<1>2. UNCHANGED <<text, stored, words, load, segs>> /\ TextTypes /\ AnswersOK /\ EdOK /\ SavesOK
  BY DEF Event, server, TextInv
<1>3. Cardinality(asks(n)) \in Nat
  <2>1. box \in Seq(Stages)
    BY CallFields DEF LineInv, CallsOK, Good
  <2>2. n \in Nat /\ IsFiniteSet(1..n) /\ asks(n) \subseteq 1..n
    BY <2>1, FS_Interval
  <2> QED BY <2>2, FS_Subset, FS_CardinalityType
<1> HIDE DEF asks
<1>4. fetches' \in FetchType /\ fetches'.read = fetches.read
  BY <1>1, <1>2, <1>3 DEF FetchType, TextTypes
<1>5. TextTypes' /\ AnswersOK'
  BY <1>2, <1>4 DEF TextTypes, AnswersOK, Had
<1>6. EdOK' /\ SavesOK'
  <2>1. segs \in Texts /\ segs \in Had
    BY <1>2 DEF TextTypes, AnswersOK
  <2> QED BY <1>1, <1>2, <2>1, RenderedOK
<1> QED BY <1>5, <1>6 DEF TextInv

LEMMA FetchText ==
  ASSUME TextInv, AnswersFetch \/ FetchFails \/ \E t \in Texts : FetchArrives(t)
  PROVE  TextInv'
<1>1. TextTypes /\ AnswersOK /\ EdOK /\ SavesOK /\ fetches \in FetchType
  BY DEF TextInv, TextTypes
<1>2. CASE AnswersFetch
  <2>1. /\ fetches' = [fetches EXCEPT !.sent = @ - 1, !.read[text] = @ + 1] /\ fetches.sent > 0
        /\ UNCHANGED <<text, stored, words, segs, load, ed, saves, mounts>>
    BY <1>2 DEF AnswersFetch, server, editor
  <2>2. fetches.sent - 1 \in Nat /\ fetches.read[text] + 1 \in Nat /\ text \in Texts
    BY <1>1, <2>1 DEF FetchType, TextTypes
  <2>3. fetches' \in FetchType /\ \A t \in Texts : t # text => fetches'.read[t] = fetches.read[t]
    BY <1>1, <2>1, <2>2 DEF FetchType
  <2>4. TextTypes' /\ AnswersOK'
    BY <1>1, <2>1, <2>3 DEF TextTypes, AnswersOK, Had
  <2>5. EdOK' /\ SavesOK'
    BY <1>1, <2>1 DEF EdOK, SavesOK, Had
  <2> QED BY <2>4, <2>5 DEF TextInv
<1>3. CASE FetchFails
  <2>1. /\ fetches' = [fetches EXCEPT !.sent = @ - 1] /\ fetches.sent > 0
        /\ UNCHANGED <<text, stored, words, segs, load, ed, saves, mounts>>
    BY <1>3 DEF FetchFails, server, editor
  <2>2. fetches.sent - 1 \in Nat
    BY <1>1, <2>1 DEF FetchType
  <2>3. fetches' \in FetchType /\ fetches'.read = fetches.read
    BY <1>1, <2>1, <2>2 DEF FetchType
  <2>4. TextTypes' /\ AnswersOK'
    BY <1>1, <2>1, <2>3 DEF TextTypes, AnswersOK, Had
  <2>5. EdOK' /\ SavesOK'
    BY <1>1, <2>1 DEF EdOK, SavesOK, Had
  <2> QED BY <2>4, <2>5 DEF TextInv
<1>4. ASSUME NEW t \in Texts, FetchArrives(t) PROVE TextInv'
  <2>1. /\ fetches' = [fetches EXCEPT !.read[t] = @ - 1] /\ fetches.read[t] > 0 /\ segs' = t
        /\ ed' = IF ed.mounted THEN Shows(ed, t) ELSE ed
        /\ UNCHANGED <<text, stored, words, load, saves, mounts>>
    BY <1>4 DEF FetchArrives, SetSegments, server
  <2>2. fetches.read[t] - 1 \in Nat
    BY <1>1, <2>1 DEF FetchType
  <2>3. fetches' \in FetchType /\ \A u \in Texts : fetches'.read[u] > 0 => fetches.read[u] > 0
    <3>1. /\ fetches' \in FetchType
          /\ \A u \in Texts :
               fetches'.read[u] = IF u = t THEN fetches.read[t] - 1 ELSE fetches.read[u]
      BY <1>1, <2>1, <2>2 DEF FetchType
    <3> QED BY <2>1, <3>1
  <2>4. t \in stored
    BY <1>1, <2>1 DEF AnswersOK
  <2>5. TextTypes' /\ AnswersOK'
    BY <1>1, <2>1, <2>3, <2>4 DEF TextTypes, AnswersOK, Had
  <2>6. EdOK' /\ ed'.saving = ed.saving /\ ed'.mounted = ed.mounted
    BY <1>1, <2>1, <2>4, ShowsOK DEF EdOK, Had
  <2>7. SavesOK'
    BY <1>1, <2>1, <2>6 DEF SavesOK
  <2> QED BY <2>5, <2>6, <2>7 DEF TextInv
<1> QED BY <1>2, <1>3, <1>4

LEMMA SaveText ==
  ASSUME TextInv, NEW s \in saves, AnswersSave(s) \/ SaveArrives(s)
  PROVE  TextInv'
<1>1. TextTypes /\ AnswersOK /\ EdOK /\ SavesOK /\ s \in Save /\ s.sent \in Texts
  BY DEF TextInv, SavesOK, Save
<1>2. ASSUME NEW st \in {"stored", "failed"}, saves' = (saves \ {s}) \cup {[s EXCEPT !.state = st]},
             UNCHANGED <<words, segs, load, fetches, ed, mounts>>,
             \/ text' = s.sent /\ stored' = stored \cup {s.sent}
             \/ st = "failed" /\ UNCHANGED <<text, stored>>
      PROVE  TextInv'
  <2> DEFINE a == [s EXCEPT !.state = st]
  <2>1. a \in Save /\ a.by = s.by /\ a.sent = s.sent /\ a.state = st
    BY <1>1 DEF Save
  <2> HIDE DEF a
  <2>2. saves' = (saves \ {s}) \cup {a}
    BY <1>2 DEF a
  <2>3. TextTypes' /\ AnswersOK'
    BY <1>1, <1>2 DEF TextTypes, AnswersOK, Had
  <2>4. EdOK'
    BY <1>1, <1>2 DEF EdOK, Had
  <2>5. \A x, y \in saves' : x.by = y.by => x = y
    BY <1>1, <2>1, <2>2 DEF SavesOK
  <2>6. \A x \in saves' : x.state = "stored" => x.sent \in stored'
    BY <1>1, <1>2, <2>1, <2>2 DEF SavesOK
  <2>7. SavesOK'
    <3>1. /\ saves' \subseteq Save /\ mounts' = mounts /\ ed' = ed
          /\ \A x \in saves' : \E y \in saves : x.by = y.by
      BY <1>1, <1>2, <2>1, <2>2 DEF SavesOK
    <3>2. \A x \in saves' : x.by <= mounts
      BY <1>1, <3>1 DEF SavesOK
    <3>3. ed.mounted /\ ~ed.saving => \A x \in saves' : x.by # mounts
      BY <1>1, <3>1 DEF SavesOK
    <3> QED BY <1>1, <2>5, <2>6, <3>1, <3>2, <3>3 DEF SavesOK
  <2> QED BY <2>3, <2>4, <2>7 DEF TextInv
<1>3. CASE AnswersSave(s)
  <2>1. UNCHANGED <<words, segs, load, fetches, ed, mounts>>
    BY <1>3 DEF AnswersSave, page
  <2>2. \/ /\ text' = s.sent /\ stored' = stored \cup {s.sent}
           /\ saves' = (saves \ {s}) \cup {[s EXCEPT !.state = "stored"]}
        \/ /\ saves' = (saves \ {s}) \cup {[s EXCEPT !.state = "failed"]}
           /\ UNCHANGED <<text, stored>>
    BY <1>3 DEF AnswersSave
  <2> QED BY <1>2, <2>1, <2>2
<1>4. CASE SaveArrives(s)
  <2> DEFINE done == IF s.by = mounts THEN [ed EXCEPT !.saving = FALSE] ELSE ed
  <2>1. /\ saves' = saves \ {s} /\ UNCHANGED <<mounts, text, stored, words, load, fetches>>
        /\ IF s.state = "stored" /\ here
           THEN segs' = s.sent /\ ed' = IF ed.mounted THEN Shows(done, s.sent) ELSE ed
           ELSE segs' = segs /\ ed' = done
    BY <1>4 DEF SaveArrives, server
  <2>2. ed \in EdType
    BY <1>1 DEF EdOK
  <2>3. /\ done \in EdType /\ done.mounted = ed.mounted /\ done.local = ed.local /\ done.baseline = ed.baseline
        /\ done.saving = IF s.by = mounts THEN FALSE ELSE ed.saving
    BY <2>2, SavingOK
  <2> HIDE DEF done
  <2>4. s.state = "stored" => s.sent \in stored
    BY <1>1 DEF SavesOK
  <2>5. TextTypes' /\ AnswersOK'
    BY <1>1, <2>1, <2>4 DEF TextTypes, AnswersOK, Had
  <2>6. EdOK' /\ ed'.mounted = ed.mounted /\ (ed.mounted => ed'.saving = done.saving)
    <3>1. CASE s.state = "stored" /\ here /\ ed.mounted
      <4>1. ed' = Shows(done, s.sent) /\ s.sent \in stored /\ stored' = stored
        BY <2>1, <2>4, <3>1
      <4>2. /\ ed' \in EdType /\ ed'.local = s.sent /\ ed'.baseline = s.sent
            /\ ed'.mounted = done.mounted /\ ed'.saving = done.saving
        BY <1>1, <2>3, <4>1, ShowsOK
      <4> QED BY <2>3, <4>1, <4>2 DEF EdOK, Had
    <3>2. CASE ~(s.state = "stored" /\ here /\ ed.mounted)
      BY <1>1, <2>1, <2>3, <3>2 DEF EdOK, Had
    <3> QED BY <3>1, <3>2
  <2>7. SavesOK'
    <3>1. ed'.mounted /\ ~ed'.saving => \A x \in saves' : x.by # mounts
      BY <1>1, <2>1, <2>3, <2>6 DEF SavesOK
    <3> QED BY <1>1, <2>1, <3>1 DEF SavesOK
  <2> QED BY <2>5, <2>6, <2>7 DEF TextInv
<1> QED BY <1>3, <1>4

LEMMA EditText ==
  ASSUME TextInv, Type \/ PressSave \/ onKey \/ PressEditorSave \/ Revert
  PROVE  TextInv'
<1>1. TextTypes /\ AnswersOK /\ EdOK /\ SavesOK /\ ed \in EdType
  BY DEF TextInv, EdOK
<1>2. ASSUME UNCHANGED <<text, stored, segs, load, fetches>>, words' \in Texts
      PROVE  TextTypes' /\ AnswersOK'
  BY <1>1, <1>2 DEF TextTypes, AnswersOK, Had
<1>3. CASE Type
  <2>1. /\ UNCHANGED <<text, stored, segs, load, fetches, saves, mounts>> /\ ed.local # 0
        /\ words < MaxText /\ words' = words + 1 /\ ed' = [ed EXCEPT !.local = words']
    BY <1>3 DEF Type, updateText, page
  <2>2. words' \in Texts
    BY <1>1, <2>1, TextAssumption DEF TextTypes, Texts
  <2>3. /\ ed' \in EdType /\ ed'.baseline = ed.baseline /\ ed'.mounted = ed.mounted /\ ed'.saving = ed.saving
    BY <1>1, <2>1, <2>2 DEF EdType
  <2>4. EdOK' /\ SavesOK'
    BY <1>1, <2>1, <2>3 DEF EdOK, SavesOK, Had
  <2> QED BY <1>2, <2>1, <2>2, <2>4 DEF TextInv
<1>4. CASE PressSave \/ onKey \/ PressEditorSave
  <2>1. /\ handleSave(ed, mounts) /\ ed.mounted
        /\ UNCHANGED <<text, stored, words, segs, load, fetches, mounts>>
    BY <1>4 DEF PressSave, onKey, PressEditorSave, SaveEnabled, Dirty, Saves, server, page
  <2>2. TextTypes' /\ AnswersOK'
    BY <1>1, <1>2, <2>1 DEF TextTypes
  <2>3. CASE ed.saving
    <3>1. ed' = ed /\ saves' = saves
      BY <2>1, <2>3 DEF handleSave
    <3> QED BY <1>1, <2>1, <2>2, <3>1 DEF TextInv, EdOK, SavesOK, Had
  <2>4. CASE ~ed.saving
    <3>1. /\ ed' = [ed EXCEPT !.saving = TRUE]
          /\ saves' = saves \cup {[by |-> mounts, sent |-> ed.local, state |-> "sent"]}
      BY <2>1, <2>4 DEF handleSave
    <3>2. /\ ed' \in EdType /\ ed'.saving = TRUE /\ ed'.local = ed.local /\ ed'.baseline = ed.baseline
      BY <1>1, <3>1, SavingOK
    <3>3. EdOK'
      BY <1>1, <2>1, <3>2 DEF EdOK, Had
    <3>4. ed.local \in Texts /\ \A s \in saves : s.by # mounts
      BY <1>1, <2>1, <2>4 DEF EdType, SavesOK
    <3>5. SavesOK'
      BY <1>1, <2>1, <3>1, <3>2, <3>4, OneMoreSave
    <3> QED BY <2>2, <3>3, <3>5 DEF TextInv
  <2> QED BY <2>3, <2>4
<1>5. CASE Revert
  <2>1. /\ ed' = [ed EXCEPT !.local = ed.baseline]
        /\ UNCHANGED <<text, stored, words, segs, load, fetches, saves, mounts>>
    BY <1>5 DEF Revert, server, page
  <2>2. /\ ed' \in EdType /\ ed'.baseline = ed.baseline /\ ed'.mounted = ed.mounted /\ ed'.saving = ed.saving
        /\ ed'.local = ed.baseline
    BY <1>1, <2>1 DEF EdType
  <2>3. EdOK' /\ SavesOK'
    BY <1>1, <2>1, <2>2 DEF EdOK, SavesOK, Had
  <2>4. words' \in Texts
    BY <1>1, <2>1 DEF TextTypes
  <2> QED BY <1>2, <2>1, <2>3, <2>4 DEF TextInv
<1> QED BY <1>3, <1>4, <1>5

LEMMA LeaveText == ASSUME TextInv, load \in LoadType, Leave PROVE TextInv'
<1>1. TextTypes /\ AnswersOK /\ EdOK /\ SavesOK
  BY DEF TextInv
<1>2. /\ ed' = NoEditor /\ fetches' = NoFetch /\ Loaded("done") /\ segs' = 0
      /\ UNCHANGED <<text, stored, words, saves, mounts>>
  BY DEF Leave, server
<1>3. load'.text = 0
  BY <1>2, LoadedFields DEF Loads
<1>4. NoFetch \in FetchType /\ \A t \in Texts : NoFetch.read[t] = 0
  BY DEF NoFetch, FetchType
<1>5. 0 \in Texts
  BY TextAssumption DEF Texts
<1>6. TextTypes' /\ AnswersOK'
  BY <1>1, <1>2, <1>3, <1>4, <1>5 DEF TextTypes, AnswersOK, Had
<1>7. EdOK' /\ ~ed'.mounted
  BY <1>2, NoEditorOK DEF Had
<1>8. SavesOK'
  BY <1>1, <1>2, <1>7 DEF SavesOK
<1> QED BY <1>6, <1>7, <1>8 DEF TextInv

LEMMA NextText ==
  ASSUME LineInv, load \in LoadType, TextInv, [Next]_vars
  PROVE  TextInv'
<1>1. CASE Advance
  BY <1>1, AdvanceText
<1>2. CASE AnswersLoad \/ JobArrives \/ TranscriptArrives \/ LoadFails
  BY <1>2, LoadText
<1>3. ASSUME NEW i \in CallIds, SocketOpens(i) \/ SocketDrops(i) \/ CloseEvent(i) \/ TimerFires(i)
      PROVE  TextInv'
  <2>1. UNCHANGED <<text, stored, words, segs, fetches, load, editor>>
    BY <1>3 DEF SocketOpens, SocketDrops, CloseEvent, TimerFires, server, page
  <2> QED BY <2>1, SameText
<1>4. ASSUME NEW i \in CallIds, Event(i) PROVE TextInv'
  BY <1>4, EventText
<1>5. CASE AnswersFetch \/ FetchFails \/ \E t \in Texts : FetchArrives(t)
  BY <1>5, FetchText
<1>6. CASE \E s \in saves : AnswersSave(s) \/ SaveArrives(s)
  BY <1>6, SaveText
<1>7. CASE Type \/ PressSave \/ onKey \/ PressEditorSave \/ Revert
  BY <1>7, EditText
<1>8. CASE Leave
  BY <1>8, LeaveText
<1>9. CASE UNCHANGED vars
  <2>1. UNCHANGED <<text, stored, words, segs, fetches, load, editor>>
    BY <1>9 DEF vars, server, page
  <2> QED BY <2>1, SameText
<1> QED BY <1>1, <1>2, <1>3, <1>4, <1>5, <1>6, <1>7, <1>8, <1>9 DEF Next

-----------------------------------------------------------------------------
(* The theorems.                                                           *)

PageInv == LineInv /\ load \in LoadType /\ TextInv

LEMMA PageInvHolds == Spec => []PageInv
<1>1. Init => PageInv
  BY InitLine, InitText DEF PageInv
<1>2. PageInv /\ [Next]_vars => PageInv'
  <2> SUFFICES ASSUME PageInv, [Next]_vars PROVE PageInv'
    OBVIOUS
  <2>1. LineInv /\ load \in LoadType /\ TextInv /\ text \in Texts
    BY DEF PageInv, TextInv, TextTypes
  <2> QED BY <2>1, NextLine, NextText DEF PageInv
<1> QED BY <1>1, <1>2, PTL DEF Spec

LEMMA PageTyped == PageInv => TypeOK
<1> SUFFICES ASSUME PageInv PROVE TypeOK
  OBVIOUS
<1>1. LineTypes /\ load \in LoadType /\ TextTypes /\ ed \in EdType /\ saves \subseteq Save
  BY DEF PageInv, LineInv, TextInv, EdOK, SavesOK
<1>2. /\ calls \in [CallIds -> CallType] /\ at \in DOMAIN Path
      /\ status \in Stages \cup {"null", "undefined"}
      /\ cur \in 0..MaxCalls /\ drops \in 0..MaxDrops /\ {missed, here} \subseteq BOOLEAN
  BY <1>1 DEF LineTypes, Told
<1>3. /\ {text, segs} \cup stored \subseteq Texts /\ words \in Texts
      /\ fetches \in [sent: Nat, read: [Texts -> Nat]]
      /\ ed \in [mounted: BOOLEAN, local: Texts, baseline: Texts, saving: BOOLEAN]
      /\ load \in [pc: Loads, stage: Stages \cup {"null", "undefined"}, text: Texts]
  BY <1>1 DEF TextTypes, FetchType, EdType, LoadType, Told
<1> QED BY <1>1, <1>2, <1>3 DEF TypeOK, CallType, Conns

\* Only the call of the current effect has a socket or a timer, on a mounted page of a job
\* that goes on, and no call opens more sockets than its budget: the cleanup and the close
\* event that comes after it leave nothing behind, however the page is followed and left.
THEOREM OneLiveSocketHolds == Spec => []OneLiveSocket
<1>1. PageInv => OneLiveSocket
  <2> SUFFICES ASSUME PageInv PROVE OneLiveSocket
    OBVIOUS
  <2>1. TypeOK /\ CallsOK
    BY PageTyped DEF PageInv, LineInv
  <2>2. ActiveCalls \subseteq {cur}
    BY <2>1 DEF ActiveCalls, CallsOK, Tended
  <2>3. ActiveCalls # {} => here /\ Watches(status)
    BY <2>1 DEF ActiveCalls, CallsOK, Tended
  <2>4. ASSUME NEW i \in CallIds PROVE calls[i].opened <= MAX_ATTEMPTS + 1
    <3>1. calls[i] \in CallType /\ calls[i].opened <= calls[i].attempt + 1
      BY <2>1 DEF CallsOK, Good, CallOK
    <3>2. calls[i].opened \in Nat /\ calls[i].attempt \in Nat /\ calls[i].attempt <= MAX_ATTEMPTS
      BY <3>1, CallFields
    <3> QED BY <3>1, <3>2, SocketAssumption
  <2> QED BY <2>1, <2>2, <2>3, <2>4 DEF OneLiveSocket
<1> QED BY <1>1, PageInvHolds, PTL

\* The status shown is the server's stage, or a message that changes it is waiting, unless the
\* last change was never heard.
THEOREM StatusTracksHolds == Spec => []StatusTracks
<1>1. PageInv => StatusTracks
  BY DEF PageInv, LineInv, TrackInv, StatusTracks, Waiting, Told
<1> QED BY <1>1, PageInvHolds, PTL

\* A text without the unsaved mark is one the server has had, and an editor has one save under
\* way at most, for any texts, failures, orders of answers and editors mounted.
THEOREM CleanMeansStoredHolds == Spec => []CleanMeansStored
<1>1. PageInv => CleanMeansStored
  BY DEF PageInv, TextInv, EdOK, SavesOK, CleanMeansStored, Dirty, Had
<1> QED BY <1>1, PageInvHolds, PTL

\* The steps of the progress bar are on the path in their order.
StepsInOrder ==
  \A j, k \in DOMAIN Path :
    0 < stageIndex(Path[j]) /\ stageIndex(Path[j]) < stageIndex(Path[k]) => j < k

LEMMA StepPlaces == \A k \in DOMAIN STAGES : stageIndex(STAGES[k]) = k /\ k \in 1..6
<1>1. DOMAIN STAGES = 1..6
  BY DEF STAGES
<1>2. \A j, k \in 1..6 : STAGES[j] = STAGES[k] => j = k
  BY DEF STAGES
<1>3. ASSUME NEW k \in 1..6 PROVE stageIndex(STAGES[k]) = k
  <2> DEFINE st == STAGES[k]
  <2>1. \E j \in DOMAIN STAGES : STAGES[j] = st
    BY <1>1
  <2> HIDE DEF st
  <2>2. (CHOOSE j \in DOMAIN STAGES : STAGES[j] = st) \in {j \in DOMAIN STAGES : STAGES[j] = st}
    BY <2>1
  <2> QED BY <1>1, <1>2, <2>1, <2>2 DEF stageIndex, st
<1> QED BY <1>1, <1>3

\* The progress bar checks off only steps the job has left, whatever was missed, when the path
\* passes the steps in their order.
THEOREM ChecksOffThePastHolds == ASSUME StepsInOrder PROVE Spec => []ChecksOffThePast
<1>1. StepsInOrder /\ PageInv => ChecksOffThePast
  <2> SUFFICES ASSUME StepsInOrder, PageInv, status # "null", NEW x, x \in Checked(status), x \in Stages
               PROVE  x \in {Path[k] : k \in 1..at - 1}
    BY DEF ChecksOffThePast
  <2>1. status \in Passed \cup Told /\ at \in DOMAIN Path /\ DOMAIN Path = 1..Len(Path) /\ Len(Path) \in Nat
    BY PathAssumption DEF PageInv, LineInv, StagesOK, LineTypes
  <2>2. PICK k \in 1..stageIndex(status) - 1 : x = STAGES[k]
    BY DEF Checked
  <2>3. stageIndex(status) \in 1..6
    <3>1. CASE \E j \in DOMAIN STAGES : STAGES[j] = status
      BY <3>1, StepPlaces
    <3>2. CASE ~\E j \in DOMAIN STAGES : STAGES[j] = status
      <4>1. stageIndex(status) = 0
        BY <3>2 DEF stageIndex
      <4> QED BY <2>2, <4>1
    <3> QED BY <3>1, <3>2
  <2>4. DOMAIN STAGES = 1..6
    BY DEF STAGES
  <2>5. stageIndex(x) = k /\ 0 < k /\ k < stageIndex(status)
    BY <2>2, <2>3, <2>4, StepPlaces
  <2>6. stageIndex("undefined") = 0
    BY DEF stageIndex, STAGES
  <2>7. PICK p \in 1..at : status = Path[p]
    BY <2>1, <2>3, <2>6 DEF Passed, Told
  <2>8. PICK m \in DOMAIN Path : x = Path[m]
    BY DEF Stages
  <2>9. m < p
    BY <2>1, <2>5, <2>7, <2>8 DEF StepsInOrder
  <2> QED BY <2>1, <2>7, <2>8, <2>9
<1> QED BY <1>1, PageInvHolds, PTL
=============================================================================
