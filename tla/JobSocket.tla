----------------------------- MODULE JobSocket -----------------------------
(***************************************************************************)
(* connectJobWS of the web client: one call per run of the job page's      *)
(* effect, each with its own socket, reconnect timer and budget of         *)
(* attempts, and the cleanup function the effect calls.                    *)
(*                                                                         *)
(* The browser and the server are the environment: a connection opens,     *)
(* fails or drops, and its close event comes later than close().           *)
(***************************************************************************)
EXTENDS Naturals, Sequences

CONSTANTS
  MaxCalls,     \* bound: calls in one visit of the page
  MAX_ATTEMPTS  \* reconnects of one call (5 in the code)

ASSUME SocketAssumption == MaxCalls \in Nat /\ MAX_ATTEMPTS \in Nat

VARIABLE
  calls  \* conn: the ready state of the call's socket, "timer" between two sockets, "over"
         \* after the last; attempt, closed, lastStage: its variables; inbox: what the
         \* server has sent and the page has not handled; opened: ghost, sockets created

TERMINAL == {"completed", "failed"}
CallIds == 1..MaxCalls
NoCall == [conn |-> "none", attempt |-> 0, closed |-> FALSE, lastStage |-> "",
           inbox |-> <<>>, opened |-> 0]
Sockets == {"connecting", "open", "closing"}
Active == {"connecting", "open", "timer"}

ActiveCalls == {i \in CallIds : calls[i].conn \in Active}

Started(r) == [r EXCEPT !.conn = "connecting", !.opened = 1]

\* Without clearTimeout.
wrongCleaned(r) == [r EXCEPT !.closed = TRUE, !.inbox = <<>>,
                             !.conn = IF @ \in {"connecting", "open"} THEN "closing" ELSE @]

\* The returned cleanup: no reconnect, no event after it.
Cleaned(r) == [r EXCEPT !.closed = TRUE, !.inbox = <<>>,
                        !.conn = CASE @ \in {"connecting", "open"} -> "closing"
                                   [] @ = "timer"                  -> "over"
                                   [] OTHER                        -> @]

Opened(r) == [r EXCEPT !.conn = "open"]

\* onclose.
GivesUp(r) == r.closed \/ r.lastStage \in TERMINAL \/ r.attempt >= MAX_ATTEMPTS
Closed(r) == IF GivesUp(r)
             THEN [r EXCEPT !.conn = "over", !.inbox = <<>>]
             ELSE [r EXCEPT !.conn = "timer", !.attempt = @ + 1, !.inbox = <<>>]

\* The reconnect timer runs open().
Reopened(r) == [r EXCEPT !.conn = IF r.closed THEN "over" ELSE "connecting",
                         !.opened = IF r.closed THEN @ ELSE @ + 1]

\* onmessage, for the first n messages.
Handled(r, n) == [r EXCEPT !.inbox = SubSeq(@, n + 1, Len(@)), !.lastStage = r.inbox[n]]

=============================================================================
