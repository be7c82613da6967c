------------------------------ MODULE Session ------------------------------
(***************************************************************************)
(* The signed-in session of one tab of the web client: the token it shares *)
(* with the other tabs in localStorage, its navigation bar, the sign-in    *)
(* and register forms, and the wrapper around every request, which drops   *)
(* the token and reloads the tab when the answer is a 401.                 *)
(*                                                                         *)
(* The other tabs are the action Elsewhere.  A request is served and       *)
(* answered in one step.  Links are followed inside the document; Load is  *)
(* a full load of another page.  One form has a request under way at a     *)
(* time, in a tab too (a bound).  Reads of a page that was left are        *)
(* dropped, with the 401 that could still come of them.                    *)
(***************************************************************************)
EXTENDS Naturals, Sequences, FiniteSets

CONSTANTS
  Users,
  None,       \* no user
  MaxTokens,  \* bound: tokens issued
  MaxFaults   \* bound: requests that fail and tokens that expire

ASSUME NoneAssumption == None \notin Users /\ Users # {}
ASSUME TokensAssumption == MaxTokens \in Nat \ {0} /\ MaxFaults \in Nat

VARIABLES
  stored,  \* localStorage.token, 0 for none
  owner,   \* the users of the tokens issued
  ended,   \* tokens the gateway refuses
  tab,     \* page, snapshot of the bar, its user, the tokens of its /auth/me calls, the token
           \* of the last, whether that was answered, a storage event to come; ghost over: a
           \* token was put in while the bar was signed in, so that it will not ask again
  calls,   \* requests of lib/api under way; live: who asked is still mounted; ghost newest: it
           \* asked for nothing of the kind since
  faults

storage == <<stored, owner, ended>>
session == <<storage, tab, calls, faults>>

Tokens == 1..MaxTokens
Guarded == {"dashboard", "settings"}
Pages == Guarded \cup {"public", "login"}
Valid(token) == token \in 1..Len(owner) /\ token \notin ended

Call(kind, token, arg) ==
  [kind |-> kind, token |-> token, arg |-> arg, live |-> TRUE, newest |-> TRUE]
\* Of a page or section that is left, the requests that still do something when they answer.
Unmounted(cs) == {[c EXCEPT !.live = FALSE] : c \in {d \in cs : d.kind \notin {"me", "voices"}}}

Fresh == [page |-> "public", auth |-> FALSE, user |-> None, asked |-> {}, last |-> 0,
          answered |-> FALSE, told |-> FALSE, over |-> FALSE]

\* The controller of the last effect is not aborted.
wrongRenders(n, token) ==
  IF n.auth = (token # 0) THEN n
  ELSE IF token = 0 THEN [n EXCEPT !.auth = FALSE, !.answered = FALSE, !.over = FALSE]
  ELSE [n EXCEPT !.auth = TRUE, !.asked = @ \cup {token}, !.last = token, !.answered = FALSE,
                 !.over = FALSE]

\* useSyncExternalStore reads the snapshot again; the effect of [authenticated] runs when it
\* has changed.
Renders(n, token) ==
  IF n.auth = (token # 0) THEN n
  ELSE IF token = 0 THEN [n EXCEPT !.auth = FALSE, !.asked = {}, !.answered = FALSE, !.over = FALSE]
  ELSE [n EXCEPT !.auth = TRUE, !.asked = {token}, !.last = token, !.answered = FALSE,
                 !.over = FALSE]

\* What the bar shows: useCurrentUser hides the user of a tab that is signed out.
ShownUser(n) == IF n.auth THEN n.user ELSE None

\* The guard in the effect of a page sends the visitor away before anything is asked for.
At(page, token) == IF page \in Guarded /\ token = 0 THEN "login" ELSE page
FirstCalls(page, token) ==
  IF At(page, token) = "settings" THEN {Call("me", token, None)} ELSE {}

\* router.push after the token became `token`; rest: the calls still under way.  A push to
\* the page one is on renders nothing.
Pushes(from, page, token, rest) ==
  /\ stored' = token
  /\ IF from.page = page THEN tab' = from /\ calls' = rest
     ELSE /\ tab' = [Renders(from, token) EXCEPT !.page = At(page, token)]
          /\ calls' = Unmounted(rest) \cup FirstCalls(page, token)

\* A new document: nothing of the old one is answered.
Loads(page, token) ==
  /\ stored' = token
  /\ tab' = [Renders(Fresh, token) EXCEPT !.page = At(page, token)]
  /\ calls' = FirstCalls(page, token)

InitSession ==
  /\ stored = 1 /\ owner = <<CHOOSE u \in Users : TRUE>> /\ ended = {} /\ faults = 0
  /\ tab = Renders(Fresh, 1) /\ calls = {}

-----------------------------------------------------------------------------
(* The visitor, the browser and the other tabs.                            *)

\* The links the bar shows.
Visit(page) ==
  /\ page # tab.page
  /\ page = "login" => ~tab.auth
  /\ page \in Guarded => tab.auth
  /\ Pushes(tab, page, stored, calls)
  /\ UNCHANGED <<owner, ended, faults>>

\* The address bar.
Load(page) ==
  /\ page # tab.page
  /\ Loads(page, stored)
  /\ UNCHANGED <<owner, ended, faults>>

\* Another tab signs in or out.
Elsewhere ==
  /\ \/ stored # 0 /\ stored' = 0 /\ UNCHANGED owner
     \/ /\ Len(owner) < MaxTokens /\ stored' = Len(owner) + 1
        /\ \E u \in Users : owner' = Append(owner, u)
  /\ tab' = [tab EXCEPT !.told = TRUE, !.over = @ \/ (tab.auth /\ stored' # 0)]
  /\ UNCHANGED <<ended, calls, faults>>

\* subscribeAuth's listener.
StorageEvent ==
  /\ tab.told
  /\ tab' = [Renders(tab, stored) EXCEPT !.told = FALSE]
  /\ UNCHANGED <<storage, calls, faults>>

Fails == faults < MaxFaults /\ faults' = faults + 1

\* The bar's own /auth/me: a refused or failed one changes nothing.
MeArrives(token) ==
  /\ token \in tab.asked
  /\ \/ /\ Valid(token) /\ UNCHANGED faults
        /\ tab' = [tab EXCEPT !.asked = @ \ {token}, !.user = owner[token],
                              !.answered = @ \/ token = tab.last]
     \/ /\ IF Valid(token) THEN Fails ELSE UNCHANGED faults
        /\ tab' = [tab EXCEPT !.asked = @ \ {token}]
  /\ UNCHANGED <<storage, calls>>

\* logout of the bar: the server hears nothing of it.
Logout ==
  /\ tab.auth
  /\ Pushes(Renders(tab, 0), "login", 0, calls)
  /\ UNCHANGED <<owner, ended, faults>>

Expire(token) ==
  /\ Valid(token) /\ Fails /\ ended' = ended \cup {token}
  /\ UNCHANGED <<stored, owner, tab, calls>>

-----------------------------------------------------------------------------
(* Requests.                                                               *)

\* http of a 401, whatever token is stored by now; signing in needs no token.
Unauthorized(c) ==
  /\ ~Valid(c.token) /\ c.kind # "signin"
  /\ Loads("login", 0)
  /\ UNCHANGED <<owner, ended, faults>>

\* handleSubmit of login or register, once the form is valid and not loading.
Submit(user) ==
  /\ tab.page = "login" /\ \A c \in calls : c.kind # "signin"
  /\ calls' = calls \cup {Call("signin", stored, user)}
  /\ UNCHANGED <<storage, tab, faults>>

\* The answer signs in, also when the visitor has left the form.
SignInArrives(c) ==
  /\ c.kind = "signin" /\ Len(owner) < MaxTokens
  /\ owner' = Append(owner, c.arg)
  /\ LET token == Len(owner) + 1 IN
     Pushes([Renders(tab, token) EXCEPT !.over = tab.auth], "dashboard", token, calls \ {c})
  /\ UNCHANGED <<ended, faults>>

\* A wrong password is a 401 like any other; other refusals are shown in the form.
SignInRefused(c) ==
  /\ c.kind = "signin" /\ Fails
  /\ \/ Loads("login", 0)
     \/ calls' = calls \ {c} /\ UNCHANGED <<stored, tab>>
  /\ UNCHANGED <<owner, ended>>

SessionNext ==
  \/ \E p \in Pages : Visit(p) \/ Load(p)
  \/ Elsewhere \/ StorageEvent \/ Logout
  \/ \E k \in Tokens : MeArrives(k) \/ Expire(k)
  \/ \E u \in Users : Submit(u)
  \/ \E c \in calls : SignInArrives(c) \/ SignInRefused(c)

-----------------------------------------------------------------------------
(* Properties.                                                             *)

\* The bar agrees with the stored token unless a storage event is on its way, or the settings
\* signed out, which tells the bar nothing, with the tab on the sign-in page already.
BarTracksToken == ~tab.told /\ tab.page # "login" => tab.auth = (stored # 0)

\* Once the bar's question about its session is answered it shows the user of the token that
\* is stored: an answer to an earlier session's question, however late, is never shown in a
\* later one.  Excepted is a token put in while the bar is signed in, by another tab or by the
\* sign-in form of this one: "authenticated" stays true, its effect does not ask again, and the
\* bar shows the former user until the tab signs out or loads a page anew.
UserOfSession ==
  tab.auth /\ tab.answered /\ stored # 0 /\ ~tab.over => ShownUser(tab) = owner[stored]

\* The bar shows the session there is: signed in or not, and as whom, but for the two
\* exceptions above.
BarShowsSession == BarTracksToken /\ UserOfSession

=============================================================================
