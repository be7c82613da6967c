--------------------------- MODULE SettingsProofs ---------------------------
(***************************************************************************)
(* Proofs of the settings page and of the session of the tab it is in.     *)
(*                                                                         *)
(* Inv has a half for the session and a half for the page.  SessionInv: a  *)
(* bar that asks /auth/me asks about its own session only, agrees with the *)
(* stored token unless a storage event is due, and asked about that token  *)
(* unless another was put in its place.  PageInv: what the page shows of   *)
(* its user, of its saves and of its preferences, and CallOK, what every   *)
(* request under way carries and what is awaited of it.  Each              *)
(* half is kept by the ways of moving (Pushes, Loads, Renders), proved     *)
(* once, and by each answer and each key.                                  *)
(***************************************************************************)
EXTENDS Settings, SequenceTheorems, TLAPS

TabType == [page: Pages, auth: BOOLEAN, user: Users \cup {None}, asked: SUBSET Tokens,
            last: 0..MaxTokens, answered: BOOLEAN, told: BOOLEAN, over: BOOLEAN]

\* A bar that asks, asks about its session, which is the one it shows.
TabGood(n, issued) ==
  /\ n \in TabType /\ n.asked \subseteq {n.last}
  /\ n.auth => n.last \in 1..Len(issued)
  /\ n.auth /\ n.answered => n.user = issued[n.last]
\* A bar asks about the token that is stored, or another was put in since.
AsksOf(n, token) == n.auth /\ token # 0 /\ ~n.over => n.last = token
Tracks(n, token) ==
  /\ ~n.told /\ n.page # "login" => n.auth = (token # 0)
  /\ AsksOf(n, token)

TokensOK ==
  /\ owner \in Seq(Users) /\ Len(owner) \in 1..MaxTokens /\ stored \in 0..Len(owner)
  /\ ended \subseteq Tokens /\ faults \in 0..MaxFaults
SessionInv == TokensOK /\ TabGood(tab, owner) /\ Tracks(tab, stored)

\* The tokens issued are never taken back.
Issued(new) ==
  /\ new \in Seq(Users) /\ Len(owner) <= Len(new) /\ Len(new) <= MaxTokens
  /\ \A k \in 1..Len(owner) : new[k] = owner[k]

-----------------------------------------------------------------------------
(* The tab.                                                                *)

LEMMA MoreIssued ==
  ASSUME NEW n, TokensOK, TabGood(n, owner), NEW new, Issued(new)
  PROVE  TabGood(n, new)
<1>1. n \in TabType /\ n.last \in Nat /\ Len(owner) \in Nat /\ Len(new) \in Nat
  BY DEF TabGood, TabType, TokensOK, Issued
<1> QED BY <1>1 DEF TabGood, Issued

LEMMA SameIssued == TokensOK => Issued(owner)
BY DEF TokensOK, Issued

LEMMA Appended ==
  ASSUME TokensOK, Len(owner) < MaxTokens, NEW u \in Users
  PROVE  /\ Issued(Append(owner, u)) /\ Len(Append(owner, u)) = Len(owner) + 1
         /\ Append(owner, u)[Len(owner) + 1] = u
<1>1. owner \in Seq(Users) /\ Len(owner) \in Nat /\ MaxTokens \in Nat
  BY TokensAssumption DEF TokensOK
<1>2. /\ Append(owner, u) \in Seq(Users) /\ Len(Append(owner, u)) = Len(owner) + 1
      /\ \A k \in 1..Len(owner) : Append(owner, u)[k] = owner[k]
      /\ Append(owner, u)[Len(owner) + 1] = u
  BY <1>1, AppendProperties
<1> QED BY <1>1, <1>2 DEF Issued

\* A render makes the bar agree with the token, and asks anew when it changed.
LEMMA RendersGood ==
  ASSUME NEW n, NEW issued, TabGood(n, issued), NEW token \in 0..MaxTokens, token <= Len(issued),
         Len(issued) \in Nat
  PROVE  /\ TabGood(Renders(n, token), issued)
         /\ Renders(n, token).auth = (token # 0)
         /\ Renders(n, token).page = n.page /\ Renders(n, token).told = n.told
<1> DEFINE r == Renders(n, token)
<1>1. n \in TabType /\ n.auth \in BOOLEAN
  BY DEF TabGood, TabType
<1>2. CASE n.auth = (token # 0)
  BY <1>1, <1>2 DEF Renders
<1>3. CASE n.auth # (token # 0) /\ token = 0
  <2>1. r = [n EXCEPT !.auth = FALSE, !.asked = {}, !.answered = FALSE, !.over = FALSE]
    BY <1>3 DEF Renders
  <2>2. r \in TabType /\ r.auth = FALSE /\ r.asked = {} /\ r.page = n.page /\ r.told = n.told
    BY <1>1, <2>1 DEF TabType
  <2> QED BY <1>3, <2>2 DEF TabGood
<1>4. CASE n.auth # (token # 0) /\ token # 0
  <2>1. r = [n EXCEPT !.auth = TRUE, !.asked = {token}, !.last = token, !.answered = FALSE,
                      !.over = FALSE]
    BY <1>4 DEF Renders
  <2>2. {token} \in SUBSET Tokens /\ token \in 1..Len(issued)
    BY <1>4, TokensAssumption DEF Tokens
  <2>3. /\ r \in TabType /\ r.auth = TRUE /\ r.asked = {token} /\ r.last = token
        /\ r.answered = FALSE /\ r.page = n.page /\ r.told = n.told
    BY <1>1, <2>1, <2>2 DEF TabType
  <2> QED BY <1>4, <2>2, <2>3 DEF TabGood
<1> QED BY <1>2, <1>3, <1>4

\* What it asks is about that token, unless it was signed in before.
LEMMA RendersAsks ==
  ASSUME NEW n \in TabType, NEW token, AsksOf(n, token)
  PROVE  AsksOf(Renders(n, token), token)
<1> DEFINE r == Renders(n, token)
<1>1. CASE n.auth = (token # 0)
  BY <1>1 DEF Renders
<1>2. CASE n.auth # (token # 0) /\ token = 0
  BY <1>2 DEF AsksOf
<1>3. CASE n.auth # (token # 0) /\ token # 0
  <2>1. r = [n EXCEPT !.auth = TRUE, !.asked = {token}, !.last = token, !.answered = FALSE,
                      !.over = FALSE]
    BY <1>3 DEF Renders
  <2>2. r.last = token
    BY <2>1 DEF TabType
  <2> QED BY <2>2 DEF AsksOf
<1> QED BY <1>1, <1>2, <1>3

\* The form of this tab signs in: a bar that was signed in keeps the user it has.
LEMMA SignedInGood ==
  ASSUME NEW n, NEW issued, TabGood(n, issued), NEW token \in 0..MaxTokens, token <= Len(issued),
         Len(issued) \in Nat, token # 0
  PROVE  LET q == [Renders(n, token) EXCEPT !.over = n.auth] IN
         TabGood(q, issued) /\ q.auth = (token # 0) /\ AsksOf(q, token) /\ q.page = n.page
<1> DEFINE r == Renders(n, token)
           q == [r EXCEPT !.over = n.auth]
<1>1. /\ TabGood(r, issued) /\ r.auth = (token # 0) /\ r.page = n.page
      /\ (~n.auth => AsksOf(r, token)) /\ n.auth \in BOOLEAN
  <2>1. n \in TabType /\ n.auth \in BOOLEAN
    BY DEF TabGood, TabType
  <2>2. ~n.auth => AsksOf(r, token)
    BY <2>1, RendersAsks DEF AsksOf
  <2> QED BY <2>1, <2>2, RendersGood
<1> HIDE DEF r
<1>2. r \in TabType
  BY <1>1 DEF TabGood
<1>3. /\ q \in TabType /\ q.over = n.auth /\ q.auth = r.auth /\ q.page = r.page
      /\ q.asked = r.asked /\ q.last = r.last /\ q.answered = r.answered /\ q.user = r.user
  BY <1>1, <1>2 DEF TabType
<1> HIDE DEF q
<1>4. TabGood(q, issued) /\ (n.auth => AsksOf(q, token))
  BY <1>1, <1>3 DEF TabGood, AsksOf
<1>5. ~n.auth => AsksOf(q, token)
  <2> SUFFICES ASSUME ~n.auth PROVE AsksOf(q, token)
    OBVIOUS
  <2>1. r.over \in BOOLEAN /\ AsksOf(r, token) /\ ~r.over
    <3>1. r.over = FALSE
      BY DEF r, Renders, TabGood, TabType
    <3> QED BY <1>1, <3>1
  <2> QED BY <1>3, <2>1 DEF AsksOf
<1> QED BY <1>1, <1>3, <1>4, <1>5 DEF q, r

LEMMA FreshGood == \A issued : TabGood(Fresh, issued) /\ Fresh.page = "public" /\ ~Fresh.told
<1>1. Fresh \in TabType
  BY TokensAssumption DEF Fresh, TabType, Pages
<1>2. Fresh.asked = {} /\ Fresh.auth = FALSE /\ Fresh.page = "public" /\ Fresh.told = FALSE
  BY DEF Fresh
<1> QED BY <1>1, <1>2 DEF TabGood

LEMMA PageGood ==
  ASSUME NEW n, NEW issued, TabGood(n, issued), NEW p \in Pages
  PROVE  LET m == [n EXCEPT !.page = p] IN
         /\ TabGood(m, issued) /\ m.page = p /\ m.auth = n.auth /\ m.told = n.told
         /\ \A token : AsksOf(n, token) => AsksOf(m, token)
<1> DEFINE m == [n EXCEPT !.page = p]
<1>1. n \in TabType
  BY DEF TabGood
<1>2. /\ m \in TabType /\ m.page = p /\ m.auth = n.auth /\ m.told = n.told
      /\ m.asked = n.asked /\ m.last = n.last /\ m.answered = n.answered /\ m.user = n.user
      /\ m.over = n.over
  BY <1>1 DEF TabType
<1> HIDE DEF m
<1>3. TabGood(m, issued) /\ \A token : AsksOf(n, token) => AsksOf(m, token)
  BY <1>2 DEF TabGood, AsksOf
<1> QED BY <1>2, <1>3 DEF m

\* A tab that goes to a page, or stays where it is.
LEMMA PushesGood ==
  ASSUME NEW from, NEW issued, TabGood(from, issued), Len(issued) \in Nat,
         NEW token \in 0..MaxTokens, token <= Len(issued), NEW p \in Pages, NEW rest,
         Pushes(from, p, token, rest), AsksOf(from, token),
         from.page = p => p = "login" \/ from.told \/ from.auth = (token # 0)
  PROVE  TabGood(tab', issued) /\ Tracks(tab', token) /\ stored' = token
<1>1. CASE from.page = p
  BY <1>1 DEF Pushes, Tracks
<1>2. CASE from.page # p
  <2> DEFINE r == Renders(from, token)
             q == At(p, token)
  <2>1. stored' = token /\ tab' = [r EXCEPT !.page = q]
    BY <1>2 DEF Pushes
  <2>2. q \in Pages
    BY DEF At, Pages
  <2>3. TabGood(r, issued) /\ r.auth = (token # 0) /\ AsksOf(r, token)
    BY RendersGood, RendersAsks DEF TabGood
  <2> HIDE DEF r, q
  <2> QED BY <2>1, <2>2, <2>3, PageGood DEF Tracks
<1> QED BY <1>1, <1>2

LEMMA LoadsGood ==
  ASSUME NEW issued, Len(issued) \in Nat, NEW token \in 0..MaxTokens, token <= Len(issued),
         NEW p \in Pages, Loads(p, token)
  PROVE  TabGood(tab', issued) /\ Tracks(tab', token) /\ stored' = token
<1> DEFINE r == Renders(Fresh, token)
           q == At(p, token)
<1>1. stored' = token /\ tab' = [r EXCEPT !.page = q]
  BY DEF Loads
<1>2. q \in Pages
  BY DEF At, Pages
<1>3. TabGood(r, issued) /\ r.auth = (token # 0) /\ AsksOf(r, token)
  <2>1. Fresh \in TabType /\ AsksOf(Fresh, token)
    BY FreshGood DEF TabGood, AsksOf, Fresh
  <2> QED BY <2>1, FreshGood, RendersGood, RendersAsks
<1> HIDE DEF r, q
<1> QED BY <1>1, <1>2, <1>3, PageGood DEF Tracks

-----------------------------------------------------------------------------
(* The session: steps of the tab, of its requests and of the other tabs.   *)

LEMMA TokensKept ==
  ASSUME TokensOK, Issued(owner'), stored' \in 0..Len(owner'), ended' \subseteq Tokens,
         faults' = faults \/ Fails
  PROVE  TokensOK'
<1>1. faults' \in 0..MaxFaults
  BY TokensAssumption DEF TokensOK, Fails
<1>2. Len(owner') \in 1..MaxTokens
  BY TokensAssumption DEF TokensOK, Issued
<1> QED BY <1>1, <1>2 DEF TokensOK, Issued

\* The tab goes on with the same tokens.
LEMMA TabMoves ==
  ASSUME TokensOK, UNCHANGED owner, ended' \subseteq Tokens, faults' = faults \/ Fails,
         NEW token \in 0..MaxTokens, token <= Len(owner),
         TabGood(tab', owner) /\ Tracks(tab', token) /\ stored' = token
  PROVE  SessionInv'
<1>1. Issued(owner') /\ owner' = owner
  BY SameIssued DEF Issued
<1>2. stored' \in 0..Len(owner')
  BY DEF TokensOK
<1> QED BY <1>1, <1>2, TokensKept DEF SessionInv

\* The tab and the token are left alone.
LEMMA TabStays ==
  ASSUME SessionInv, UNCHANGED <<stored, owner, tab>>, ended' \subseteq Tokens,
         faults' = faults \/ Fails
  PROVE  SessionInv'
<1>1. /\ TokensOK /\ TabGood(tab, owner) /\ Tracks(tab, stored)
      /\ stored \in 0..MaxTokens /\ stored <= Len(owner)
  BY TokensAssumption DEF SessionInv, TokensOK
<1>2. TabGood(tab', owner) /\ Tracks(tab', stored) /\ stored' = stored
  BY <1>1
<1> QED BY <1>1, <1>2, TabMoves

LEMMA LoadsKeeps ==
  ASSUME SessionInv, NEW p \in Pages, NEW token \in {0, stored}, Loads(p, token),
         UNCHANGED owner, ended' \subseteq Tokens, faults' = faults \/ Fails
  PROVE  SessionInv'
<1>1. TokensOK /\ Len(owner) \in Nat /\ token \in 0..MaxTokens /\ token <= Len(owner)
  BY TokensAssumption DEF SessionInv, TokensOK
<1> QED BY <1>1, LoadsGood, TabMoves

SignersOK == \A c \in calls : c.kind = "signin" => c.arg \in Users

LEMMA SessionNextKeeps ==
  ASSUME SessionInv, SignersOK, SessionNext
  PROVE  SessionInv'
<1>1. /\ TokensOK /\ TabGood(tab, owner) /\ Tracks(tab, stored) /\ Len(owner) \in Nat
      /\ 0 \in 0..MaxTokens /\ 0 <= Len(owner) /\ stored \in 0..MaxTokens /\ stored <= Len(owner)
      /\ ended \subseteq Tokens /\ AsksOf(tab, stored) /\ (\A n : AsksOf(n, 0))
  BY TokensAssumption DEF SessionInv, TokensOK, Tracks, AsksOf
<1>2. ASSUME NEW p \in Pages, Visit(p) PROVE SessionInv'
  <2>1. Pushes(tab, p, stored, calls) /\ p # tab.page /\ UNCHANGED <<owner, ended, faults>>
    BY <1>2 DEF Visit
  <2>2. TabGood(tab', owner) /\ Tracks(tab', stored) /\ stored' = stored
    BY <1>1, <2>1, PushesGood
  <2> QED BY <1>1, <2>1, <2>2, TabMoves
<1>3. ASSUME NEW p \in Pages, Load(p) PROVE SessionInv'
  BY <1>1, <1>3, LoadsKeeps DEF Load
<1>4. CASE Elsewhere
  <2>0. PICK b \in BOOLEAN : b = (tab.over \/ (tab.auth /\ stored' # 0))
    BY Zenon
  <2>1. /\ tab' = [tab EXCEPT !.told = TRUE, !.over = b] /\ UNCHANGED <<ended, faults>>
        /\ \/ stored' = 0 /\ owner' = owner
           \/ /\ Len(owner) < MaxTokens /\ stored' = Len(owner) + 1
              /\ \E u \in Users : owner' = Append(owner, u)
    BY <1>4, <2>0 DEF Elsewhere
  <2>2. Issued(owner') /\ stored' \in 0..Len(owner')
    <3>1. CASE stored' = 0 /\ owner' = owner
      BY <1>1, <3>1, SameIssued DEF Issued
    <3>2. ASSUME NEW u \in Users, Len(owner) < MaxTokens, stored' = Len(owner) + 1,
                 owner' = Append(owner, u)
          PROVE  Issued(owner') /\ stored' \in 0..Len(owner')
      <4> DEFINE new == Append(owner, u)
      <4>1. Issued(new) /\ Len(new) = Len(owner) + 1
        BY <1>1, <3>2, Appended
      <4> HIDE DEF new
      <4>2. owner' = new
        BY <3>2 DEF new
      <4> QED BY <1>1, <3>2, <4>1, <4>2 DEF Issued
    <3> QED BY <2>1, <3>1, <3>2
  <2>3. TabGood(tab', owner) /\ tab'.told = TRUE /\ tab'.auth = tab.auth /\ tab'.over = b
    <3>1. tab \in TabType
      BY <1>1 DEF TabGood
    <3>2. /\ tab' \in TabType /\ tab'.told = TRUE /\ tab'.asked = tab.asked /\ tab'.last = tab.last
          /\ tab'.auth = tab.auth /\ tab'.answered = tab.answered /\ tab'.user = tab.user
          /\ tab'.over = b
      BY <2>1, <3>1 DEF TabType
    <3> QED BY <1>1, <3>2 DEF TabGood
  <2>4. TabGood(tab', owner')
    <3> DEFINE n == tab'
               new == owner'
    <3> HIDE DEF n, new
    <3>1. TabGood(n, owner) /\ Issued(new)
      BY <2>2, <2>3 DEF n, new
    <3>2. TabGood(n, new)
      BY <1>1, <3>1, MoreIssued
    <3> QED BY <3>2 DEF n, new
  <2>5. Tracks(tab', stored')
    BY <2>0, <2>3 DEF Tracks, AsksOf
  <2> QED BY <1>1, <2>1, <2>2, <2>4, <2>5, TokensKept DEF SessionInv
<1>5. CASE StorageEvent
  <2> DEFINE r == Renders(tab, stored)
  <2>1. tab' = [r EXCEPT !.told = FALSE] /\ UNCHANGED <<stored, owner, ended, faults>>
    BY <1>5 DEF StorageEvent, storage
  <2>2. TabGood(r, owner) /\ r.auth = (stored # 0) /\ AsksOf(r, stored)
    BY <1>1, RendersGood, RendersAsks DEF TabGood
  <2> HIDE DEF r
  <2>3. r \in TabType
    BY <2>2 DEF TabGood
  <2>4. /\ tab' \in TabType /\ tab'.asked = r.asked /\ tab'.last = r.last
        /\ tab'.auth = r.auth /\ tab'.answered = r.answered /\ tab'.user = r.user
        /\ tab'.over = r.over
    BY <2>1, <2>3 DEF TabType
  <2>5. TabGood(tab', owner) /\ Tracks(tab', stored) /\ stored' = stored
    BY <2>1, <2>2, <2>4 DEF TabGood, Tracks, AsksOf
  <2> QED BY <1>1, <2>1, <2>5, TabMoves
<1>6. ASSUME NEW k \in Tokens, MeArrives(k) PROVE SessionInv'
  <2>1. /\ k \in tab.asked /\ UNCHANGED <<stored, owner, ended>> /\ (faults' = faults \/ Fails)
        /\ \/ /\ Valid(k)
              /\ tab' = [tab EXCEPT !.asked = @ \ {k}, !.user = owner[k],
                                    !.answered = @ \/ k = tab.last]
           \/ tab' = [tab EXCEPT !.asked = @ \ {k}]
    BY <1>6 DEF MeArrives, storage
  <2>2. tab \in TabType /\ k = tab.last /\ tab.asked \ {k} \in SUBSET Tokens /\ (tab.asked \ {k}) = {}
    BY <1>1, <2>1 DEF TabGood, TabType
  <2>3. CASE /\ Valid(k)
             /\ tab' = [tab EXCEPT !.asked = @ \ {k}, !.user = owner[k],
                                   !.answered = @ \/ k = tab.last]
    <3>1. owner[k] \in Users
      BY <1>1, <2>3, ElementOfSeq DEF Valid, TokensOK
    <3>2. tab' = [tab EXCEPT !.asked = {}, !.user = owner[k], !.answered = TRUE]
      BY <2>2, <2>3 DEF TabType
    <3>3. /\ tab' \in TabType /\ tab'.asked = {} /\ tab'.last = tab.last /\ tab'.told = tab.told
          /\ tab'.auth = tab.auth /\ tab'.user = owner[k] /\ tab'.page = tab.page
          /\ tab'.over = tab.over
      BY <2>2, <3>1, <3>2 DEF TabType
    <3>4. TabGood(tab', owner) /\ Tracks(tab', stored) /\ stored' = stored
      BY <1>1, <2>1, <2>2, <3>3 DEF TabGood, Tracks, AsksOf
    <3> QED BY <1>1, <2>1, <3>4, TabMoves
  <2>4. CASE tab' = [tab EXCEPT !.asked = @ \ {k}]
    <3>1. tab' = [tab EXCEPT !.asked = {}]
      BY <2>2, <2>4 DEF TabType
    <3>2. /\ tab' \in TabType /\ tab'.asked = {} /\ tab'.last = tab.last /\ tab'.told = tab.told
          /\ tab'.auth = tab.auth /\ tab'.user = tab.user /\ tab'.page = tab.page
          /\ tab'.answered = tab.answered /\ tab'.over = tab.over
      BY <2>2, <3>1 DEF TabType
    <3>3. TabGood(tab', owner) /\ Tracks(tab', stored) /\ stored' = stored
      BY <1>1, <2>1, <3>2 DEF TabGood, Tracks, AsksOf
    <3> QED BY <1>1, <2>1, <3>3, TabMoves
  <2> QED BY <2>1, <2>3, <2>4
<1>7. CASE Logout
  <2> DEFINE r == Renders(tab, 0)
  <2>1. Pushes(r, "login", 0, calls) /\ UNCHANGED <<owner, ended, faults>>
    BY <1>7 DEF Logout
  <2>2. TabGood(r, owner)
    BY <1>1, RendersGood
  <2> HIDE DEF r
  <2>3. TabGood(tab', owner) /\ Tracks(tab', 0) /\ stored' = 0
    BY <1>1, <2>1, <2>2, PushesGood DEF Pages
  <2> QED BY <1>1, <2>1, <2>3, TabMoves
<1>8. ASSUME NEW k \in Tokens, Expire(k) PROVE SessionInv'
  BY <1>1, <1>8, TabStays DEF Expire
<1>9. ASSUME NEW u \in Users, Submit(u) PROVE SessionInv'
  BY <1>1, <1>9, TabStays DEF Submit, storage
<1>10. ASSUME NEW c \in calls, SignInArrives(c) PROVE SessionInv'
  <2> DEFINE token == Len(owner) + 1
             new == Append(owner, c.arg)
             r == Renders(tab, token)
             q == [r EXCEPT !.over = tab.auth]
  <2>1. /\ Len(owner) < MaxTokens /\ owner' = new /\ c.arg \in Users
        /\ Pushes(q, "dashboard", token, calls \ {c}) /\ UNCHANGED <<ended, faults>>
    BY <1>10 DEF SignInArrives, SignersOK
  <2>2. Issued(new) /\ Len(new) = token
    BY <1>1, <2>1, Appended
  <2>3. token \in 0..MaxTokens /\ token <= Len(new) /\ Len(new) \in Nat /\ token # 0
    BY <1>1, <2>1, <2>2, TokensAssumption
  <2> HIDE DEF token, new
  <2>4. TabGood(tab, new)
    BY <1>1, <2>2, MoreIssued
  <2>5. TabGood(q, new) /\ q.auth = (token # 0) /\ AsksOf(q, token)
    BY <2>3, <2>4, SignedInGood
  <2> HIDE DEF r, q
  <2>6. TabGood(tab', new) /\ Tracks(tab', token) /\ stored' = token
    BY <2>1, <2>3, <2>5, PushesGood DEF Pages, Guarded
  <2>7. stored' \in 0..Len(owner')
    BY <2>1, <2>2, <2>3, <2>6
  <2> QED BY <1>1, <2>1, <2>2, <2>6, <2>7, TokensKept DEF SessionInv
<1>11. ASSUME NEW c \in calls, SignInRefused(c) PROVE SessionInv'
  <2>1. CASE Loads("login", 0)
    BY <1>1, <1>11, <2>1, LoadsKeeps DEF SignInRefused, Pages
  <2>2. CASE ~Loads("login", 0)
    BY <1>1, <1>11, <2>2, TabStays DEF SignInRefused
  <2> QED BY <2>1, <2>2
<1> QED BY <1>2, <1>3, <1>4, <1>5, <1>6, <1>7, <1>8, <1>9, <1>10, <1>11 DEF SessionNext

LEMMA AnswersKeep ==
  ASSUME SessionInv, NEW c \in calls, Answers(c)
  PROVE  SessionInv'
<1>1. /\ TokensOK /\ TabGood(tab, owner) /\ Tracks(tab, stored) /\ Len(owner) \in Nat
      /\ 0 \in 0..MaxTokens /\ 0 <= Len(owner) /\ ended \subseteq Tokens
      /\ "login" \in Pages /\ "public" \in Pages /\ (\A n : AsksOf(n, 0))
  BY TokensAssumption DEF SessionInv, TokensOK, Pages, AsksOf
<1>2. CASE Refused(c)
  BY <1>1, <1>2, LoadsKeeps DEF Refused, Unauthorized
<1>3. CASE MeLoads(c) \/ NameSaved(c) \/ NameFails(c) \/ VoicesArrive(c) \/ PrefsAnswered(c)
  <2>1. UNCHANGED <<stored, owner, ended, tab>> /\ (faults' = faults \/ Fails)
    BY <1>3 DEF MeLoads, NameSaved, NameFails, VoicesArrive, PrefsAnswered, storage
  <2> QED BY <1>1, <2>1, TabStays
<1>4. CASE SignedOut(c)
  <2>1. Pushes(tab, "login", 0, calls \ {c}) /\ UNCHANGED <<owner, ended, faults>>
    BY <1>4 DEF SignedOut
  <2>2. TabGood(tab', owner) /\ Tracks(tab', 0) /\ stored' = 0
    BY <1>1, <2>1, PushesGood
  <2> QED BY <1>1, <2>1, <2>2, TabMoves
<1>5. CASE Deleted(c)
  <2>1. TokensOf(owner[c.token]) \subseteq Tokens
    BY <1>1, TokensAssumption DEF TokensOf, Tokens, TokensOK
  <2> QED BY <1>1, <1>5, <2>1, LoadsKeeps DEF Deleted, Left
<1>6. CASE DeleteFails(c)
  BY <1>1, <1>6, LoadsKeeps DEF DeleteFails, Left
<1> QED BY <1>2, <1>3, <1>4, <1>5, <1>6 DEF Answers

-----------------------------------------------------------------------------
(* The page and its requests.                                              *)

Kinds == {"signin", "me", "name", "voices", "prefs", "logout", "delete"}
CallType == [kind: Kinds, token: 0..MaxTokens, arg: Users \cup {None} \cup Nat, live: BOOLEAN,
             newest: BOOLEAN]
UserType == [id: Users \cup {None}, name: Names]
ProfType == [name: Names, deb: Names, last: Names, save: SaveStates, sure: Names]
PrefsType == [value: 0..MaxPrefs, loading: BOOLEAN, save: SaveStates, sure: 0..MaxPrefs,
              late: BOOLEAN]
DangerType == [out: BOOLEAN, dialog: {"closed", "open", "deleting"}, typed: BOOLEAN]

AccountOK == names \in [Users -> Names] /\ gone \subseteq Users /\ local \in 0..MaxPrefs
PageTypes ==
  /\ me \in UserType /\ section \in Sections /\ prof \in ProfType
  /\ prefs \in PrefsType /\ danger \in DangerType

\* While the token the page was loaded with is the one stored, the user shown is its owner.
UserOK ==
  /\ mine \in 0..Len(owner)
  /\ Here => mine # 0
  /\ ~Here => me = NoUser
  /\ me # NoUser => me.id # None
  /\ stored = mine /\ me # NoUser => me.id = owner[mine]

\* Only a loaded user's name is ever marked saved.
ProfOK ==
  /\ prof.last = prof.sure
  /\ prof.save = "saved" => me # NoUser

\* The newest choice has one request at most, with the choice that is shown.
PrefsGood(p, cs) ==
  /\ p.save = "saving" => \E c \in cs : Newest(c)
  /\ p.save \in {"saved", "error"} /\ ~p.late => \A c \in cs : ~Newest(c)
  /\ p.save = "saved" /\ ~p.late => p.sure = p.value
  /\ \A c \in cs : Newest(c) => c.arg = p.value
  /\ \A c, d \in cs : Newest(c) /\ Newest(d) => c = d
PrefsOK == PrefsGood(prefs, calls) /\ (~Here => prefs.save # "saving")

\* What a request carries, and what the page awaits of it while it listens.
CallOK(c) ==
  /\ c \in CallType /\ c.token <= Len(owner)
  /\ c.kind = "signin" => c.arg \in Users
  /\ c.kind = "name" => c.arg \in Names
  /\ c.kind = "prefs" => c.arg \in 0..MaxPrefs
  /\ c.kind = "me" => Here /\ c.token = mine
  /\ c.live /\ c.kind \in {"name", "prefs", "delete"} => Here
  /\ c.live /\ c.kind = "name" =>
       Dirty(me, prof) /\ c.arg = prof.deb /\ (stored = mine => c.token = mine)
  /\ c.live /\ c.kind = "delete" => c.arg # None /\ (c.token = mine => owner[c.token] = c.arg)

PageInv ==
  /\ AccountOK /\ PageTypes /\ UserOK /\ ProfOK /\ PrefsOK
  /\ \A c \in calls : CallOK(c)

Dead(c) == [c EXCEPT !.live = FALSE]

\* The same requests for the newest choice, and the same mark.
LEMMA PrefsSame ==
  ASSUME NEW p, NEW cs, PrefsGood(p, cs), NEW q, NEW new,
         q.save = p.save, q.late = p.late, q.sure = p.sure, q.value = p.value,
         q.save = "saving" => \A c \in cs : Newest(c) => c \in new,
         \A c \in new : Newest(c) => c \in cs
  PROVE  PrefsGood(q, new)
BY DEF PrefsGood

LEMMA PrefsIdle ==
  ASSUME NEW p, NEW cs, p.save = "idle", \A c \in cs : ~Newest(c)
  PROVE  PrefsGood(p, cs)
BY DEF PrefsGood

LEMMA DeadIs == \A c \in CallType : ~Newest(Dead(c))
BY DEF CallType, Dead, Newest

LEMMA TokenFacts == SessionInv => /\ Len(owner) \in Nat /\ Len(owner) <= MaxTokens /\ MaxTokens \in Nat
                                  /\ stored \in Nat /\ stored <= Len(owner) /\ owner \in Seq(Users)
                                  /\ \A k \in 1..Len(owner) : owner[k] \in Users
<1> SUFFICES ASSUME SessionInv
             PROVE  /\ Len(owner) \in Nat /\ Len(owner) <= MaxTokens /\ MaxTokens \in Nat
                    /\ stored \in Nat /\ stored <= Len(owner) /\ owner \in Seq(Users)
                    /\ \A k \in 1..Len(owner) : owner[k] \in Users
  OBVIOUS
<1>1. /\ owner \in Seq(Users) /\ Len(owner) \in 1..MaxTokens /\ stored \in 0..Len(owner)
      /\ MaxTokens \in Nat
  BY TokensAssumption DEF SessionInv, TokensOK
<1> QED BY <1>1, ElementOfSeq

LEMMA CallMade ==
  ASSUME NEW kind \in Kinds, NEW token \in 0..MaxTokens, NEW arg \in Users \cup {None} \cup Nat
  PROVE  LET c == Call(kind, token, arg) IN
         c \in CallType /\ c.kind = kind /\ c.token = token /\ c.arg = arg /\ c.live = TRUE
BY DEF Call, CallType

\* The request of someone who left; getMe's is forgotten then.
LEMMA DeadOK ==
  ASSUME SessionInv, SessionInv', Issued(owner'), NEW c, CallOK(c), c.kind # "me"
  PROVE  CallOK(Dead(c))'
<1>1. c \in CallType
  BY DEF CallOK
<1>2. /\ Dead(c) \in CallType /\ Dead(c).kind = c.kind /\ Dead(c).token = c.token
      /\ Dead(c).arg = c.arg /\ Dead(c).live = FALSE
  BY <1>1 DEF Dead, CallType
<1>3. c.token <= Len(owner')
  <2>1. c.token \in Nat /\ Len(owner) \in Nat /\ Len(owner') \in Nat /\ Len(owner) <= Len(owner')
    BY <1>1, TokenFacts DEF CallType, Issued
  <2> QED BY <2>1 DEF CallOK
<1> QED BY <1>1, <1>2, <1>3 DEF CallOK

\* Nothing of the page moves; others may have put in a new token.
LEMMA StayInv ==
  ASSUME SessionInv, SessionInv', PageInv, AccountOK', UNCHANGED page, Issued(owner'),
         Here' <=> Here, stored' \in {stored, 0} \/ stored' > Len(owner),
         \A c \in calls' : \/ c \in calls
                           \/ c.kind = "signin" /\ CallOK(c)'
                           \/ \E d \in calls : d.kind # "me" /\ c = Dead(d),
         Here => \A c \in calls : c.kind = "prefs" => c \in calls'
  PROVE  PageInv'
<1>1. /\ PageTypes /\ UserOK /\ ProfOK /\ PrefsOK /\ \A c \in calls : CallOK(c)
      /\ UNCHANGED <<me, mine, section, prof, prefs, danger>>
  BY DEF PageInv, page
<1>2. /\ Len(owner) \in Nat /\ Len(owner') \in Nat /\ Len(owner) <= Len(owner') /\ stored \in Nat
      /\ \A k \in 1..Len(owner) : owner'[k] = owner[k]
  BY TokenFacts DEF Issued
<1>3. Here /\ stored' = mine => stored = mine
  BY <1>1, <1>2 DEF UserOK
<1>4. PageTypes' /\ ProfOK'
  BY <1>1 DEF PageTypes, ProfOK
<1>5. UserOK'
  BY <1>1, <1>2, <1>3 DEF UserOK
<1>6. PrefsOK'
  <2>1. \A c \in calls' : Newest(c) => c \in calls
    BY <1>1, DeadIs DEF CallOK, Newest
  <2>2. prefs.save = "saving" => \A c \in calls : Newest(c) => c \in calls'
    BY <1>1 DEF PrefsOK, Newest
  <2> DEFINE cs == calls'
  <2>3. PrefsGood(prefs, calls) /\ (\A c \in cs : Newest(c) => c \in calls)
        /\ (prefs.save = "saving" => \A d \in calls : Newest(d) => d \in cs)
    BY <1>1, <2>1, <2>2 DEF PrefsOK
  <2> HIDE DEF cs
  <2>4. PrefsGood(prefs, cs)
    BY <2>3, PrefsSame
  <2> QED BY <1>1, <2>4 DEF PrefsOK, cs
<1>7. ASSUME NEW c \in calls' PROVE CallOK(c)'
  <2>1. CASE c \in calls
    <3>1. CallOK(c) /\ c.token \in Nat
      BY <1>1, <2>1 DEF CallOK, CallType
    <3>2. c.token = mine /\ Here => c.token \in 1..Len(owner)
      BY <1>1, <1>2, <3>1 DEF UserOK
    <3>3. c.token <= Len(owner')
      BY <1>2, <3>1 DEF CallOK
    <3>4. Dirty(me, prof)' <=> Dirty(me, prof)
      BY <1>1 DEF Dirty
    <3> QED BY <1>1, <1>2, <1>3, <3>1, <3>2, <3>3, <3>4 DEF CallOK
  <2>2. CASE c.kind = "signin" /\ CallOK(c)'
    BY <2>2
  <2>3. ASSUME NEW d \in calls, d.kind # "me", c = Dead(d) PROVE CallOK(c)'
    <3>1. CallOK(Dead(d))'
      BY <1>1, <2>3, DeadOK
    <3> QED BY <2>3, <3>1
  <2> QED BY <2>1, <2>2, <2>3
<1> QED BY <1>4, <1>5, <1>6, <1>7 DEF PageInv

\* The page is entered or left.
LEMMA MoveInv ==
  ASSUME SessionInv, SessionInv', PageInv, AccountOK', Remounts, Issued(owner'),
         tab'.page = "settings" => stored' # 0,
         \A c \in calls' : \/ c.kind = "signin" /\ CallOK(c)'
                           \/ \E d \in calls : d.kind # "me" /\ c = Dead(d)
                           \/ c = Call("me", stored', None) /\ tab'.page = "settings"
  PROVE  PageInv'
<1>1. /\ me' = NoUser /\ mine' = IF tab'.page = "settings" THEN stored' ELSE 0
      /\ section' = "profile" /\ prof' = NoProfile /\ prefs' = NoPrefs /\ danger' = NoDanger
  BY DEF Remounts
<1>2. /\ Len(owner') \in Nat /\ stored' \in Nat /\ stored' <= Len(owner') /\ stored' \in 0..MaxTokens
  <2>1. (SessionInv => /\ Len(owner) \in Nat /\ Len(owner) <= MaxTokens /\ MaxTokens \in Nat
                       /\ stored \in Nat /\ stored <= Len(owner) /\ owner \in Seq(Users)
                       /\ \A k \in 1..Len(owner) : owner[k] \in Users)'
    BY TokenFacts, PTL
  <2> QED BY <2>1
<1>3. 0 \in Names /\ 0 \in 0..MaxPrefs
  BY SettingsAssumption DEF Names
<1>4. NoUser \in UserType
  BY <1>3 DEF NoUser, UserType
<1>5. NoProfile \in ProfType /\ NoProfile.last = NoProfile.sure /\ NoProfile.save = "idle"
  BY <1>3 DEF NoProfile, ProfType, SaveStates
<1>6. NoPrefs \in PrefsType /\ NoPrefs.save = "idle" /\ NoDanger \in DangerType
  BY <1>3 DEF NoPrefs, PrefsType, SaveStates, NoDanger, DangerType
<1>7. PageTypes' /\ ProfOK'
  BY <1>1, <1>4, <1>5, <1>6 DEF PageTypes, Sections, ProfOK
<1>8. UserOK'
  BY <1>1, <1>2 DEF UserOK, Here
<1>9. PrefsOK'
  <2>1. \A c \in calls' : ~Newest(c)
    BY DeadIs DEF PageInv, CallOK, Newest, Call
  <2> DEFINE cs == calls'
  <2>2. \A c \in cs : ~Newest(c)
    BY <2>1
  <2> HIDE DEF cs
  <2>3. PrefsGood(NoPrefs, cs)
    BY <1>6, <2>2, PrefsIdle
  <2> QED BY <1>1, <1>6, <2>3 DEF PrefsOK, cs
<1>10. ASSUME NEW c \in calls' PROVE CallOK(c)'
  <2>1. ASSUME NEW d \in calls, d.kind # "me", c = Dead(d) PROVE CallOK(c)'
    <3>1. CallOK(Dead(d))'
      BY <2>1, DeadOK DEF PageInv
    <3> QED BY <2>1, <3>1
  <2>2. CASE c = Call("me", stored', None) /\ tab'.page = "settings"
    <3> DEFINE token == stored'
    <3>1. token \in 0..MaxTokens
      BY <1>2
    <3> HIDE DEF token
    <3>2. LET k == Call("me", token, None) IN
          k \in CallType /\ k.kind = "me" /\ k.token = token /\ k.arg = None /\ k.live = TRUE
      BY <3>1, CallMade DEF Kinds
    <3>3. c \in CallType /\ c.kind = "me" /\ c.token = stored'
      BY <2>2, <3>2 DEF token
    <3> QED BY <1>1, <1>2, <2>2, <3>3 DEF CallOK, Here
  <2> QED BY <2>1, <2>2
<1> QED BY <1>7, <1>8, <1>9, <1>10 DEF PageInv

-----------------------------------------------------------------------------
(* Going somewhere.                                                        *)

LEMMA Unlistened ==
  ASSUME NEW cs, NEW c, c \in Unmounted(cs)
  PROVE  \E d \in cs : d.kind # "me" /\ c = Dead(d)
BY DEF Unmounted, Dead

\* The page field of what the tab becomes.
LEMMA PageShown ==
  ASSUME NEW n \in TabType, NEW token \in Tokens \cup {0}, NEW p
  PROVE  [Renders(n, token) EXCEPT !.page = p].page = p
<1>1. CASE n.auth = (token # 0)
  BY <1>1 DEF Renders, TabType
<1>2. CASE n.auth # (token # 0) /\ token = 0
  BY <1>2 DEF Renders, TabType
<1>3. CASE n.auth # (token # 0) /\ token # 0
  BY <1>3 DEF Renders, TabType
<1> QED BY <1>1, <1>2, <1>3

LEMMA GoesInv ==
  ASSUME SessionInv, SessionInv', PageInv, AccountOK', Issued(owner'), Follows,
         NEW p \in Pages, NEW token, stored' = token, tab'.page = At(p, token),
         token \in {stored, 0} \/ token > Len(owner), Here => p # "settings",
         \A c \in calls' : \/ \E d \in calls : d.kind # "me" /\ c = Dead(d)
                           \/ c \in FirstCalls(p, token)
  PROVE  PageInv'
<1>1. tab'.page = "settings" => token # 0 /\ p = "settings" /\ ~Here
  BY DEF At, Guarded
<1>2. \A c \in calls' : \/ \E d \in calls : d.kind # "me" /\ c = Dead(d)
                        \/ c = Call("me", stored', None) /\ tab'.page = "settings"
  BY DEF FirstCalls
<1>3. CASE Here = (tab'.page = "settings")
  <2>1. ~Here /\ tab'.page # "settings" /\ UNCHANGED page
    BY <1>1, <1>3 DEF Follows, Here
  <2>2. ~Here'
    BY <2>1 DEF Here
  <2> QED BY <1>2, <2>1, <2>2, StayInv
<1>4. CASE Here # (tab'.page = "settings")
  <2>1. Remounts
    BY <1>4 DEF Follows
  <2> QED BY <1>1, <1>2, <2>1, MoveInv
<1> QED BY <1>3, <1>4

LEMMA PushesInv ==
  ASSUME SessionInv, SessionInv', PageInv, AccountOK', Issued(owner'), Follows,
         NEW from \in TabType, from.page = tab.page, NEW p \in Pages,
         NEW token \in Tokens \cup {0}, token \in {stored, 0} \/ token > Len(owner),
         NEW rest \in SUBSET calls, \A c \in calls : c.kind = "prefs" => c \in rest,
         Pushes(from, p, token, rest)
  PROVE  PageInv'
<1>1. CASE from.page = p
  <2>1. stored' = token /\ tab' = from /\ calls' = rest
    BY <1>1 DEF Pushes
  <2>2. Here' <=> Here
    BY <2>1 DEF Here
  <2>3. UNCHANGED page
    BY <2>1 DEF Follows, Here
  <2> QED BY <2>1, <2>2, <2>3, StayInv
<1>2. CASE from.page # p
  <2>1. /\ stored' = token /\ calls' = Unmounted(rest) \cup FirstCalls(p, token)
        /\ tab' = [Renders(from, token) EXCEPT !.page = At(p, token)]
    BY <1>2 DEF Pushes
  <2>2. tab'.page = At(p, token)
    BY <2>1, PageShown
  <2>3. Here => p # "settings"
    BY <1>2 DEF Here
  <2>4. \A c \in calls' : \/ \E d \in calls : d.kind # "me" /\ c = Dead(d)
                          \/ c \in FirstCalls(p, token)
    BY <2>1, Unlistened
  <2> QED BY <2>1, <2>2, <2>3, <2>4, GoesInv
<1> QED BY <1>1, <1>2

LEMMA LoadsInv ==
  ASSUME SessionInv, SessionInv', PageInv, AccountOK', UNCHANGED owner, Follows,
         NEW p \in Pages, NEW token \in {stored, 0}, Loads(p, token), Here => p # "settings"
  PROVE  PageInv'
<1>1. /\ stored' = token /\ calls' = FirstCalls(p, token)
      /\ tab' = [Renders(Fresh, token) EXCEPT !.page = At(p, token)]
  BY DEF Loads
<1>2. Fresh \in TabType
  BY FreshGood DEF TabGood
<1>3. token \in Tokens \cup {0}
  BY TokenFacts DEF Tokens
<1>4. tab'.page = At(p, token)
  BY <1>1, <1>2, <1>3, PageShown
<1>5. Issued(owner')
  BY SameIssued DEF SessionInv, Issued
<1> QED BY <1>1, <1>4, <1>5, GoesInv

LEMMA SessionNextInv ==
  ASSUME SessionInv, SessionInv', PageInv, SessionStep
  PROVE  PageInv'
<1>1. SessionNext /\ Follows /\ AccountOK' /\ tab \in TabType /\ \A c \in calls : CallOK(c)
  BY DEF SessionStep, account, AccountOK, PageInv, SessionInv, TabGood
<1>2. /\ Len(owner) \in Nat /\ stored \in Tokens \cup {0} /\ 0 \in Tokens \cup {0}
      /\ (owner' = owner => Issued(owner')) /\ "login" \in Pages /\ "dashboard" \in Pages
  BY TokenFacts, SameIssued DEF Tokens, SessionInv, Issued, Pages, Guarded
<1>3. ASSUME NEW p \in Pages, Visit(p) PROVE PageInv'
  BY <1>1, <1>2, <1>3, PushesInv DEF Visit
<1>4. ASSUME NEW p \in Pages, Load(p) PROVE PageInv'
  BY <1>1, <1>2, <1>4, LoadsInv DEF Load, Here
<1>5. ASSUME UNCHANGED calls, tab'.page = tab.page, Issued(owner'),
             stored' \in {stored, 0} \/ stored' > Len(owner)
      PROVE  PageInv'
  <2>1. UNCHANGED page /\ (Here' <=> Here)
    BY <1>1, <1>5 DEF Follows, Here
  <2> QED BY <1>1, <1>5, <2>1, StayInv
<1>6. CASE Elsewhere
  <2>1. UNCHANGED calls /\ tab'.page = tab.page
    BY <1>1, <1>6 DEF Elsewhere, TabType
  <2>2. CASE stored' = 0 /\ owner' = owner
    BY <1>2, <1>5, <2>1, <2>2
  <2>3. ASSUME NEW u \in Users, Len(owner) < MaxTokens, stored' = Len(owner) + 1,
               owner' = Append(owner, u)
        PROVE  PageInv'
    <3> DEFINE new == Append(owner, u)
    <3>1. Issued(new)
      BY <2>3, Appended DEF SessionInv
    <3> HIDE DEF new
    <3>2. Issued(owner') /\ stored' > Len(owner)
      BY <1>2, <2>3, <3>1 DEF new, Issued
    <3> QED BY <1>5, <2>1, <3>2
  <2> QED BY <1>6, <2>2, <2>3 DEF Elsewhere
<1>7. CASE StorageEvent
  <2>1. UNCHANGED <<calls, owner, stored>> /\ tab' = [Renders(tab, stored) EXCEPT !.told = FALSE]
    BY <1>7 DEF StorageEvent, storage
  <2>2. tab'.page = tab.page
    <3> DEFINE r == Renders(tab, stored)
    <3>1. TabGood(r, owner) /\ r.page = tab.page
      BY TokenFacts, RendersGood DEF SessionInv
    <3> HIDE DEF r
    <3> QED BY <2>1, <3>1 DEF TabGood, TabType, r
  <2> QED BY <1>2, <1>5, <2>1, <2>2
<1>8. ASSUME NEW k \in Tokens, MeArrives(k) PROVE PageInv'
  <2>1. UNCHANGED <<calls, owner, stored>> /\ tab'.page = tab.page
    BY <1>1, <1>8 DEF MeArrives, storage, TabType
  <2> QED BY <1>2, <1>5, <2>1
<1>9. CASE Logout
  <2> DEFINE r == Renders(tab, 0)
  <2>1. Pushes(r, "login", 0, calls) /\ UNCHANGED owner
    BY <1>9 DEF Logout
  <2>2. r \in TabType /\ r.page = tab.page
    BY TokenFacts, RendersGood DEF SessionInv, TabGood
  <2> HIDE DEF r
  <2> QED BY <1>1, <1>2, <2>1, <2>2, PushesInv
<1>10. ASSUME NEW k \in Tokens, Expire(k) PROVE PageInv'
  BY <1>2, <1>5, <1>10 DEF Expire
<1>11. ASSUME NEW u \in Users, Submit(u) PROVE PageInv'
  <2>1. /\ calls' = calls \cup {Call("signin", stored, u)}
        /\ UNCHANGED <<stored, owner, tab>>
    BY <1>11 DEF Submit, storage
  <2> PICK new : new = Call("signin", stored, u)
    OBVIOUS
  <2>2. new \in CallType /\ new.kind = "signin" /\ new.token = stored /\ new.arg = u
    <3>1. stored \in 0..MaxTokens
      BY TokenFacts
    <3> QED BY <3>1 DEF Call, CallType, Kinds
  <2>3. CallOK(new)'
    <3>1. new.token <= Len(owner')
      BY <2>1, <2>2, TokenFacts
    <3> QED BY <2>2, <3>1 DEF CallOK
  <2>4. UNCHANGED page /\ (Here' <=> Here)
    BY <1>1, <2>1 DEF Follows, Here
  <2> QED BY <1>1, <1>2, <2>1, <2>2, <2>3, <2>4, StayInv
<1>12. ASSUME NEW c \in calls, SignInArrives(c) PROVE PageInv'
  <2> DEFINE token == Len(owner) + 1
             new == Append(owner, c.arg)
             q == [Renders(tab, token) EXCEPT !.over = tab.auth]
  <2>1. /\ Len(owner) < MaxTokens /\ owner' = new /\ c.arg \in Users /\ c.kind = "signin"
        /\ Pushes(q, "dashboard", token, calls \ {c})
    BY <1>1, <1>12 DEF SignInArrives, CallOK
  <2>2. Issued(new) /\ Len(new) = token
    BY <2>1, Appended DEF SessionInv
  <2>3. token \in Tokens \cup {0} /\ token > Len(owner) /\ token \in 0..MaxTokens /\ token # 0
    BY <1>2, <2>1, TokenFacts DEF Tokens
  <2> HIDE DEF token, new
  <2>4. TabGood(tab, new)
    BY <2>2, MoreIssued DEF SessionInv
  <2>5. q \in TabType /\ q.page = tab.page
    <3>1. token <= Len(new) /\ Len(new) \in Nat
      BY <2>2, <2>3
    <3> QED BY <2>3, <2>4, <3>1, SignedInGood DEF TabGood
  <2> HIDE DEF q
  <2>6. Issued(owner')
    BY <2>1, <2>2
  <2> QED BY <1>1, <1>2, <2>1, <2>3, <2>5, <2>6, PushesInv
<1>13. ASSUME NEW c \in calls, SignInRefused(c) PROVE PageInv'
  <2>1. CASE Loads("login", 0)
    BY <1>1, <1>2, <1>13, <2>1, LoadsInv DEF SignInRefused
  <2>2. CASE ~Loads("login", 0)
    <3>1. calls' = calls \ {c} /\ c.kind = "signin" /\ UNCHANGED <<stored, owner, tab>>
      BY <1>13, <2>2 DEF SignInRefused
    <3>2. UNCHANGED page /\ (Here' <=> Here)
      BY <1>1, <3>1 DEF Follows, Here
    <3> QED BY <1>1, <1>2, <3>1, <3>2, StayInv
  <2> QED BY <2>1, <2>2
<1> QED BY <1>1, <1>3, <1>4, <1>6, <1>7, <1>8, <1>9, <1>10, <1>11, <1>12, <1>13 DEF SessionNext

-----------------------------------------------------------------------------
(* On the page.                                                            *)

Edits == UNCHANGED <<stored, owner, tab, mine>>

LEMMA CallKept ==
  ASSUME NEW c, CallOK(c), Edits, Dirty(me, prof)' <=> Dirty(me, prof),
         prof'.deb = prof.deb \/ ~(c.live /\ c.kind = "name")
  PROVE  CallOK(c)'
BY DEF CallOK, Edits, Here

LEMMA AutosaveInv ==
  ASSUME SessionInv, PageInv, Edits, NEW cs \in SUBSET calls, calls' = Autosave(cs, prof', me'),
         prof' \in ProfType, Here \/ UNCHANGED <<me, prof>>
  PROVE  /\ \A c \in calls' : CallOK(c)'
         /\ \A c \in cs : c.kind = "prefs" => c \in calls'
         /\ \A c \in calls' : Newest(c) => c \in calls
<1>1. \A c \in cs : CallOK(c) /\ c \in CallType
  BY DEF PageInv, CallOK
<1>2. Dirty(me', prof') <=> Dirty(me, prof)'
  BY DEF Dirty
<1>3. CASE Dirty(me', prof') = Dirty(me, prof) /\ prof'.deb = prof.deb
  <2>1. calls' = cs
    BY <1>3 DEF Autosave
  <2> QED BY <1>1, <1>2, <1>3, <2>1, CallKept
<1>4. CASE ~(Dirty(me', prof') = Dirty(me, prof) /\ prof'.deb = prof.deb)
  <2> DEFINE quiet(c) == [c EXCEPT !.live = c.live /\ c.kind # "name"]
  <2>1. calls' = {quiet(c) : c \in cs}
                 \cup (IF Dirty(me', prof') THEN {Call("name", stored, prof'.deb)} ELSE {})
    BY <1>4 DEF Autosave
  <2>2. ASSUME NEW c \in cs
        PROVE  /\ CallOK(quiet(c)) /\ ~(quiet(c).live /\ quiet(c).kind = "name")
               /\ (c.kind = "prefs" => quiet(c) = c)
    <3> DEFINE q == quiet(c)
    <3>1. /\ q \in CallType /\ q.kind = c.kind /\ q.token = c.token /\ q.arg = c.arg
          /\ q.live = (c.live /\ c.kind # "name")
      BY <1>1 DEF CallType
    <3>2. c.kind = "prefs" => q = c
      BY <1>1 DEF CallType
    <3> HIDE DEF q
    <3>3. CallOK(q) /\ ~(q.live /\ q.kind = "name")
      BY <1>1, <3>1 DEF CallOK
    <3> QED BY <3>2, <3>3 DEF q
  <2>3. ASSUME NEW c \in cs PROVE CallOK(quiet(c))'
    <3> DEFINE q == quiet(c)
    <3>1. q' = q /\ CallOK(q) /\ ~(q.live /\ q.kind = "name")
      BY <2>2
    <3> HIDE DEF q
    <3>2. CallOK(q)'
      BY <1>2, <3>1 DEF CallOK, Edits, Here
    <3> QED BY <3>2 DEF q
  <2>4. ASSUME Dirty(me', prof'), NEW new, new = Call("name", stored, prof'.deb)
        PROVE  CallOK(new)'
    <3>1. Here /\ prof'.deb \in Names /\ prof'.deb \in Nat /\ stored \in 0..MaxTokens
      <4>1. Here
        <5>1. CASE UNCHANGED <<me, prof>>
          BY <1>4, <5>1
        <5> QED BY <5>1
      <4>2. prof'.deb \in Names /\ Names \subseteq Nat
        BY SettingsAssumption DEF ProfType, Names
      <4>3. stored \in 0..MaxTokens
        BY TokenFacts
      <4> QED BY <4>1, <4>2, <4>3
    <3>2. new \in CallType /\ new.kind = "name" /\ new.token = stored /\ new.arg = prof'.deb
      BY <2>4, <3>1 DEF Call, CallType, Kinds
    <3>3. new.token <= Len(owner')
      BY <3>2, TokenFacts DEF Edits
    <3> QED BY <1>2, <2>4, <3>1, <3>2, <3>3 DEF CallOK, Edits, Here
  <2> HIDE DEF quiet
  <2>5. \A c \in calls' : \/ \E d \in cs : c = quiet(d)
                          \/ Dirty(me', prof') /\ c = Call("name", stored, prof'.deb)
    BY <2>1
  <2>6. \A c \in cs : c.kind = "prefs" => c \in calls'
    BY <2>1, <2>2
  <2>8. ASSUME NEW c \in calls', Newest(c) PROVE c \in calls
    <3>1. c.kind = "prefs" /\ c.kind # "name"
      BY <2>8 DEF Newest
    <3>2. Call("name", stored, prof'.deb).kind = "name"
      BY DEF Call
    <3>3. PICK d \in cs : c = quiet(d)
      BY <2>5, <3>1, <3>2
    <3>4. d.kind = "prefs"
      BY <1>1, <3>1, <3>3 DEF quiet, CallType
    <3> QED BY <2>2, <3>3, <3>4
  <2>7. ASSUME NEW c \in calls' PROVE CallOK(c)'
    <3>1. ASSUME NEW d \in cs, c = quiet(d) PROVE CallOK(c)'
      <4>1. CallOK(quiet(d))' /\ quiet(d)' = quiet(d)
        BY <2>3 DEF quiet
      <4> QED BY <3>1, <4>1 DEF CallOK
    <3> QED BY <2>4, <2>5, <3>1
  <2> QED BY <2>6, <2>7, <2>8
<1> QED BY <1>3, <1>4

\* What is left to show of a step that stays on the page.
LEMMA EditsInv ==
  ASSUME SessionInv, PageInv, Edits, AccountOK', PageTypes', PrefsOK', ProfOK',
         \A c \in calls' : CallOK(c)',
         me' = me \/ (Here /\ me'.id # None /\ (stored = mine => me'.id = owner[mine]))
  PROVE  PageInv'
<1>1. UserOK'
  BY DEF PageInv, UserOK, Edits, Here
<1> QED BY <1>1 DEF PageInv

LEMMA SyncedOK ==
  ASSUME PageInv, NEW u \in UserType, NEW p \in ProfType, p.last = p.sure
  PROVE  /\ Synced(p, u) \in ProfType /\ Synced(p, u).last = Synced(p, u).sure
         /\ Synced(p, u).save = p.save
BY DEF Synced, UserType, ProfType

\* The preferences are left alone and none of their requests is forgotten.
LEMMA PrefsKept ==
  ASSUME PageInv, Edits, UNCHANGED prefs, \A c \in calls : c.kind = "prefs" => c \in calls',
         \A c \in calls' : Newest(c) => c \in calls
  PROVE  PrefsOK'
<1> DEFINE cs == calls'
<1>1. /\ PrefsGood(prefs, calls) /\ (\A c \in cs : Newest(c) => c \in calls)
      /\ \A c \in calls : Newest(c) => c \in cs
  BY DEF PageInv, PrefsOK, Newest
<1> HIDE DEF cs
<1>2. PrefsGood(prefs, cs)
  BY <1>1, PrefsSame
<1> QED BY <1>2 DEF PageInv, PrefsOK, Edits, Here, cs

LEMMA UserStands ==
  ASSUME NEW u, u.id # None
  PROVE  u # NoUser
BY DEF NoUser

LEMMA MeLoadsInv ==
  ASSUME SessionInv, PageInv, NEW c \in calls, MeLoads(c)
  PROVE  PageInv'
<1>1. /\ AccountOK /\ PageTypes /\ UserOK /\ ProfOK /\ PrefsOK /\ CallOK(c) /\ c \in CallType
      /\ Here /\ c.kind = "me" /\ c.token = mine
  BY DEF PageInv, MeLoads, CallOK
<1>2. Edits /\ UNCHANGED <<names, gone, local, section, prefs, danger>>
  BY DEF MeLoads, Edits, storage
<1>3. /\ AccountOK' /\ calls \ {c} \in SUBSET calls
      /\ \A d \in calls : d.kind = "prefs" => d \in calls \ {c}
  BY <1>1, <1>2 DEF AccountOK
<1>4. CASE /\ Valid(c.token)
           /\ me' = [id |-> owner[c.token], name |-> names[owner[c.token]]]
           /\ prof' = Synced(prof, me') /\ calls' = Autosave(calls \ {c}, prof', me')
  <2>1. owner[c.token] \in Users /\ names[owner[c.token]] \in Names
    BY <1>1, <1>4, TokenFacts DEF Valid, AccountOK
  <2>2. me' \in UserType /\ me'.id = owner[mine] /\ me'.id # None
    BY <1>1, <1>4, <2>1, NoneAssumption DEF UserType
  <2>3. prof' \in ProfType /\ prof'.last = prof'.sure /\ prof'.save = prof.save
    <3> DEFINE u == me'
    <3>1. u \in UserType /\ prof' = Synced(prof, u) /\ prof \in ProfType /\ prof.last = prof.sure
      BY <1>1, <1>4, <2>2 DEF PageTypes, ProfOK
    <3> HIDE DEF u
    <3> QED BY <3>1, SyncedOK
  <2>4. /\ \A d \in calls' : CallOK(d)'
        /\ \A d \in calls \ {c} : d.kind = "prefs" => d \in calls'
        /\ \A d \in calls' : Newest(d) => d \in calls
    BY <1>1, <1>2, <1>3, <1>4, <2>3, AutosaveInv
  <2>5. PageTypes' /\ PrefsOK'
    BY <1>1, <1>2, <1>3, <2>2, <2>3, <2>4, PrefsKept DEF PageTypes
  <2>6. ProfOK'
    <3>1. me' # NoUser
      BY <2>2, UserStands
    <3> QED BY <2>3, <3>1 DEF ProfOK
  <2> QED BY <1>1, <1>2, <1>3, <2>2, <2>4, <2>5, <2>6, EditsInv
<1>5. CASE calls' = calls \ {c} /\ UNCHANGED <<me, prof>>
  <2>1. PageTypes' /\ PrefsOK' /\ ProfOK'
    BY <1>1, <1>2, <1>3, <1>5, PrefsKept DEF PageTypes, ProfOK
  <2>2. \A d \in calls' : CallOK(d)'
    <3>1. Dirty(me, prof)' <=> Dirty(me, prof)
      BY <1>5 DEF Dirty
    <3> QED BY <1>2, <1>5, <3>1, CallKept DEF PageInv
  <2> QED BY <1>2, <1>3, <1>5, <2>1, <2>2, EditsInv
<1> QED BY <1>4, <1>5 DEF MeLoads

LEMMA NameSavedInv ==
  ASSUME SessionInv, PageInv, NEW c \in calls, NameSaved(c)
  PROVE  PageInv'
<1>1. /\ AccountOK /\ PageTypes /\ UserOK /\ ProfOK /\ PrefsOK /\ CallOK(c) /\ c \in CallType
      /\ c.kind = "name" /\ c.arg \in Names /\ Valid(c.token)
  BY DEF PageInv, NameSaved, CallOK
<1>2. Edits /\ UNCHANGED <<gone, section, prefs, danger>>
  BY DEF NameSaved, Edits, storage
<1>3. calls \ {c} \in SUBSET calls /\ \A d \in calls : d.kind = "prefs" => d \in calls \ {c}
  BY <1>1
<1>4. owner[c.token] \in Users
  BY <1>1, TokenFacts DEF Valid
<1>5. /\ \/ names' = [names EXCEPT ![owner[c.token]] = c.arg] /\ local' = local
         \/ local' = 0 /\ names' = names
      /\ me' = me \/ (c.live /\ me' = [id |-> owner[c.token], name |-> c.arg])
      /\ calls' = Autosave(calls \ {c}, prof', me')
      /\ IF c.live
         THEN prof' = Synced([prof EXCEPT !.last = c.arg, !.save = "saved", !.sure = c.arg], me')
         ELSE prof' = prof
  BY DEF NameSaved, Persisted
<1>6. AccountOK'
  <2>1. 0 \in 0..MaxPrefs
    BY SettingsAssumption
  <2>2. CASE names' = [names EXCEPT ![owner[c.token]] = c.arg] /\ local' = local
    BY <1>1, <1>2, <2>2 DEF AccountOK
  <2>3. CASE local' = 0 /\ names' = names
    BY <1>1, <1>2, <2>1, <2>3 DEF AccountOK
  <2> QED BY <1>5, <2>2, <2>3
<1>7. /\ me' \in UserType
      /\ me' = me \/ (c.live /\ me'.id = owner[c.token] /\ me'.id # None)
  BY <1>1, <1>4, <1>5, NoneAssumption DEF PageTypes, UserType
<1>8. c.live => Here /\ me # NoUser /\ (stored = mine => c.token = mine)
  BY <1>1 DEF CallOK, Dirty
<1>9. prof' \in ProfType /\ prof'.last = prof'.sure
  <2>1. CASE c.live
    <3> DEFINE u == me'
               p == [prof EXCEPT !.last = c.arg, !.save = "saved", !.sure = c.arg]
    <3>1. u \in UserType /\ prof' = Synced(p, u)
      BY <1>5, <1>7, <2>1
    <3>2. p \in ProfType /\ p.last = p.sure
      BY <1>1 DEF PageTypes, ProfType, SaveStates
    <3> HIDE DEF u, p
    <3> QED BY <3>1, <3>2, SyncedOK
  <2>2. CASE ~c.live
    BY <1>1, <1>5, <2>2 DEF PageTypes, ProfOK
  <2> QED BY <2>1, <2>2
<1>10. ProfOK'
  <2>1. CASE c.live
    <3>1. me' # NoUser
      BY <1>7, <1>8, <2>1, UserStands
    <3> QED BY <1>9, <3>1 DEF ProfOK
  <2>2. CASE ~c.live
    BY <1>1, <1>5, <1>7, <2>2 DEF ProfOK
  <2> QED BY <2>1, <2>2
<1>11. /\ \A d \in calls' : CallOK(d)'
       /\ \A d \in calls \ {c} : d.kind = "prefs" => d \in calls'
       /\ \A d \in calls' : Newest(d) => d \in calls
  <2>1. Here \/ UNCHANGED <<me, prof>>
    BY <1>5, <1>7, <1>8
  <2> QED BY <1>2, <1>3, <1>5, <1>9, <2>1, AutosaveInv
<1>12. PageTypes' /\ PrefsOK'
  BY <1>1, <1>2, <1>3, <1>7, <1>9, <1>11, PrefsKept DEF PageTypes
<1>13. me' = me \/ (Here /\ me'.id # None /\ (stored = mine => me'.id = owner[mine]))
  BY <1>7, <1>8
<1> QED BY <1>2, <1>6, <1>10, <1>11, <1>12, <1>13, EditsInv

LEMMA NameFailsInv ==
  ASSUME SessionInv, PageInv, NEW c \in calls, NameFails(c)
  PROVE  PageInv'
<1>1. /\ AccountOK /\ PageTypes /\ UserOK /\ ProfOK /\ PrefsOK /\ CallOK(c)
      /\ c.kind = "name" /\ c.arg \in Names /\ Valid(c.token)
  BY DEF PageInv, NameFails, CallOK
<1>2. /\ Edits /\ UNCHANGED <<gone, local, me, section, prefs, danger>> /\ calls' = calls \ {c}
      /\ names' \in {names, [names EXCEPT ![owner[c.token]] = c.arg]}
      /\ prof' = IF c.live THEN [prof EXCEPT !.save = "error"] ELSE prof
  BY DEF NameFails, Edits, storage
<1>3. AccountOK'
  <2>1. owner[c.token] \in Users
    BY <1>1, TokenFacts DEF Valid
  <2> QED BY <1>1, <1>2, <2>1 DEF AccountOK
<1>4. /\ prof' \in ProfType /\ prof'.deb = prof.deb /\ prof'.last = prof.last /\ prof'.sure = prof.sure
      /\ prof'.save \in {prof.save, "error"}
  BY <1>1, <1>2 DEF PageTypes, ProfType, SaveStates
<1>5. PageTypes' /\ ProfOK' /\ PrefsOK'
  BY <1>1, <1>2, <1>4, PrefsKept DEF PageTypes, ProfOK
<1>6. \A d \in calls' : CallOK(d)'
  <2>1. Dirty(me, prof)' <=> Dirty(me, prof)
    BY <1>2, <1>4 DEF Dirty
  <2> QED BY <1>2, <1>4, <2>1, CallKept DEF PageInv
<1> QED BY <1>2, <1>3, <1>5, <1>6, EditsInv

\* Whatever happens to the preferences and to the danger zone.
LEMMA PageStays ==
  ASSUME SessionInv, PageInv, Edits, UNCHANGED <<names, gone, me, section, prof>>,
         local' \in 0..MaxPrefs, prefs' \in PrefsType, danger' \in DangerType, PrefsOK',
         \A c \in calls' : c \in calls \/ CallOK(c)'
  PROVE  PageInv'
<1>1. AccountOK' /\ PageTypes' /\ ProfOK'
  BY DEF PageInv, AccountOK, PageTypes, ProfOK
<1>2. ASSUME NEW c \in calls' PROVE CallOK(c)'
  <2>1. Dirty(me, prof)' <=> Dirty(me, prof)
    BY DEF Dirty
  <2>2. CASE c \in calls
    BY <2>1, <2>2, CallKept DEF PageInv
  <2> QED BY <2>2
<1> QED BY <1>1, <1>2, EditsInv

LEMMA VoicesArriveInv ==
  ASSUME SessionInv, PageInv, NEW c \in calls, VoicesArrive(c)
  PROVE  PageInv'
<1>1. /\ Edits /\ UNCHANGED <<names, gone, local, me, section, prof, danger>>
      /\ calls' = calls \ {c} /\ c.kind = "voices"
  BY DEF VoicesArrive, Edits, storage, account
<1>2. prefs \in PrefsType /\ danger \in DangerType /\ local \in 0..MaxPrefs /\ PrefsOK
  BY DEF PageInv, PageTypes, AccountOK
<1> PICK p : p = [prefs EXCEPT !.loading = FALSE]
  OBVIOUS
<1>3. /\ prefs' = p /\ p \in PrefsType /\ p.save = prefs.save /\ p.late = prefs.late
      /\ p.sure = prefs.sure /\ p.value = prefs.value
  BY <1>2 DEF VoicesArrive, PrefsType
<1>4. PrefsOK'
  <2>1. \A d \in calls : Newest(d) => d \in calls \ {c}
    BY <1>1 DEF Newest
  <2>2. PrefsGood(p, calls \ {c})
    BY <1>2, <1>3, <2>1, PrefsSame DEF PrefsOK
  <2> QED BY <1>1, <1>2, <1>3, <2>2 DEF PrefsOK, Edits, Here
<1> QED BY <1>1, <1>2, <1>3, <1>4, PageStays

LEMMA PrefsAnsweredInv ==
  ASSUME SessionInv, PageInv, NEW c \in calls, PrefsAnswered(c)
  PROVE  PageInv'
<1>1. /\ Edits /\ UNCHANGED <<names, gone, me, section, prof, danger>>
      /\ calls' = calls \ {c} /\ c.kind = "prefs" /\ local' \in {local, c.arg}
      /\ (prefs' = Committed(c, TRUE) \/ prefs' = Committed(c, FALSE))
  BY DEF PrefsAnswered, Edits, storage
<1>2. /\ prefs \in PrefsType /\ danger \in DangerType /\ local \in 0..MaxPrefs /\ PrefsOK
      /\ CallOK(c)
  BY DEF PageInv, PageTypes, AccountOK
<1>3. local' \in 0..MaxPrefs
  BY <1>1, <1>2 DEF CallOK
<1>4. CASE c.live
  <2>1. c.newest \in BOOLEAN /\ c.arg \in 0..MaxPrefs
    BY <1>1, <1>2 DEF CallOK, CallType
  <2>2. PICK late \in BOOLEAN : late = ~c.newest
    BY <2>1, Zenon
  <2>3. PICK ok \in BOOLEAN : prefs' = [prefs EXCEPT !.save = IF ok THEN "saved" ELSE "error",
                                          !.sure = IF ok THEN c.arg ELSE @, !.late = late]
    BY <1>1, <1>4, <2>2 DEF Committed
  <2>4. /\ prefs' \in PrefsType /\ prefs'.save = (IF ok THEN "saved" ELSE "error")
        /\ prefs'.late = late /\ prefs'.value = prefs.value /\ (ok => prefs'.sure = c.arg)
    BY <1>2, <2>1, <2>3 DEF PrefsType, SaveStates
  <2>5. /\ \A d \in calls : Newest(d) => d.arg = prefs.value
        /\ \A d, e \in calls : Newest(d) /\ Newest(e) => d = e
        /\ Newest(c) <=> c.newest
    BY <1>1, <1>2, <1>4 DEF PrefsOK, PrefsGood, Newest
  <2>6. CASE c.newest
    <3>1. ~late /\ c.arg = prefs.value /\ \A d \in calls \ {c} : ~Newest(d)
      BY <2>2, <2>5, <2>6
    <3>2. PrefsGood(prefs', calls')
      BY <1>1, <2>4, <3>1 DEF PrefsGood
    <3>3. PrefsOK'
      BY <2>4, <3>2 DEF PrefsOK
    <3> QED BY <1>1, <1>2, <1>3, <2>4, <3>3, PageStays
  <2>7. CASE ~c.newest
    <3>1. PrefsGood(prefs', calls')
      BY <1>1, <2>2, <2>4, <2>5, <2>7 DEF PrefsGood
    <3>2. PrefsOK'
      BY <2>4, <3>1 DEF PrefsOK
    <3> QED BY <1>1, <1>2, <1>3, <2>4, <3>2, PageStays
  <2> QED BY <2>6, <2>7
<1>5. CASE ~c.live
  <2>1. prefs' = prefs /\ ~Newest(c)
    BY <1>1, <1>5 DEF Committed, Newest
  <2>2. PrefsGood(prefs, calls \ {c})
    BY <1>2, <2>1, PrefsSame DEF PrefsOK
  <2>3. PrefsOK'
    BY <1>1, <1>2, <2>1, <2>2 DEF PrefsOK, Edits, Here
  <2> QED BY <1>1, <1>2, <1>3, <2>1, <2>3, PageStays
<1> QED BY <1>4, <1>5

LEMMA AnswersInv ==
  ASSUME SessionInv, SessionInv', PageInv, NEW c \in calls, Answers(c)
  PROVE  PageInv'
<1>1. /\ tab \in TabType /\ AccountOK /\ CallOK(c) /\ 0 \in {stored, 0} /\ 0 \in 0..MaxPrefs
      /\ 0 \in Tokens \cup {0} /\ "login" \in Pages /\ "public" \in Pages
      /\ (owner' = owner => Issued(owner'))
  BY SettingsAssumption, SameIssued DEF SessionInv, TabGood, PageInv, Pages, Issued
<1>2. CASE Refused(c)
  <2>1. /\ Loads("login", 0) /\ Follows /\ UNCHANGED owner /\ AccountOK'
    BY <1>1, <1>2 DEF Refused, Unauthorized, account, AccountOK
  <2> QED BY <1>1, <2>1, LoadsInv
<1>3. CASE SignedOut(c)
  <2>1. /\ Pushes(tab, "login", 0, calls \ {c}) /\ Follows /\ UNCHANGED owner /\ AccountOK'
        /\ c.kind = "logout"
    BY <1>1, <1>3 DEF SignedOut, account, AccountOK
  <2>2. calls \ {c} \in SUBSET calls /\ \A d \in calls : d.kind = "prefs" => d \in calls \ {c}
    BY <2>1
  <2> QED BY <1>1, <2>1, <2>2, PushesInv
<1>4. CASE Deleted(c)
  <2>1. owner[c.token] \in Users
    BY <1>4, TokenFacts DEF Deleted, Valid
  <2>2. Loads("public", 0) /\ Follows /\ UNCHANGED owner /\ AccountOK'
    BY <1>1, <1>4, <2>1 DEF Deleted, Left, AccountOK
  <2> QED BY <1>1, <2>2, LoadsInv
<1>5. CASE DeleteFails(c)
  <2>1. Loads("public", 0) /\ Follows /\ UNCHANGED owner /\ AccountOK'
    BY <1>1, <1>5 DEF DeleteFails, Left, AccountOK
  <2> QED BY <1>1, <2>1, LoadsInv
<1> QED
  BY <1>2, <1>3, <1>4, <1>5, MeLoadsInv, NameSavedInv, NameFailsInv, VoicesArriveInv,
     PrefsAnsweredInv DEF Answers

-----------------------------------------------------------------------------
(* The visitor.                                                            *)

LEMMA SelectSectionInv ==
  ASSUME SessionInv, SessionInv', PageInv, NEW s \in Sections, selectSection(s)
  PROVE  PageInv'
<1>1. /\ Edits /\ UNCHANGED <<names, gone, local, me>> /\ Here
      /\ section' = s /\ danger' = NoDanger
      /\ prof' = IF s = "profile" THEN Profile(me) ELSE NoProfile
      /\ prefs' = IF s = "preferences" THEN [NoPrefs EXCEPT !.value = local] ELSE NoPrefs
  BY DEF selectSection, Mounted, Edits, storage, account
<1>2. me \in UserType /\ me.name \in Names /\ local \in 0..MaxPrefs
  BY DEF PageInv, PageTypes, AccountOK, UserType
<1>3. 0 \in Names /\ 0 \in 0..MaxPrefs
  BY SettingsAssumption DEF Names
<1>4. prof' \in ProfType /\ prof'.last = prof'.sure /\ prof'.save = "idle"
  BY <1>1, <1>2, <1>3 DEF Profile, NoProfile, ProfType, SaveStates
<1>5. prefs' \in PrefsType /\ prefs'.save = "idle"
  BY <1>1, <1>2, <1>3 DEF NoPrefs, PrefsType, SaveStates
<1>6. danger' \in DangerType
  BY <1>1 DEF NoDanger, DangerType
<1>7. AccountOK' /\ PageTypes' /\ ProfOK'
  BY <1>1, <1>2, <1>4, <1>5, <1>6 DEF PageInv, AccountOK, PageTypes, ProfOK
<1>8. Issued(owner')
  BY <1>1, SameIssued DEF SessionInv, Edits, Issued
<1>9. \A c \in calls' : \/ c \in calls /\ c.kind = "me"
                        \/ \E d \in calls : d.kind # "me" /\ c = Dead(d)
                        \/ c = Call("voices", stored, 0)
  BY Unlistened DEF selectSection
<1>11. PrefsOK'
  <2>1. \A c \in calls' : ~Newest(c)
    BY <1>9, DeadIs DEF PageInv, CallOK, Newest, Call
  <2> DEFINE cs == calls'
             p == prefs'
  <2>2. p.save = "idle" /\ \A c \in cs : ~Newest(c)
    BY <1>5, <2>1
  <2> HIDE DEF cs, p
  <2>3. PrefsGood(p, cs)
    BY <2>2, PrefsIdle
  <2> QED BY <1>5, <2>3 DEF PrefsOK, cs, p
<1>10. ASSUME NEW c \in calls' PROVE CallOK(c)'
  <2>1. CASE c \in calls /\ c.kind = "me"
    BY <1>1, <2>1 DEF PageInv, CallOK, Edits, Here
  <2>2. ASSUME NEW d \in calls, d.kind # "me", c = Dead(d) PROVE CallOK(c)'
    <3>1. CallOK(Dead(d))'
      BY <1>8, <2>2, DeadOK DEF PageInv
    <3> QED BY <2>2, <3>1
  <2>3. CASE c = Call("voices", stored, 0)
    <3>1. stored \in 0..MaxTokens
      BY TokenFacts
    <3>2. c \in CallType /\ c.kind = "voices" /\ c.token = stored
      BY <2>3, <3>1 DEF Call, CallType, Kinds
    <3> QED BY <1>1, <3>2, TokenFacts DEF CallOK, Edits
  <2> QED BY <1>9, <2>1, <2>2, <2>3
<1> QED BY <1>1, <1>7, <1>10, <1>11, EditsInv

LEMMA TypeInv ==
  ASSUME SessionInv, PageInv, NEW n \in Names, Type(n)
  PROVE  PageInv'
<1>1. /\ Edits /\ UNCHANGED <<names, gone, local, me, section, prefs, danger, calls>>
      /\ prof' = [prof EXCEPT !.name = n, !.save = "idle"]
  BY DEF Type, Edits, session, storage, account
<1>2. prof \in ProfType
  BY DEF PageInv, PageTypes
<1>3. /\ prof' \in ProfType /\ prof'.deb = prof.deb /\ prof'.last = prof.last
      /\ prof'.sure = prof.sure /\ prof'.save = "idle"
  BY <1>1, <1>2 DEF ProfType, SaveStates
<1>4. AccountOK' /\ PageTypes' /\ ProfOK' /\ PrefsOK'
  BY <1>1, <1>3, PrefsKept DEF PageInv, AccountOK, PageTypes, ProfOK
<1>5. \A c \in calls' : CallOK(c)'
  <2>1. Dirty(me, prof)' <=> Dirty(me, prof)
    BY <1>1, <1>3 DEF Dirty
  <2> QED BY <1>1, <1>3, <2>1, CallKept DEF PageInv
<1> QED BY <1>1, <1>4, <1>5, EditsInv

LEMMA DebounceInv ==
  ASSUME SessionInv, PageInv, Debounce
  PROVE  PageInv'
<1>1. /\ Edits /\ UNCHANGED <<names, gone, local, me, section, prefs, danger>> /\ Here
      /\ prof' = [prof EXCEPT !.deb = prof.name] /\ calls' = Autosave(calls, prof', me)
  BY DEF Debounce, Edits, storage, account
<1>2. prof \in ProfType
  BY DEF PageInv, PageTypes
<1>3. prof' \in ProfType /\ prof'.last = prof.last /\ prof'.sure = prof.sure /\ prof'.save = prof.save
  BY <1>1, <1>2 DEF ProfType
<1>4. /\ \A c \in calls' : CallOK(c)'
      /\ \A c \in calls : c.kind = "prefs" => c \in calls'
      /\ \A c \in calls' : Newest(c) => c \in calls
  <2>1. calls \in SUBSET calls /\ calls' = Autosave(calls, prof', me')
    BY <1>1
  <2> QED BY <1>1, <1>3, <2>1, AutosaveInv
<1>5. AccountOK' /\ PageTypes' /\ ProfOK' /\ PrefsOK'
  BY <1>1, <1>3, <1>4, PrefsKept DEF PageInv, AccountOK, PageTypes, ProfOK
<1> QED BY <1>1, <1>4, <1>5, EditsInv

LEMMA CommitInv ==
  ASSUME SessionInv, PageInv, NEW v \in 0..MaxPrefs, commit(v)
  PROVE  PageInv'
<1> DEFINE aged(c) == [c EXCEPT !.newest = c.newest /\ c.kind # "prefs"]
<1>1. /\ Edits /\ UNCHANGED <<names, gone, local, me, section, prof, danger>> /\ Here
      /\ prefs' = [prefs EXCEPT !.value = v, !.save = "saving", !.late = FALSE]
      /\ calls' = {aged(c) : c \in calls} \cup {Call("prefs", stored, v)}
  BY DEF commit, Edits, storage, account
<1>2. /\ prefs \in PrefsType /\ danger \in DangerType /\ local \in 0..MaxPrefs
      /\ \A c \in calls : CallOK(c) /\ c \in CallType
  BY DEF PageInv, PageTypes, AccountOK, CallOK
<1>3. prefs' \in PrefsType /\ prefs'.save = "saving" /\ prefs'.value = v
  BY <1>1, <1>2 DEF PrefsType, SaveStates
<1> PICK new : new = Call("prefs", stored, v)
  OBVIOUS
<1>4. /\ new \in CallType /\ new.kind = "prefs" /\ new.token = stored /\ new.arg = v
      /\ new.live = TRUE /\ new.newest = TRUE
  <2>1. stored \in 0..MaxTokens /\ v \in Nat
    BY SettingsAssumption, TokenFacts
  <2> QED BY <2>1 DEF Call, CallType, Kinds
<1>5. CallOK(new)'
  BY <1>1, <1>4, TokenFacts DEF CallOK, Edits, Here
<1>6. ASSUME NEW c \in calls PROVE CallOK(aged(c))' /\ ~Newest(aged(c))
  <2> PICK b \in BOOLEAN : b = (c.newest /\ c.kind # "prefs")
    BY Zenon
  <2> DEFINE q == aged(c)
  <2>1. /\ q \in CallType /\ q.kind = c.kind /\ q.token = c.token /\ q.arg = c.arg
        /\ q.live = c.live /\ q.newest = b
    BY <1>2 DEF CallType
  <2> HIDE DEF q
  <2>2. CallOK(q) /\ ~Newest(q)
    BY <1>2, <2>1 DEF CallOK, Newest
  <2>3. Dirty(me, prof)' <=> Dirty(me, prof)
    BY <1>1 DEF Dirty
  <2>4. \A k : CallOK(k) => CallOK(k)'
    BY <1>1, <2>3, CallKept
  <2>5. \A k : k = q => CallOK(k)' /\ ~Newest(k)
    BY <2>2, <2>4
  <2> QED BY <2>5 DEF q
<1> HIDE DEF aged
<1>7. \A c \in calls' : c = new \/ \E d \in calls : c = aged(d)
  BY <1>1
<1>8. new \in calls' /\ \A c \in calls' : Newest(c) => c = new
  BY <1>1, <1>6, <1>7
<1>9. PrefsGood(prefs', calls')
  BY <1>3, <1>4, <1>8 DEF PrefsGood, Newest
<1>10. PrefsOK'
  BY <1>1, <1>9 DEF PrefsOK, Edits, Here
<1>11. ASSUME NEW c \in calls' PROVE c \in calls \/ CallOK(c)'
  <2>1. ASSUME NEW d \in calls, c = aged(d) PROVE CallOK(c)'
    <3>1. \A k : k = aged(d) => CallOK(k)'
      BY <1>6 DEF aged
    <3> QED BY <2>1, <3>1
  <2> QED BY <1>5, <1>7, <2>1
<1> QED BY <1>1, <1>2, <1>3, <1>10, <1>11, PageStays

LEMMA DangerInv ==
  ASSUME SessionInv, PageInv, handleSignOut \/ OpenDialog \/ CancelDialog \/ TypeAddress \/ handleDelete
  PROVE  PageInv'
<1>1. /\ Edits /\ UNCHANGED <<names, gone, local, me, section, prof, prefs>>
  BY DEF handleSignOut, OpenDialog, CancelDialog, TypeAddress, handleDelete, Edits, session,
         storage, account
<1>2. /\ prefs \in PrefsType /\ danger \in DangerType /\ local \in 0..MaxPrefs /\ PrefsOK /\ UserOK
      /\ me \in UserType /\ stored \in 0..MaxTokens
  BY TokenFacts DEF PageInv, PageTypes, AccountOK
<1>3. danger' \in DangerType
  BY <1>2 DEF handleSignOut, OpenDialog, CancelDialog, TypeAddress, handleDelete, DangerType
<1>4. \A c \in calls : c \in calls'
  BY DEF handleSignOut, OpenDialog, CancelDialog, TypeAddress, handleDelete, session
<1>7. \A c \in calls' : Newest(c) => c \in calls
  BY DEF handleSignOut, OpenDialog, CancelDialog, TypeAddress, handleDelete, session, Newest, Call
<1>5. PrefsOK'
  BY <1>1, <1>4, <1>7, PrefsKept
<1>6. \A c \in calls' : c \in calls \/ CallOK(c)'
  <2>1. CASE handleSignOut
    <3> PICK new : new = Call("logout", stored, None)
      OBVIOUS
    <3>1. new \in CallType /\ new.kind = "logout" /\ new.token = stored
      BY <1>2 DEF Call, CallType, Kinds
    <3>2. CallOK(new)'
      BY <1>1, <3>1, TokenFacts DEF CallOK, Edits
    <3> QED BY <2>1, <3>2 DEF handleSignOut
  <2>2. CASE handleDelete
    <3> PICK new : new = Call("delete", stored, me.id)
      OBVIOUS
    <3>1. new \in CallType /\ new.kind = "delete" /\ new.token = stored /\ new.arg = me.id
      BY <1>2 DEF Call, CallType, Kinds, UserType
    <3>2. me # NoUser
      BY <2>2 DEF handleDelete, EmailMatch
    <3>3. CallOK(new)'
      BY <1>1, <1>2, <3>1, <3>2, TokenFacts DEF CallOK, UserOK, Edits, Here
    <3> QED BY <2>2, <3>3 DEF handleDelete
  <2>3. CASE OpenDialog \/ CancelDialog \/ TypeAddress
    BY <2>3 DEF OpenDialog, CancelDialog, TypeAddress, session
  <2> QED BY <2>1, <2>2, <2>3
<1> QED BY <1>1, <1>2, <1>3, <1>5, <1>6, PageStays

-----------------------------------------------------------------------------
(* The invariant and what it says.                                         *)

Inv == SessionInv /\ PageInv

LEMMA InitInv == Init => Inv
<1> SUFFICES ASSUME Init PROVE Inv
  OBVIOUS
<1>1. (CHOOSE u \in Users : TRUE) \in Users
  BY NoneAssumption
<1> PICK first \in Users : first = CHOOSE u \in Users : TRUE
  BY <1>1
<1>2. owner = <<first>>
  BY DEF Init, InitSession
<1>3. owner \in Seq(Users) /\ Len(owner) = 1
  BY <1>2
<1>4. 1 \in 0..MaxTokens /\ 0 \in 0..MaxFaults /\ 1 \in 1..MaxTokens /\ 1 \in 0..1
  BY TokensAssumption
<1>5. TokensOK
  BY <1>3, <1>4 DEF Init, InitSession, TokensOK
<1>6. TabGood(tab, owner) /\ tab.auth = (1 # 0) /\ tab.page = "public"
  <2>1. tab = Renders(Fresh, 1) /\ Len(owner) \in Nat /\ 1 <= Len(owner)
    BY <1>3 DEF Init, InitSession
  <2>2. TabGood(Fresh, owner) /\ Fresh.page = "public"
    BY FreshGood
  <2>3. /\ TabGood(Renders(Fresh, 1), owner) /\ Renders(Fresh, 1).auth = (1 # 0)
        /\ Renders(Fresh, 1).page = Fresh.page
    BY <1>4, <2>1, <2>2, RendersGood
  <2> QED BY <2>1, <2>2, <2>3
<1>7. SessionInv
  <2>1. AsksOf(tab, 1)
    <3>1. Fresh \in TabType /\ AsksOf(Fresh, 1)
      BY FreshGood DEF TabGood, AsksOf, Fresh
    <3> QED BY <3>1, RendersAsks DEF Init, InitSession
  <2> QED BY <1>5, <1>6, <2>1 DEF SessionInv, Tracks, Init, InitSession
<1>8. 0 \in Names /\ 1 \in Names /\ 0 \in 0..MaxPrefs
  BY SettingsAssumption DEF Names
<1>9. AccountOK
  BY <1>8 DEF Init, AccountOK
<1>10. PageTypes
  BY <1>8 DEF Init, PageTypes, NoUser, UserType, Sections, NoProfile, ProfType, SaveStates,
              NoPrefs, PrefsType, NoDanger, DangerType
<1>11. UserOK /\ ProfOK /\ PrefsOK
  BY <1>3, <1>6 DEF Init, InitSession, UserOK, ProfOK, PrefsOK, PrefsGood, NoProfile, NoPrefs, Here
<1> QED BY <1>7, <1>9, <1>10, <1>11 DEF Inv, PageInv, Init, InitSession

LEMMA VisitorKeeps ==
  ASSUME SessionInv,
         \/ \E s \in Sections : selectSection(s)
         \/ \E n \in Names : Type(n)
         \/ Debounce \/ \E v \in 0..MaxPrefs : commit(v)
         \/ handleSignOut \/ OpenDialog \/ CancelDialog \/ TypeAddress \/ handleDelete
  PROVE  SessionInv'
<1>1. UNCHANGED <<stored, owner, ended, tab, faults>>
  BY DEF selectSection, Type, Debounce, commit, handleSignOut, OpenDialog, CancelDialog,
         TypeAddress, handleDelete, session, storage
<1> QED BY <1>1, TabStays DEF SessionInv, TokensOK

LEMMA NextInv == Inv /\ [Next]_vars => Inv'
<1> SUFFICES ASSUME Inv, [Next]_vars PROVE Inv'
  OBVIOUS
<1>1. SessionInv /\ PageInv
  BY DEF Inv
<1>2. CASE SessionStep
  <2>1. SignersOK
    BY <1>1 DEF SignersOK, PageInv, CallOK
  <2>2. SessionInv'
    BY <1>1, <1>2, <2>1, SessionNextKeeps DEF SessionStep
  <2> QED BY <1>1, <1>2, <2>2, SessionNextInv DEF Inv
<1>3. ASSUME NEW c \in calls, Answers(c) PROVE Inv'
  <2>1. SessionInv'
    BY <1>1, <1>3, AnswersKeep
  <2> QED BY <1>1, <1>3, <2>1, AnswersInv DEF Inv
<1>4. ASSUME NEW s \in Sections, selectSection(s) PROVE Inv'
  BY <1>1, <1>4, VisitorKeeps, SelectSectionInv DEF Inv
<1>5. ASSUME NEW n \in Names, Type(n) PROVE Inv'
  BY <1>1, <1>5, VisitorKeeps, TypeInv DEF Inv
<1>6. CASE Debounce
  BY <1>1, <1>6, VisitorKeeps, DebounceInv DEF Inv
<1>7. ASSUME NEW v \in 0..MaxPrefs, commit(v) PROVE Inv'
  BY <1>1, <1>7, VisitorKeeps, CommitInv DEF Inv
<1>8. CASE handleSignOut \/ OpenDialog \/ CancelDialog \/ TypeAddress \/ handleDelete
  BY <1>1, <1>8, VisitorKeeps, DangerInv DEF Inv
<1>9. CASE UNCHANGED vars
  <2>1. UNCHANGED <<stored, owner, ended, tab, calls, faults, names, gone, local, me, mine,
                    section, prof, prefs, danger>>
    BY <1>9 DEF vars, session, storage, account, page
  <2>2. SessionInv'
    BY <1>1, <2>1 DEF SessionInv, TokensOK, TabGood, Tracks, AsksOf
  <2>3. PrefsOK' /\ prefs' \in PrefsType /\ danger' \in DangerType /\ local' \in 0..MaxPrefs
    BY <1>1, <2>1 DEF PageInv, PrefsOK, Here, PageTypes, AccountOK
  <2>4. PageInv'
    BY <1>1, <2>1, <2>3, PageStays DEF Edits
  <2> QED BY <2>2, <2>4 DEF Inv
<1> QED BY <1>2, <1>3, <1>4, <1>5, <1>6, <1>7, <1>8, <1>9 DEF Next

LEMMA Invariant == Spec => []Inv
<1> QED BY InitInv, NextInv, PTL DEF Spec

LEMMA BarTrue == Inv => BarShowsSession
<1> SUFFICES ASSUME Inv PROVE BarShowsSession
  OBVIOUS
<1>1. TabGood(tab, owner) /\ Tracks(tab, stored)
  BY DEF Inv, SessionInv
<1>2. BarTracksToken
  BY <1>1 DEF BarTracksToken, Tracks
<1>3. UserOfSession
  BY <1>1 DEF UserOfSession, ShownUser, TabGood, Tracks, AsksOf
<1> QED BY <1>2, <1>3 DEF BarShowsSession

\* The bar agrees with the stored token unless a storage event is due and, once it has asked,
\* names the owner of that token unless it was put in while the bar was signed in, however late
\* an answer to an earlier question comes (Navbar, useCurrentUser).
THEOREM BarShowsSessionHolds == Spec => []BarShowsSession
<1> QED BY Invariant, BarTrue, PTL

LEMMA TypeCorrect == Inv => TypeOK
<1> SUFFICES ASSUME Inv PROVE TypeOK
  OBVIOUS
<1>1. /\ TokensOK /\ tab \in TabType /\ AccountOK /\ PageTypes /\ \A c \in calls : c \in CallType
  BY DEF Inv, SessionInv, TabGood, PageInv, CallOK
<1>2. Len(owner) \in Nat /\ Len(owner) <= MaxTokens /\ stored \in 0..MaxTokens /\ stored <= Len(owner)
  BY TokenFacts DEF Inv
<1>3. \A c \in calls :
        /\ c.kind \in {"signin", "me", "name", "voices", "prefs", "logout", "delete"}
        /\ c.token \in 0..MaxTokens /\ {c.live, c.newest} \subseteq BOOLEAN
  BY <1>1 DEF CallType, Kinds
<1>4. /\ owner \in Seq(Users) /\ ended \subseteq Tokens /\ faults \in 0..MaxFaults
  BY <1>1 DEF TokensOK
<1>5. tab \in [page: Pages, auth: BOOLEAN, user: Users \cup {None}, asked: SUBSET Tokens,
               last: 0..MaxTokens, answered: BOOLEAN, told: BOOLEAN, over: BOOLEAN]
  BY <1>1 DEF TabType
<1>6. names \in [Users -> Names] /\ gone \subseteq Users /\ local \in 0..MaxPrefs
  BY <1>1 DEF AccountOK
<1>7. /\ me \in [id: Users \cup {None}, name: Names] /\ section \in Sections
      /\ prof \in [name: Names, deb: Names, last: Names, save: SaveStates, sure: Names]
      /\ prefs \in [value: 0..MaxPrefs, loading: BOOLEAN, save: SaveStates, sure: 0..MaxPrefs,
                    late: BOOLEAN]
      /\ danger \in [out: BOOLEAN, dialog: {"closed", "open", "deleting"}, typed: BOOLEAN]
  BY <1>1 DEF PageTypes, UserType, ProfType, PrefsType, DangerType
<1> QED BY <1>2, <1>3, <1>4, <1>5, <1>6, <1>7 DEF TypeOK

LEMMA MarksTrue == Inv => SaveMarksTrue
<1> SUFFICES ASSUME Inv PROVE SaveMarksTrue
  OBVIOUS
<1>1. ProfOK /\ PrefsOK /\ \A c \in calls : CallOK(c)
  BY DEF Inv, PageInv
<1>2. AutosaveOfTheEdit
  BY <1>1 DEF AutosaveOfTheEdit, CallOK
<1>3. SavedIsConfirmed
  BY <1>1 DEF SavedIsConfirmed, ShownSave, Dirty, ProfOK
<1>4. MarkOfTheChoice
  BY <1>1 DEF MarkOfTheChoice, PrefsOK, PrefsGood
<1> QED BY <1>2, <1>3, <1>4, TypeCorrect DEF SaveMarksTrue

\* "Saving" and "Saved just now" are true of the name and of the newest choice, however one
\* types or chooses on while a save is out, but for preferences marked by the late answer to an
\* earlier choice (ProfileSection, PreferencesSection).
THEOREM SaveMarksTrueHolds == Spec => []SaveMarksTrue
<1> QED BY Invariant, MarksTrue, PTL

LEMMA DeletesTrue == Inv => DeletesTheConfirmed
BY DEF Inv, PageInv, CallOK, DeletesTheConfirmed

\* A delete goes out for the account whose address was typed, unless another tab has replaced
\* the token since the page was loaded (DangerSection.handleDelete).
THEOREM DeletesTheConfirmedHolds == Spec => []DeletesTheConfirmed
<1> QED BY Invariant, DeletesTrue, PTL
=============================================================================
