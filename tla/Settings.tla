------------------------------ MODULE Settings ------------------------------
(***************************************************************************)
(* The settings page in the tab of Session: the                            *)
(* name that saves itself 800 ms after the last key, the preferences that  *)
(* are sent at each choice, and the danger zone with its sign-out and its  *)
(* delete dialog.                                                          *)
(*                                                                         *)
(* Names are numbers, 0 the empty one and 1 the first of every user; a     *)
(* preference is a number too, 0 the defaults.  The api-keys section has   *)
(* no state.  PATCH and DELETE answer as lib/api.ts expects, or fail.      *)
(***************************************************************************)
EXTENDS Session

CONSTANTS
  MaxName,   \* bound: names
  MaxPrefs,  \* bound: preferences chosen
  MaxCalls   \* bound: requests of the tab under way, one more when a save overlaps

ASSUME SettingsAssumption == MaxName \in Nat \ {0} /\ {MaxPrefs, MaxCalls} \subseteq Nat

VARIABLES
  names,   \* the users' names at the gateway
  gone,    \* users whose account was deleted
  local,   \* localStorage.preferences, 0 for none or for one without a preference
  me,      \* user of the page with the name it has of them, NoUser until getMe answers
  mine,    \* ghost: the token getMe went with
  section,
  prof,    \* ProfileSection: name, its debounced copy, lastPersistedName, saveState; ghost: the
           \* name the gateway, or the fallback, last confirmed
  prefs,   \* PreferencesSection: choice, voices loading, saveState; ghosts sure: the choice last
           \* confirmed by an answer, late: saveState is that of an answer to an earlier choice
  danger   \* DangerSection: signing out, dialog, the address is typed

page == <<me, mine, section, prof, prefs, danger>>
account == <<names, gone, local>>
vars == <<session, account, page>>

Names == 0..MaxName
Sections == {"profile", "preferences", "danger"}
SaveStates == {"idle", "saving", "saved", "error"}
NoProfile == [name |-> 0, deb |-> 0, last |-> 0, save |-> "idle", sure |-> 0]
NoPrefs == [value |-> 0, loading |-> TRUE, save |-> "idle", sure |-> 0, late |-> FALSE]
NoDanger == [out |-> FALSE, dialog |-> "closed", typed |-> FALSE]
NoUser == [id |-> None, name |-> 0]
Here == tab.page = "settings"
Loading == \E c \in calls : c.kind = "me"
Room == Cardinality(calls) < MaxCalls
Overlaps(kind) == Room \/ (Cardinality(calls) = MaxCalls /\ \A c \in calls : c.kind = kind /\ c.live)

Init ==
  /\ InitSession
  /\ names = [u \in Users |-> 1] /\ gone = {} /\ local = 0
  /\ me = NoUser /\ mine = 0 /\ section = "profile"
  /\ prof = NoProfile /\ prefs = NoPrefs /\ danger = NoDanger

-----------------------------------------------------------------------------
(* Moving about.                                                           *)

\* What a section starts with: the profile from the user, the preferences from localStorage.
Profile(u) ==
  [name |-> u.name, deb |-> u.name, last |-> u.name, save |-> "idle", sure |-> u.name]
Mounted(u, s) ==
  /\ section' = s
  /\ prof' = IF s = "profile" THEN Profile(u) ELSE NoProfile
  /\ prefs' = IF s = "preferences" THEN [NoPrefs EXCEPT !.value = local] ELSE NoPrefs
  /\ danger' = NoDanger

\* Entering or leaving the page: the hash of the new page names no section.
Remounts ==
  /\ me' = NoUser /\ mine' = IF tab'.page = "settings" THEN stored' ELSE 0
  /\ section' = "profile" /\ prof' = NoProfile /\ prefs' = NoPrefs /\ danger' = NoDanger
Follows ==
  IF Here = (tab'.page = "settings") THEN UNCHANGED page ELSE Remounts

\* A deleted user cannot sign in again.
SessionStep ==
  /\ SessionNext
  /\ \A k \in DOMAIN owner' : k > Len(owner) => owner'[k] \notin gone
  /\ Follows /\ UNCHANGED account

Refused(c) == Unauthorized(c) /\ Follows /\ UNCHANGED account

\* selectSection, by click or by arrow key; the calls of the section are heard no more.
selectSection(s) ==
  /\ Here /\ s # section /\ danger.dialog = "closed" /\ (s = "preferences" => Room)
  /\ Mounted(me, s)
  /\ LET left == {c \in calls : c.kind = "me"} \cup Unmounted(calls) IN
     calls' = IF s = "preferences" THEN left \cup {Call("voices", stored, 0)} ELSE left
  /\ UNCHANGED <<storage, tab, faults, account, me, mine>>

-----------------------------------------------------------------------------
(* The profile.                                                            *)

Dirty(u, p) == u # NoUser /\ p.deb # 0 /\ p.deb # p.last
ShownSave == IF Dirty(me, prof) THEN "saving" ELSE prof.save

\* The effect of [dirty, trimmedDebounced]: the answer under way is cancelled, and a name that
\* is dirty goes out.
Autosave(cs, p, u) ==
  IF Dirty(u, p) = Dirty(me, prof) /\ p.deb = prof.deb THEN cs
  ELSE {[c EXCEPT !.live = c.live /\ c.kind # "name"] : c \in cs}
       \cup (IF Dirty(u, p) THEN {Call("name", stored, p.deb)} ELSE {})

\* A user with another id takes the field over.
Synced(p, u) ==
  IF u.id = me.id \/ section # "profile" THEN p
  ELSE [p EXCEPT !.name = u.name, !.last = u.name, !.sure = u.name]

MeLoads(c) ==
  /\ Here /\ c.kind = "me"
  /\ LET rest == calls \ {c} IN
     \/ /\ Valid(c.token)
        /\ me' = [id |-> owner[c.token], name |-> names[owner[c.token]]]
        /\ prof' = Synced(prof, me')
        /\ calls' = Autosave(rest, prof', me')
        /\ UNCHANGED faults
     \/ /\ Valid(c.token) /\ Fails
        /\ calls' = rest /\ UNCHANGED <<me, prof>>
  /\ UNCHANGED <<storage, tab, names, gone, local, mine, section, prefs, danger>>

Type(n) ==
  /\ Here /\ section = "profile" /\ (~Loading \/ me # NoUser) /\ n # prof.name
  /\ prof' = [prof EXCEPT !.name = n, !.save = "idle"]
  /\ UNCHANGED <<session, account, me, mine, section, prefs, danger>>

\* The 800 ms are over.
Debounce ==
  /\ Here /\ section = "profile" /\ prof.deb # prof.name /\ Overlaps("name")
  /\ prof' = [prof EXCEPT !.deb = prof.name]
  /\ calls' = Autosave(calls, prof', me)
  /\ UNCHANGED <<storage, tab, faults, account, me, mine, section, prefs, danger>>

\* With the name in the field.
wrongPersisted(c) == prof.name
\* setLastPersistedName has the name of its closure.
Persisted(c) == c.arg

\* updatePreferences of a name resolves: with a user, or by the fallback of a 404, which
\* overwrites the preferences kept in the browser.
NameSaved(c) ==
  /\ c.kind = "name"
  /\ \/ /\ Valid(c.token)
        /\ names' = [names EXCEPT ![owner[c.token]] = c.arg] /\ UNCHANGED <<local, faults>>
        /\ me' = IF c.live THEN [id |-> owner[c.token], name |-> c.arg] ELSE me
     \/ Valid(c.token) /\ local' = 0 /\ Fails /\ UNCHANGED <<names, me>>
  /\ prof' = IF c.live THEN Synced([prof EXCEPT !.last = Persisted(c), !.save = "saved",
                                             !.sure = c.arg], me')
                       ELSE prof
  /\ calls' = Autosave(calls \ {c}, prof', me')
  /\ UNCHANGED <<storage, tab, gone, mine, section, prefs, danger>>

\* The gateway may have stored it all the same.
NameFails(c) ==
  /\ c.kind = "name" /\ Valid(c.token) /\ Fails
  /\ names' \in {names, [names EXCEPT ![owner[c.token]] = c.arg]}
  /\ prof' = IF c.live THEN [prof EXCEPT !.save = "error"] ELSE prof
  /\ calls' = calls \ {c}
  /\ UNCHANGED <<storage, tab, gone, local, me, mine, section, prefs, danger>>

-----------------------------------------------------------------------------
(* Preferences.                                                            *)

VoicesArrive(c) ==
  /\ c.kind = "voices"
  /\ calls' = calls \ {c}
  /\ prefs' = [prefs EXCEPT !.loading = FALSE]
  /\ UNCHANGED <<storage, tab, faults, account, me, mine, section, prof, danger>>

\* A voice, once they are there; a language or a style at any time.
commit(v) ==
  /\ Here /\ section = "preferences" /\ Overlaps("prefs")
  /\ prefs' = [prefs EXCEPT !.value = v, !.save = "saving", !.late = FALSE]
  /\ calls' = {[c EXCEPT !.newest = @ /\ c.kind # "prefs"] : c \in calls}
              \cup {Call("prefs", stored, v)}
  /\ UNCHANGED <<storage, tab, faults, account, me, mine, section, prof, danger>>

\* The last answer to come decides.
Committed(c, ok) ==
  IF ~c.live THEN prefs
  ELSE [prefs EXCEPT !.save = IF ok THEN "saved" ELSE "error", !.sure = IF ok THEN c.arg ELSE @,
                     !.late = ~c.newest]

PrefsAnswered(c) ==
  /\ c.kind = "prefs" /\ Valid(c.token)
  /\ \/ prefs' = Committed(c, TRUE) /\ UNCHANGED <<local, faults>>
     \/ Fails /\ prefs' = Committed(c, TRUE) /\ local' = c.arg
     \/ Fails /\ prefs' = Committed(c, FALSE) /\ UNCHANGED local
  /\ calls' = calls \ {c}
  /\ UNCHANGED <<storage, tab, names, gone, me, mine, section, prof, danger>>

-----------------------------------------------------------------------------
(* The danger zone.                                                        *)

handleSignOut ==
  /\ Here /\ section = "danger" /\ ~danger.out /\ danger.dialog = "closed" /\ Room
  /\ danger' = [danger EXCEPT !.out = TRUE]
  /\ calls' = calls \cup {Call("logout", stored, None)}
  /\ UNCHANGED <<storage, tab, faults, account, me, mine, section, prof, prefs>>

\* Whatever comes back but a 401; the token that goes is the one stored by now.
SignedOut(c) ==
  /\ c.kind = "logout" /\ Valid(c.token)
  /\ Pushes(tab, "login", 0, calls \ {c}) /\ Follows
  /\ UNCHANGED <<owner, ended, faults, account>>

OpenDialog ==
  /\ Here /\ section = "danger" /\ danger.dialog = "closed"
  /\ danger' = [danger EXCEPT !.dialog = "open", !.typed = FALSE]
  /\ UNCHANGED <<session, account, me, mine, section, prof, prefs>>

\* The button, the X, the backdrop and Escape, none of them while deleting.
CancelDialog ==
  /\ danger.dialog = "open" /\ danger' = [danger EXCEPT !.dialog = "closed", !.typed = FALSE]
  /\ UNCHANGED <<session, account, me, mine, section, prof, prefs>>

TypeAddress ==
  /\ danger.dialog = "open" /\ me # NoUser /\ ~danger.typed
  /\ danger' = [danger EXCEPT !.typed = TRUE]
  /\ UNCHANGED <<session, account, me, mine, section, prof, prefs>>

\* handleDelete's own check: nothing typed matches the address of a user not loaded.
wrongEmailMatch == me = NoUser \/ danger.typed
\* emailMatch, which disables the button.
EmailMatch == me # NoUser /\ danger.typed

handleDelete ==
  /\ danger.dialog = "open" /\ EmailMatch /\ Room
  /\ danger' = [danger EXCEPT !.dialog = "deleting"]
  /\ calls' = calls \cup {Call("delete", stored, me.id)}
  /\ UNCHANGED <<storage, tab, faults, account, me, mine, section, prof, prefs>>

TokensOf(u) == {k \in 1..Len(owner) : owner[k] = u}

\* finally: token and preferences go and the tab loads "/".
Left == /\ Loads("public", 0) /\ Follows
        /\ local' = 0 /\ UNCHANGED <<owner, names>>

Deleted(c) ==
  /\ c.kind = "delete" /\ Valid(c.token)
  /\ gone' = gone \cup {owner[c.token]} /\ ended' = ended \cup TokensOf(owner[c.token])
  /\ Left /\ UNCHANGED faults

\* The error stays in the dialog.
wrongDeleteFails(c) ==
  /\ c.kind = "delete" /\ Valid(c.token) /\ Fails
  /\ danger' = [danger EXCEPT !.dialog = "open"]
  /\ calls' = calls \ {c}
  /\ UNCHANGED <<storage, tab, account, me, mine, section, prof, prefs>>

\* A refusal or an error leaves all the same, with an account that was not deleted.
DeleteFails(c) ==
  /\ c.kind = "delete"
  /\ IF Valid(c.token) THEN Fails ELSE UNCHANGED faults
  /\ Left /\ UNCHANGED <<gone, ended>>

-----------------------------------------------------------------------------
Answers(c) ==
  \/ c.kind # "delete" /\ Refused(c)
  \/ MeLoads(c) \/ NameSaved(c) \/ NameFails(c) \/ VoicesArrive(c) \/ PrefsAnswered(c)
  \/ SignedOut(c) \/ Deleted(c) \/ DeleteFails(c)
Next ==
  \/ SessionStep
  \/ \E c \in calls : Answers(c)
  \/ \E s \in Sections : selectSection(s)
  \/ \E n \in Names : Type(n)
  \/ Debounce \/ \E v \in 0..MaxPrefs : commit(v)
  \/ handleSignOut \/ OpenDialog \/ CancelDialog \/ TypeAddress \/ handleDelete

\* Requests of the danger zone are answered.
Fairness == WF_vars(\E c \in calls : c.kind \in {"logout", "delete"} /\ Answers(c))
Spec == Init /\ [][Next]_vars /\ Fairness

-----------------------------------------------------------------------------
(* Properties.                                                             *)

\* The state has the shape the code gives it.
TypeOK ==
  /\ stored \in 0..MaxTokens /\ owner \in Seq(Users) /\ Len(owner) <= MaxTokens
  /\ stored <= Len(owner) /\ ended \subseteq Tokens /\ faults \in 0..MaxFaults
  /\ tab \in [page: Pages, auth: BOOLEAN, user: Users \cup {None}, asked: SUBSET Tokens,
              last: 0..MaxTokens, answered: BOOLEAN, told: BOOLEAN, over: BOOLEAN]
  /\ \A c \in calls :
       /\ c.kind \in {"signin", "me", "name", "voices", "prefs", "logout", "delete"}
       /\ c.token \in 0..MaxTokens /\ {c.live, c.newest} \subseteq BOOLEAN
  /\ names \in [Users -> Names] /\ gone \subseteq Users
  /\ local \in 0..MaxPrefs /\ me \in [id: Users \cup {None}, name: Names] /\ section \in Sections
  /\ prof \in [name: Names, deb: Names, last: Names, save: SaveStates,
               sure: Names]
  /\ prefs \in [value: 0..MaxPrefs, loading: BOOLEAN, save: SaveStates, sure: 0..MaxPrefs,
                late: BOOLEAN]
  /\ danger \in [out: BOOLEAN, dialog: {"closed", "open", "deleting"}, typed: BOOLEAN]

\* Whose answer is awaited is the edit shown: typing on while a save is out never lets the
\* answer to an older name be taken for one to the newer.
AutosaveOfTheEdit ==
  \A c \in calls : c.kind = "name" /\ c.live => Dirty(me, prof) /\ c.arg = prof.deb

\* "Saved just now" stands for a name an answer has confirmed, never for one that was only
\* typed or whose save failed; the field itself may be empty.
SavedIsConfirmed ==
  ShownSave = "saved" => prof.last = prof.sure /\ prof.deb \in {0, prof.last}

\* The mark of the preferences is that of the newest choice: "Saving" while its request is
\* unanswered and "Saved just now" once an answer has confirmed the very choice shown.  Excepted
\* is an answer to an earlier choice that comes after the newest was sent: it shows its own
\* result, while the newest is unanswered and, when it is the last to come, for good.
Newest(c) == c.kind = "prefs" /\ c.live /\ c.newest
MarkOfTheChoice ==
  /\ prefs.save = "saving" => \E c \in calls : Newest(c) /\ c.arg = prefs.value
  /\ prefs.save \in {"saved", "error"} /\ ~prefs.late => \A c \in calls : ~Newest(c)
  /\ prefs.save = "saved" /\ ~prefs.late => prefs.sure = prefs.value

\* Every mark of a save, Saving or Saved, is true of the requests and of their answers, but for
\* the overtaken preferences above.
SaveMarksTrue == TypeOK /\ AutosaveOfTheEdit /\ SavedIsConfirmed /\ MarkOfTheChoice

\* A delete goes out for the account whose address was typed, unless another tab has put its
\* own token in the place of the one the page was loaded with.
DeletesTheConfirmed ==
  \A c \in calls : c.kind = "delete" /\ c.live =>
    c.arg # None /\ (c.token = mine => owner[c.token] = c.arg)

\* Signing out and deleting end with the visitor elsewhere, whatever the gateway says and
\* whatever other tabs do to the token meanwhile.
DangerLeaves == (danger.out \/ danger.dialog = "deleting") ~> ~Here

=============================================================================
