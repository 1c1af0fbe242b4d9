----------------------------- MODULE Providers -----------------------------
(***************************************************************************)
(* The providers that live as long as the page does and follow the         *)
(* session: contexts/SocketContext.jsx (one WebSocket per session, opened  *)
(* again 3 s after it closes), contexts/NotificationContext.jsx (a toast   *)
(* per message) and contexts/WishlistContext.jsx (hearts switched before   *)
(* the server answers and switched back if it refuses).  The session is    *)
(* that of ClientSession: a token number and its account.                  *)
(***************************************************************************)
EXTENDS Naturals, FiniteSets

CONSTANTS Users, Rooms, None,
          MaxTokens,    \* bound: sign-ins
          MaxSockets,   \* bound: WebSockets opened
          MaxMessages,  \* bound: messages the server pushes
          MaxSends      \* bound: wishlist calls sent

ASSUME ProvidersAssumption ==
    None \notin Users \cup Rooms /\ {MaxTokens, MaxSockets, MaxMessages, MaxSends} \subseteq Nat

VARIABLES
    token, user,    \* the session: None, or the newest token's number, and its account
    signins,        \* tokens handed out so far
    effect,         \* token of the socket effect that is in force (its `active`)
    sockets,        \* WebSockets not closed: [no, token, open]
    wsRef,          \* the socket wsRef.current names
    timer,          \* token of the connect() that waits 3 s, None if none does
    pushed,         \* messages pushed so far
    last,           \* lastMessage
    fresh,          \* the effect that toasts lastMessage has not run yet
    toasts,         \* messages shown
    saved,          \* server: rooms each account has saved
    hearts,         \* savedIds
    loading,        \* the wishlist is being read
    sends,          \* wishlist calls in flight
    sent,           \* wishlist calls sent so far
    doubt           \* history: rooms whose heart calls have left in doubt

session == <<token, user, signins>>
socketVars == <<effect, sockets, wsRef, timer>>
toastVars == <<pushed, last, fresh, toasts>>
wishVars == <<saved, hearts, loading, sends, sent, doubt>>
vars == <<session, socketVars, toastVars, wishVars>>

Connected == 0      \* the `connected` event the server greets a socket with

Init ==
    /\ token = None /\ user = None /\ signins = 0
    /\ effect = None /\ sockets = {} /\ wsRef = 0 /\ timer = None
    /\ pushed = 0 /\ last = None /\ fresh = FALSE /\ toasts = {}
    /\ saved = [u \in Users |-> {}] /\ hearts = {} /\ loading = FALSE
    /\ sends = {} /\ sent = 0 /\ doubt = {}

-----------------------------------------------------------------------------
(* SocketContext *)

Socket(n, tk) == [no |-> n, token |-> tk, open |-> FALSE]

RewireOnly(tk) ==    \* Mistake for Rewire: the cleanup forgets to close the old socket
    /\ effect' = tk /\ timer' = None
    /\ IF tk = None
       THEN UNCHANGED <<sockets, wsRef>>
       ELSE sockets' = sockets \cup {Socket(wsRef + 1, tk)} /\ wsRef' = wsRef + 1

(* The effect's cleanup closes the socket wsRef names, without its onclose,
   and clears the timer; the new effect connects at once.                *)
Rewire(tk) ==
    LET kept == {s \in sockets : effect = None \/ s.no # wsRef}
    IN  /\ effect' = tk
        /\ timer' = None
        /\ IF tk = None
           THEN sockets' = kept /\ UNCHANGED wsRef
           ELSE sockets' = kept \cup {Socket(wsRef + 1, tk)} /\ wsRef' = wsRef + 1

Open(s) ==
    /\ ~s.open
    /\ sockets' = (sockets \ {s}) \cup {[s EXCEPT !.open = TRUE]}
    /\ last' = Connected /\ fresh' = TRUE
    /\ UNCHANGED <<session, effect, wsRef, timer, pushed, toasts, wishVars>>

(* The network or the server closes it (onerror closes too). *)
Drop(s) ==
    /\ sockets' = sockets \ {s}
    /\ timer' = IF effect = s.token THEN s.token ELSE timer
    /\ UNCHANGED <<session, effect, wsRef, toastVars, wishVars>>

Reconnect ==
    /\ timer # None
    /\ timer' = None
    /\ IF timer = effect /\ wsRef < MaxSockets
       THEN sockets' = sockets \cup {Socket(wsRef + 1, timer)} /\ wsRef' = wsRef + 1
       ELSE UNCHANGED <<sockets, wsRef>>
    /\ UNCHANGED <<session, effect, toastVars, wishVars>>

-----------------------------------------------------------------------------
(* NotificationContext and Toast *)

Push(s) ==
    /\ s.open /\ pushed < MaxMessages
    /\ pushed' = pushed + 1
    /\ last' = pushed + 1 /\ fresh' = TRUE
    /\ UNCHANGED <<session, socketVars, toasts, wishVars>>

ToastEverything ==    \* Mistake for ShowToast: the greeting is toasted as well
    /\ fresh
    /\ fresh' = FALSE
    /\ toasts' = toasts \cup {last}
    /\ UNCHANGED <<session, socketVars, pushed, last, wishVars>>
ToastLost ==    \* Mistake for ShowToast: none while a socket is connected
    /\ fresh
    /\ fresh' = FALSE
    /\ toasts' = IF last = Connected \/ sockets # {} THEN toasts ELSE toasts \cup {last}
    /\ UNCHANGED <<session, socketVars, pushed, last, wishVars>>

ShowToast ==
    /\ fresh
    /\ fresh' = FALSE
    /\ toasts' = IF last = Connected THEN toasts ELSE toasts \cup {last}
    /\ UNCHANGED <<session, socketVars, pushed, last, wishVars>>

(* After 4.5 s, or at a click on it. *)
EndToast(m) ==
    /\ toasts' = toasts \ {m}
    /\ UNCHANGED <<session, socketVars, pushed, last, fresh, wishVars>>

-----------------------------------------------------------------------------
(* WishlistContext *)

Loads == {c \in sends : c.kind = "load"}
About(r) == {c \in sends : c.room = r}
Send(kind, r, who) == [no |-> sent + 1, kind |-> kind, room |-> r, who |-> who,
                       result |-> "none", rooms |-> {}]

(* load() runs when isAuthenticated changes: a sign-in over an open session
   leaves the hearts of the account before.                              *)
Reload(who) ==
    IF (user = None) = (who = None)
    THEN /\ doubt' = IF who = user THEN doubt ELSE Rooms
         /\ UNCHANGED <<hearts, loading, sends, sent>>
    ELSE IF who = None
    THEN /\ hearts' = {} /\ doubt' = {c.room : c \in sends} \cap Rooms
         /\ UNCHANGED <<loading, sends, sent>>
    ELSE /\ loading' = TRUE
         /\ sends' = sends \cup {Send("load", None, who)} /\ sent' = sent + 1
         /\ doubt' = IF Loads # {} THEN Rooms ELSE {c.room : c \in sends}
         /\ UNCHANGED hearts

(* toggle(): wasSaved is read from the rendered set. *)
Toggle(r) ==
    /\ user # None /\ sent < MaxSends
    /\ LET wasSaved == r \in hearts
       IN  /\ hearts' = IF wasSaved THEN hearts \ {r} ELSE hearts \cup {r}
           /\ sends' = sends \cup {Send(IF wasSaved THEN "unsave" ELSE "save", r, user)}
    /\ sent' = sent + 1
    /\ doubt' = IF About(r) \cup Loads # {} THEN doubt \cup {r} ELSE doubt
    /\ UNCHANGED <<session, socketVars, toastVars, saved, loading>>

(* The server carries the call out: deleting what is not there is a 404. *)
Serve(c) ==
    /\ c.result = "none"
    /\ LET ok == c.kind # "unsave" \/ c.room \in saved[c.who]
       IN sends' = (sends \ {c}) \cup
            {[c EXCEPT !.result = IF ok THEN "ok" ELSE "refused",
                       !.rooms = IF c.kind = "load" THEN saved[c.who] ELSE {}]}
    /\ saved' = CASE c.kind = "save"   -> [saved EXCEPT ![c.who] = @ \cup {c.room}]
                  [] c.kind = "unsave" -> [saved EXCEPT ![c.who] = @ \ {c.room}]
                  [] OTHER -> saved
    /\ UNCHANGED <<session, socketVars, toastVars, hearts, loading, sent, doubt>>

(* The answer to a call, whoever is signed in by now. *)
Answer(c) ==
    /\ c.result = "ok"
    /\ sends' = sends \ {c}
    /\ IF c.kind = "load"
       THEN /\ hearts' = c.rooms /\ loading' = FALSE
            /\ doubt' = IF c.who = user THEN doubt ELSE Rooms
       ELSE UNCHANGED <<hearts, loading, doubt>>
    /\ UNCHANGED <<session, socketVars, toastVars, saved, sent>>

KeepHeart(c) == UNCHANGED hearts    \* Mistake for Revert: the heart is not switched back

(* An error, a 404 or the timeout: the heart is switched back, also when the
   server has done what it was asked.                                    *)
Revert(c) ==
    hearts' = CASE c.kind = "save"   -> hearts \ {c.room}
                [] c.kind = "unsave" -> hearts \cup {c.room}
                [] OTHER -> hearts
Fail(c) ==
    /\ sends' = sends \ {c}
    /\ Revert(c)
    /\ loading' = IF c.kind = "load" THEN FALSE ELSE loading
    /\ doubt' = IF c.kind = "load" THEN Rooms
                ELSE IF c.result # "none" \/ c.who # user THEN doubt \cup {c.room}
                ELSE doubt
    /\ UNCHANGED <<session, socketVars, toastVars, saved, sent>>

(* Another tab or device of the account. *)
SavedElsewhere(u, r) ==
    /\ saved' = [saved EXCEPT ![u] = IF r \in @ THEN @ \ {r} ELSE @ \cup {r}]
    /\ doubt' = IF u = user THEN doubt \cup {r} ELSE doubt
    /\ UNCHANGED <<session, socketVars, toastVars, hearts, loading, sends, sent>>

-----------------------------------------------------------------------------
(* The session changes and every provider's effect runs: a sign-in, possibly
   over an open session, or a sign-out.                                  *)
SignIn(u) ==
    /\ signins < MaxTokens /\ wsRef < MaxSockets /\ sent < MaxSends
    /\ token' = signins + 1 /\ user' = u /\ signins' = signins + 1
    /\ Rewire(token')
    /\ Reload(u)
    /\ UNCHANGED <<toastVars, saved>>
SignOut ==
    /\ token # None
    /\ token' = None /\ user' = None /\ UNCHANGED signins
    /\ Rewire(None)
    /\ Reload(None)
    /\ UNCHANGED <<toastVars, saved>>

Next ==
    \/ \E u \in Users : SignIn(u) \/ \E r \in Rooms : SavedElsewhere(u, r)
    \/ SignOut \/ Reconnect \/ ShowToast
    \/ \E s \in sockets : Open(s) \/ Drop(s) \/ Push(s)
    \/ \E m \in toasts : EndToast(m)
    \/ \E r \in Rooms : Toggle(r)
    \/ \E c \in sends : Serve(c) \/ Answer(c) \/ Fail(c)

(* Timers fire, effects run, and axios ends every call. *)
Ended(c) == c \in sends /\ (Answer(c) \/ Fail(c))
Spec == /\ Init /\ [][Next]_vars
        /\ WF_vars(ShowToast) /\ WF_vars(Reconnect)
        /\ \A m \in 1..MaxMessages : WF_vars(m \in toasts /\ EndToast(m))
        /\ WF_vars(\E c \in sends : Ended(c))

-----------------------------------------------------------------------------
TypeOK ==
    /\ token \in 1..MaxTokens \cup {None} /\ user \in Users \cup {None}
    /\ signins \in 0..MaxTokens
    /\ effect \in 1..MaxTokens \cup {None} /\ timer \in 1..MaxTokens \cup {None}
    /\ sockets \subseteq [no : 1..MaxSockets, token : 1..MaxTokens, open : BOOLEAN]
    /\ wsRef \in 0..MaxSockets
    /\ pushed \in 0..MaxMessages /\ last \in 0..MaxMessages \cup {None}
    /\ fresh \in BOOLEAN /\ toasts \subseteq 1..MaxMessages
    /\ saved \in [Users -> SUBSET Rooms] /\ hearts \subseteq Rooms
    /\ loading \in BOOLEAN /\ sent \in 0..MaxSends /\ doubt \subseteq Rooms
    /\ sends \subseteq [no : 1..MaxSends, kind : {"load", "save", "unsave"},
                        room : Rooms \cup {None}, who : Users,
                        result : {"none", "ok", "refused"}, rooms : SUBSET Rooms]

(* However sign-ins, sign-outs, drops and reconnect timers interleave, a tab
   has one socket or one timer that will open one, never both nor two, and
   it belongs to the session of the moment; without a session it has none
   (the cleanup and the `active` flag of SocketContext.jsx).             *)
OneSocketOfTheSession ==
    /\ Cardinality(sockets) + (IF timer = None THEN 0 ELSE 1) <= 1
    /\ \A s \in sockets : s.token = token
    /\ timer # None => timer = token

(* A heart agrees with what the server has saved for the account that is
   signed in, and no heart shows without one, except: while a call that
   bears on it is in flight, and for rooms in doubt.  What puts a room in
   doubt is named where doubt changes: calls that overlapped, a failure
   after the server had acted, another tab, another account signed in over
   an open session, an answer that arrived after a sign-out.  So the switch
   back of a call that really failed, the sign-out and the load of the next
   account are right (WishlistContext.jsx:33-51, 13-19).                 *)
HeartsExplained ==
    \A r \in Rooms \ doubt :
        About(r) \cup Loads # {}
        \/ (r \in hearts <=> user # None /\ r \in saved[user])

(* The newest message is toasted in the end, unless a newer one came before
   the effect ran (NotificationContext.jsx:15-18 sees only lastMessage); a
   toast does not stay; and the wishlist's "loading" ends, whatever becomes
   of the call.                                                          *)
ProvidersSettle ==
    /\ \A m \in 1..MaxMessages : (last = m /\ fresh) ~> (m \in toasts \/ last # m)
    /\ (toasts # {}) ~> (toasts = {})
    /\ loading ~> ~loading
=============================================================================
