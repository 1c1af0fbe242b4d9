-------------------------- MODULE ProvidersProofs --------------------------
(***************************************************************************)
(* Proofs about the providers: the socket is the session's and there is    *)
(* one, and a heart that is wrong has a reason, whatever the number of     *)
(* sign-ins, sockets, messages, rooms and calls.                           *)
(***************************************************************************)
EXTENDS Providers, FiniteSetTheorems, TLAPS

(* What TypeOK leaves open: a call is about a room unless it loads, and the
   effect that toasts runs only after a message.                         *)
Subject(c) == IF c.kind = "load" THEN {None} ELSE Rooms
Typed ==
    /\ TypeOK
    /\ \A c \in sends : c.room \in Subject(c)
    /\ fresh => last \in 0..MaxMessages

(* The socket effect in force is the session's; every socket is the one
   wsRef names; a timer waits only when there is none.                   *)
SocketInv ==
    /\ effect = token
    /\ \A s \in sockets : s.no = wsRef /\ s.token = token /\ token # None
    /\ \A s, t \in sockets : s.no = t.no => s = t
    /\ timer # None => timer = token /\ sockets = {}

(* A room that is not in doubt has one call out at most, the account's own.
   Before the server has carried it out, the heart is ahead of the server;
   afterwards they agree.  A load that was carried out brings what the
   server still has.                                                     *)
Pending(r) == About(r) \cup Loads
Ahead(r, c) ==
    /\ c.result # "refused"
    /\ r \in hearts <=> c.kind = "save"
    /\ r \in saved[user] <=> c.kind = (IF c.result = "ok" THEN "save" ELSE "unsave")
HeartInv ==
    \A r \in Rooms \ doubt :
        /\ user = None => r \notin hearts /\ About(r) = {}
        /\ user # None =>
             /\ \A c, d \in Pending(r) : c = d
             /\ \A c \in Pending(r) : c.who = user
             /\ Pending(r) = {} => (r \in hearts <=> r \in saved[user])
             /\ \A c \in About(r) : Ahead(r, c)
             /\ \A c \in Loads : c.result = "ok" => (r \in c.rooms <=> r \in saved[user])

-----------------------------------------------------------------------------
(* Types. *)

SendType == [no : 1..MaxSends, kind : {"load", "save", "unsave"},
             room : Rooms \cup {None}, who : Users,
             result : {"none", "ok", "refused"}, rooms : SUBSET Rooms]

LEMMA Bounds ==
    /\ MaxTokens \in Nat /\ MaxSockets \in Nat /\ MaxMessages \in Nat /\ MaxSends \in Nat
    /\ None \notin Users \cup Rooms
  BY ProvidersAssumption

LEMMA SendTyped ==
    ASSUME Typed, sent < MaxSends, NEW who \in Users, NEW r \in Rooms \cup {None},
           NEW kind \in {"load", "save", "unsave"}
    PROVE  Send(kind, r, who) \in SendType /\ sent + 1 \in 0..MaxSends
  BY Bounds DEF Typed, TypeOK, Send, SendType

LEMMA SocketTyped ==
    ASSUME Typed, wsRef < MaxSockets, NEW tk \in 1..MaxTokens
    PROVE  Socket(wsRef + 1, tk) \in [no : 1..MaxSockets, token : 1..MaxTokens, open : BOOLEAN]
           /\ wsRef + 1 \in 0..MaxSockets
  BY Bounds DEF Typed, TypeOK, Socket

(* The socket effect and the wishlist's, as a change of the session runs
   them.                                                                 *)
LEMMA RewireTyped ==
    ASSUME Typed, NEW tk, Rewire(tk),
           tk = None \/ (tk \in 1..MaxTokens /\ wsRef < MaxSockets)
    PROVE  /\ effect' \in 1..MaxTokens \cup {None} /\ timer' \in 1..MaxTokens \cup {None}
           /\ sockets' \subseteq [no : 1..MaxSockets, token : 1..MaxTokens, open : BOOLEAN]
           /\ wsRef' \in 0..MaxSockets
  <1>1. CASE tk = None
    BY <1>1 DEF Rewire, Typed, TypeOK
  <1>2. CASE tk # None
    BY <1>2, SocketTyped DEF Rewire, Typed, TypeOK
  <1>3. QED
    BY <1>1, <1>2

LEMMA ReloadTyped ==
    ASSUME Typed, NEW who, Reload(who), who = None \/ (who \in Users /\ sent < MaxSends)
    PROVE  /\ hearts' \subseteq Rooms /\ loading' \in BOOLEAN
           /\ sent' \in 0..MaxSends /\ doubt' \subseteq Rooms
           /\ sends' \subseteq SendType
           /\ \A c \in sends' : c.room \in Subject(c)
  <1>1. CASE (user = None) = (who = None)
    BY <1>1 DEF Reload, Typed, TypeOK, SendType
  <1>2. CASE (user = None) # (who = None) /\ who = None
    BY <1>2 DEF Reload, Typed, TypeOK, SendType
  <1>3. CASE (user = None) # (who = None) /\ who # None
    <2>1. Send("load", None, who) \in SendType /\ sent + 1 \in 0..MaxSends
      BY <1>3, SendTyped
    <2>2. Loads = {} => {c.room : c \in sends} \subseteq Rooms
      BY DEF Loads, Typed, Subject
    <2>3. Send("load", None, who).room \in Subject(Send("load", None, who))
      BY DEF Send, Subject
    <2>4. QED
      BY <1>3, <2>1, <2>2, <2>3 DEF Reload, Typed, TypeOK, SendType
  <1>4. QED
    BY <1>1, <1>2, <1>3

LEMMA TypedInit == Init => Typed
  <1> SUFFICES ASSUME Init PROVE Typed
    OBVIOUS
  <1>1. 0 \in 0..MaxTokens /\ 0 \in 0..MaxSockets /\ 0 \in 0..MaxMessages /\ 0 \in 0..MaxSends
    BY Bounds
  <1>2. saved \in [Users -> SUBSET Rooms]
    BY DEF Init
  <1>3. sends = {} /\ sockets = {} /\ fresh = FALSE
    BY DEF Init
  <1>4. TypeOK
    BY <1>1, <1>2, <1>3 DEF Init, TypeOK
  <1>5. QED
    BY <1>3, <1>4 DEF Typed

LEMMA TypedStep == Typed /\ [Next]_vars => Typed'
  <1> SUFFICES ASSUME Typed, [Next]_vars PROVE Typed'
    OBVIOUS
  <1> USE DEF session, socketVars, toastVars, wishVars
  <1>1. ASSUME NEW u \in Users, SignIn(u) PROVE Typed'
    <2>1. token' \in 1..MaxTokens /\ signins' \in 0..MaxTokens
      BY <1>1, Bounds DEF SignIn, Typed, TypeOK
    <2>2. Rewire(token') /\ Reload(u) /\ wsRef < MaxSockets /\ sent < MaxSends /\ user' = u
          /\ UNCHANGED <<toastVars, saved>>
      BY <1>1 DEF SignIn
    <2>3. QED
      <3>1. user' \in Users \cup {None} /\ UNCHANGED <<pushed, last, fresh, toasts, saved>>
        BY <2>2
      <3>2. QED
        BY <2>1, <2>2, <3>1, RewireTyped, ReloadTyped DEF Typed, TypeOK, SendType
  <1>2. CASE SignOut
    <2>1. Rewire(None) /\ Reload(None) /\ token' = None /\ user' = None
          /\ UNCHANGED <<signins, toastVars, saved>>
      BY <1>2 DEF SignOut
    <2>2. QED
      <3>1. /\ user' \in Users \cup {None} /\ token' \in 1..MaxTokens \cup {None}
            /\ UNCHANGED <<signins, pushed, last, fresh, toasts, saved>>
        BY <2>1
      <3>2. Rewire(None) /\ Reload(None)
        BY <2>1
      <3>3. /\ effect' \in 1..MaxTokens \cup {None} /\ timer' \in 1..MaxTokens \cup {None}
            /\ sockets' \subseteq [no : 1..MaxSockets, token : 1..MaxTokens, open : BOOLEAN]
            /\ wsRef' \in 0..MaxSockets
        BY <3>2, RewireTyped
      <3>4. /\ hearts' \subseteq Rooms /\ loading' \in BOOLEAN
            /\ sent' \in 0..MaxSends /\ doubt' \subseteq Rooms
            /\ sends' \subseteq SendType
            /\ \A c \in sends' : c.room \in Subject(c)
        BY <3>2, ReloadTyped
      <3>5. QED
        BY <3>1, <3>3, <3>4 DEF Typed, TypeOK, SendType
  <1>3. ASSUME NEW u \in Users, NEW r \in Rooms, SavedElsewhere(u, r) PROVE Typed'
    BY <1>3 DEF SavedElsewhere, Typed, TypeOK
  <1>4. CASE Reconnect
    <2>1. timer \in 1..MaxTokens
      BY <1>4 DEF Reconnect, Typed, TypeOK
    <2>2. QED
      BY <1>4, <2>1, SocketTyped DEF Reconnect, Typed, TypeOK
  <1>5. CASE ShowToast
    <2>1. last \in 0..MaxMessages
      BY <1>5 DEF ShowToast, Typed, TypeOK
    <2>2. last # Connected => last \in 1..MaxMessages
      BY <2>1, Bounds DEF Connected
    <2>3. toasts' \subseteq 1..MaxMessages
      BY <1>5, <2>2 DEF ShowToast, Typed, TypeOK
    <2>4. QED
      BY <1>5, <2>1, <2>3 DEF ShowToast, Typed, TypeOK
  <1>6. ASSUME NEW s \in sockets, Open(s) PROVE Typed'
    <2>1. s \in [no : 1..MaxSockets, token : 1..MaxTokens, open : BOOLEAN]
      BY DEF Typed, TypeOK
    <2>2. [s EXCEPT !.open = TRUE] \in [no : 1..MaxSockets, token : 1..MaxTokens, open : BOOLEAN]
      BY <2>1
    <2>3. last' \in 0..MaxMessages
      BY <1>6, Bounds DEF Open, Connected
    <2>4. QED
      BY <1>6, <2>2, <2>3 DEF Open, Typed, TypeOK
  <1>7. ASSUME NEW s \in sockets, Drop(s) PROVE Typed'
    BY <1>7 DEF Drop, Typed, TypeOK
  <1>8. ASSUME NEW s \in sockets, Push(s) PROVE Typed'
    <2>1. pushed + 1 \in 0..MaxMessages
      BY <1>8, Bounds DEF Push, Typed, TypeOK
    <2>2. QED
      BY <1>8, <2>1 DEF Push, Typed, TypeOK
  <1>9. ASSUME NEW m \in toasts, EndToast(m) PROVE Typed'
    BY <1>9 DEF EndToast, Typed, TypeOK
  <1>10. ASSUME NEW r \in Rooms, Toggle(r) PROVE Typed'
    <2>1. user \in Users /\ sent < MaxSends
      BY <1>10 DEF Toggle, Typed, TypeOK
    <2> DEFINE kind == IF r \in hearts THEN "unsave" ELSE "save"
    <2>2. Send(kind, r, user) \in SendType /\ sent + 1 \in 0..MaxSends
      BY <2>1, SendTyped
    <2>3. Send(kind, r, user).room \in Subject(Send(kind, r, user))
      BY DEF Send, Subject
    <2>4. /\ sends' = sends \cup {Send(kind, r, user)} /\ sent' = sent + 1
          /\ hearts' \in {hearts \ {r}, hearts \cup {r}} /\ doubt' \in {doubt, doubt \cup {r}}
          /\ UNCHANGED <<session, socketVars, toastVars, saved, loading>>
      BY <1>10 DEF Toggle
    <2>5. QED
      BY <2>2, <2>3, <2>4 DEF Typed, TypeOK, SendType
  <1>11. ASSUME NEW c \in sends, Serve(c) PROVE Typed'
    <2>1. c \in SendType /\ c.room \in Subject(c) /\ saved \in [Users -> SUBSET Rooms]
      BY DEF Typed, TypeOK, SendType
    <2>2. PICK d \in SendType : sends' = (sends \ {c}) \cup {d} /\ d.room \in Subject(d)
      <3> DEFINE ok == c.kind # "unsave" \/ c.room \in saved[c.who]
                 served == [c EXCEPT !.result = IF ok THEN "ok" ELSE "refused",
                                     !.rooms = IF c.kind = "load" THEN saved[c.who] ELSE {}]
      <3>1. sends' = (sends \ {c}) \cup {served}
        BY <1>11 DEF Serve
      <3>2. saved[c.who] \subseteq Rooms
        BY <2>1 DEF SendType
      <3>3. served \in SendType
        BY <2>1, <3>2 DEF SendType
      <3>4. served.room = c.room /\ served.kind = c.kind
        BY <2>1 DEF SendType
      <3>5. QED
        BY <2>1, <3>1, <3>3, <3>4 DEF Subject
    <2>3. saved' \in [Users -> SUBSET Rooms]
      BY <1>11, <2>1 DEF Serve, SendType, Subject
    <2>4. UNCHANGED <<session, socketVars, toastVars, hearts, loading, sent, doubt>>
      BY <1>11 DEF Serve
    <2>5. QED
      BY <2>2, <2>3, <2>4 DEF Typed, TypeOK, SendType
  <1>12. ASSUME NEW c \in sends, Answer(c) PROVE Typed'
    BY <1>12 DEF Answer, Typed, TypeOK
  <1>13. ASSUME NEW c \in sends, Fail(c) PROVE Typed'
    <2>1. c \in SendType /\ c.room \in Subject(c)
      BY DEF Typed, TypeOK, SendType
    <2>2. hearts' \subseteq Rooms
      <3>1. hearts \subseteq Rooms
        BY DEF Typed, TypeOK
      <3>2. QED
        BY <1>13, <2>1, <3>1 DEF Fail, Revert, Subject
    <2>3. doubt' \subseteq Rooms
      <3>1. doubt \subseteq Rooms
        BY DEF Typed, TypeOK
      <3>2. CASE c.kind = "load"
        BY <1>13, <3>2 DEF Fail
      <3>3. CASE c.kind # "load"
        <4>1. c.room \in Rooms /\ doubt' \in {doubt, doubt \cup {c.room}}
          BY <1>13, <2>1, <3>3 DEF Fail, Subject
        <4>2. QED
          BY <3>1, <4>1
      <3>4. QED
        BY <3>2, <3>3
    <2>4. sends' \subseteq sends /\ loading' \in BOOLEAN
          /\ UNCHANGED <<session, socketVars, toastVars, saved, sent>>
      BY <1>13 DEF Fail, Typed, TypeOK
    <2>5. QED
      BY <2>2, <2>3, <2>4 DEF Typed, TypeOK
  <1>14. CASE UNCHANGED vars
    BY <1>14 DEF vars, Typed, TypeOK
  <1>15. QED
    BY <1>1, <1>2, <1>3, <1>4, <1>5, <1>6, <1>7, <1>8, <1>9, <1>10, <1>11, <1>12,
       <1>13, <1>14 DEF Next

(* The variables of the providers have their types. *)
THEOREM ProvidersTyped == Spec => []TypeOK
  <1>1. Typed => TypeOK
    BY DEF Typed
  <1>2. QED
    BY <1>1, TypedInit, TypedStep, PTL DEF Spec

-----------------------------------------------------------------------------
(* The socket. *)

LEMMA SocketInit == Init => SocketInv
  BY DEF Init, SocketInv

(* Cleanup and new run of the effect leave the new session's socket alone. *)
LEMMA RewireOne ==
    ASSUME SocketInv, NEW tk, Rewire(tk), token' = tk
    PROVE  SocketInv'
  <1>1. {s \in sockets : effect = None \/ s.no # wsRef} = {}
    BY DEF SocketInv
  <1>2. effect' = tk /\ timer' = None
    BY DEF Rewire
  <1>3. CASE tk = None
    BY <1>1, <1>2, <1>3 DEF Rewire, SocketInv
  <1>4. CASE tk # None
    <2>1. sockets' = {Socket(wsRef + 1, tk)} /\ wsRef' = wsRef + 1
      BY <1>1, <1>4 DEF Rewire
    <2>2. QED
      BY <1>2, <1>4, <2>1 DEF Socket, SocketInv
  <1>5. QED
    BY <1>3, <1>4

LEMMA SocketStep == Typed /\ SocketInv /\ [Next]_vars => SocketInv'
  <1> SUFFICES ASSUME Typed, SocketInv, [Next]_vars PROVE SocketInv'
    OBVIOUS
  <1> USE DEF session, socketVars, toastVars, wishVars
  <1>1. ASSUME NEW u \in Users, SignIn(u) PROVE SocketInv'
    BY <1>1, RewireOne DEF SignIn
  <1>2. CASE SignOut
    BY <1>2, RewireOne DEF SignOut
  <1>3. CASE Reconnect
    <2>1. timer = token /\ timer # None /\ sockets = {}
      BY <1>3 DEF Reconnect, SocketInv
    <2>2. \/ sockets' = {Socket(wsRef + 1, token)} /\ wsRef' = wsRef + 1
          \/ sockets' = {}
      BY <1>3, <2>1 DEF Reconnect
    <2>3. UNCHANGED <<token, effect>> /\ timer' = None
      BY <1>3 DEF Reconnect
    <2>4. CASE sockets' = {}
      BY <2>1, <2>3, <2>4 DEF SocketInv
    <2>5. CASE sockets' = {Socket(wsRef + 1, token)} /\ wsRef' = wsRef + 1
      BY <2>1, <2>3, <2>5 DEF Socket, SocketInv
    <2>6. QED
      BY <2>2, <2>4, <2>5
  <1>4. ASSUME NEW s \in sockets, Open(s) PROVE SocketInv'
    <2>1. s \in [no : 1..MaxSockets, token : 1..MaxTokens, open : BOOLEAN]
      BY DEF Typed, TypeOK
    <2>2. sockets = {s}
      BY DEF SocketInv
    <2>3. sockets' = {[s EXCEPT !.open = TRUE]}
      BY <1>4, <2>2 DEF Open
    <2>4. UNCHANGED <<token, effect, wsRef, timer>>
      BY <1>4 DEF Open
    <2>5. QED
      BY <2>1, <2>2, <2>3, <2>4 DEF SocketInv
  <1>5. ASSUME NEW s \in sockets, Drop(s) PROVE SocketInv'
    <2>1. sockets' = {}
      BY <1>5 DEF Drop, SocketInv
    <2>2. QED
      BY <1>5, <2>1 DEF Drop, SocketInv
  <1>6. CASE UNCHANGED <<token, effect, sockets, wsRef, timer>>
    BY <1>6 DEF SocketInv
  <1>7. QED
    BY <1>1, <1>2, <1>3, <1>4, <1>5, <1>6
       DEF Next, SavedElsewhere, ShowToast, Push, EndToast, Toggle, Serve, Answer, Fail, vars

LEMMA SocketInvSuffices == SocketInv => OneSocketOfTheSession
  <1> SUFFICES ASSUME SocketInv PROVE OneSocketOfTheSession
    OBVIOUS
  <1>1. CASE sockets = {}
    BY <1>1, FS_EmptySet DEF SocketInv, OneSocketOfTheSession
  <1>2. CASE sockets # {}
    <2>1. PICK s \in sockets : sockets = {s}
      BY <1>2 DEF SocketInv
    <2>2. Cardinality(sockets) = 1
      BY <2>1, FS_Singleton
    <2>3. timer = None
      BY <1>2 DEF SocketInv
    <2>4. QED
      BY <2>2, <2>3 DEF SocketInv, OneSocketOfTheSession
  <1>3. QED
    BY <1>1, <1>2

(* A tab has one socket or one timer that will open one, of the session of
   the moment (SocketContext.jsx), however many sign-ins and drops there
   are.                                                                  *)
THEOREM OneSocket == Spec => []OneSocketOfTheSession
  <1>1. Init => Typed /\ SocketInv
    BY TypedInit, SocketInit
  <1>2. Typed /\ SocketInv /\ [Next]_vars => (Typed /\ SocketInv)'
    BY TypedStep, SocketStep
  <1>3. QED
    BY <1>1, <1>2, SocketInvSuffices, PTL DEF Spec

-----------------------------------------------------------------------------
(* The hearts. *)

HeartOK(r) ==
    /\ user = None => r \notin hearts /\ About(r) = {}
    /\ user # None =>
         /\ \A c, d \in Pending(r) : c = d
         /\ \A c \in Pending(r) : c.who = user
         /\ Pending(r) = {} => (r \in hearts <=> r \in saved[user])
         /\ \A c \in About(r) : Ahead(r, c)
         /\ \A c \in Loads : c.result = "ok" => (r \in c.rooms <=> r \in saved[user])

LEMMA HeartInvParts == HeartInv <=> \A r \in Rooms \ doubt : HeartOK(r)
  BY DEF HeartInv, HeartOK

LEMMA HeartInvNext == (\A r \in Rooms \ doubt' : HeartOK(r)') => HeartInv'
  BY DEF HeartInv, HeartOK

(* A call about a room saves or unsaves; a load is about none. *)
LEMMA AboutRooms ==
    ASSUME Typed, NEW r \in Rooms
    PROVE  /\ \A c \in About(r) : c \in sends /\ c.room = r
           /\ \A c \in sends : c.kind \in {"load", "save", "unsave"}
                               /\ c.result \in {"none", "ok", "refused"}
  BY DEF About, Typed, TypeOK

LEMMA HeartInit == Init => HeartInv
  <1> SUFFICES ASSUME Init, NEW r \in Rooms PROVE HeartOK(r)
    BY HeartInvParts
  <1>1. user = None /\ hearts = {} /\ sends = {}
    BY DEF Init
  <1>2. About(r) = {}
    BY <1>1 DEF About
  <1>3. QED
    BY <1>1, <1>2 DEF HeartOK

(* A step that leaves the account, the hearts, the calls and the account's
   saved rooms as far as room r goes.                                    *)
LEMMA HeartSame ==
    ASSUME NEW r \in Rooms, HeartOK(r), user' = user,
           r \in hearts' <=> r \in hearts,
           user # None => (r \in saved'[user] <=> r \in saved[user]),
           About(r)' = About(r), Loads' = Loads
    PROVE  HeartOK(r)'
  BY DEF HeartOK, Pending, Ahead

(* A sign-in or a sign-out, as the wishlist's effect takes it. *)
LEMMA ReloadHearts ==
    ASSUME Typed, HeartInv, NEW who \in Users \cup {None}, Reload(who), user' = who,
           UNCHANGED saved
    PROVE  HeartInv'
  <1> SUFFICES ASSUME NEW r \in Rooms, r \notin doubt' PROVE HeartOK(r)'
    BY HeartInvNext
  <1>1. CASE (user = None) = (who = None)
    <2>1. who = user /\ UNCHANGED <<hearts, sends, doubt>>
      BY <1>1 DEF Reload
    <2>2. HeartOK(r)
      BY <2>1, HeartInvParts
    <2>3. About(r)' = About(r) /\ Loads' = Loads
      BY <2>1 DEF About, Loads
    <2>4. QED
      BY <2>1, <2>2, <2>3, HeartSame
  <1>2. CASE (user = None) # (who = None) /\ who = None
    <2>1. hearts' = {} /\ sends' = sends /\ r \notin {c.room : c \in sends}
      BY <1>2 DEF Reload
    <2>2. About(r)' = {}
      BY <2>1 DEF About
    <2>3. QED
      BY <1>2, <2>1, <2>2 DEF HeartOK
  <1>3. CASE (user = None) # (who = None) /\ who # None
    <2> DEFINE new == Send("load", None, who)
    <2>1. sends' = sends \cup {new} /\ UNCHANGED <<hearts, saved>>
          /\ Loads = {} /\ r \notin {c.room : c \in sends}
      BY <1>3 DEF Reload
    <2>2. new.kind = "load" /\ new.room = None /\ new.who = who /\ new.result = "none"
      BY DEF Send
    <2>3. About(r)' = {}
      BY <2>1, <2>2, Bounds DEF About
    <2>4. Loads' = {new}
      BY <2>1, <2>2 DEF Loads
    <2>5. Pending(r)' = {new}
      BY <2>3, <2>4 DEF Pending
    <2>6. QED
      BY <1>3, <2>2, <2>3, <2>4, <2>5 DEF HeartOK
  <1>4. QED
    BY <1>1, <1>2, <1>3

LEMMA ToggleHearts ==
    ASSUME Typed, HeartInv, NEW t \in Rooms, Toggle(t)
    PROVE  HeartInv'
  <1> SUFFICES ASSUME NEW r \in Rooms, r \notin doubt' PROVE HeartOK(r)'
    BY HeartInvNext
  <1>1. /\ hearts' = (IF t \in hearts THEN hearts \ {t} ELSE hearts \cup {t})
        /\ doubt' = (IF About(t) \cup Loads # {} THEN doubt \cup {t} ELSE doubt)
        /\ user # None /\ UNCHANGED <<user, saved>>
    BY DEF Toggle, session
  <1>2. HeartOK(r)
    BY <1>1, HeartInvParts
  <1>3. PICK new : /\ sends' = sends \cup {new}
                   /\ new.kind = (IF t \in hearts THEN "unsave" ELSE "save")
                   /\ new.room = t /\ new.who = user /\ new.result = "none"
    <2> DEFINE kind == IF t \in hearts THEN "unsave" ELSE "save"
    <2>1. sends' = sends \cup {Send(kind, t, user)}
      BY DEF Toggle
    <2>2. /\ Send(kind, t, user).kind = kind /\ Send(kind, t, user).room = t
          /\ Send(kind, t, user).who = user /\ Send(kind, t, user).result = "none"
      BY DEF Send
    <2>3. QED
      BY <2>1, <2>2
  <1>4. Loads' = Loads
    BY <1>1, <1>3 DEF Loads
  <1>5. CASE r # t
    <2>1. About(r)' = About(r)
      BY <1>1, <1>3, <1>5 DEF About
    <2>2. QED
      BY <1>1, <1>2, <1>4, <1>5, <2>1, HeartSame
  <1>6. CASE r = t
    <2>1. About(r) = {} /\ Loads = {}
      BY <1>1, <1>6
    <2>2. About(r)' = {new}
      BY <1>1, <1>3, <1>6, <2>1 DEF About
    <2>3. r \in hearts <=> r \in saved[user]
      BY <1>1, <1>2, <2>1 DEF HeartOK, Pending
    <2>4. Ahead(r, new)'
      BY <1>1, <1>3, <1>6, <2>3 DEF Ahead
    <2>5. Pending(r)' = {new}
      BY <1>4, <2>1, <2>2 DEF Pending
    <2>6. QED
      BY <1>1, <1>3, <1>4, <2>1, <2>2, <2>4, <2>5 DEF HeartOK
  <1>7. QED
    BY <1>5, <1>6

LEMMA ServeHearts ==
    ASSUME Typed, HeartInv, NEW c \in sends, Serve(c)
    PROVE  HeartInv'
  <1> SUFFICES ASSUME NEW r \in Rooms, r \notin doubt' PROVE HeartOK(r)'
    BY HeartInvNext
  <1>1. PICK d : /\ sends' = (sends \ {c}) \cup {d}
                 /\ d.kind = c.kind /\ d.room = c.room /\ d.who = c.who
                 /\ d.result = (IF c.kind # "unsave" \/ c.room \in saved[c.who]
                                THEN "ok" ELSE "refused")
                 /\ d.rooms = (IF c.kind = "load" THEN saved[c.who] ELSE {})
    <2> DEFINE ok == c.kind # "unsave" \/ c.room \in saved[c.who]
               served == [c EXCEPT !.result = IF ok THEN "ok" ELSE "refused",
                                   !.rooms = IF c.kind = "load" THEN saved[c.who] ELSE {}]
    <2>1. sends' = (sends \ {c}) \cup {served}
      BY DEF Serve
    <2>2. c \in SendType
      BY DEF Typed, TypeOK, SendType
    <2>3. /\ served.kind = c.kind /\ served.room = c.room /\ served.who = c.who
          /\ served.result = (IF ok THEN "ok" ELSE "refused")
          /\ served.rooms = (IF c.kind = "load" THEN saved[c.who] ELSE {})
      BY <2>2 DEF SendType
    <2>4. QED
      BY <2>1, <2>3
  <1>2. UNCHANGED <<user, hearts, doubt>> /\ c.result = "none"
    BY DEF Serve, session
  <1>3. HeartOK(r)
    BY <1>2, HeartInvParts
  <1>4. c.who \in Users /\ saved \in [Users -> SUBSET Rooms] /\ user \in Users \cup {None}
        /\ c.kind \in {"load", "save", "unsave"}
    BY DEF Typed, TypeOK
  <1>5. CASE c \notin Pending(r)
    <2>1. c.room # r /\ c.kind # "load"
      BY <1>5 DEF Pending, About, Loads
    <2>2. About(r)' = About(r) /\ Loads' = Loads
      BY <1>1, <2>1 DEF About, Loads
    <2>3. user # None => (r \in saved'[user] <=> r \in saved[user])
      BY <1>4, <2>1 DEF Serve
    <2>4. QED
      BY <1>2, <1>3, <2>2, <2>3, HeartSame
  <1>6. CASE c \in Pending(r) /\ user # None /\ c.kind # "load"
    <2>1. Pending(r) = {c} /\ c \in About(r)
      BY <1>3, <1>6 DEF HeartOK, Pending, Loads
    <2>2. Loads = {} /\ About(r) = {c}
      BY <1>6, <2>1 DEF Pending, Loads
    <2>3. c.room = r /\ c.who = user /\ Ahead(r, c)
      BY <1>3, <1>6, <2>1 DEF About, HeartOK
    <2>4. Loads' = {} /\ About(r)' = {d}
      BY <1>1, <1>6, <2>2, <2>3 DEF About, Loads
    <2>5. d.result = "ok"
      BY <1>1, <1>2, <1>4, <2>3 DEF Ahead
    <2>6. r \in saved'[user] <=> c.kind = "save"
      BY <1>4, <1>6, <2>3 DEF Serve
    <2>7. Ahead(r, d)'
      BY <1>1, <1>2, <2>3, <2>5, <2>6 DEF Ahead
    <2>8. Pending(r)' = {d}
      BY <2>4 DEF Pending
    <2>9. QED
      BY <1>1, <1>2, <1>6, <2>3, <2>4, <2>7, <2>8 DEF HeartOK
  <1>7. CASE c \in Pending(r) /\ user # None /\ c.kind = "load"
    <2>1. c \notin About(r)
      BY <1>7, Bounds DEF About, Typed, Subject
    <2>2. Pending(r) = {c} /\ About(r) = {} /\ Loads = {c} /\ c.who = user
      BY <1>3, <1>7, <2>1 DEF HeartOK, Pending
    <2>3. c.room # r
      BY <2>1 DEF About
    <2>4. Loads' = {d} /\ About(r)' = {}
      BY <1>1, <1>7, <2>2, <2>3 DEF About, Loads
    <2>5. saved' = saved
      BY <1>7 DEF Serve
    <2>6. Pending(r)' = {d}
      BY <2>4 DEF Pending
    <2>7. QED
      BY <1>1, <1>2, <1>7, <2>2, <2>4, <2>5, <2>6 DEF HeartOK
  <1>8. CASE c \in Pending(r) /\ user = None
    <2>1. About(r) = {} /\ r \notin hearts /\ c.room # r
      BY <1>3, <1>8 DEF HeartOK, Pending, About, Loads
    <2>2. About(r)' = {}
      BY <1>1, <2>1 DEF About
    <2>3. QED
      BY <1>2, <1>8, <2>1, <2>2 DEF HeartOK
  <1>9. QED
    BY <1>5, <1>6, <1>7, <1>8

(* The end of a call, good or bad, that leaves room r without doubt. *)
LEMMA EndHearts ==
    ASSUME Typed, HeartInv, NEW c \in sends, Answer(c) \/ Fail(c)
    PROVE  HeartInv'
  <1> SUFFICES ASSUME NEW r \in Rooms, r \notin doubt' PROVE HeartOK(r)'
    BY HeartInvNext
  <1>1. /\ sends' = sends \ {c} /\ UNCHANGED <<user, saved>>
        /\ doubt \subseteq Rooms
        /\ c.kind \in {"load", "save", "unsave"} /\ c.result \in {"none", "ok", "refused"}
        /\ c.room \in Subject(c)
    BY DEF Answer, Fail, session, Typed, TypeOK
  <1>2. CASE c.kind = "load"
    <2>1. Answer(c) /\ c.who = user /\ hearts' = c.rooms /\ doubt' = doubt /\ c.result = "ok"
      BY <1>2 DEF Answer, Fail
    <2>2. HeartOK(r) /\ user # None
      BY <1>1, <2>1, HeartInvParts, Bounds DEF Typed, TypeOK
    <2>3. c \in Loads
      BY <1>2 DEF Loads
    <2>4. Pending(r) = {c} /\ (r \in c.rooms <=> r \in saved[user])
      BY <2>1, <2>2, <2>3 DEF HeartOK, Pending
    <2>5. Pending(r)' = {}
      BY <1>1, <2>4 DEF Pending, About, Loads
    <2>6. About(r)' = {} /\ Loads' = {}
      BY <2>5 DEF Pending
    <2>7. QED
      BY <1>1, <2>1, <2>2, <2>4, <2>5, <2>6 DEF HeartOK
  <1>3. CASE c.kind # "load" /\ c.room # r
    <2>1. r \notin doubt /\ (r \in hearts' <=> r \in hearts)
      BY <1>3 DEF Answer, Fail, Revert
    <2>2. HeartOK(r)
      BY <2>1, HeartInvParts
    <2>3. About(r)' = About(r) /\ Loads' = Loads
      BY <1>1, <1>3 DEF About, Loads
    <2>4. QED
      BY <1>1, <2>1, <2>2, <2>3, HeartSame
  <1>4. CASE c.kind # "load" /\ c.room = r
    <2>1. r \notin doubt /\ (Fail(c) => c.result = "none" /\ c.who = user)
      BY <1>4 DEF Answer, Fail
    <2>2. HeartOK(r) /\ c \in About(r)
      BY <1>4, <2>1, HeartInvParts DEF About
    <2>3. user # None /\ Ahead(r, c) /\ Pending(r) = {c}
      BY <2>2 DEF HeartOK, Pending
    <2>4. Pending(r)' = {}
      BY <1>1, <2>3 DEF Pending, About, Loads
    <2>5. r \in hearts' <=> r \in saved[user]
      <3>1. CASE Answer(c)
        BY <1>4, <2>3, <3>1 DEF Answer, Ahead
      <3>2. CASE Fail(c)
        BY <1>1, <1>4, <2>1, <2>3, <3>2 DEF Fail, Revert, Ahead
      <3>3. QED
        BY <3>1, <3>2
    <2>6. About(r)' = {} /\ Loads' = {}
      BY <2>4 DEF Pending
    <2>7. QED
      BY <1>1, <2>3, <2>4, <2>5, <2>6 DEF HeartOK
  <1>5. QED
    BY <1>2, <1>3, <1>4

LEMMA HeartStep == Typed /\ HeartInv /\ [Next]_vars => HeartInv'
  <1> SUFFICES ASSUME Typed, HeartInv, [Next]_vars PROVE HeartInv'
    OBVIOUS
  <1>1. ASSUME NEW u \in Users, SignIn(u) PROVE HeartInv'
    BY <1>1, ReloadHearts DEF SignIn
  <1>2. CASE SignOut
    <2>1. Reload(None) /\ user' = None /\ UNCHANGED saved
      BY <1>2 DEF SignOut
    <2>2. QED
      BY <2>1, ReloadHearts
  <1>3. ASSUME NEW u \in Users, NEW t \in Rooms, SavedElsewhere(u, t) PROVE HeartInv'
    <2> SUFFICES ASSUME NEW r \in Rooms, r \notin doubt' PROVE HeartOK(r)'
      BY HeartInvNext
    <2>1. UNCHANGED <<user, hearts, sends>> /\ r \notin doubt /\ (u = user => r # t)
      BY <1>3 DEF SavedElsewhere, session
    <2>2. user # None => (r \in saved'[user] <=> r \in saved[user])
      <3>1. saved \in [Users -> SUBSET Rooms] /\ user \in Users \cup {None}
        BY DEF Typed, TypeOK
      <3>2. QED
        BY <1>3, <2>1, <3>1 DEF SavedElsewhere
    <2>3. HeartOK(r)
      BY <2>1, HeartInvParts
    <2>4. About(r)' = About(r) /\ Loads' = Loads
      BY <2>1 DEF About, Loads
    <2>5. QED
      BY <2>1, <2>2, <2>3, <2>4, HeartSame
  <1>4. CASE UNCHANGED <<user, saved, hearts, sends, doubt>>
    <2> SUFFICES ASSUME NEW r \in Rooms, r \notin doubt' PROVE HeartOK(r)'
      BY HeartInvNext
    <2>1. HeartOK(r) /\ About(r)' = About(r) /\ Loads' = Loads
      BY <1>4, HeartInvParts DEF About, Loads
    <2>2. QED
      BY <1>4, <2>1, HeartSame
  <1>5. QED
    BY <1>1, <1>2, <1>3, <1>4, ToggleHearts, ServeHearts, EndHearts
       DEF Next, Reconnect, ShowToast, Open, Drop, Push, EndToast, vars,
           session, wishVars

LEMMA HeartInvSuffices == HeartInv => HeartsExplained
  BY DEF HeartInv, HeartsExplained, Pending

(* A heart is the server's, unless a call that bears on it is out or doubt
   names a reason, for any number of accounts, rooms and calls.          *)
THEOREM HeartsAreExplained == Spec => []HeartsExplained
  <1>1. Init => Typed /\ HeartInv
    BY TypedInit, HeartInit
  <1>2. Typed /\ HeartInv /\ [Next]_vars => (Typed /\ HeartInv)'
    BY TypedStep, HeartStep
  <1>3. QED
    BY <1>1, <1>2, HeartInvSuffices, PTL DEF Spec
=============================================================================
