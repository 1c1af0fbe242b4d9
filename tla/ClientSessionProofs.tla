------------------------ MODULE ClientSessionProofs ------------------------
(***************************************************************************)
(* Proofs about ClientSession, for any tabs, accounts, locations and       *)
(* bounds.  The three action properties are about one step, from a state   *)
(* whose tokens are issued ones and whose sign-ins are somebody's.         *)
(***************************************************************************)
EXTENDS ClientSession, SequenceTheorems, TLAPS

SignUps == {"signup", "signin", "google", "welcome"}

TypeInv == TypeOK /\ \A c \in calls : c.kind \in SignUps => c.who \in Users

(* The states of a tab when the tokens of N have been issued. *)
TabState(N) == [page : Locations, token : N \cup {None}, profile : Users \cup {None},
                loading : BOOLEAN, busy : BOOLEAN]

-----------------------------------------------------------------------------
(* What a render, a load and an answer make of a tab. *)

LEMMA RoutedKeeps ==
    ASSUME NEW N, NEW r \in TabState(N), NEW issued
    PROVE  /\ Routed(r, issued) \in TabState(N)
           /\ Routed(r, issued).token = r.token
           /\ Routed(r, issued).profile = r.profile
  <1>1. {"home", "login"} \subseteq Locations
    BY LocationsAssumption
  <1>2. Routed(r, issued) \in {r, [r EXCEPT !.page = "login"], [r EXCEPT !.page = "home"]}
    BY DEF Routed
  <1>3. QED
    BY <1>1, <1>2 DEF TabState

LEMMA MountedAs ==
    ASSUME TypeOK, NEW page \in Locations, NEW token \in Tokens \cup {None}
    PROVE  /\ Mounted(page, token) \in TabState(Tokens)
           /\ Mounted(page, token).token = token
           /\ Mounted(page, token).profile = IF token = None THEN None ELSE cache
  <1>1. PICK r : r = [page |-> page, token |-> token, busy |-> page = "callback",
                      profile |-> IF token = None THEN None ELSE cache,
                      loading |-> token # None /\ cache = None]
    OBVIOUS
  <1>2. r \in TabState(Tokens)
    BY <1>1 DEF TabState, TypeOK
  <1>3. Mounted(page, token) = Routed(r, owner)
    BY <1>1 DEF Mounted
  <1>4. QED
    BY <1>1, <1>2, <1>3, RoutedKeeps

LEMMA EndedAs ==
    ASSUME NEW N, NEW r \in TabState(N), NEW c \in CallSpace, NEW p \in Users \cup {None},
           c.kind = "welcome" => c.who \in Users
    PROVE  /\ Ended(r, c, p) \in TabState(N)
           /\ Ended(r, c, p).token = r.token
           /\ \/ Ended(r, c, p).profile = r.profile
              \/ Ended(r, c, p).profile = p /\ c.kind \in ProfileKinds
  <1>1. "login" \in Locations /\ (c.kind = "welcome" => Landing(RoleOf[c.who]) \in Locations)
    BY LocationsAssumption DEF Landing
  <1>2. c.kind \in Kinds
    BY DEF CallSpace
  <1>3. CASE c.kind \in {"restore", "first", "reread"}
    BY <1>3 DEF Ended, TabState, ProfileKinds
  <1>4. CASE c.kind = "welcome"
    BY <1>1, <1>4 DEF Ended, TabState, ProfileKinds
  <1>5. CASE c.kind \in {"signin", "signup"}
    BY <1>5 DEF Ended, TabState
  <1>6. CASE c.kind = "google"
    BY <1>1, <1>6 DEF Ended, TabState
  <1>7. CASE c.kind = "data"
    BY <1>7 DEF Ended
  <1>8. QED
    BY <1>2, <1>3, <1>4, <1>5, <1>6, <1>7 DEF Kinds

(* The two together, as every answer has them. *)
LEMMA EndedRouted ==
    ASSUME TypeInv, NEW c \in calls, NEW p \in Users \cup {None}
    PROVE  LET r == Routed(Ended(tab[c.tab], c, p), owner)
           IN  /\ r \in TabState(Tokens)
               /\ r.token = tab[c.tab].token
               /\ \/ r.profile = tab[c.tab].profile
                  \/ r.profile = p /\ c.kind \in ProfileKinds
  <1>1. /\ c \in CallSpace /\ tab[c.tab] \in TabState(Tokens)
        /\ c.kind = "welcome" => c.who \in Users
    BY DEF TypeInv, TypeOK, CallSpace, TabState, SignUps
  <1>2. PICK e \in TabState(Tokens) :
            /\ e = Ended(tab[c.tab], c, p)
            /\ e.token = tab[c.tab].token
            /\ e.profile = tab[c.tab].profile \/ (e.profile = p /\ c.kind \in ProfileKinds)
    BY <1>1, EndedAs
  <1>3. /\ Routed(e, owner) \in TabState(Tokens)
        /\ Routed(e, owner).token = e.token /\ Routed(e, owner).profile = e.profile
    BY RoutedKeeps
  <1>4. QED
    BY <1>2, <1>3

(* The server knows the token of a call it answers. *)
LEMMA AnsweredToken ==
    ASSUME TypeOK, NEW c \in calls, Answered(c)
    PROVE  c.token # None /\ owner[c.token] \in Users
  <1>1. c.token \in valid
    BY DEF Answered
  <1>2. valid \subseteq 1..Len(owner) /\ owner \in Seq(Users) /\ Len(owner) \in Nat
    BY DEF TypeOK, Tokens
  <1>3. c.token \in 1..Len(owner)
    BY <1>1, <1>2
  <1>4. QED
    BY <1>2, <1>3, ElementOfSeq, SessionAssumption

(* A token is issued. *)
LEMMA Issued ==
    ASSUME TypeOK, NEW u \in Users, Len(owner) < MaxTokens, owner' = Append(owner, u)
    PROVE  LET n == Len(owner) + 1
           IN  /\ owner' \in Seq(Users) /\ Len(owner') = n /\ n <= MaxTokens
               /\ n \in Tokens' /\ Tokens \subseteq Tokens' /\ n # None
               /\ \A m \in Tokens : owner'[m] = owner[m]
               /\ TabState(Tokens) \subseteq TabState(Tokens')
               /\ 1..n \subseteq 1..MaxTokens
  <1>1. owner \in Seq(Users) /\ Len(owner) \in Nat /\ MaxTokens \in Nat /\ None \notin Nat
    BY SessionAssumption DEF TypeOK
  <1>2. /\ owner' \in Seq(Users) /\ Len(owner') = Len(owner) + 1
        /\ \A m \in 1..Len(owner) : owner'[m] = owner[m]
    BY <1>1, AppendProperties
  <1>3. QED
    BY <1>1, <1>2 DEF Tokens, TabState

-----------------------------------------------------------------------------
(* Type correctness. *)

LEMMA TypeInvInit == Init => TypeInv
  BY SessionAssumption, LocationsAssumption DEF Init, TypeInv, TypeOK, Tokens

LEMMA NewCall ==
    ASSUME TypeOK, NEW t \in Tabs, NEW kind \in Kinds, NEW who \in Users \cup {None},
           NEW token \in Tokens \cup {None}
    PROVE  Call(t, kind, token, who) \in CallSpace
  <1>1. Tokens \subseteq 1..MaxTokens
    BY SessionAssumption DEF TypeOK, Tokens
  <1>2. QED
    BY <1>1 DEF Call, CallSpace

LEMMA TypeRequests ==
    ASSUME TypeInv, NEW t \in Tabs,
           \/ \E page \in Locations : Load(t, page) \/ Navigate(t, page)
           \/ \E u \in Users :
                 SubmitLogin(t, u) \/ SubmitRegister(t, u) \/ ReturnFromGoogle(t, u)
           \/ Logout(t) \/ Reread(t) \/ Fetch(t)
    PROVE  TypeInv'
  <1>0. /\ TypeOK /\ UNCHANGED <<owner, valid>> /\ Tokens' = Tokens
        /\ access' \in Tokens \cup {None} /\ cache' \in Users \cup {None}
        /\ tab[t] \in TabState(Tokens) /\ access \in Tokens \cup {None}
    BY DEF TypeInv, TypeOK, TabState, Tokens, Load, Navigate, SubmitLogin, SubmitRegister,
           ReturnFromGoogle, Logout, Reread, Fetch
  <1>1. \E r \in TabState(Tokens) : tab' = [tab EXCEPT ![t] = r]
    <2>1. CASE \E page \in Locations : Load(t, page)
      BY <1>0, <2>1, MountedAs DEF Load
    <2>2. ASSUME NEW page \in Locations, Navigate(t, page)
          PROVE  \E r \in TabState(Tokens) : tab' = [tab EXCEPT ![t] = r]
      <3>1. [tab[t] EXCEPT !.page = page, !.busy = FALSE] \in TabState(Tokens)
        BY <1>0 DEF TabState
      <3>2. QED
        BY <2>2, <3>1, RoutedKeeps DEF Navigate
    <2>3. CASE \E u \in Users : SubmitLogin(t, u) \/ SubmitRegister(t, u)
      <3>1. [tab[t] EXCEPT !.busy = TRUE] \in TabState(Tokens)
        BY <1>0 DEF TabState
      <3>2. tab' = [tab EXCEPT ![t] = [tab[t] EXCEPT !.busy = TRUE]]
        BY <2>3 DEF SubmitLogin, SubmitRegister
      <3>3. QED
        BY <3>1, <3>2
    <2>4. CASE \E u \in Users : ReturnFromGoogle(t, u)
      BY <1>0, <2>4, MountedAs, LocationsAssumption DEF ReturnFromGoogle
    <2>5. CASE Logout(t)
      <3>1. PICK r : r = [tab[t] EXCEPT !.token = None, !.profile = None, !.page = "login"]
        OBVIOUS
      <3>2. r \in TabState(Tokens)
        BY <1>0, <3>1, LocationsAssumption DEF TabState
      <3>3. tab' = [tab EXCEPT ![t] = r]
        BY <2>5, <3>1 DEF Logout
      <3>4. QED
        BY <3>2, <3>3
    <2>6. CASE Reread(t) \/ Fetch(t)
      <3>1. tab' = [tab EXCEPT ![t] = tab[t]]
        BY <1>0, <2>6 DEF Reread, Fetch, TypeOK
      <3>2. QED
        BY <1>0, <3>1
    <2>7. QED
      BY <2>1, <2>2, <2>3, <2>4, <2>5, <2>6
  <1>2. tab' \in [Tabs -> TabState(Tokens)]
    BY <1>0, <1>1 DEF TypeOK, TabState
  <1>3. /\ \A kind \in Kinds, who \in Users \cup {None} :
              Call(t, kind, access, who) \in CallSpace
        /\ \A kind \in Kinds, who \in Users \cup {None} :
              Call(t, kind, access, who).kind = kind /\ Call(t, kind, access, who).who = who
    BY <1>0, NewCall DEF Call
  <1>4. \A c \in calls' : \/ c \in calls
                          \/ /\ c \in CallSpace
                             /\ c.kind \in SignUps => c.who \in Users
    <2>1. \A c \in MountCalls(t, access) : c \in CallSpace /\ c.kind \notin SignUps
      BY <1>3 DEF MountCalls, Kinds, SignUps
    <2>2. CASE \E page \in Locations : Load(t, page) \/ Navigate(t, page)
      BY <2>1, <2>2 DEF Load, Navigate
    <2>3. ASSUME NEW u \in Users,
                 SubmitLogin(t, u) \/ SubmitRegister(t, u) \/ ReturnFromGoogle(t, u)
          PROVE  \A c \in calls' : \/ c \in calls
                                   \/ /\ c \in CallSpace
                                      /\ c.kind \in SignUps => c.who \in Users
      BY <1>3, <2>1, <2>3 DEF SubmitLogin, SubmitRegister, ReturnFromGoogle, Kinds
    <2>4. CASE Logout(t) \/ Reread(t) \/ Fetch(t)
      BY <1>3, <2>4 DEF Logout, Reread, Fetch, Kinds, SignUps
    <2>5. QED
      BY <2>2, <2>3, <2>4
  <1>5. QED
    BY <1>0, <1>2, <1>4 DEF TypeInv, TypeOK, TabState

LEMMA TypeSignedIn ==
    ASSUME TypeInv, NEW c \in calls, SignedIn(c)
    PROVE  TypeInv'
  <1>1. PICK n : n = Len(owner) + 1
    OBVIOUS
  <1>2. /\ TypeOK /\ c.who \in Users /\ c.tab \in Tabs /\ Len(owner) < MaxTokens
        /\ tab[c.tab] \in TabState(Tokens)
    BY <1>1, SessionAssumption
    DEF SignedIn, TypeInv, TypeOK, CallSpace, SignInKinds, SignUps, TabState
  <1>3. /\ owner' = Append(owner, c.who) /\ valid' = valid \cup {n} /\ access' = n
        /\ tab' = [tab EXCEPT ![c.tab] = Routed([tab[c.tab] EXCEPT !.token = n], owner')]
        /\ calls' = (calls \ {c}) \cup {Call(c.tab, "welcome", n, c.who)}
        /\ UNCHANGED cache
    BY <1>1 DEF SignedIn
  <1>4. /\ owner' \in Seq(Users) /\ Len(owner') = n /\ n <= MaxTokens
        /\ n \in Tokens' /\ Tokens \subseteq Tokens'
        /\ TabState(Tokens) \subseteq TabState(Tokens')
        /\ 1..n \subseteq 1..MaxTokens
    BY <1>1, <1>2, <1>3, Issued
  <1>5. tab' \in [Tabs -> TabState(Tokens')]
    <2>1. PICK r : r = [tab[c.tab] EXCEPT !.token = n]
      OBVIOUS
    <2>2. r \in TabState(Tokens')
      BY <1>2, <1>4, <2>1 DEF TabState
    <2>3. Routed(r, owner') \in TabState(Tokens')
      BY <2>2, RoutedKeeps
    <2>4. tab \in [Tabs -> TabState(Tokens')]
      BY <1>2, <1>4 DEF TypeOK, TabState
    <2>5. QED
      BY <1>3, <2>1, <2>3, <2>4
  <1>6. Call(c.tab, "welcome", n, c.who) \in CallSpace
    BY <1>2, <1>4 DEF Call, CallSpace, Kinds, Tokens
  <1>7. Call(c.tab, "welcome", n, c.who).who = c.who
    BY DEF Call
  <1>8. QED
    BY <1>2, <1>3, <1>4, <1>5, <1>6, <1>7 DEF TypeInv, TypeOK, TabState

LEMMA TypeEnds ==
    ASSUME TypeInv, NEW c \in calls,
           SignedUp(c) \/ GoogleIgnored(c) \/ Answered(c) \/ Failed(c) \/ Refused(c)
    PROVE  TypeInv'
  <1>0. /\ TypeOK /\ UNCHANGED <<owner, valid>> /\ Tokens' = Tokens /\ c.tab \in Tabs
        /\ None \in Users \cup {None} /\ c \in CallSpace
    BY DEF TypeInv, TypeOK, CallSpace, Tokens, SignedUp, GoogleIgnored, Answered, Failed,
           Refused
  <1>1. Answered(c) => owner[c.token] \in Users
    BY <1>0, AnsweredToken
  <1>2. access' \in Tokens \cup {None} /\ cache' \in Users \cup {None}
    BY <1>0, <1>1 DEF SignedUp, GoogleIgnored, Answered, Failed, Refused, TypeOK
  <1>3. tab' \in [Tabs -> TabState(Tokens)]
    <2>0. tab \in [Tabs -> TabState(Tokens)]
      BY <1>0 DEF TypeOK, TabState
    <2>1. \A p \in Users \cup {None} :
              Routed(Ended(tab[c.tab], c, p), owner) \in TabState(Tokens)
      BY EndedRouted
    <2>2. Mounted("login", None) \in TabState(Tokens)
      BY <1>0, MountedAs, LocationsAssumption
    <2>3. CASE Answered(c)
      <3>1. PICK p \in Users \cup {None} :
                tab' = [tab EXCEPT ![c.tab] = Routed(Ended(tab[c.tab], c, p), owner)]
        BY <1>1, <2>3 DEF Answered
      <3>2. QED
        BY <2>0, <2>1, <3>1
    <2>4. CASE Failed(c)
      BY <2>0, <2>1, <2>4 DEF Failed
    <2>5. CASE Refused(c)
      BY <2>0, <2>1, <2>2, <2>5 DEF Refused
    <2>6. CASE SignedUp(c) \/ GoogleIgnored(c)
      BY <2>0, <2>6 DEF SignedUp, GoogleIgnored
    <2>7. QED
      BY <2>3, <2>4, <2>5, <2>6
  <1>4. \A d \in calls' : \/ d \in calls
                          \/ /\ d \in CallSpace
                             /\ d.kind \in SignUps => d.who \in Users
    <2>1. CASE SignedUp(c)
      <3>1. c.who \in Users
        BY <2>1 DEF SignedUp, TypeInv, SignUps
      <3>2. /\ Call(c.tab, "signin", access, c.who) \in CallSpace
            /\ Call(c.tab, "signin", access, c.who).who = c.who
        BY <1>0, <3>1, NewCall DEF Kinds, TypeOK, Call
      <3>3. QED
        BY <2>1, <3>1, <3>2 DEF SignedUp
    <2>2. CASE ~ SignedUp(c)
      BY <2>2 DEF GoogleIgnored, Answered, Failed, Refused
    <2>3. QED
      BY <2>1, <2>2
  <1>5. QED
    BY <1>0, <1>2, <1>3, <1>4 DEF TypeInv, TypeOK, TabState

LEMMA TypeElsewhere ==
    ASSUME TypeInv, Elsewhere
    PROVE  TypeInv'
  <1>0. TypeOK /\ UNCHANGED <<tab, calls>>
    BY DEF TypeInv, Elsewhere
  <1>1. ASSUME NEW u \in Users, Len(owner) < MaxTokens, owner' = Append(owner, u),
               access' = Len(owner'), valid' = valid \cup {access'}, cache' \in {u, cache}
        PROVE  TypeInv'
    <2>1. /\ owner' \in Seq(Users) /\ Len(owner') <= MaxTokens
          /\ access' \in Tokens' /\ Tokens \subseteq Tokens'
          /\ TabState(Tokens) \subseteq TabState(Tokens')
      BY <1>0, <1>1, Issued
    <2>2. tab' \in [Tabs -> TabState(Tokens')]
      BY <1>0, <2>1 DEF TypeOK, TabState
    <2>3. QED
      BY <1>0, <1>1, <2>1, <2>2 DEF TypeInv, TypeOK, TabState
  <1>2. CASE access' = None /\ cache' \in {None, cache} /\ UNCHANGED <<owner, valid>>
    BY <1>0, <1>2 DEF TypeInv, TypeOK, Tokens
  <1>3. QED
    BY <1>1, <1>2 DEF Elsewhere

LEMMA TypeInvNext ==
    ASSUME TypeInv, [Next]_vars
    PROVE  TypeInv'
  <1>1. ASSUME NEW n \in valid, Expire(n)
        PROVE  TypeInv'
    BY <1>1 DEF Expire, TypeInv, TypeOK, Tokens
  <1>2. CASE UNCHANGED vars
    BY <1>2 DEF vars, TypeInv, TypeOK, Tokens
  <1>3. QED
    BY <1>1, <1>2, TypeElsewhere, TypeRequests, TypeSignedIn, TypeEnds DEF Next

(* The tokens tabs and storage hold have been issued, a tab stays at a     *)
(* location of the run, and every sign-in is an account's.                 *)
THEOREM SessionTyped == Spec => []TypeOK
  <1>1. TypeInv => TypeOK
    BY DEF TypeInv
  <1>2. QED
    BY <1>1, TypeInvInit, TypeInvNext, PTL DEF Spec

-----------------------------------------------------------------------------
(* The profile a tab holds. *)

StrayExplained(t) ==
    Stray(tab[t], owner)' /\ ~ Stray(tab[t], owner) =>
       \/ Overtaken(t)
       \/ tab'[t].profile = cache /\ tab'[t].token = access /\ access # None
       \/ tab[t].token # None /\ owner' # owner

(* What keeps a tab's token, its account and its profile keeps a tab right.*)
LEMMA NotStrayed ==
    ASSUME NEW t \in Tabs, tab'[t].token = tab[t].token,
           tab'[t].profile \in {tab[t].profile, None},
           tab[t].token # None => owner'[tab[t].token] = owner[tab[t].token]
    PROVE  StrayExplained(t)
  <1>1. Stray(tab[t], owner)' => Stray(tab[t], owner)
    BY DEF Stray
  <1>2. QED
    BY <1>1 DEF StrayExplained

LEMMA StrayRequests ==
    ASSUME TypeInv, NEW s \in Tabs, NEW t \in Tabs,
           \/ \E page \in Locations : Load(s, page) \/ Navigate(s, page)
           \/ \E u \in Users :
                 SubmitLogin(s, u) \/ SubmitRegister(s, u) \/ ReturnFromGoogle(s, u)
           \/ Logout(s) \/ Reread(s) \/ Fetch(s)
    PROVE  StrayExplained(t)
  <1>0. /\ TypeOK /\ UNCHANGED owner
        /\ tab[s] \in TabState(Tokens) /\ access \in Tokens \cup {None}
    BY DEF TypeInv, TypeOK, TabState, Load, Navigate, SubmitLogin, SubmitRegister,
           ReturnFromGoogle, Logout, Reread, Fetch
  <1>1. \A page \in Locations : /\ Mounted(page, access).token = access
                                /\ Mounted(page, access).profile
                                      = IF access = None THEN None ELSE cache
    BY <1>0, MountedAs
  <1>2. CASE t # s
    <2>1. tab'[t] = tab[t]
      BY <1>0, <1>2 DEF TypeOK, Load, Navigate, SubmitLogin, SubmitRegister,
                        ReturnFromGoogle, Logout, Reread, Fetch
    <2>2. QED
      BY <1>0, <2>1, NotStrayed
  <1>3. CASE t = s /\ \/ \E page \in Locations : Load(s, page)
                      \/ \E u \in Users : ReturnFromGoogle(s, u)
    <2>1. \E page \in Locations : tab' = [tab EXCEPT ![s] = Mounted(page, access)]
      BY <1>3, LocationsAssumption DEF Load, ReturnFromGoogle
    <2>2. tab'[t].token = access
          /\ tab'[t].profile = IF access = None THEN None ELSE cache
      BY <1>0, <1>1, <1>3, <2>1 DEF TypeOK
    <2>3. QED
      BY <2>2 DEF StrayExplained, Stray
  <1>4. CASE t = s /\ \E page \in Locations : Navigate(s, page)
    <2>1. PICK page \in Locations : Navigate(s, page)
      BY <1>4
    <2>2. PICK r : r = [tab[s] EXCEPT !.page = page, !.busy = FALSE]
      OBVIOUS
    <2>3. r \in TabState(Tokens) /\ r.token = tab[s].token /\ r.profile = tab[s].profile
      BY <1>0, <2>2 DEF TabState
    <2>4. tab'[s] = Routed(r, owner)
      BY <1>0, <2>1, <2>2 DEF Navigate, TypeOK
    <2>5. tab'[t].token = tab[t].token /\ tab'[t].profile = tab[t].profile
      BY <1>4, <2>3, <2>4, RoutedKeeps
    <2>6. QED
      BY <1>0, <2>5, NotStrayed
  <1>5. CASE t = s /\ Logout(s)
    <2>1. tab'[t].profile = None
      BY <1>0, <1>5 DEF Logout, TypeOK, TabState
    <2>2. QED
      BY <2>1 DEF StrayExplained, Stray
  <1>6. CASE t = s /\ \/ \E u \in Users : SubmitLogin(s, u) \/ SubmitRegister(s, u)
                      \/ Reread(s) \/ Fetch(s)
    <2>1. tab'[t].token = tab[t].token /\ tab'[t].profile = tab[t].profile
      BY <1>0, <1>6 DEF SubmitLogin, SubmitRegister, Reread, Fetch, TypeOK, TabState
    <2>2. QED
      BY <1>0, <2>1, NotStrayed
  <1>7. QED
    BY <1>2, <1>3, <1>4, <1>5, <1>6

LEMMA StraySignedIn ==
    ASSUME TypeInv, NEW c \in calls, NEW t \in Tabs, SignedIn(c)
    PROVE  StrayExplained(t)
  <1>1. PICK n : n = Len(owner) + 1
    OBVIOUS
  <1>2. /\ TypeOK /\ c.who \in Users /\ c.tab \in Tabs /\ Len(owner) < MaxTokens
        /\ tab[t] \in TabState(Tokens)
    BY <1>1, SessionAssumption
    DEF SignedIn, TypeInv, TypeOK, CallSpace, SignInKinds, SignUps, TabState
  <1>3. /\ owner' = Append(owner, c.who)
        /\ tab' = [tab EXCEPT ![c.tab] = Routed([tab[c.tab] EXCEPT !.token = n], owner')]
    BY <1>1 DEF SignedIn
  <1>4. /\ n \in Tokens' /\ \A m \in Tokens : owner'[m] = owner[m]
        /\ TabState(Tokens) \subseteq TabState(Tokens')
        /\ Len(owner') = Len(owner) + 1 /\ Len(owner) \in Nat
    <2>1. /\ Len(owner') = n /\ n \in Tokens' /\ \A m \in Tokens : owner'[m] = owner[m]
          /\ TabState(Tokens) \subseteq TabState(Tokens')
      BY <1>1, <1>2, <1>3, Issued
    <2>2. Len(owner) \in Nat
      BY <1>2 DEF TypeOK
    <2>3. QED
      BY <1>1, <2>1, <2>2
  <1>5. CASE t # c.tab
    <2>1. tab'[t] = tab[t]
      BY <1>2, <1>3, <1>5 DEF TypeOK
    <2>2. tab[t].token \in Tokens \cup {None}
      BY <1>2 DEF TabState
    <2>3. QED
      BY <1>4, <2>1, <2>2, NotStrayed
  <1>6. CASE t = c.tab
    <2>1. PICK r : r = [tab[t] EXCEPT !.token = n]
      OBVIOUS
    <2>2. r \in TabState(Tokens') /\ r.profile = tab[t].profile
      BY <1>2, <1>4, <2>1 DEF TabState
    <2>3. tab'[t] = Routed(r, owner')
      BY <1>2, <1>3, <1>6, <2>1 DEF TypeOK
    <2>4. tab'[t].profile = tab[t].profile
      BY <2>2, <2>3, RoutedKeeps
    <2>5. owner' # owner
      BY <1>4
    <2>6. QED
      BY <2>4, <2>5 DEF StrayExplained, Stray
  <1>7. QED
    BY <1>5, <1>6

LEMMA StrayEnds ==
    ASSUME TypeInv, NEW c \in calls, NEW t \in Tabs,
           SignedUp(c) \/ GoogleIgnored(c) \/ Answered(c) \/ Failed(c) \/ Refused(c)
    PROVE  StrayExplained(t)
  <1>0. /\ TypeOK /\ UNCHANGED owner /\ c.tab \in Tabs
        /\ tab \in [Tabs -> TabState(Tokens)]
    BY DEF TypeInv, TypeOK, CallSpace, TabState, SignedUp, GoogleIgnored, Answered, Failed,
           Refused
  <1>1. CASE t # c.tab \/ SignedUp(c) \/ GoogleIgnored(c)
    <2>1. tab'[t] = tab[t]
      BY <1>0, <1>1 DEF SignedUp, GoogleIgnored, Answered, Failed, Refused
    <2>2. QED
      BY <1>0, <2>1, NotStrayed
  <1>2. ASSUME t = c.tab, NEW p \in Users \cup {None},
               tab' = [tab EXCEPT ![c.tab] = Routed(Ended(tab[c.tab], c, p), owner)]
        PROVE  /\ tab'[t].token = tab[t].token
               /\ \/ tab'[t].profile = tab[t].profile
                  \/ tab'[t].profile = p /\ c.kind \in ProfileKinds
    <2>1. tab'[t] = Routed(Ended(tab[c.tab], c, p), owner)
      BY <1>0, <1>2
    <2>2. QED
      BY <1>2, <2>1, EndedRouted
  <1>3. CASE t = c.tab /\ Answered(c)
    <2>1. PICK p : p = IF c.kind = "data" THEN None ELSE owner[c.token]
      OBVIOUS
    <2>2. /\ tab' = [tab EXCEPT ![c.tab] = Routed(Ended(tab[c.tab], c, p), owner)]
          /\ p \in Users \cup {None} /\ calls' = calls \ {c}
      <3>1. owner[c.token] \in Users
        BY <1>0, <1>3, AnsweredToken
      <3>2. QED
        BY <1>3, <2>1, <3>1 DEF Answered
    <2>3. /\ tab'[t].token = tab[t].token
          /\ \/ tab'[t].profile = tab[t].profile
             \/ tab'[t].profile = p /\ c.kind \in ProfileKinds
      BY <1>2, <1>3, <2>2
    <2>4. CASE tab'[t].profile = tab[t].profile
      BY <1>0, <2>3, <2>4, NotStrayed
    <2>5. CASE tab'[t].profile = p /\ c.kind \in ProfileKinds
      <3>1. p = owner[c.token]
        BY <2>1, <2>5 DEF ProfileKinds
      <3>2. c.token # tab[t].token => Overtaken(t)
        BY <1>3, <2>2 DEF Overtaken, CallsOf
      <3>3. CASE c.token = tab[t].token
        <4>1. tab[t].token # None
          BY <1>0, <1>3, <3>3, AnsweredToken
        <4>2. ~ Stray(tab[t], owner)'
          BY <1>0, <2>3, <2>5, <3>1, <3>3, <4>1 DEF Stray
        <4>3. QED
          BY <4>2 DEF StrayExplained
      <3>4. QED
        BY <3>2, <3>3 DEF StrayExplained
    <2>6. QED
      BY <2>3, <2>4, <2>5
  <1>4. CASE t = c.tab /\ (Failed(c) \/ Refused(c))
    <2>1. CASE tab' = [tab EXCEPT ![c.tab] = Mounted("login", None)]
      <3>1. tab'[t].profile = None
        BY <1>0, <1>4, <2>1, MountedAs, LocationsAssumption
      <3>2. QED
        BY <3>1 DEF StrayExplained, Stray
    <2>2. CASE tab' = [tab EXCEPT ![c.tab] = Routed(Ended(tab[c.tab], c, None), owner)]
      <3>1. tab'[t].token = tab[t].token /\ tab'[t].profile \in {tab[t].profile, None}
        BY <1>2, <1>4, <2>2
      <3>2. QED
        BY <1>0, <3>1, NotStrayed
    <2>3. QED
      BY <1>4, <2>1, <2>2 DEF Failed, Refused
  <1>5. QED
    BY <1>1, <1>3, <1>4

LEMMA StrayNext ==
    ASSUME TypeInv, [Next]_vars, NEW t \in Tabs
    PROVE  StrayExplained(t)
  <1>0. TypeOK /\ tab[t] \in TabState(Tokens)
    BY DEF TypeInv, TypeOK, TabState
  <1>1. CASE Elsewhere \/ (\E n \in valid : Expire(n)) \/ UNCHANGED vars
    <2>1. tab'[t] = tab[t]
      BY <1>1 DEF Elsewhere, Expire, vars
    <2>2. \A m \in Tokens : owner'[m] = owner[m]
      <3>1. CASE owner' = owner
        BY <3>1
      <3>2. ASSUME NEW u \in Users, Len(owner) < MaxTokens, owner' = Append(owner, u)
            PROVE  \A m \in Tokens : owner'[m] = owner[m]
        BY <1>0, <3>2, Issued
      <3>3. QED
        BY <1>1, <3>1, <3>2 DEF Elsewhere, Expire, vars
    <2>3. QED
      BY <1>0, <2>1, <2>2, NotStrayed DEF TabState
  <1>2. QED
    BY <1>1, StrayRequests, StraySignedIn, StrayEnds DEF Next

(* A tab comes to hold a profile that is not its token's account's only by *)
(* an answer to a call from before the token changed, by a load that takes *)
(* a cached profile, or by a sign-in over a session that is still open     *)
(* (AuthContext.jsx).                                                      *)
THEOREM StrayProfiles == Spec => StrayProfileExplained
  <1>1. TypeInv /\ [Next]_vars => [\A t \in Tabs : StrayExplained(t)]_vars
    BY StrayNext
  <1>2. StrayProfileExplained <=> [][\A t \in Tabs : StrayExplained(t)]_vars
    BY DEF StrayProfileExplained, StrayExplained
  <1>3. QED
    BY <1>1, <1>2, TypeInvInit, TypeInvNext, PTL DEF Spec

-----------------------------------------------------------------------------
(* What storage holds. *)

TokenKept ==
    access # None /\ access' = None /\ <<tab, calls>>' # <<tab, calls>> =>
       \/ \E t \in Tabs : tab[t].token # None /\ tab'[t].token = None /\ calls' = calls
       \/ \E c \in calls \ calls' : \/ c.kind \in SignInKinds
                                    \/ c.token # access
                                    \/ access \notin valid

CacheKept ==
    cache' # None /\ access' = None /\ ~ (cache # None /\ access = None)
       /\ <<tab, calls>>' # <<tab, calls>> =>
       \E c \in calls \ calls' : access # None \/ c.token # None

LEMMA StorageRequests ==
    ASSUME TypeInv, NEW t \in Tabs,
           \/ \E page \in Locations : Load(t, page) \/ Navigate(t, page)
           \/ \E u \in Users :
                 SubmitLogin(t, u) \/ SubmitRegister(t, u) \/ ReturnFromGoogle(t, u)
           \/ Logout(t) \/ Reread(t) \/ Fetch(t)
    PROVE  TokenKept /\ CacheKept
  <1>1. CASE Logout(t)
    <2>1. tab[t].token # None /\ cache' = None /\ calls' = calls
          /\ tab' = [tab EXCEPT ![t] = [tab[t] EXCEPT !.token = None, !.profile = None,
                                                      !.page = "login"]]
      BY <1>1 DEF Logout
    <2>2. tab'[t].token = None
      <3>1. tab[t] \in TabState(Tokens) /\ tab \in [Tabs -> TabState(Tokens)]
        BY DEF TypeInv, TypeOK, TabState
      <3>2. PICK r : r = [tab[t] EXCEPT !.token = None, !.profile = None, !.page = "login"]
        OBVIOUS
      <3>3. r.token = None
        BY <3>1, <3>2 DEF TabState
      <3>4. tab'[t] = r
        BY <2>1, <3>1, <3>2
      <3>5. QED
        BY <3>3, <3>4
    <2>3. QED
      BY <2>1, <2>2 DEF TokenKept, CacheKept
  <1>2. CASE ~ Logout(t)
    <2>1. UNCHANGED <<access, cache>>
      BY <1>2 DEF Load, Navigate, SubmitLogin, SubmitRegister, ReturnFromGoogle, Reread, Fetch
    <2>2. QED
      BY <2>1 DEF TokenKept, CacheKept
  <1>3. QED
    BY <1>1, <1>2

LEMMA StorageEnds ==
    ASSUME TypeInv, NEW c \in calls,
           \/ SignedUp(c) \/ SignedIn(c) \/ GoogleIgnored(c)
           \/ Answered(c) \/ Failed(c) \/ Refused(c)
    PROVE  TokenKept /\ CacheKept
  <1>0. TypeOK
    BY DEF TypeInv
  <1>1. CASE SignedIn(c)
    <2>1. Len(owner) \in Nat
      BY <1>0 DEF TypeOK
    <2>2. access' # None
      BY <1>1, <2>1, SessionAssumption DEF SignedIn
    <2>3. QED
      BY <2>2 DEF TokenKept, CacheKept
  <1>2. CASE Refused(c)
    <2>1. c \in calls \ calls' /\ cache' = cache
      BY <1>2 DEF Refused, CallsOf
    <2>2. c.kind \in SignInKinds \/ c.token \notin valid
      BY <1>2 DEF Refused
    <2>3. TokenKept
      BY <2>1, <2>2 DEF TokenKept
    <2>4. CacheKept
      BY <2>1 DEF CacheKept
    <2>5. QED
      BY <2>3, <2>4
  <1>3. CASE Answered(c)
    <2>1. c \in calls \ calls' /\ access' = access
      BY <1>3 DEF Answered
    <2>2. c.token # None
      BY <1>0, <1>3, AnsweredToken
    <2>3. QED
      BY <2>1, <2>2 DEF TokenKept, CacheKept
  <1>4. CASE SignedUp(c) \/ GoogleIgnored(c) \/ Failed(c)
    <2>1. UNCHANGED <<access, cache>>
      BY <1>4 DEF SignedUp, GoogleIgnored, Failed
    <2>2. QED
      BY <2>1 DEF TokenKept, CacheKept
  <1>5. QED
    BY <1>1, <1>2, <1>3, <1>4

LEMMA StorageNext ==
    ASSUME TypeInv, [Next]_vars
    PROVE  TokenKept /\ CacheKept
  <1>1. CASE Elsewhere \/ (\E n \in valid : Expire(n)) \/ UNCHANGED vars
    <2>1. UNCHANGED <<tab, calls>>
      BY <1>1 DEF Elsewhere, Expire, vars
    <2>2. QED
      BY <2>1 DEF TokenKept, CacheKept
  <1>2. QED
    BY <1>1, StorageRequests, StorageEnds DEF Next

(* These tabs lose the token in storage only by a sign-out, by a 401 to a  *)
(* sign-in, or by a 401 to a call: never by a timeout or an error, and     *)
(* while the server accepts that token only by a 401 to a call that had    *)
(* left with another one (services/api.js, the response interceptor).      *)
THEOREM StoredTokens == Spec => StoredTokenKept
  <1>1. TypeInv /\ [Next]_vars => [TokenKept]_vars
    BY StorageNext
  <1>2. StoredTokenKept <=> [][TokenKept]_vars
    BY DEF StoredTokenKept, TokenKept
  <1>3. QED
    BY <1>1, <1>2, TypeInvInit, TypeInvNext, PTL DEF Spec

(* A profile comes to be in storage without a token only at the end of a   *)
(* call that removed the token alone or had left before a sign-out.        *)
THEOREM StoredProfiles == Spec => CacheOutlivesToken
  <1>1. TypeInv /\ [Next]_vars => [CacheKept]_vars
    BY StorageNext
  <1>2. CacheOutlivesToken <=> [][CacheKept]_vars
    BY DEF CacheOutlivesToken, CacheKept
  <1>3. QED
    BY <1>1, <1>2, TypeInvInit, TypeInvNext, PTL DEF Spec

=============================================================================
