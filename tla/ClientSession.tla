--------------------------- MODULE ClientSession ---------------------------
(***************************************************************************)
(* The session of a browser: contexts/AuthContext.jsx, the interceptors of *)
(* services/api.js, routes/PrivateRoute.jsx and the pages that sign a      *)
(* person in or out.  Tabs of one browser share localStorage (`access`,    *)
(* `cache`); each keeps React state of its own (`tab`).  A call that has   *)
(* been sent carries the token localStorage held when it left, and its     *)
(* answer finds whatever the tab and the storage hold by then: no handler  *)
(* but AuthCallback's asks whether it is still wanted.                     *)
(*                                                                         *)
(* decodeJwt(token) is a function of the token and is set in the batch     *)
(* that sets it, so the user of the token is owner[token].                 *)
(***************************************************************************)
EXTENDS Naturals, Sequences, FiniteSets

(* The locations, one of each kind the code tells apart. *)
AllLocations == {"home", "login", "register", "callback", "account",
                 "dashboard", "staff", "admin"}

CONSTANTS Tabs,        \* the tabs of the browser
          Users,       \* the accounts people sign in with
          RoleOf,      \* the role of each account
          None,        \* null: no token, no profile, no entry in storage
          Locations,   \* bound: the locations a run visits
          MaxTokens,   \* bound: tokens the server issues
          MaxCalls     \* bound: a tab with so many calls in flight sends only a sign-in

ASSUME SessionAssumption ==
    /\ None \notin Users /\ None \notin Nat
    /\ RoleOf \in [Users -> {"guest", "staff", "hotel_admin"}]
    /\ Locations \subseteq AllLocations
    /\ MaxTokens \in Nat /\ MaxCalls \in Nat

VARIABLES
    owner,   \* owner[n]: the account the server issued token n to
    valid,   \* the tokens the server still accepts
    access,  \* localStorage.access_token
    cache,   \* localStorage.profile_cache: whose profile it is
    tab,     \* React state and location of each tab
    calls    \* calls in flight

vars == <<owner, valid, access, cache, tab, calls>>

Tokens == 1..Len(owner)

(* The roles prop of the route; the whole set for a public one. *)
Allowed(page) ==
    CASE page = "admin" -> {"hotel_admin"}
      [] page = "staff" -> {"staff", "hotel_admin"}
      [] OTHER          -> {"guest", "staff", "hotel_admin"}
Private(page) == page \in {"account", "dashboard", "staff", "admin"}

(* The locations from which a 401 sends the tab to /login: the account
   pages (/my-bookings, /profile, /saved ...) are not among them.        *)
RedirectedOn401(page) == page \in {"dashboard", "staff", "admin"}

(* user.role: the profile's fields override the token's. *)
Role(r, issued) ==
    IF r.token = None THEN None
    ELSE IF r.profile # None THEN RoleOf[r.profile]
    ELSE RoleOf[issued[r.token]]

(* What PrivateRoute makes of a tab's state on every render: a spinner
   while loading, a redirect without a token or with another role.       *)
Routed(r, issued) ==
    IF ~Private(r.page) \/ r.loading THEN r
    ELSE IF r.token = None THEN [r EXCEPT !.page = "login"]
    ELSE IF Role(r, issued) \notin Allowed(r.page) THEN [r EXCEPT !.page = "home"]
    ELSE r

LandingOfRole(role) == role    \* Mistake for Landing: the role for its place

(* Where a sign-in leads. *)
Landing(role) == CASE role = "hotel_admin" -> "admin"
                   [] role = "staff"       -> "staff"
                   [] OTHER                -> "dashboard"

(* Wherever a sign-in leads and a redirect sends is a location of the run. *)
ASSUME LocationsAssumption ==
    /\ {"home", "login", "callback"} \subseteq Locations
    /\ \A u \in Users :
         \/ RoleOf[u] = "hotel_admin" /\ "admin" \in Locations
         \/ RoleOf[u] = "staff" /\ "staff" \in Locations
         \/ RoleOf[u] \notin {"hotel_admin", "staff"} /\ "dashboard" \in Locations

Kinds == {"restore", "first", "welcome", "reread", "data", "signup", "signin", "google"}
ProfileKinds == {"restore", "first", "welcome", "reread"}
SignInKinds  == {"signin", "google"}
Call(t, kind, token, who) == [tab |-> t, kind |-> kind, token |-> token, who |-> who]
CallsOf(t) == {c \in calls : c.tab = t}

-----------------------------------------------------------------------------
(* A page load mounts the AuthProvider.  A stored token is taken as it is;
   a cached profile unblocks the routes at once, whoever it belongs to.  *)
Mounted(page, token) ==
    Routed([page |-> page, token |-> token, busy |-> page = "callback",
            profile |-> IF token = None THEN None ELSE cache,
            loading |-> token # None /\ cache = None], owner)
MountCalls(t, token) ==
    IF token = None THEN {}
    ELSE {Call(t, IF cache = None THEN "first" ELSE "restore", token, None)}

Init ==
    /\ owner = <<>> /\ valid = {} /\ access = None /\ cache = None
    /\ tab = [t \in Tabs |-> [page |-> "home", token |-> None, profile |-> None,
                              loading |-> FALSE, busy |-> FALSE]]
    /\ calls = {}

Load(t, page) ==
    /\ page # "callback"
    /\ tab' = [tab EXCEPT ![t] = Mounted(page, access)]
    /\ calls' = (calls \ CallsOf(t)) \cup MountCalls(t, access)
    /\ UNCHANGED <<owner, valid, access, cache>>

(* A link, the back button or navigate(): calls in flight go on. *)
Navigate(t, page) ==
    /\ page \notin {tab[t].page, "callback"}
    /\ tab' = [tab EXCEPT ![t] = Routed([@ EXCEPT !.page = page, !.busy = FALSE], owner)]
    /\ UNCHANGED <<owner, valid, access, cache, calls>>

(* Login.handleSubmit; the button is disabled while one is under way. *)
SubmitLogin(t, u) ==
    /\ tab[t].page = "login" /\ ~tab[t].busy
    /\ Len(owner) < MaxTokens /\ Cardinality(CallsOf(t)) <= MaxCalls
    /\ tab' = [tab EXCEPT ![t].busy = TRUE]
    /\ calls' = calls \cup {Call(t, "signin", access, u)}
    /\ UNCHANGED <<owner, valid, access, cache>>

(* Register.handleSubmit after the checks of the form: register, then the
   same sign-in as Login's.                                              *)
SubmitRegister(t, u) ==
    /\ tab[t].page = "register" /\ ~tab[t].busy /\ RoleOf[u] = "guest"
    /\ Len(owner) < MaxTokens /\ Cardinality(CallsOf(t)) <= MaxCalls
    /\ tab' = [tab EXCEPT ![t].busy = TRUE]
    /\ calls' = calls \cup {Call(t, "signup", access, u)}
    /\ UNCHANGED <<owner, valid, access, cache>>

(* handleGoogleSignIn leaves the program; Google comes back with a load of
   /auth/callback, whose effect posts the code.                          *)
ReturnFromGoogle(t, u) ==
    /\ tab[t].page \in {"login", "register"}
    /\ Len(owner) < MaxTokens
    /\ tab' = [tab EXCEPT ![t] = Mounted("callback", access)]
    /\ calls' = (calls \ CallsOf(t)) \cup MountCalls(t, access)
                  \cup {Call(t, "google", access, u)}
    /\ UNCHANGED <<owner, valid, access, cache>>

SignedUp(c) ==
    /\ c.kind = "signup"
    /\ calls' = (calls \ {c}) \cup {Call(c.tab, "signin", access, c.who)}
    /\ UNCHANGED <<owner, valid, access, cache, tab>>

(* loginUser: token to storage and state, then the profile. *)
SignedIn(c) ==
    LET n == Len(owner) + 1
    IN  /\ c.kind \in SignInKinds
        /\ c.kind = "google" => tab[c.tab].page = "callback"
        /\ n <= MaxTokens
        /\ owner' = Append(owner, c.who)
        /\ valid' = valid \cup {n}
        /\ access' = n
        /\ tab' = [tab EXCEPT ![c.tab] = Routed([@ EXCEPT !.token = n], owner')]
        /\ calls' = (calls \ {c}) \cup {Call(c.tab, "welcome", n, c.who)}
        /\ UNCHANGED cache

(* AuthCallback's cancelled flag: the page was left, the token is dropped. *)
GoogleIgnored(c) ==
    /\ c.kind = "google" /\ tab[c.tab].page # "callback"
    /\ calls' = calls \ {c}
    /\ UNCHANGED <<owner, valid, access, cache, tab>>

EndedSpinning(r, c, p) ==    \* Mistake for Ended: a first profile that fails keeps the spinner
    CASE c.kind = "first" /\ p = None -> r
      [] c.kind = "welcome" -> [r EXCEPT !.profile = p, !.busy = FALSE,
                                         !.page = Landing(RoleOf[c.who])]
      [] c.kind \in ProfileKinds -> [r EXCEPT !.profile = p, !.loading = FALSE]
      [] OTHER -> [r EXCEPT !.busy = FALSE]

(* What the end of a call does to its tab: p is the profile, None if the
   call failed (fetchProfile catches everything).                        *)
Ended(r, c, p) ==
    CASE c.kind = "restore" -> IF p = None THEN r ELSE [r EXCEPT !.profile = p]
      [] c.kind = "first"   -> [r EXCEPT !.profile = p, !.loading = FALSE]
      [] c.kind = "reread"  -> [r EXCEPT !.profile = p]
      [] c.kind = "welcome" -> [r EXCEPT !.profile = p, !.busy = FALSE,
                                         !.page = Landing(RoleOf[c.who])]
      [] c.kind \in {"signin", "signup"} -> [r EXCEPT !.busy = FALSE]
      [] c.kind = "google"  -> IF r.page # "callback" THEN r
                               ELSE [r EXCEPT !.busy = FALSE, !.page = "login"]
      [] OTHER -> r

(* 200: the account of the token the call carried. *)
Answered(c) ==
    /\ c.kind \in ProfileKinds \cup {"data"} /\ c.token \in valid
    /\ LET p == IF c.kind = "data" THEN None ELSE owner[c.token]
       IN  /\ tab' = [tab EXCEPT ![c.tab] = Routed(Ended(@, c, p), owner)]
           /\ cache' = IF c.kind \in ProfileKinds \ {"reread"} THEN p ELSE cache
    /\ calls' = calls \ {c}
    /\ UNCHANGED <<owner, valid, access>>

FailedSignsOut(c) ==    \* Mistake for Failed: every error is taken for a 401
    /\ tab' = [tab EXCEPT ![c.tab] = Routed(Ended(@, c, None), owner)]
    /\ calls' = calls \ {c} /\ access' = None
    /\ UNCHANGED <<owner, valid, cache>>

(* The 15 s timeout of api.js, a network error, or any error but a 401. *)
Failed(c) ==
    /\ tab' = [tab EXCEPT ![c.tab] = Routed(Ended(@, c, None), owner)]
    /\ calls' = calls \ {c}
    /\ UNCHANGED <<owner, valid, access, cache>>

(* 401: a token the server no longer takes, no token, or a sign-in it
   refuses.  The interceptor empties storage whichever token was refused,
   and reloads at /login only from some locations.                       *)
Refused(c) ==
    /\ \/ c.kind \in SignInKinds
       \/ c.kind \in ProfileKinds \cup {"data"} /\ c.token \notin valid
    /\ access' = None
    /\ IF RedirectedOn401(tab[c.tab].page)
       THEN /\ tab' = [tab EXCEPT ![c.tab] = Mounted("login", None)]
            /\ calls' = calls \ CallsOf(c.tab)
       ELSE /\ tab' = [tab EXCEPT ![c.tab] = Routed(Ended(@, c, None), owner)]
            /\ calls' = calls \ {c}
    /\ UNCHANGED <<owner, valid, cache>>

LogoutOfToken(t) ==    \* Mistake for Logout: the profile stays in the state
    /\ tab[t].token # None /\ tab[t].page \notin {"login", "register", "callback"}
    /\ access' = None /\ cache' = None
    /\ tab' = [tab EXCEPT ![t].token = None, ![t].page = "login"]
    /\ UNCHANGED <<owner, valid, calls>>
LogoutKeepingCache(t) ==    \* Mistake for Logout: the cached profile stays in storage
    /\ tab[t].token # None /\ tab[t].page \notin {"login", "register", "callback"}
    /\ access' = None
    /\ tab' = [tab EXCEPT ![t].token = None, ![t].profile = None, ![t].page = "login"]
    /\ UNCHANGED <<owner, valid, cache, calls>>

(* UserProfileMenu, shown by the bars of every page that has one. *)
Logout(t) ==
    /\ tab[t].token # None /\ tab[t].page \notin {"login", "register", "callback"}
    /\ access' = None /\ cache' = None
    /\ tab' = [tab EXCEPT ![t].token = None, ![t].profile = None, ![t].page = "login"]
    /\ UNCHANGED <<owner, valid, calls>>

(* ProfileManagement reads the profile again after it saved one. *)
Reread(t) ==
    /\ tab[t].page = "account" /\ ~tab[t].loading
    /\ Cardinality(CallsOf(t)) < MaxCalls
    /\ calls' = calls \cup {Call(t, "reread", access, None)}
    /\ UNCHANGED <<owner, valid, access, cache, tab>>

(* Any other call a page or a context of a signed-in tab makes. *)
Fetch(t) ==
    /\ tab[t].token # None /\ ~tab[t].loading
    /\ Cardinality(CallsOf(t)) < MaxCalls
    /\ calls' = calls \cup {Call(t, "data", access, None)}
    /\ UNCHANGED <<owner, valid, access, cache, tab>>

(* Half an hour passes, or the account is deactivated. *)
Expire(n) ==
    /\ n \in valid
    /\ valid' = valid \ {n}
    /\ UNCHANGED <<owner, access, cache, tab, calls>>

(* The tabs of the browser that are not in Tabs reach these only through
   localStorage, which no code watches: one signs in and caches the profile
   or fails to read it, signs out, or has a call refused.                *)
Elsewhere ==
    /\ \/ \E u \in Users : /\ Len(owner) < MaxTokens
                           /\ owner' = Append(owner, u)
                           /\ access' = Len(owner')
                           /\ valid' = valid \cup {access'}
                           /\ cache' \in {u, cache}
       \/ access' = None /\ cache' \in {None, cache} /\ UNCHANGED <<owner, valid>>
    /\ UNCHANGED <<tab, calls>>

Next ==
    \/ Elsewhere
    \/ \E t \in Tabs :
        \/ \E page \in Locations : Load(t, page) \/ Navigate(t, page)
        \/ \E u \in Users : SubmitLogin(t, u) \/ SubmitRegister(t, u) \/ ReturnFromGoogle(t, u)
        \/ Logout(t) \/ Reread(t) \/ Fetch(t)
    \/ \E c \in calls :
        SignedUp(c) \/ SignedIn(c) \/ GoogleIgnored(c) \/ Answered(c) \/ Failed(c) \/ Refused(c)
    \/ \E n \in valid : Expire(n)

(* axios ends every call within its timeout: a tab that goes on having calls
   of a kind sees one of them end.  Nothing else is promised.            *)
Ends(c) == c \in calls /\ (SignedUp(c) \/ SignedIn(c) \/ GoogleIgnored(c)
                           \/ Answered(c) \/ Failed(c) \/ Refused(c))
CallSpace == [tab : Tabs, kind : Kinds, token : 1..MaxTokens \cup {None},
              who : Users \cup {None}]
EndsOne(t, kind) == \E c \in CallsOf(t) : c.kind = kind /\ Ends(c)
Spec == Init /\ [][Next]_vars /\ \A t \in Tabs, kind \in Kinds : WF_vars(EndsOne(t, kind))

-----------------------------------------------------------------------------
TypeOK ==
    /\ owner \in Seq(Users) /\ Len(owner) <= MaxTokens
    /\ valid \subseteq Tokens
    /\ access \in Tokens \cup {None} /\ cache \in Users \cup {None}
    /\ tab \in [Tabs -> [page : Locations, token : Tokens \cup {None},
                         profile : Users \cup {None}, loading : BOOLEAN, busy : BOOLEAN]]
    /\ calls \subseteq CallSpace

(* A tab holds a profile that is not its token's account's. *)
Stray(r, issued) == r.profile # None /\ (r.token = None \/ issued[r.token] # r.profile)

(* A call that ended in this step had left with another token than its tab
   holds.                                                                *)
Overtaken(t) == \E c \in CallsOf(t) \ calls' : c.token # tab[t].token

(* A tab comes to hold a profile that is not its token's account's in three
   ways only: an answer to a call from before the token changed arrives
   (AuthContext.jsx:42 and 62 do not ask); a load takes a cached profile
   that outlived its token (AuthContext.jsx:37-39); somebody signs in over
   a session that is still open, until the profile is read.              *)
StrayProfileExplained ==
    [][\A t \in Tabs :
         Stray(tab[t], owner)' /\ ~Stray(tab[t], owner) =>
            \/ Overtaken(t)
            \/ tab'[t].profile = cache /\ tab'[t].token = access /\ access # None
            \/ tab[t].token # None /\ owner' # owner]_vars

(* These tabs lose the token in storage only by a sign-out, by a 401 to a sign-in
   that failed, or by a 401 to a call: never by a timeout or an error, and
   while the server accepts that token only by a 401 to a call that had
   left with another one (api.js:28 does not compare).                   *)
StoredTokenKept ==
    [][access # None /\ access' = None /\ <<tab, calls>>' # <<tab, calls>> =>
         \/ \E t \in Tabs : tab[t].token # None /\ tab'[t].token = None /\ calls' = calls
         \/ \E c \in calls \ calls' : \/ c.kind \in SignInKinds
                                      \/ c.token # access
                                      \/ access \notin valid]_vars

(* A profile comes to be in storage without a token only at the end of a
   call: of one whose 401 removed the token alone, or of one from before a
   sign-out, answered after it.  A sign-out itself leaves neither.        *)
CacheOutlivesToken ==
    [][cache' # None /\ access' = None /\ ~(cache # None /\ access = None)
         /\ <<tab, calls>>' # <<tab, calls>> =>
         \E c \in calls \ calls' : access # None \/ c.token # None]_vars

(* PrivateRoute's spinner ends, and so does the busy sign-in form, whatever
   the network does.                                                     *)
SpinnerEnds == \A t \in Tabs : (tab[t].loading ~> ~tab[t].loading) /\ (tab[t].busy ~> ~tab[t].busy)
=============================================================================
