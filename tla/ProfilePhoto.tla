---------------------------- MODULE ProfilePhoto ----------------------------
(***************************************************************************)
(* A user's profile: the row, the files in storage, the cached profile,    *)
(* and the page that changes them, while the same user may be at work in   *)
(* another tab or on another device, and an admin on the row.  A request   *)
(* is handled in steps (load the row, store the file, delete the old one,  *)
(* commit, read back, delete the cached profile), and may end after any of *)
(* them: an error or a dead process.  The page is the guest's, with a      *)
(* photo, or the desk's (admin and staff), without one.                    *)
(***************************************************************************)
EXTENDS Integers, Sequences, FiniteSets

CONSTANTS None,
          MaxSends,    \* bound: requests sent, but for refreshes
          MaxOut       \* bound: requests out at a time, but for refreshes

ProfilePhotoAssumption ==
    /\ MaxSends \in Nat /\ MaxOut \in Nat
    /\ None \notin Int \cup [photo : Int \cup {None}, phone : {"none", "one", "two"}]

VARIABLES
    account,         \* server: the row, [photo, phone]
    files,           \* storage: the photos there
    cachedProfile,   \* Redis: user:profile:{id}, or None
    served,          \* requests on their way, at the server, or answered
    sends,           \* how many were sent
    desk,            \* the page is AdminProfile or StaffProfile
    person,          \* profile, as shown on the page (the desk's: before typing)
    reading, saving, uploading,
    header,          \* the photo in the menu, from AuthContext
    halfway,         \* history: photos deleted by requests that then ended
    why              \* history: what has gone wrong or crossed so far

serverVars == <<account, files, cachedProfile, halfway>>
pageVars == <<desk, person, reading, saving, uploading, header>>
profileVars == <<serverVars, served, sends, pageVars, why>>

(* Photos: 1 is the first file, later ones are named for their upload
   (uuid4); Google's picture lies elsewhere.  Phone numbers: "one" at first,
   "none" for one that was cleared or is not in the request.                *)
Google == 0
Typed == {"none", "two"}
InStorage(photo) == photo # None /\ photo # Google
Blank == [photo |-> None, phone |-> "none"]

(* The handlers, as the order of their steps.  A refresh for the photo is
   awaited, one after a save is not.                                     *)
Gets == {"load", "refresh", "photoRefresh"}
Steps(kind) ==
    CASE kind \in Gets     -> <<"authenticate", "look", "fill">>
      [] kind = "save"   -> <<"authenticate", "commit", "readBack", "purge">>
      [] kind = "remove" -> <<"authenticate", "delete", "commit", "readBack", "purge">>
      [] kind = "upload" -> <<"authenticate", "put", "delete", "commit", "readBack", "purge">>
      [] kind = "google" -> <<"authenticate", "commit", "purge">>

(* loaded: the row as the session read it; got: the answer; kept: the old
   file could not be deleted (history).                                  *)
Request(kind, here, phone) ==
    [no |-> sends + 2, kind |-> kind, here |-> here, phone |-> phone,
     todo |-> Steps(kind), loaded |-> Blank, got |-> None, kept |-> FALSE]

Here == {r \in served : r.here}
Due(r, step) == \E i \in 1..Len(r.todo) : r.todo[i] = step
Ready(r, step) == r.todo # <<>> /\ Head(r.todo) = step
MaySend == sends < MaxSends /\ Cardinality(served) < MaxOut
Sent(new) == served' = served \cup {new} /\ sends' = sends + 1

(* Requests of the page that cross each other. *)
Crossing == IF Here # {} THEN {"crossed"} ELSE {}

ProfileInit ==
    /\ account \in [photo : {None, 1}, phone : {"one"}]
    /\ files = IF account.photo = 1 THEN {1} ELSE {}
    /\ cachedProfile = None
    /\ desk \in BOOLEAN
    /\ person = IF desk THEN Blank ELSE account    \* seeded from AuthContext
    /\ reading = TRUE /\ saving = FALSE /\ uploading = FALSE
    /\ header = account.photo
    /\ sends = 1 /\ served = {[Request("load", TRUE, "none") EXCEPT !.no = 2]}
    /\ halfway = {} /\ why = {}

-----------------------------------------------------------------------------
(* The page. *)

(* The form, opened, typed in and cancelled, is left out but for the number
   it is submitted with.  The desk's is not there until the profile has come. *)
Save(phone) ==
    /\ ~saving /\ MaySend /\ (desk => ~reading)
    /\ Sent(Request("save", TRUE, phone))
    /\ saving' = TRUE /\ why' = why \cup Crossing
    /\ UNCHANGED <<serverVars, desk, person, reading, uploading, header>>
Upload ==
    /\ ~desk /\ ~uploading /\ MaySend
    /\ Sent(Request("upload", TRUE, "none"))
    /\ uploading' = TRUE /\ why' = why \cup Crossing
    /\ UNCHANGED <<serverVars, desk, person, reading, saving, header>>
(* The button is there whenever a photo is, also while one is uploaded. *)
Remove ==
    /\ ~desk /\ person.photo # None /\ MaySend
    /\ Sent(Request("remove", TRUE, "none"))
    /\ uploading' = TRUE /\ why' = why \cup Crossing
    /\ UNCHANGED <<serverVars, desk, person, reading, saving, header>>

Answered(r) == r.here /\ r.todo = <<>>
Finish(r, then) ==    \* then: the request the callback sends, if any
    /\ served' = (served \ {r}) \cup then
    /\ sends' = IF then = {} THEN sends ELSE sends + 1
RefreshProfile(kind) == {Request(kind, TRUE, "none")}

LoadArrives(r) ==
    /\ Answered(r) /\ r.kind = "load"
    /\ reading' = FALSE
    /\ \/ r.got = None /\ UNCHANGED person
       \/ r.got # None /\ person' = r.got
    /\ Finish(r, {})
    /\ UNCHANGED <<serverVars, desk, saving, uploading, header, why>>
SaveArrives(r) ==
    /\ Answered(r) /\ r.kind = "save"
    /\ saving' = FALSE
    /\ \/ /\ r.got = None
          /\ Finish(r, {})
          /\ UNCHANGED <<person, why>>
       \/ /\ r.got # None
          /\ person' = r.got
          /\ Finish(r, IF desk THEN {} ELSE RefreshProfile("refresh"))
          /\ why' = why \cup IF Here # {r} THEN {"crossed"} ELSE {}
    /\ UNCHANGED <<serverVars, desk, reading, uploading, header>>
PhotoArrives(r) ==
    /\ Answered(r) /\ r.kind \in {"upload", "remove"}
    /\ \/ /\ r.got = None
          /\ uploading' = FALSE
          /\ Finish(r, {})
          /\ UNCHANGED <<person, why>>
       \/ /\ r.got # None
          /\ person' = [person EXCEPT !.photo = IF r.kind = "upload" THEN r.got.photo ELSE None]
          /\ Finish(r, RefreshProfile("photoRefresh"))
          /\ why' = why \cup IF Here # {r} THEN {"crossed"} ELSE {}
          /\ UNCHANGED uploading
    /\ UNCHANGED <<serverVars, desk, reading, saving, header>>
(* fetchProfile answers null for any error. *)
RefreshArrives(r) ==
    /\ Answered(r) /\ r.kind \in {"refresh", "photoRefresh"}
    /\ header' = IF r.got = None THEN None ELSE r.got.photo
    /\ why' = why \cup IF r.got = None THEN {"noAnswer"} ELSE {}
    /\ uploading' = (uploading /\ r.kind = "refresh")
    /\ Finish(r, {})
    /\ UNCHANGED <<serverVars, desk, person, reading, saving>>

-----------------------------------------------------------------------------
(* The same user elsewhere; answers there are of no interest here. *)
Elsewhere(kind, phone) ==
    /\ MaySend
    /\ Sent(Request(kind, FALSE, phone))
    /\ UNCHANGED <<serverVars, pageVars, why>>

(* PUT /admin/users/{id}: a number is set (none is not in the request), and
   user:profile:{id} stays.  Load and commit are one step: only that column
   is written, and an equal one is not.                                   *)
AdminEdits(phone) ==
    /\ sends < MaxSends /\ sends' = sends + 1
    /\ phone # account.phone /\ account' = [account EXCEPT !.phone = phone]
    /\ why' = why \cup {"elsewhere", "edited"}
    /\ UNCHANGED <<files, cachedProfile, halfway, served, pageVars>>

(* The server.  One step of a request. *)
Handle(r, new) ==
    served' = (served \ {r}) \cup IF new.todo = <<>> /\ ~r.here THEN {} ELSE {new}
After(r) == [r EXCEPT !.todo = Tail(@)]
Authenticate(r) ==
    /\ Ready(r, "authenticate")
    /\ Handle(r, [After(r) EXCEPT !.loaded = account])
    /\ UNCHANGED <<serverVars, sends, pageVars, why>>

(* get_profile: the cached answer, or the row as it was loaded.  A failure
   of Redis is a miss, and swallowed by the other two calls.             *)
Look(r) ==
    /\ Ready(r, "look")
    /\ \/ /\ cachedProfile # None
          /\ Handle(r, [r EXCEPT !.got = cachedProfile, !.todo = <<>>])
       \/ Handle(r, [After(r) EXCEPT !.got = r.loaded])
    /\ UNCHANGED <<serverVars, sends, pageVars, why>>
Fill(r) ==
    /\ Ready(r, "fill")
    /\ cachedProfile' \in {r.got, cachedProfile}
    /\ Handle(r, After(r))
    /\ why' = why \cup IF cachedProfile' = r.got /\ r.got # account THEN {"lateFill"} ELSE {}
    /\ UNCHANGED <<account, files, halfway, sends, pageVars>>
Expire ==
    /\ cachedProfile # None /\ cachedProfile' = None
    /\ UNCHANGED <<account, files, halfway, served, sends, pageVars, why>>

Put(r) ==
    /\ Ready(r, "put")
    /\ files' = files \cup {r.no}
    /\ Handle(r, After(r))
    /\ UNCHANGED <<account, cachedProfile, halfway, sends, pageVars, why>>
(* delete_avatar swallows every failure. *)
Delete(r) ==
    /\ Ready(r, "delete")
    /\ \/ /\ files' = files \ {r.loaded.photo}
          /\ Handle(r, After(r))
       \/ /\ InStorage(r.loaded.photo) /\ UNCHANGED files
          /\ Handle(r, [After(r) EXCEPT !.kept = TRUE])
    /\ UNCHANGED <<account, cachedProfile, halfway, sends, pageVars, why>>

(* exclude_none: a number that was cleared is sent as null, and left as it
   is.  Google's picture replaces none, or an older one of Google's.      *)
Wanted(r) ==
    CASE r.kind = "upload" -> [r.loaded EXCEPT !.photo = r.no]
      [] r.kind = "remove" -> [r.loaded EXCEPT !.photo = None]
      [] r.kind = "google" -> [r.loaded EXCEPT !.photo = IF InStorage(@) THEN @ ELSE Google]
      [] r.kind = "save"   -> [r.loaded EXCEPT !.phone = IF r.phone = "none" THEN @ ELSE r.phone]
(* Mistake for Changed: every column is written. *)
ChangedWholeRow(r) == Wanted(r)
(* The UPDATE names the columns that differ from what was loaded. *)
Changed(r) ==
    [column \in {"photo", "phone"} |->
        IF Wanted(r)[column] # r.loaded[column] THEN Wanted(r)[column] ELSE account[column]]
Commit(r) ==
    /\ Ready(r, "commit")
    /\ account' = Changed(r)
    /\ Handle(r, IF r.kind = "google" /\ Wanted(r) = r.loaded THEN [r EXCEPT !.todo = <<>>]
                 ELSE After(r))
    /\ why' = why \cup IF ~r.here /\ account' # account THEN {"elsewhere"} ELSE {}
    /\ UNCHANGED <<files, cachedProfile, halfway, sends, pageVars>>
ReadBack(r) ==
    /\ Ready(r, "readBack")
    /\ Handle(r, [After(r) EXCEPT !.got = account])
    /\ UNCHANGED <<serverVars, sends, pageVars, why>>
Purge(r) ==
    /\ Ready(r, "purge")
    /\ \/ cachedProfile' = None /\ UNCHANGED why
       \/ UNCHANGED cachedProfile /\ why' = why \cup {"unpurged"}
    /\ Handle(r, After(r))
    /\ UNCHANGED <<account, files, halfway, sends, pageVars>>

(* An error, a dead process or a lost answer: the page hears of a failure.
   (A request that never arrives is one that fails with nothing done.)    *)
Committed(r) == r.kind \notin Gets /\ ~Due(r, "commit")
Orphaning(r) ==    \* between the deletion and the commit
    r.kind \in {"upload", "remove"} /\ Due(r, "commit") /\ ~Due(r, "delete")
Fail(r) ==
    /\ ~Due(r, "authenticate") /\ (r.todo # <<>> \/ r.got # None)
    /\ Handle(r, [r EXCEPT !.todo = <<>>, !.got = None])
    /\ halfway' = halfway \cup IF Orphaning(r) THEN {r.loaded.photo} ELSE {}
    /\ why' = why \cup {e \in {"noAnswer", "unpurged"} :
                      Committed(r) /\ (e = "unpurged" => Due(r, "purge"))}
    /\ UNCHANGED <<account, files, cachedProfile, sends, pageVars>>

ProfileNext ==
    \/ \E phone \in Typed : Save(phone)
    \/ Upload \/ Remove \/ Expire
    \/ \E kind \in {"load", "upload", "remove", "google"} : Elsewhere(kind, "none")
    \/ Elsewhere("save", "two")
    \/ \E phone \in {"one", "two"} : AdminEdits(phone)
    \/ \E r \in served :
          \/ LoadArrives(r) \/ SaveArrives(r) \/ PhotoArrives(r) \/ RefreshArrives(r)
          \/ Authenticate(r) \/ Look(r) \/ Fill(r) \/ Put(r) \/ Delete(r) \/ Commit(r)
          \/ ReadBack(r) \/ Purge(r) \/ Fail(r)

-----------------------------------------------------------------------------
(* Photos the row names and storage lacks, and files nobody will name. *)
Missing == InStorage(account.photo) /\ account.photo \notin files
Strays == {f \in files : f # account.photo /\ \A r \in served :
                ~(r.kind = "upload" /\ r.no = f /\ Due(r, "commit"))}
Moved == {r \in served : r \notin served'}    \* the request of this step
Died == {r \in Moved : r.todo # <<>> /\ \A q \in served' : q.no = r.no => q.todo = <<>>}
Overtaken(r) == r.loaded.photo # account.photo

(* The row names a file that is gone only while a request stands between
   deleting it and committing the row, or after one has ended there: no
   other order of uploads, removals, saves and sign-ins brings it about
   (profile.py:120-124).  A file is left over only by an upload that ended
   before its commit, a deletion that failed, or a commit overtaken by
   another's.  The cached profile differs from the row only until the next
   deletion of it, or after one that did not happen, or when it was read
   before a commit and written after; or in its number alone, once an admin
   has edited the row (admin/users.py:97-110 deletes nothing).  Once everything has been answered,
   the page and the menu show the photo of the row, unless requests crossed,
   somebody worked elsewhere, an answer was lost, or the cache was as above.
   And a saved number is the one on the page, unless it was cleared (the
   server ignores that) or changed elsewhere.                             *)
ProfileExplained ==
    [][/\ Missing' => \/ account'.photo \in halfway'
                      \/ \E r \in served' : Orphaning(r) /\ r.loaded.photo = account'.photo
       /\ Strays' \ Strays # {} =>
            \E r \in Moved : \/ r \in Died /\ r.kind = "upload" /\ Due(r, "commit")
                             \/ Ready(r, "commit") /\ (Overtaken(r) \/ r.kept)
       /\ cachedProfile' # None /\ cachedProfile' # account' =>
            \/ why' \cap {"lateFill", "unpurged"} # {}
            \/ \E r \in served' : Committed(r) /\ Due(r, "purge")
            \/ "edited" \in why' /\ cachedProfile'.photo = account'.photo
       /\ ~desk' /\ served' = {} /\ why' \cap {"crossed", "elsewhere", "noAnswer"} = {} =>
            /\ person'.photo = account'.photo
            /\ header' # account'.photo => why' \cap {"lateFill", "unpurged"} # {}
       /\ saving /\ ~saving' =>
            \A r \in Moved : r.got = None \/ person'.phone = r.phone
                \/ r.phone = "none" \/ "elsewhere" \in why]_profileVars
=============================================================================
