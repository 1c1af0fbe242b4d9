---------------------------- MODULE ActivityFeed ----------------------------
(***************************************************************************)
(* pages/admin/system/ActivityLogs.jsx: pages of the activity log under a  *)
(* filter, and a poll every 30 s that does not touch the list when it      *)
(* finds newer entries but keeps them behind a button, "n new".  What a    *)
(* poll calls newer is what has a higher number than latestIdRef, which    *)
(* every answer moves, whatever page and filter it was asked under.         *)
(* Bookmarks live in localStorage.                                         *)
(***************************************************************************)
EXTENDS Naturals, Sequences, FiniteSets, SequencesExt

CONSTANTS None,
          MaxLog,     \* bound: entries the server writes
          Logins,     \* the entries a filter on the action keeps
          PageSize,   \* entries of a page (50 in the code)
          MaxFeedClicks, MaxPolls   \* bounds: what the user does, polls

ActivityFeedAssumption ==
    /\ MaxLog \in Nat /\ Logins \subseteq 1..MaxLog
    /\ PageSize \in Nat \ {0} /\ MaxFeedClicks \in Nat /\ MaxPolls \in Nat

VARIABLES
    written,            \* server: entries written, numbered 1..written
    filters, pageNo,    \* the filter, and the page under it
    logs, total,        \* the list, newest first; the server's count
    loadingLogs, live,
    pending,            \* pendingLogs; newCount is always its length
    latest,             \* latestIdRef.current
    feedTab,               \* the tab
    stats,              \* the analytics: how many entries they count
    bookmarks,
    queries,            \* calls in flight
    asked, feedClicks, polls

feedVars == <<written, filters, pageNo, logs, total, loadingLogs, live, pending, latest, feedTab,
              stats, bookmarks, queries, asked, feedClicks, polls>>

Filters == {"all", "logins"}
Entries(f) == {n \in 1..written : f = "all" \/ n \in Logins}
(* ORDER BY created_at DESC. *)
Newest(S) ==
    CHOOSE s \in [1..Cardinality(S) -> S] :
        ToSet(s) = S /\ \A i, j \in 1..Cardinality(S) : i < j => s[i] > s[j]
Shown == ToSet(logs)

(* load(): the query of the filter and page of the render. *)
Query(kind, f, p) == [no |-> asked + 1, kind |-> kind, filter |-> f, page |-> p,
                      done |-> FALSE, items |-> <<>>, total |-> 0]
Ask(kind, f, p) == queries' = queries \cup {Query(kind, f, p)} /\ asked' = asked + 1

FeedInit ==
    /\ written = 2 /\ filters = "all" /\ pageNo = 0 /\ logs = <<>> /\ total = 0
    /\ loadingLogs = FALSE /\ live = FALSE /\ pending = <<>> /\ latest = 0
    /\ feedTab = "logs" /\ stats = None /\ bookmarks = {}
    /\ queries = {} /\ asked = 0 /\ feedClicks = 0 /\ polls = 0
FeedMount ==
    /\ asked = 0
    /\ loadingLogs' = TRUE
    /\ Ask("load", filters, pageNo)
    /\ UNCHANGED <<written, filters, pageNo, logs, total, live, pending, latest, feedTab, stats,
                   bookmarks, feedClicks, polls>>

-----------------------------------------------------------------------------
Click == asked > 0 /\ feedClicks < MaxFeedClicks /\ feedClicks' = feedClicks + 1

(* setFilter, or "Clear": a new filters object and page 0, so that the effect
   reads the list again.                                                 *)
SetFilter(f) ==
    /\ feedTab = "logs" /\ Click
    /\ filters' = f /\ pageNo' = 0 /\ loadingLogs' = TRUE
    /\ Ask("load", f, 0)
    /\ UNCHANGED <<written, logs, total, live, pending, latest, feedTab, stats, bookmarks, polls>>

Pages == (total + PageSize - 1) \div PageSize
SetPage(p) ==
    /\ feedTab = "logs" /\ p # pageNo /\ p < Pages /\ Click
    /\ pageNo' = p /\ loadingLogs' = TRUE
    /\ Ask("load", filters, p)
    /\ UNCHANGED <<written, filters, logs, total, live, pending, latest, feedTab, stats,
                   bookmarks, polls>>

Refresh ==
    /\ Click
    /\ loadingLogs' = TRUE
    /\ Ask("load", filters, pageNo)
    /\ UNCHANGED <<written, filters, pageNo, logs, total, live, pending, latest, feedTab, stats,
                   bookmarks, polls>>

ToggleLive ==
    /\ Click
    /\ live' = ~live
    /\ UNCHANGED <<written, filters, pageNo, logs, total, loadingLogs, pending, latest, feedTab, stats,
                   bookmarks, queries, asked, polls>>

ApplyPending ==
    /\ pending # <<>> /\ Click
    /\ logs' = pending \o logs /\ pending' = <<>>
    /\ UNCHANGED <<written, filters, pageNo, total, loadingLogs, live, latest, feedTab, stats,
                   bookmarks, queries, asked, polls>>

(* The analytics are read once; the tab asks again only if that failed. *)
SetTab(v) ==
    /\ v # feedTab /\ Click
    /\ feedTab' = v
    /\ IF v = "analytics" /\ stats = None THEN Ask("stats", "all", 0)
       ELSE UNCHANGED <<queries, asked>>
    /\ UNCHANGED <<written, filters, pageNo, logs, total, loadingLogs, live, pending, latest, stats,
                   bookmarks, polls>>

(* In an opened row, or on the tab of the bookmarks, which lists those of
   the page that is loaded.                                              *)
ToggleBookmark(n) ==
    /\ n \in Shown /\ Click
    /\ IF feedTab = "bookmarks" THEN n \in bookmarks ELSE feedTab = "logs" /\ ~loadingLogs
    /\ bookmarks' = IF n \in bookmarks THEN bookmarks \ {n} ELSE bookmarks \cup {n}
    /\ UNCHANGED <<written, filters, pageNo, logs, total, loadingLogs, live, pending, latest, feedTab,
                   stats, queries, asked, polls>>

-----------------------------------------------------------------------------
Poll ==
    /\ live /\ polls < MaxPolls
    /\ polls' = polls + 1
    /\ Ask("poll", filters, pageNo)
    /\ UNCHANGED <<written, filters, pageNo, logs, total, loadingLogs, live, pending, latest, feedTab,
                   stats, bookmarks, feedClicks>>

(* Anybody does anything that is logged. *)
Write ==
    /\ asked > 0 /\ written < MaxLog
    /\ written' = written + 1
    /\ UNCHANGED <<filters, pageNo, logs, total, loadingLogs, live, pending, latest, feedTab, stats,
                   bookmarks, queries, asked, feedClicks, polls>>

PageOf(s, p) == SubSeq(s, p * PageSize + 1, IF (p + 1) * PageSize < Len(s) THEN (p + 1) * PageSize ELSE Len(s))
Serve(q) ==
    /\ ~q.done
    /\ queries' = (queries \ {q}) \cup
         {[q EXCEPT !.done = TRUE, !.total = Cardinality(Entries(q.filter)),
                    !.items = PageOf(Newest(Entries(q.filter)), q.page)]}
    /\ UNCHANGED <<written, filters, pageNo, logs, total, loadingLogs, live, pending, latest, feedTab,
                   stats, bookmarks, asked, feedClicks, polls>>

NewerOrLatest(items) == Newest({n \in ToSet(items) : n >= latest})    \* Mistake for Newer

(* The answer to load(silent).  Its items come newest first, so that a filter
   keeps them so.                                                         *)
Newer(items) == Newest({n \in ToSet(items) : n > latest})
KeepsNewer(q) == q.kind = "poll" /\ q.items # <<>> /\ latest > 0 /\ q.items[1] > latest
Arrive(q) ==
    /\ q.done /\ q.kind \in {"load", "poll"}
    /\ queries' = queries \ {q}
    /\ IF KeepsNewer(q)
       THEN pending' = Newer(q.items) /\ UNCHANGED <<logs, total>>
       ELSE logs' = q.items /\ total' = q.total /\ UNCHANGED pending
    /\ latest' = IF q.items # <<>> THEN q.items[1] ELSE latest
    /\ loadingLogs' = (loadingLogs /\ q.kind = "poll")
    /\ UNCHANGED <<written, filters, pageNo, live, feedTab, stats, bookmarks, asked, feedClicks, polls>>
StatsArrive(q) ==
    /\ q.done /\ q.kind = "stats"
    /\ queries' = queries \ {q} /\ stats' = q.total
    /\ UNCHANGED <<written, filters, pageNo, logs, total, loadingLogs, live, pending, latest, feedTab,
                   bookmarks, asked, feedClicks, polls>>
Fail(q) ==
    /\ queries' = queries \ {q}
    /\ loadingLogs' = (loadingLogs /\ q.kind # "load")
    /\ UNCHANGED <<written, filters, pageNo, logs, total, live, pending, latest, feedTab, stats,
                   bookmarks, asked, feedClicks, polls>>

FeedNext ==
    \/ FeedMount \/ Refresh \/ ToggleLive \/ ApplyPending \/ Poll \/ Write
    \/ \E f \in Filters : SetFilter(f)
    \/ \E p \in 0..MaxLog : SetPage(p)
    \/ \E v \in {"logs", "analytics", "bookmarks"} : SetTab(v)
    \/ \E n \in Shown : ToggleBookmark(n)
    \/ \E q \in queries : Serve(q) \/ Arrive(q) \/ StatsArrive(q) \/ Fail(q)

-----------------------------------------------------------------------------
(* An entry listed twice, or listed and behind the button as well; an entry
   the filter does not keep; a gap: an entry of the filter between the
   oldest listed and the newest known that is neither listed nor behind
   the button.                                                           *)
Twice == (\E i, j \in 1..Len(logs) : i < j /\ logs[i] = logs[j]) \/ Shown \cap ToSet(pending) # {}
Foreign == ~loadingLogs /\ \E n \in Shown : n \notin Entries(filters)
Gap ==
    /\ ~loadingLogs /\ pageNo = 0 /\ logs # <<>>
    /\ \E n \in Entries(filters) : /\ n <= latest /\ n > logs[Len(logs)]
                                  /\ n \notin Shown \cup ToSet(pending)

Ended == {q \in queries : ~\E r \in queries' : r.no = q.no}
Strange(q) == q.filter # filters \/ q.page # pageNo
LoadFailed == loadingLogs /\ ~loadingLogs' /\ logs' = logs

(* What the feed shows goes wrong only so.  An entry doubles when the list is
   read again while newer entries wait behind the button, which stay there
   (ActivityLogs.jsx:391-397), or when a poll compares with a latestIdRef
   that a page of older entries has set back (397).  Entries of another
   filters show when an answer to an earlier filter or page arrives, a load
   fails, or the button adds what was found under an earlier filter.  A
   gap opens when an answer to an earlier filter or page arrives, a load
   fails, or a poll puts newer entries in the place of those that were
   waiting (389), or finds a whole page of them and cannot tell how many
   more there are, or the button fills a list that was left empty.      *)
FeedExplained ==
    [][/\ Twice' /\ ~Twice =>
            \E q \in Ended : \/ pending # <<>> /\ ~KeepsNewer(q)
                             \/ KeepsNewer(q) /\ \E n \in Shown : n > latest
       /\ Foreign' /\ ~Foreign =>
            \/ LoadFailed \/ \E q \in Ended : Strange(q)
            \/ pending # <<>> /\ pending' = <<>>
       /\ Gap' /\ ~Gap =>
            \/ LoadFailed \/ (logs = <<>> /\ pending # <<>> /\ pending' = <<>>)
            \/ \E q \in Ended :
                 \/ Strange(q)
                 \/ KeepsNewer(q) /\ (pending # <<>> \/ \A n \in ToSet(q.items) : n > latest)]_feedVars
=============================================================================
