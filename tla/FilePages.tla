------------------------------ MODULE FilePages -----------------------------
(***************************************************************************)
(* The files page: a list in pages, its cards, uploads and deletions, and  *)
(* the page of one file. What is shown comes from a cache of queries, one  *)
(* for each page of the list and each file. An upload or a deletion that   *)
(* is answered invalidates them all: the query on the screen is asked for  *)
(* again, and a request of it that is under way is cancelled, since it may *)
(* have been read before the change.                                       *)
(*                                                                         *)
(* The server reads the rows of a page and their count by two queries, and *)
(* pages by offset, newest first. Files are numbered in the order of their *)
(* creation. The search text is one more part of a query's key, and is     *)
(* left out. How a reserved upload becomes ready is FileStore's subject.   *)
(***************************************************************************)
EXTENDS Naturals, Sequences, FiniteSets

CONSTANTS
  MaxFiles,    \* bound: files ever created
  Made,        \* files that are there at the start
  Limit,       \* rows of a page
  None,        \* null, undefined
  MaxDeletes,  \* bound: clicks on Delete
  MaxUpsets,   \* bound: requests that fail and changes from elsewhere
  MaxLooks     \* bound: how often the person changes the page or the window

ASSUME PagesAssumption ==
  /\ MaxFiles \in Nat \ {0} /\ Limit \in Nat \ {0}
  /\ MaxDeletes \in Nat /\ MaxUpsets \in Nat /\ MaxLooks \in Nat /\ Made \in 0..MaxFiles

VARIABLES
  file,    \* the status of each file's row
  made,    \* files created so far
  up,      \* the upload of each file
  del,     \* deletions begun in this tab
  cache,   \* the query cache
  fetch,   \* the request of each query
  at,      \* the query on the screen
  card,    \* the mounted cards
  upsets,  \* failures and changes from elsewhere so far
  looks,   \* changes of the page and the window so far
  apart    \* history: the rows have changed and the tab was not told

vars == <<file, made, up, del, cache, fetch, at, card, upsets, looks, apart>>

Files == 1..MaxFiles
Clicks == 1..MaxDeletes

\* Keys of the list's queries, and the pages of files.
Keys    == {<<"page", n>> : n \in Files}
Details == {<<"file", f>> : f \in Files}

\* rows and total of an answer; bad is isError. History: stale says that the answer
\* was read, in part at least, before a change that was answered before it.
Cached == [rows : {None} \cup SUBSET Files, total : 0..MaxFiles, bad : BOOLEAN, stale : BOOLEAN]

\* rows and total are None until the server has read them. History: old is to become
\* the stale of the answer.
Fetch ==
  [on : BOOLEAN, rows : {None} \cup SUBSET Files, total : {None} \cup (0..MaxFiles), old : BOOLEAN]

Idle  == [on |-> FALSE, rows |-> None, total |-> None, old |-> FALSE]
Asked == [Idle EXCEPT !.on = TRUE]

\* by: page if the file's page asked and has not been left.
Delete ==
  [file : Files \cup {None}, by : {"card", "page"},
   at : {"none", "timer", "sent", "found", "ok", "refused", "over"}]

Init ==
  /\ made = Made
  /\ file = [f \in Files |-> IF f <= made THEN "ready" ELSE "none"]
  /\ up = [f \in Files |-> "none"]
  /\ del = [d \in Clicks |-> [file |-> None, by |-> "card", at |-> "none"]]
  /\ cache = [k \in Keys |-> [rows |-> None, total |-> 0, bad |-> FALSE, stale |-> FALSE]]
  /\ at = <<"page", 1>>
  /\ fetch = [k \in Keys |-> IF k = at THEN Asked ELSE Idle]
  /\ card = [f \in Files |-> "off"]
  /\ upsets = 0
  /\ looks = 0
  /\ apart = FALSE

Upset == upsets < MaxUpsets /\ upsets' = upsets + 1
Look  == looks < MaxLooks /\ looks' = looks + 1

-----------------------------------------------------------------------------
(***************************************************************************)
(* The server.                                                             *)
(***************************************************************************)
\* The rows that lists are made of, newest first: all but the deleted ones.
Present == {f \in Files : file[f] \notin {"none", "deleted"}}

\* offset and limit. The rows are a set: their order is that of the files' numbers.
PageRows(n) ==
  {f \in Present :
     Cardinality({g \in Present : g > f}) \in ((n - 1) * Limit)..(n * Limit - 1)}

\* GET /files reads the rows ...
ReadRows(k) ==
  /\ fetch[k].on /\ fetch[k].rows = None
  /\ fetch' = [fetch EXCEPT ![k].rows = PageRows(k[2])]
  /\ UNCHANGED <<file, made, up, del, cache, at, card, upsets, looks, apart>>

\* ... and counts them, in either order.
ReadTotal(k) ==
  /\ fetch[k].on /\ fetch[k].total = None
  /\ fetch' = [fetch EXCEPT ![k].total = Cardinality(Present)]
  /\ UNCHANGED <<file, made, up, del, cache, at, card, upsets, looks, apart>>

\* POST /files/upload-url of an upload: the row is inserted.
Reserve(f) ==
  /\ up[f] = "asked" /\ made < MaxFiles
  /\ f = made + 1
  /\ made' = f
  /\ file' = [file EXCEPT ![f] = "pending"]
  /\ up' = [up EXCEPT ![f] = "reserved"]
  /\ UNCHANGED <<del, cache, fetch, at, card, upsets, looks, apart>>

\* The bytes are stored, and confirm-upload makes the row ready; 409 if it is no
\* longer pending.
Confirm(f) ==
  /\ up[f] = "reserved"
  /\ up' = [up EXCEPT ![f] = IF file[f] = "pending" THEN "ready" ELSE "refused"]
  /\ file' = [file EXCEPT ![f] = IF @ = "pending" THEN "ready" ELSE @]
  /\ UNCHANGED <<made, del, cache, fetch, at, card, upsets, looks, apart>>

\* DELETE /files/:id reads the row: 409 if it is deleted already ...
FindRow(d) ==
  /\ del[d].at = "sent"
  /\ del' = [del EXCEPT ![d].at = IF del[d].file \in Present THEN "found" ELSE "refused"]
  /\ UNCHANGED <<file, made, up, cache, fetch, at, card, upsets, looks, apart>>

\* ... and deletes it, whatever has become of it.
RemoveRow(d) ==
  /\ del[d].at = "found"
  /\ file' = [file EXCEPT ![del[d].file] = "deleted"]
  /\ del' = [del EXCEPT ![d].at = "ok"]
  /\ UNCHANGED <<made, up, cache, fetch, at, card, upsets, looks, apart>>

\* A job's output is inserted, or another tab deletes a file.
Elsewhere ==
  /\ Upset
  /\ \/ /\ made < MaxFiles /\ up[made + 1] = "none"
        /\ made' = made + 1
        /\ file' = [file EXCEPT ![made + 1] = "ready"]
     \/ \E f \in Present : file' = [file EXCEPT ![f] = "deleted"] /\ UNCHANGED made
  /\ apart' = TRUE
  /\ UNCHANGED <<up, del, cache, fetch, at, card, looks>>

-----------------------------------------------------------------------------
(***************************************************************************)
(* The query cache.                                                        *)
(***************************************************************************)
\* A query comes on the screen, or the window gets the focus: a request of it that is
\* under way is used.
Ask(k) == IF k \notin Keys \/ fetch[k].on THEN fetch ELSE [fetch EXCEPT ![k] = Asked]

\* Variant with a bug: the request under way is used here too.
InvalidateKeep(k) ==
  IF k \notin Keys \/ fetch[k].on THEN fetch ELSE [fetch EXCEPT ![k] = Asked]

\* invalidateQueries(['files']), with k on the screen: it is asked for anew, and its
\* request under way is cancelled unless there is nothing to show in the meantime.
\* Requests of other queries go on.
Invalidate(k) ==
  [l \in Keys |->
     IF l = k /\ (cache[k].rows # None \/ ~fetch[k].on) THEN Asked
     ELSE [fetch[l] EXCEPT !.old = @ \/ fetch[l].rows # None \/ fetch[l].total # None]]

\* The cards of a list's rows: those that stay keep their state.
Cards(k, rows) ==
  [f \in Files |->
     IF k \notin Keys \/ rows = None THEN "off"
     ELSE IF f \notin rows THEN "off"
     ELSE IF card[f] = "off" THEN "shown" ELSE card[f]]

\* The answer of a page; its cards are rendered if it is on the screen.
Answer(k) ==
  /\ fetch[k].on /\ fetch[k].rows # None /\ fetch[k].total # None
  /\ cache' = [cache EXCEPT ![k] = [rows |-> fetch[k].rows, total |-> fetch[k].total,
                                    bad |-> FALSE, stale |-> fetch[k].old]]
  /\ card' = IF at = k THEN Cards(k, fetch[k].rows) ELSE card
  /\ fetch' = [fetch EXCEPT ![k] = Idle]
  /\ UNCHANGED <<file, made, up, del, at, upsets, looks, apart>>

\* The request and its retries fail: isError, and the cards of before remain.
FetchFails(k) ==
  /\ fetch[k].on
  /\ Upset
  /\ cache' = [cache EXCEPT ![k].bad = TRUE]
  /\ fetch' = [fetch EXCEPT ![k] = Idle]
  /\ UNCHANGED <<file, made, up, del, at, card, looks, apart>>

-----------------------------------------------------------------------------
(***************************************************************************)
(* The pages.                                                              *)
(***************************************************************************)
\* A deletion begun on a file's page is no longer that page's when it is left.
Abandoned == [d \in Clicks |-> [del[d] EXCEPT !.by = "card"]]

\* Another query comes on the screen. The list starts at its first page; a card of
\* both pages of a list stays mounted, if the other page is shown at once.
Show(k) ==
  /\ k # at
  /\ at' = k
  /\ fetch' = Ask(k)
  /\ card' = Cards(k, IF k \in Keys THEN cache[k].rows ELSE None)
  /\ del' = Abandoned
  /\ Look
  /\ UNCHANGED <<file, made, up, cache, upsets, apart>>

Open == Show(<<"page", 1>>) /\ at \notin Keys
Leave == Show(None)
OpenFile(f) == card[f] = "shown" /\ Show(<<"file", f>>)

TotalPages(k) == (cache[k].total + Limit - 1) \div Limit

\* Previous and Next are there if the list has pages.
Turn(n) ==
  /\ at \in Keys /\ cache[at].rows # None /\ TotalPages(at) > 1
  /\ Show(<<"page", n>>)

\* Variant with a bug: the button is not disabled on the first page.
PreviousAlways == at \in Keys /\ Turn(at[2] - 1)

Previous == at \in Keys /\ at[2] > 1 /\ Turn(at[2] - 1)
NextPage == at \in Keys /\ at[2] < TotalPages(at) /\ Turn(at[2] + 1)

Focus ==
  /\ at \in Keys /\ ~fetch[at].on
  /\ Look
  /\ fetch' = Ask(at)
  /\ UNCHANGED <<file, made, up, del, cache, at, card, upsets, apart>>

\* A file is dropped on the zone of the files page. Uploads are reserved in the order
\* of their requests here.
Drop(f) ==
  /\ at \in Keys
  /\ f = made + 1 /\ up[f] = "none"
  /\ up' = [up EXCEPT ![f] = "asked"]
  /\ UNCHANGED <<file, made, del, cache, fetch, at, card, upsets, looks, apart>>

\* useUploadFile's onSuccess, on whatever page; a refusal changes nothing.
Uploaded(f) ==
  /\ up[f] \in {"ready", "refused"}
  /\ up' = [up EXCEPT ![f] = "over"]
  /\ fetch' = IF up[f] = "ready" THEN Invalidate(at) ELSE fetch
  /\ UNCHANGED <<file, made, del, cache, at, card, upsets, looks, apart>>

UploadFails(f) ==
  /\ up[f] \in {"asked", "reserved", "ready"}
  /\ Upset
  /\ up' = [up EXCEPT ![f] = IF up[f] = "asked" THEN "none" ELSE "over"]
  /\ apart' = (apart \/ up[f] # "asked")
  /\ UNCHANGED <<file, made, del, cache, fetch, at, card, looks>>

\* The next deletion of the tab is one of x.
Click(x) ==
  \E d \in Clicks :
    /\ del[d].at = "none" /\ \A e \in 1..(d - 1) : del[e].at # "none"
    /\ del' = [del EXCEPT ![d] = x]

\* Delete on a card: it collapses, and a timer of 300 ms is set.
Collapse(f) ==
  /\ card[f] = "shown"
  /\ card' = [card EXCEPT ![f] = "hidden"]
  /\ Click([file |-> f, by |-> "card", at |-> "timer"])
  /\ UNCHANGED <<file, made, up, cache, fetch, at, upsets, looks, apart>>

\* Variant with a bug: the timer is cleared when the card is unmounted.
FireMounted(d) ==
  /\ del[d].at = "timer" /\ card[del[d].file] = "hidden"
  /\ del' = [del EXCEPT ![d].at = "sent"]
  /\ UNCHANGED <<file, made, up, cache, fetch, at, card, upsets, looks, apart>>

\* The timer is not cleared when the card is unmounted.
Fire(d) ==
  /\ del[d].at = "timer"
  /\ del' = [del EXCEPT ![d].at = "sent"]
  /\ UNCHANGED <<file, made, up, cache, fetch, at, card, upsets, looks, apart>>

\* Delete file on the file's page; once at a time. The query of the file is left out.
DeleteFile(f) ==
  /\ at = <<"file", f>>
  /\ \A d \in Clicks :
       ~(del[d].file = f /\ del[d].by = "page" /\ del[d].at \in {"sent", "found", "ok", "refused"})
  /\ Click([file |-> f, by |-> "page", at |-> "sent"])
  /\ UNCHANGED <<file, made, up, cache, fetch, at, card, upsets, looks, apart>>

\* useDeleteFile's onSuccess: the queries are invalidated, and the file's page is left
\* for the list. A refusal changes nothing: a card stays hidden.
Deleted(d) ==
  /\ del[d].at \in {"ok", "refused"}
  /\ del' = [del EXCEPT ![d].at = "over"]
  /\ IF del[d].at = "ok"
     THEN LET went == del[d].by = "page" /\ at = <<"file", del[d].file>>
              home == <<"page", 1>>
              new  == Invalidate(at)
          IN IF went
             THEN /\ at' = home
                  /\ fetch' = IF new[home].on THEN new ELSE [new EXCEPT ![home] = Asked]
                  /\ card' = Cards(home, cache[home].rows)
             ELSE fetch' = new /\ UNCHANGED <<at, card>>
     ELSE UNCHANGED <<fetch, at, card>>
  /\ UNCHANGED <<file, made, up, cache, upsets, looks, apart>>

\* The request fails, or its answer is lost: nothing is told, nor undone.
DeleteFails(d) ==
  /\ del[d].at \in {"sent", "found", "ok"}
  /\ Upset
  /\ del' = [del EXCEPT ![d].at = "over"]
  /\ apart' = (apart \/ del[d].at = "ok")
  /\ UNCHANGED <<file, made, up, cache, fetch, at, card, looks>>

UserStep ==
  \/ Open \/ Leave \/ Focus \/ Previous \/ NextPage
  \/ \E f \in Files : OpenFile(f) \/ Drop(f) \/ Collapse(f) \/ DeleteFile(f)

FetchStep(k)  == ReadRows(k) \/ ReadTotal(k) \/ Answer(k)
UploadStep(f) == Reserve(f) \/ Confirm(f) \/ Uploaded(f)
DeleteStep(d) == Fire(d) \/ FindRow(d) \/ RemoveRow(d) \/ Deleted(d)

Failure ==
  \/ \E k \in Keys : FetchFails(k)
  \/ \E f \in Files : UploadFails(f)
  \/ \E d \in Clicks : DeleteFails(d)

Next ==
  \/ UserStep \/ Failure \/ Elsewhere
  \/ \E k \in Keys : FetchStep(k)
  \/ \E f \in Files : UploadStep(f)
  \/ \E d \in Clicks : DeleteStep(d)

Spec == Init /\ [][Next]_vars

\* Requests are answered and timers fire; people and failures owe nothing.
FairSpec ==
  /\ Spec
  /\ \A k \in Keys : WF_vars(FetchStep(k))
  /\ \A f \in Files : WF_vars(UploadStep(f))
  /\ \A d \in Clicks : WF_vars(DeleteStep(d))

-----------------------------------------------------------------------------
TypeOK ==
  /\ file \in [Files -> {"none", "pending", "ready", "deleted"}]
  /\ made \in 0..MaxFiles
  /\ up \in [Files -> {"none", "asked", "reserved", "ready", "refused", "over"}]
  /\ del \in [Clicks -> Delete]
  /\ cache \in [Keys -> Cached]
  /\ fetch \in [Keys -> Fetch]
  /\ at \in {None} \cup Keys \cup Details
  /\ card \in [Files -> {"off", "shown", "hidden"}]
  /\ upsets \in 0..MaxUpsets /\ looks \in 0..MaxLooks /\ apart \in BOOLEAN

\* No change of this tab is half done: what the server did was answered.
Acknowledged ==
  /\ \A f \in Files : up[f] \in {"none", "asked", "over"}
  /\ \A d \in Clicks : del[d].at \in {"none", "timer", "sent", "found", "over"}

\* A person sees what they did: when a page of the list was answered, and every upload
\* and deletion of the tab was too, the page and its count are those of the server.
\* Unless the list says that it could not be loaded, the tab was not told of a change,
\* or the answer is one of a request that no invalidation cancelled.
ShownIsCurrent ==
  /\ at \in Keys /\ cache[at].rows # None
  /\ ~fetch[at].on /\ ~cache[at].stale /\ ~cache[at].bad /\ Acknowledged /\ ~apart
  => /\ cache[at].rows = PageRows(at[2])
     /\ cache[at].total = Cardinality(Present)

\* What was asked for is done, whether or not its page is left before the timer fires
\* or the answer comes: the file is deleted, unless the request fails.
ClickDeletes ==
  \A f \in Files :
    (\E d \in Clicks : del[d].file = f /\ del[d].at # "none")
    ~> file[f] = "deleted" \/ upsets # 0

=============================================================================
