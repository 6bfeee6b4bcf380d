------------------------------ MODULE PostFiles ------------------------------
(***************************************************************************)
(* The files of one post and its counters (collections/posts/Posts.ts,     *)
(* endpoints/fileDownload.ts, site/board.ts).                              *)
(*                                                                         *)
(* A row of the post's attachments carries the number its download URL is  *)
(* built from and a download counter.  Three writers meet on the rows: the *)
(* editor, whose form sends back the rows it loaded; the detail page,      *)
(* whose view count is an update of the whole post; and a download, whose  *)
(* counter is one SQL statement on one row.                                *)
(***************************************************************************)
EXTENDS Naturals, Sequences, FiniteSets, SequencesExt

CONSTANTS
  Files,     \* uploads an editor may attach
  Saves,     \* forms of editors
  Visits,    \* renderings of the detail page
  Fetches,   \* requests to /api/files/download
  Status     \* what the byte source may answer

ASSUME FilesAssumption == IsFiniteSet(Files) /\ IsFiniteSet(Visits) /\ 200 \in Status

VARIABLES
  post,     \* rows: its attachments, views: its view count
  saves,    \* forms and the updates they become
  visits,   \* detail pages and the updates they become
  fetches,  \* downloads
  due,      \* history: full downloads of each file since it was attached
  first,    \* history: the number a file was given when it was attached
  crossed   \* history: rows were written back over newer ones, or renumbered
            \* under a download

filesVars == <<post, saves, visits, fetches, due, first, crossed>>

Row == [sn: Nat, file: Files, count: Nat]
FilesOf(rows) == {rows[i].file : i \in DOMAIN rows}
Numbers(rows) == {rows[i].sn : i \in DOMAIN rows}

-----------------------------------------------------------------------------
(* Numbering.                                                              *)

LowestFree(used) == CHOOSE n \in 1..(Cardinality(used) + 1) :
                      n \notin used /\ \A k \in 1..(n - 1) : k \in used

\* A number stays when it is positive and no row above has it.
Keeps(sn, used) == sn > 0 /\ sn \notin used

WithNumber(r, used) == IF Keeps(r.sn, used) THEN r ELSE [r EXCEPT !.sn = LowestFree(used)]

\* validatePostAgainstBoard, the loop over data.attachments.
Numbered(rows) ==
  LET upTo[n \in 0..Len(rows)] ==
        IF n = 0 THEN <<>>
        ELSE Append(upTo[n - 1], WithNumber(rows[n], Numbers(upTo[n - 1])))
  IN  upTo[Len(rows)]

-----------------------------------------------------------------------------
(* The editor.                                                             *)

\* What one round of editing makes of the loaded rows: nothing, a row less,
\* a fresh row in any place, a duplicated row with another file, a swap.
Edited(rows) ==
  LET fresh == Files \ FilesOf(rows) IN
    {rows}
    \cup {RemoveAt(rows, i) : i \in DOMAIN rows}
    \cup {InsertAt(rows, i, [sn |-> 0, file |-> f, count |-> 0]) :
            i \in 1..(Len(rows) + 1), f \in fresh}
    \cup {InsertAt(rows, i + 1, [rows[i] EXCEPT !.file = f]) : i \in DOMAIN rows, f \in fresh}
    \cup {Reverse(rows)}

NoForm == [stage |-> "closed", base |-> <<>>, rows |-> <<>>, views |-> 0]

LoadForm(s) ==
  /\ saves[s].stage = "closed"
  /\ saves' = [saves EXCEPT ![s] = [NoForm EXCEPT !.stage = "open", !.base = post.rows]]
  /\ UNCHANGED <<post, visits, fetches, due, first, crossed>>

\* The update merges what the form leaves out, the locked view count among it,
\* from the post it reads, and numbers the rows.
SubmitForm(s) ==
  /\ saves[s].stage = "open"
  /\ \E rows \in Edited(saves[s].base) :
       saves' = [saves EXCEPT ![s] =
         [@ EXCEPT !.stage = "read", !.rows = Numbered(rows), !.views = post.views]]
  /\ UNCHANGED <<post, visits, fetches, due, first, crossed>>

\* The history when rows are written: files that join start at their count.
Attached(rows) ==
  LET of == [f \in FilesOf(rows) |-> CHOOSE r \in Range(rows) : r.file = f]
      joined == FilesOf(rows) \ FilesOf(post.rows)
  IN /\ due' = [f \in Files |-> IF f \in joined THEN of[f].count ELSE due[f]]
     /\ first' = [f \in Files |-> IF f \in joined THEN of[f].sn ELSE first[f]]

SaveForm(s) ==
  /\ saves[s].stage = "read"
  /\ post' = [rows |-> saves[s].rows, views |-> saves[s].views]
  /\ Attached(saves[s].rows)
  /\ saves' = [saves EXCEPT ![s] = [NoForm EXCEPT !.stage = "done"]]
  /\ crossed' = (crossed \/ saves[s].base # post.rows)
  /\ UNCHANGED <<visits, fetches>>

-----------------------------------------------------------------------------
(* The detail page.                                                        *)

NoVisit == [stage |-> "idle", seen |-> 0, rows |-> <<>>]

ShowPost(v) ==
  /\ visits[v].stage = "idle"
  /\ visits' = [visits EXCEPT ![v] = [NoVisit EXCEPT !.stage = "shown", !.seen = post.views]]
  /\ UNCHANGED <<post, saves, fetches, due, first, crossed>>

\* incrementViewCount: the update reads the post again ...
ReadForCount(v) ==
  /\ visits[v].stage = "shown"
  /\ visits' = [visits EXCEPT ![v] = [@ EXCEPT !.stage = "read", !.rows = post.rows]]
  /\ UNCHANGED <<post, saves, fetches, due, first, crossed>>

Counted(seen) == seen + 1

\* ... and writes it whole, or fails and is swallowed.
WriteCount(v) ==
  /\ visits[v].stage = "read"
  /\ visits' = [visits EXCEPT ![v] = [NoVisit EXCEPT !.stage = "done"]]
  /\ \/ /\ post' = [rows |-> visits[v].rows, views |-> Counted(visits[v].seen)]
        /\ Attached(visits[v].rows)
        /\ crossed' = (crossed \/ visits[v].rows # post.rows)
     \/ UNCHANGED <<post, due, first, crossed>>
  /\ UNCHANGED <<saves, fetches>>

-----------------------------------------------------------------------------
(* The download.                                                           *)

NoFetch == [stage |-> "idle", sn |-> 0, file |-> "none", rows |-> <<>>]

\* handleFileDownload up to the file that was asked for: the row found.
FindFile(d) ==
  /\ fetches[d].stage = "idle"
  /\ \E i \in DOMAIN post.rows :
       fetches' = [fetches EXCEPT ![d] = [stage |-> "found", sn |-> post.rows[i].sn,
                                          file |-> post.rows[i].file, rows |-> post.rows]]
  /\ UNCHANGED <<post, saves, visits, due, first, crossed>>

\* Mutant: every answer that is no error counts.
CountsDownload_NoError(status) == status < 400

\* D5: only a full body counts.
CountsDownload(status) == status = 200

ServeFile(d) ==
  /\ fetches[d].stage = "found"
  /\ \E status \in Status :
       fetches' = [fetches EXCEPT ![d] =
         [@ EXCEPT !.stage = IF CountsDownload(status) THEN "served" ELSE "done",
                   !.rows = IF status = 200 THEN fetches[d].rows ELSE <<>>]]
  /\ UNCHANGED <<post, saves, visits, due, first, crossed>>

\* UPDATE posts_attachments SET download_count = download_count + 1 of the row
\* that has the number now.
Bumped(rows, d) ==
  [i \in DOMAIN rows |->
     [rows[i] EXCEPT !.count = IF rows[i].sn = fetches[d].sn THEN @ + 1 ELSE @]]

\* Whether the number still names the file that was served.
StillNames(d) ==
  \E i \in DOMAIN post.rows : post.rows[i].sn = fetches[d].sn /\ post.rows[i].file = fetches[d].file

\* incrementDownloadCount, or its swallowed failure.
CountDownload(d) ==
  /\ fetches[d].stage = "served"
  /\ \/ /\ post' = [post EXCEPT !.rows = Bumped(post.rows, d)]
        /\ due' = [due EXCEPT ![fetches[d].file] =
                     IF fetches[d].rows # <<>> /\ StillNames(d) THEN @ + 1 ELSE @]
        /\ crossed' = (crossed \/ (~StillNames(d) /\ fetches[d].sn \in Numbers(post.rows)))
     \/ UNCHANGED <<post, due, crossed>>
  /\ fetches' = [fetches EXCEPT ![d] = [NoFetch EXCEPT !.stage = "done"]]
  /\ UNCHANGED <<saves, visits, first>>

-----------------------------------------------------------------------------
FilesInit ==
  /\ post = [rows |-> <<>>, views |-> 0]
  /\ saves = [s \in Saves |-> NoForm]
  /\ visits = [v \in Visits |-> NoVisit]
  /\ fetches = [d \in Fetches |-> NoFetch]
  /\ due = [f \in Files |-> 0]
  /\ first = [f \in Files |-> 0]
  /\ crossed = FALSE

FilesNext ==
  \/ \E s \in Saves : LoadForm(s) \/ SubmitForm(s) \/ SaveForm(s)
  \/ \E v \in Visits : ShowPost(v) \/ ReadForCount(v) \/ WriteCount(v)
  \/ \E d \in Fetches : FindFile(d) \/ ServeFile(d) \/ CountDownload(d)

FilesSpec == FilesInit /\ [][FilesNext]_filesVars

-----------------------------------------------------------------------------
(* Properties.                                                             *)

\* The rows are numbered rows of known files, at most one row a file; the view
\* count (site/board.ts incrementViewCount) never exceeds the visits.
FilesTypeOK ==
  /\ post.rows \in Seq(Row) /\ IsInjective([i \in DOMAIN post.rows |-> post.rows[i].file])
  /\ post.views <= Cardinality({v \in Visits : visits[v].stage \in {"read", "done"}})

\* A download URL names one file (Posts.ts, the fileSn loop): the rows of a
\* post have different positive numbers, whatever rows the forms sent.
OneFilePerNumber ==
  /\ 0 \notin Numbers(post.rows)
  /\ Cardinality(Numbers(post.rows)) = Len(post.rows)

\* fileDownload.ts, D5: as long as no write of the whole post carries rows
\* that changed since it read them, and none renumbers a file while it is
\* fetched, every counter shows exactly the full downloads of its file whose
\* statement succeeded.
CountersExact ==
  ~crossed => \A i \in DOMAIN post.rows : post.rows[i].count = due[post.rows[i].file]

\* fileDownload.ts, incrementDownloadCount: counting a download changes at most
\* the counter of one row; what an editor saved while the file was served
\* stays, and so does every other counter.
CountingTouchesOneRow ==
  [][(\E d \in Fetches : CountDownload(d)) =>
       /\ DOMAIN post'.rows = DOMAIN post.rows
       /\ \A i \in DOMAIN post.rows :
            /\ post'.rows[i].file = post.rows[i].file /\ post'.rows[i].sn = post.rows[i].sn
            /\ post'.rows[i].count - post.rows[i].count \in {0, 1}
       /\ Cardinality({i \in DOMAIN post.rows : post'.rows[i] # post.rows[i]}) <= 1
    ]_filesVars

\* Downloads are counted at the file they are of: each number names one file, its
\* counter is exact unless forms crossed, and counting changes nothing else.
DownloadsAreCounted ==
  [](FilesTypeOK /\ OneFilePerNumber /\ CountersExact) /\ CountingTouchesOneRow

\* Posts.ts says an existing number is preserved ("stable download URLs").  A
\* new row placed above the file takes its number.
NumbersAreStable ==
  \A i \in DOMAIN post.rows : post.rows[i].sn = first[post.rows[i].file]
=============================================================================
