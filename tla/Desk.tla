-------------------------------- MODULE Desk --------------------------------
(***************************************************************************)
(* A page that lists rows of the catalogue and edits them                  *)
(* (frontend/src/useList.ts under the pages of references), among other    *)
(* users of the company.                                                   *)
(*                                                                         *)
(* The list asks for a page of the rows that match a text.  Each request   *)
(* makes the ones before it obsolete, but they may be answered all the     *)
(* same, in any order.  The rows of an answer are dated by the number of   *)
(* saves the server had made when it read them.                            *)
(*                                                                         *)
(* "text" stands for the delayed search, the filters and the path          *)
(* together; only the search waits for a timer.  One mounted list is       *)
(* followed: leaving the page aborts its calls and forgets it.             *)
(***************************************************************************)
EXTENDS Catalogue

CONSTANTS
  Editor,     \* the user of the page
  Pages,      \* the pages of the list, from 1
  Texts,      \* what may be searched or filtered for
  AnyText,    \* the search and the filters of a page that opens
  NoText,     \* the timer of the search is not set
  MaxEvents   \* bound: how many requests are sent and lists asked for, together

ASSUME DeskAssumption == Editor \in Users

VARIABLES
  wanted,   \* the page and the text the list is to show
  typed,    \* the search the timer will apply
  request,  \* the number of the newest call
  calls,    \* the calls that have not been answered yet
  list,     \* the list is loading, in error or ready
  shown,    \* the items of the list
  saved     \* the date of the last save the editor was told of

listing == <<wanted, typed, request, calls, list, shown, saved>>
desk == <<catalogue, listing>>

Unread == -1
Shown(c) == [page |-> c.page, text |-> c.text, read |-> c.read]

(***************************************************************************)
(* The list.                                                               *)
(***************************************************************************)

Room == asks + request < MaxEvents

\* reload, for what is wanted from now on.
Reload(page, text) ==
  /\ Room
  /\ wanted' = [page |-> page, text |-> text]
  /\ request' = request + 1
  /\ calls' = calls \cup {[n |-> request + 1, page |-> page, text |-> text, read |-> Unread]}
  /\ list' = "loading"
  /\ UNCHANGED shown

\* The watcher of the search, the filters and the path: back to the first page.
Change(text) ==
  /\ text # wanted.text
  /\ Reload(1, text)

Type(text) ==
  /\ typed' = text
  /\ UNCHANGED <<catalogue, wanted, request, calls, list, shown, saved>>

\* The timer of the search fires.  A search that is what it was changes nothing.
Fire ==
  /\ typed # NoText
  /\ typed' = NoText
  /\ \/ Change(typed)
     \/ typed = wanted.text /\ UNCHANGED <<wanted, request, calls, list, shown>>
  /\ UNCHANGED <<catalogue, saved>>

Filter(text) == Change(text) /\ UNCHANGED <<catalogue, typed, saved>>

\* The pagination is disabled while the list is loading.
TurnPage(page) ==
  /\ list # "loading"
  /\ page # wanted.page
  /\ Reload(page, wanted.text)
  /\ UNCHANGED <<catalogue, typed, saved>>

Retry ==
  /\ list = "error"
  /\ Reload(wanted.page, wanted.text)
  /\ UNCHANGED <<catalogue, typed, saved>>

\* The server reads the rows.
Serve(c) ==
  /\ c.read = Unread
  /\ calls' = (calls \ {c}) \cup {[n |-> c.n, page |-> c.page, text |-> c.text, read |-> saves]}
  /\ UNCHANGED <<catalogue, wanted, typed, request, list, shown, saved>>

\* Only the newest call may touch the list.
IsCurrentAlways(c) == c \in calls
IsCurrent(c) == c.n = request

Answered(c) ==
  /\ c.read # Unread
  /\ calls' = calls \ {c}
  /\ IF IsCurrent(c)
       THEN shown' = Shown(c) /\ list' = "ready"
       ELSE UNCHANGED <<shown, list>>
  /\ UNCHANGED <<catalogue, wanted, typed, request, saved>>

\* A call fails, or is aborted by the next one.
Failed(c) ==
  /\ calls' = calls \ {c}
  /\ IF IsCurrent(c) THEN list' = "error" ELSE UNCHANGED list
  /\ UNCHANGED <<catalogue, wanted, typed, request, shown, saved>>

(***************************************************************************)
(* The page.                                                               *)
(***************************************************************************)

\* The page is told of its save, and loads the list again.
ToldAndReload ==
  /\ job[Editor].state = "told"
  /\ Reply(Editor)
  /\ saved' = job[Editor].at
  /\ Reload(wanted.page, wanted.text)
  /\ UNCHANGED typed

\* The answer is a refusal, or is lost.
NotTold == Reply(Editor) /\ UNCHANGED listing

Edit ==
  /\ \E u \in Users :
       \/ Room /\ \E id \in Ids : \E patch \in Input(id) : Ask(u, id, patch)
       \/ Save(u)
       \/ Refuse(u)
       \/ u # Editor /\ Reply(u)
  /\ UNCHANGED listing

Init ==
  /\ CatalogueInit
  /\ wanted = [page |-> 1, text |-> AnyText]
  /\ calls = {[n |-> 1, page |-> 1, text |-> AnyText, read |-> Unread]}
  /\ shown = [page |-> 0, text |-> AnyText, read |-> Unread]
  /\ typed = NoText
  /\ request = 1
  /\ list = "loading"
  /\ saved = 0

Next ==
  \/ Edit
  \/ ToldAndReload
  \/ NotTold
  \/ \E text \in Texts : Type(text) \/ Filter(text)
  \/ Fire
  \/ \E page \in Pages : TurnPage(page)
  \/ Retry
  \/ \E c \in calls : Serve(c) \/ Answered(c) \/ Failed(c)

Spec == Init /\ [][Next]_desk

(***************************************************************************)
(* Properties.                                                             *)
(***************************************************************************)

\* A list that is neither loading nor in error shows the page and the text that are
\* wanted now, and nothing older than the last save its user was told of, whatever the
\* order in which the answers came.
ListIsCurrent ==
  list = "ready" =>
    /\ shown.page = wanted.page
    /\ shown.text = wanted.text
    /\ shown.read >= saved
=============================================================================
