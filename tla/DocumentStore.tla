---------------------------- MODULE DocumentStore ----------------------------
(***************************************************************************)
(* One browser tab (frontend/src: document-store, comments-store, router,  *)
(* DocumentView, CarbonShell, NotFound, FileActions).  Every request may   *)
(* be overtaken by later ones; its answer is used whatever is shown by     *)
(* then.  Somebody who may write is signed in; nobody else edits.          *)
(***************************************************************************)
EXTENDS Naturals

CONSTANTS
  DocPaths,
  Home,       \* README.md
  Refs,       \* revisions in the history
  Nil,
  MaxActs,    \* bound: what the user does that sends a request
  MaxKeys,    \* bound: changes typed
  MaxFailures \* bound: requests that fail

PageText == [of : DocPaths, ref : Refs \cup {Nil}, n : 0..MaxKeys]
Doc  == [path : DocPaths, ref : Refs \cup {Nil}, text : PageText]
Key  == [path : DocPaths, ref : Refs \cup {Nil}]

ASSUME PathsAssumption == Home \in DocPaths
ASSUME NilAssumption == Nil \notin DocPaths \cup Refs \cup PageText \cup Doc \cup Key
ASSUME BoundsAssumption == {MaxActs, MaxKeys, MaxFailures} \subseteq Nat

VARIABLES
  pages,     \* what the server has
  net,       \* requests on their way, and answers
  route,     \* the address: currentDoc and currentRef
  key,       \* lastLoadKey
  view,      \* the stores of document-store
  sidebar,   \* those of comments-store: whose comments are wanted, whose are listed
  odd,       \* what has gone wrong, since the page was asked for, in a way the code
             \* does not guard against; no part of the program
  acts, keys, failures

tabVars == <<pages, net, route, key, view, sidebar, odd, acts, keys, failures>>

RequestKinds   == {"load", "save", "create", "delete", "comments"}
\* now: nothing has been loaded since; at: tells saves and deletions apart.
TabRequest == [kind : RequestKinds, path : DocPaths, ref : Refs \cup {Nil},
               text : PageText \cup {Nil}, state : {"sent", "ok", "missing", "failed"},
               now : BOOLEAN, at : 0..MaxActs]
View    == [doc : Doc \cup {Nil}, draft : PageText \cup {Nil}, editing : BOOLEAN,
            loading : BOOLEAN, error : BOOLEAN, notFound : DocPaths \cup {Nil},
            save : {"idle", "saving", "error"}]   \* "idle" is "saved" as well
Sidebar == [wanted : DocPaths \cup {Nil}, listed : DocPaths \cup {Nil}]

TabTypeOK ==
  /\ pages \in [DocPaths -> PageText \cup {Nil}]
  /\ net \subseteq TabRequest
  /\ route \in Key /\ key \in Key
  /\ view \in View
  /\ sidebar \in Sidebar
  /\ odd \subseteq {"late", "hasty", "lost"}
  /\ acts \in 0..MaxActs /\ keys \in 0..MaxKeys /\ failures \in 0..MaxFailures

NewText(p) == [of |-> p, ref |-> Nil, n |-> 0]

Send(kind, p, ref, text) ==
  [kind |-> kind, path |-> p, ref |-> ref, text |-> text, state |-> "sent",
   now |-> TRUE, at |-> IF kind \in {"save", "delete"} THEN acts ELSE 0]

-----------------------------------------------------------------------------
(***************************************************************************)
(* load                                                                    *)
(***************************************************************************)
\* Faulty variant: the page that was not found is not forgotten.
ClearedButNotFound(v) ==
  [v EXCEPT !.doc = Nil, !.editing = FALSE, !.loading = TRUE, !.error = FALSE,
            !.save = "idle"]

Cleared(v) ==
  [v EXCEPT !.doc = Nil, !.editing = FALSE, !.loading = TRUE, !.error = FALSE,
            !.notFound = Nil, !.save = "idle"]

Left(requests) == {[r EXCEPT !.now = FALSE] : r \in requests}

\* The page is cleared and asked for; the draft stays.  rest are the other requests.
LoadPage(p, ref, rest) ==
  /\ key' = [path |-> p, ref |-> ref]
  /\ view' = Cleared(view)
  /\ net' = Left(rest) \cup {Send("load", p, ref, Nil)}
  /\ odd' = {}

TabInit ==
  /\ pages \in {f \in [DocPaths -> {Nil} \cup {NewText(p) : p \in DocPaths}] :
                  \A p \in DocPaths : f[p] \in {Nil, NewText(p)}}
  /\ route = [path |-> Home, ref |-> Nil] /\ key = route
  /\ view = [doc |-> Nil, draft |-> Nil, editing |-> FALSE, loading |-> TRUE,
             error |-> FALSE, notFound |-> Nil, save |-> "idle"]
  /\ sidebar = [wanted |-> Nil, listed |-> Nil]
  /\ odd = {} /\ acts = 0 /\ keys = 0 /\ failures = 0
  /\ net = {Send("load", Home, Nil, Nil)}

Act == acts < MaxActs /\ acts' = acts + 1

\* A link, the history menu or the Back button; load does nothing for the page
\* it has asked for last.
Open(p, ref) ==
  /\ Act
  /\ route # [path |-> p, ref |-> ref]
  /\ route' = [path |-> p, ref |-> ref]
  /\ IF key = route' THEN UNCHANGED <<key, view, net, odd>> ELSE LoadPage(p, ref, net)
  /\ UNCHANGED <<pages, sidebar, keys, failures>>

\* The Retry button: forceReload, without the revision.
Retry ==
  /\ Act
  /\ view.error /\ ~view.loading
  /\ LoadPage(route.path, Nil, net)
  /\ UNCHANGED <<pages, route, sidebar, keys, failures>>

-----------------------------------------------------------------------------
(***************************************************************************)
(* The editor                                                              *)
(***************************************************************************)
\* What DocumentView shows besides skeleton, error and NotFound.
DocShown == ~view.loading /\ ~view.error /\ view.notFound = Nil /\ view.doc # Nil

\* The buttons of CarbonShell are there for a current document.
Editable == view.doc # Nil /\ view.doc.ref = Nil

ToggleEdit ==
  /\ Editable
  /\ view' = [view EXCEPT !.editing = ~@]
  /\ UNCHANGED <<pages, net, route, key, sidebar, odd, acts, keys, failures>>

\* setDraft
Type ==
  /\ DocShown /\ view.editing
  /\ keys < MaxKeys
  /\ keys' = keys + 1
  /\ view' = [view EXCEPT !.draft.n = keys + 1]
  /\ UNCHANGED <<pages, net, route, key, sidebar, odd, acts, failures>>

\* Faulty variant: the draft goes to the address.
TargetRoute == route.path

\* Where save puts the draft.
Target == view.doc.path

\* The button works while a save is under way, too.
SaveDraft ==
  /\ Act
  /\ Editable /\ view.editing
  /\ view' = [view EXCEPT !.save = "saving"]
  /\ net' = net \cup {Send("save", Target, Nil, view.draft)}
  /\ odd' = IF \E r \in net : r.kind = "save" /\ r.now THEN odd \cup {"hasty"} ELSE odd
  /\ UNCHANGED <<pages, route, key, sidebar, keys, failures>>

Click(kind, p, text) ==
  /\ Act
  /\ net' = net \cup {Send(kind, p, Nil, text)}
  /\ UNCHANGED <<pages, route, key, view, sidebar, odd, keys, failures>>

\* NotFound offers to create the document, unless it is busy with that ...
Create ==
  /\ ~view.loading /\ ~view.error /\ view.notFound # Nil
  /\ ~\E r \in net : r.kind = "create" /\ r.now
  /\ Click("create", view.notFound, NewText(view.notFound))

\* ... and FileActions to delete it, also while that is under way: who closes
\* the editor and opens it again gets a new menu.
Delete == DocShown /\ view.editing /\ Click("delete", view.doc.path, Nil)

-----------------------------------------------------------------------------
(***************************************************************************)
(* The server: GetDoc, PutDoc, DeleteDoc                                   *)
(***************************************************************************)
Become(r, state, text) == net' = (net \ {r}) \cup {[r EXCEPT !.state = state, !.text = text]}

Store(r) == pages' = [pages EXCEPT ![r.path] = r.text]

Serve(r) ==
  /\ r \in net /\ r.state = "sent" /\ r.kind # "comments"
  /\ CASE r.kind = "load" ->
            /\ IF r.ref # Nil
                 THEN \/ Become(r, "ok", [of |-> r.path, ref |-> r.ref, n |-> 0])
                      \/ Become(r, "missing", Nil)   \* no such revision
               ELSE IF pages[r.path] = Nil THEN Become(r, "missing", Nil)
               ELSE Become(r, "ok", pages[r.path])
            /\ UNCHANGED pages
       [] r.kind \in {"save", "create"} -> Become(r, "ok", r.text) /\ Store(r)
       [] r.kind = "delete" ->
            Become(r, IF pages[r.path] = Nil THEN "missing" ELSE "ok", Nil) /\ Store(r)
  /\ UNCHANGED <<route, key, view, sidebar, odd, acts, keys, failures>>

\* A request is refused or does not arrive, or its answer gets lost.
Fails(r) ==
  /\ r \in net /\ r.state = "sent" /\ r.kind # "comments"
  /\ failures < MaxFailures /\ failures' = failures + 1
  /\ Become(r, "failed", r.text)
  /\ \/ UNCHANGED <<pages, odd>>
     \/ /\ r.kind \in {"save", "create", "delete"} /\ Store(r)
        /\ odd' = odd \cup {"lost"}
  /\ UNCHANGED <<route, key, view, sidebar, acts, keys>>

-----------------------------------------------------------------------------
(***************************************************************************)
(* Answers                                                                 *)
(***************************************************************************)
\* The answer belongs to a page that has been left.
Belated(r) == IF r.now THEN odd ELSE odd \cup {"late"}

\* loadForPath
Ask(p, rest) == rest \cup {Send("comments", p, Nil, Nil)}

Found(r) == r.state = "ok"

\* The answer to a load, whichever page is asked for by now.
Loaded(r) ==
  /\ r \in net /\ r.kind = "load" /\ r.state # "sent"
  /\ view' = [view EXCEPT
       !.loading  = FALSE,
       !.doc      = IF Found(r) THEN [path |-> r.path, ref |-> r.ref, text |-> r.text] ELSE @,
       !.draft    = IF Found(r) THEN r.text ELSE @,
       !.notFound = IF r.state = "missing" THEN r.path ELSE @,
       !.error    = IF r.state = "failed" THEN TRUE ELSE @]
  /\ IF Found(r)
       THEN net' = Ask(r.path, net \ {r}) /\ sidebar' = [sidebar EXCEPT !.wanted = r.path]
       ELSE net' = net \ {r} /\ UNCHANGED sidebar
  /\ odd' = Belated(r)
  /\ UNCHANGED <<pages, route, key, acts, keys, failures>>

\* Faulty variant: the answer is not looked at (res.ok).
SucceededAlways(r) == TRUE

Succeeded(r) == r.state = "ok"

\* The answer to a save; the comments are listed anew.
Saved(r) ==
  /\ r \in net /\ r.kind = "save" /\ r.state # "sent"
  /\ IF Succeeded(r)
       THEN /\ view' = [view EXCEPT !.doc = [path |-> r.path, ref |-> Nil, text |-> r.text],
                                    !.draft = r.text, !.save = "idle"]
            /\ net' = IF sidebar.wanted = Nil THEN net \ {r}
                      ELSE Ask(sidebar.wanted, net \ {r})
       ELSE view' = [view EXCEPT !.save = "error"] /\ net' = net \ {r}
  /\ odd' = Belated(r)
  /\ UNCHANGED <<pages, route, key, sidebar, acts, keys, failures>>

\* The document of the address is loaded, whatever has been created.
Created(r) ==
  /\ r \in net /\ r.kind = "create" /\ r.state # "sent"
  /\ IF r.state = "ok" THEN LoadPage(route.path, Nil, net \ {r})
                       ELSE net' = net \ {r} /\ UNCHANGED <<key, view, odd>>
  /\ UNCHANGED <<pages, route, sidebar, acts, keys, failures>>

\* Back to the first page.
Deleted(r) ==
  /\ r \in net /\ r.kind = "delete" /\ r.state # "sent"
  /\ IF r.state = "ok"
       THEN /\ route' = [path |-> Home, ref |-> Nil]
            /\ LoadPage(Home, Nil, net \ {r})
       ELSE net' = net \ {r} /\ UNCHANGED <<route, key, view, odd>>
  /\ UNCHANGED <<pages, sidebar, acts, keys, failures>>

\* Faulty variant: every list is taken.
StillWantedAlways(r) == TRUE

\* currentPath === path
StillWanted(r) == sidebar.wanted = r.path

\* The list of comments arrives, or a failure empties it, whosever it is.
Listed(r) ==
  /\ r \in net /\ r.kind = "comments"
  /\ net' = net \ {r}
  /\ \/ /\ sidebar' = IF StillWanted(r) THEN [sidebar EXCEPT !.listed = r.path] ELSE sidebar
        /\ UNCHANGED <<odd, failures>>
     \/ /\ failures < MaxFailures /\ failures' = failures + 1
        /\ sidebar' = [sidebar EXCEPT !.listed = Nil]
        /\ odd' = odd \cup {"lost"}
  /\ UNCHANGED <<pages, route, key, view, acts, keys>>

TabIdle == net = {} /\ acts = MaxActs /\ UNCHANGED tabVars

TabNext ==
  \/ \E p \in DocPaths, ref \in Refs \cup {Nil} : Open(p, ref)
  \/ Retry \/ ToggleEdit \/ Type \/ SaveDraft \/ Create \/ Delete
  \/ \E r \in net : \/ Serve(r) \/ Fails(r)
                    \/ Loaded(r) \/ Saved(r) \/ Created(r) \/ Deleted(r) \/ Listed(r)
  \/ TabIdle

TabSpec == TabInit /\ [][TabNext]_tabVars

-----------------------------------------------------------------------------
(***************************************************************************)
(* Properties                                                              *)
(***************************************************************************)
\* Whatever answers overtake each other, no document gets the text of another
\* one or of a revision: "so users can't accidentally try to save back to
\* history" (document-store.ts:24).
PagesKeepTheirText ==
  \A p \in DocPaths : pages[p] # Nil => pages[p].of = p /\ pages[p].ref = Nil

\* When everything has been answered the tab is not waiting any more; and unless
\* an answer for a page that had been left came after the question, it shows the
\* page asked for last, a revision without the editor, or why it does not,
\* whatever went wrong before.
AddressShown ==
  net = {} =>
    /\ ~view.loading
    /\ \/ "late" \in odd
       \/ view.error
       \/ view.notFound = route.path
       \/ /\ view.notFound = Nil /\ view.doc # Nil
          /\ view.doc.path = route.path /\ view.doc.ref = key.ref
          /\ view.doc.ref # Nil => ~view.editing

\* "editing is force-disabled in that case", for a revision (document-store.ts:24).
\* It is while the question is under way only: the answer, late, finds the editor
\* of another page open.
RevisionsReadOnly == view.doc # Nil /\ view.doc.ref # Nil => ~view.editing

\* What is shown is what the server has, unless, since the page was asked for,
\* saves of it overtook each other, or an answer came late or got lost.
ShownIsStored ==
  net = {} /\ odd = {} /\ Editable => pages[view.doc.path] = view.doc.text

\* The comments next to a document are its own, although lists overtake each
\* other (comments-store.ts:17).
CommentsOfDoc ==
  net = {} /\ odd = {} /\ view.doc # Nil => sidebar.listed = view.doc.path

-----------------------------------------------------------------------------
(***************************************************************************)
(* The inductive invariants                                                *)
(***************************************************************************)
\* Behind PagesKeepTheirText: the draft is a text of the document that is shown, or was last.
DraftFits ==
  view.doc # Nil => /\ view.draft # Nil
                    /\ view.draft.of = view.doc.path /\ view.draft.ref = view.doc.ref

\* So are the texts on their way.
TextFits(r) ==
  /\ r.kind \in {"save", "create"} => r.text # Nil /\ r.ref = Nil
  /\ r.kind = "delete" => r.text = Nil
  /\ r.kind = "load" /\ r.state = "ok" => r.text # Nil
  /\ r.text # Nil => r.text.of = r.path /\ r.text.ref = r.ref

TextsFit == \A r \in net : TextFits(r)

TextInv == TabTypeOK /\ DraftFits /\ TextsFit /\ PagesKeepTheirText

\* Behind AddressShown: while the page asked for last is awaited, nothing is shown
\* or edited, and no other answer is for it; the answer leaves the editor closed.
Awaited(r) ==
  /\ view.doc = Nil /\ ~view.editing
  /\ \A q \in net : q.now /\ q.kind \in {"load", "save"} => q = r

AwaitedAlone ==
  "late" \notin odd => \A r \in net : r.kind = "load" /\ r.now => Awaited(r)

ClosedForRevisions ==
  view.doc # Nil /\ view.doc.ref # Nil /\ view.editing => "late" \in odd

TabInv == TextInv /\ AwaitedAlone /\ ClosedForRevisions
=============================================================================
