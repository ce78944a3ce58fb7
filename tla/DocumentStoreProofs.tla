------------------------- MODULE DocumentStoreProofs -------------------------
(***************************************************************************)
(* No document gets the text of another one or of a revision, for any      *)
(* number of documents, revisions, requests under way, and failures.       *)
(***************************************************************************)
EXTENDS DocumentStore, TLAPS

LEMMA ResetType == ASSUME view \in View
                   PROVE  Cleared(view) \in View /\ Cleared(view).doc = Nil
  BY DEF Cleared, View

LEMMA SendFits ==
  ASSUME acts \in 0..MaxActs, NEW kind \in RequestKinds, NEW p \in DocPaths,
         NEW ref \in Refs \cup {Nil}, NEW text \in PageText \cup {Nil}
  PROVE  Send(kind, p, ref, text) \in TabRequest
  BY BoundsAssumption DEF Send, TabRequest, RequestKinds

\* What is asked for carries no text.
LEMMA QuestionFits ==
  ASSUME NEW kind \in {"load", "comments"}, NEW p, NEW ref
  PROVE  TextFits(Send(kind, p, ref, Nil))
  BY DEF Send, TextFits

LEMMA LeftFits ==
  ASSUME NEW rs \in SUBSET TabRequest, \A r \in rs : TextFits(r)
  PROVE  Left(rs) \subseteq TabRequest /\ \A r \in Left(rs) : TextFits(r)
  <1> SUFFICES ASSUME NEW r \in rs
               PROVE  /\ [r EXCEPT !.now = FALSE] \in TabRequest
                      /\ TextFits([r EXCEPT !.now = FALSE])
      BY DEF Left
  <1>1. r \in TabRequest /\ TextFits(r)
      OBVIOUS
  <1> QED  BY <1>1 DEF TabRequest, TextFits

\* A load asks for a document and takes the shown one away.
LEMMA FetchKeeps ==
  ASSUME TabTypeOK, TextsFit, NEW p \in DocPaths, NEW ref \in Refs \cup {Nil},
         NEW rest \in SUBSET net, LoadPage(p, ref, rest)
  PROVE  /\ key' \in Key /\ view' \in View /\ net' \subseteq TabRequest
         /\ DraftFits' /\ TextsFit' /\ odd' = {}
  <1>1. rest \subseteq TabRequest /\ \A r \in rest : TextFits(r)
      BY DEF TabTypeOK, TextsFit
  <1>2. Left(rest) \subseteq TabRequest /\ \A r \in Left(rest) : TextFits(r)
      BY <1>1, LeftFits
  <1>3. Send("load", p, ref, Nil) \in TabRequest
      BY SendFits DEF TabTypeOK, RequestKinds
  <1>4. TextFits(Send("load", p, ref, Nil))
      BY QuestionFits
  <1>5. net' \subseteq TabRequest /\ TextsFit'
      BY <1>2, <1>3, <1>4 DEF LoadPage, TextsFit
  <1>6. view' \in View /\ DraftFits'
      BY ResetType DEF LoadPage, TabTypeOK, DraftFits
  <1> QED  BY <1>5, <1>6 DEF LoadPage, Key

\* The comments of a document are asked for.
LEMMA AskKeeps ==
  ASSUME TabTypeOK, TextsFit, NEW p \in DocPaths, NEW rest \in SUBSET net
  PROVE  Ask(p, rest) \subseteq TabRequest /\ \A r \in Ask(p, rest) : TextFits(r)
  <1>1. Send("comments", p, Nil, Nil) \in TabRequest
      BY SendFits DEF TabTypeOK, RequestKinds
  <1>2. TextFits(Send("comments", p, Nil, Nil))
      BY QuestionFits
  <1> QED  BY <1>1, <1>2 DEF Ask, TabTypeOK, TextsFit

\* A request becomes an answer.
LEMMA BecomeKeeps ==
  ASSUME TabTypeOK, TextsFit, NEW r \in net, NEW state \in {"sent", "ok", "missing", "failed"},
         NEW text \in PageText \cup {Nil}, TextFits([r EXCEPT !.state = state, !.text = text]),
         Become(r, state, text)
  PROVE  net' \subseteq TabRequest /\ TextsFit'
  <1>1. [r EXCEPT !.state = state, !.text = text] \in TabRequest
      BY DEF TabTypeOK, TabRequest
  <1> QED  BY <1>1 DEF Become, TabTypeOK, TextsFit

\* What a request has for the server is a text of its page.
LEMMA StoreKeeps ==
  ASSUME TabTypeOK, TextsFit, PagesKeepTheirText, NEW r \in net,
         r.kind \in {"save", "create", "delete"}, Store(r)
  PROVE  pages' \in [DocPaths -> PageText \cup {Nil}] /\ PagesKeepTheirText'
  <1>1. r.path \in DocPaths /\ r.text \in PageText \cup {Nil} /\ TextFits(r)
      BY DEF TabTypeOK, TabRequest, TextsFit
  <1>2. r.text # Nil => r.text.of = r.path /\ r.text.ref = Nil
      BY <1>1 DEF TextFits
  <1> QED  BY <1>1, <1>2 DEF Store, TabTypeOK, PagesKeepTheirText

-----------------------------------------------------------------------------
LEMMA InitTextInv == ASSUME TabInit PROVE TextInv
  <1>1. acts \in 0..MaxActs /\ keys \in 0..MaxKeys /\ failures \in 0..MaxFailures
      BY BoundsAssumption DEF TabInit
  <1>2. \A p \in DocPaths : NewText(p) \in PageText /\ NewText(p).of = p /\ NewText(p).ref = Nil
      BY BoundsAssumption DEF NewText, PageText
  <1>3. Send("load", Home, Nil, Nil) \in TabRequest
      BY <1>1, SendFits, PathsAssumption DEF RequestKinds
  <1>4. TextFits(Send("load", Home, Nil, Nil))
      BY QuestionFits
  <1>5. pages \in [DocPaths -> PageText \cup {Nil}] /\ PagesKeepTheirText
      BY <1>2 DEF TabInit, PagesKeepTheirText
  <1>6. view \in View /\ DraftFits
      BY DEF TabInit, View, DraftFits
  <1>7. route \in Key /\ key \in Key /\ sidebar \in Sidebar
      BY PathsAssumption DEF TabInit, Key, Sidebar
  <1>8. odd \subseteq {"late", "hasty", "lost"} /\ net \subseteq TabRequest /\ TextsFit
      BY <1>3, <1>4 DEF TabInit, TextsFit
  <1> QED  BY <1>1, <1>5, <1>6, <1>7, <1>8 DEF TextInv, TabTypeOK

\* The steps of the user.
LEMMA OpenKeeps ==
  ASSUME TextInv, NEW p \in DocPaths, NEW ref \in Refs \cup {Nil}, Open(p, ref)
  PROVE  TextInv'
  <1> USE DEF TextInv
  <1>1. /\ pages' = pages /\ sidebar' = sidebar
        /\ keys' = keys /\ failures' = failures
        /\ acts' \in 0..MaxActs /\ route' \in Key
      BY BoundsAssumption DEF Open, Act, TabTypeOK, Key
  <1>2. /\ key' \in Key /\ view' \in View /\ net' \subseteq TabRequest
        /\ DraftFits' /\ TextsFit' /\ odd' \subseteq {"late", "hasty", "lost"}
    <2>1. CASE key = route'
        BY <2>1 DEF Open, TabTypeOK, DraftFits, TextsFit
    <2>2. CASE key # route'
      <3>1. LoadPage(p, ref, net)
          BY <2>2 DEF Open
      <3> QED  BY <3>1, FetchKeeps
    <2> QED  BY <2>1, <2>2
  <1> QED  BY <1>1, <1>2 DEF TabTypeOK, PagesKeepTheirText

LEMMA RetryKeeps == ASSUME TextInv, Retry PROVE TextInv'
  <1> USE DEF TextInv
  <1>1. /\ pages' = pages /\ sidebar' = sidebar /\ route' = route
        /\ keys' = keys /\ failures' = failures /\ acts' \in 0..MaxActs
      BY BoundsAssumption DEF Retry, Act, TabTypeOK
  <1>2. route.path \in DocPaths /\ LoadPage(route.path, Nil, net)
      BY DEF Retry, TabTypeOK, Key
  <1>3. /\ key' \in Key /\ view' \in View /\ net' \subseteq TabRequest
        /\ DraftFits' /\ TextsFit' /\ odd' = {}
      BY <1>2, FetchKeeps
  <1> QED  BY <1>1, <1>3 DEF TabTypeOK, PagesKeepTheirText

LEMMA ToggleEditKeeps == ASSUME TextInv, ToggleEdit PROVE TextInv'
  <1> USE DEF TextInv
  <1>1. view' \in View /\ view'.doc = view.doc /\ view'.draft = view.draft
      BY DEF ToggleEdit, TabTypeOK, View
  <1>2. DraftFits'
      BY <1>1 DEF DraftFits
  <1> QED  BY <1>1, <1>2 DEF ToggleEdit, TabTypeOK, TextsFit, PagesKeepTheirText

LEMMA TypeKeeps == ASSUME TextInv, Type PROVE TextInv'
  <1> USE DEF TextInv
  <1>1. keys + 1 \in 0..MaxKeys
      BY BoundsAssumption DEF Type, TabTypeOK
  <1>2. view.doc # Nil /\ view.draft \in PageText
      BY DEF Type, DocShown, DraftFits, TabTypeOK, View
  <1>3. [view.draft EXCEPT !.n = keys + 1] \in PageText
      BY <1>1, <1>2 DEF PageText
  <1>4. view' = [view EXCEPT !.draft = [view.draft EXCEPT !.n = keys + 1]]
      BY DEF Type
  <1>5. view' \in View
      BY <1>3, <1>4 DEF TabTypeOK, View
  <1>6. [view.draft EXCEPT !.n = keys + 1] # Nil
      BY <1>3, NilAssumption
  <1>7. /\ [view.draft EXCEPT !.n = keys + 1].of = view.draft.of
        /\ [view.draft EXCEPT !.n = keys + 1].ref = view.draft.ref
      BY <1>2 DEF PageText
  <1>8. view'.doc = view.doc /\ view'.draft = [view.draft EXCEPT !.n = keys + 1]
      BY <1>4 DEF TabTypeOK, View
  <1>9. DraftFits'
      BY <1>6, <1>7, <1>8 DEF DraftFits
  <1> QED  BY <1>1, <1>5, <1>9 DEF Type, TabTypeOK, TextsFit, PagesKeepTheirText

LEMMA SaveKeeps == ASSUME TextInv, SaveDraft PROVE TextInv'
  <1> USE DEF TextInv
  <1>1. /\ view.doc \in Doc /\ view.doc.ref = Nil
        /\ view.draft \in PageText /\ view.draft # Nil
        /\ view.draft.of = view.doc.path /\ view.draft.ref = Nil
      BY DEF SaveDraft, Editable, DraftFits, TabTypeOK, View
  <1>2. Target \in DocPaths /\ view.draft.of = Target
      BY <1>1 DEF Target, Doc
  <1>3. Send("save", Target, Nil, view.draft) \in TabRequest
      BY <1>1, <1>2, SendFits DEF TabTypeOK, RequestKinds
  <1>4. TextFits(Send("save", Target, Nil, view.draft))
      BY <1>1, <1>2 DEF Send, TextFits
  <1>5. net' \subseteq TabRequest /\ TextsFit'
      BY <1>3, <1>4 DEF SaveDraft, TabTypeOK, TextsFit
  <1>6. view' \in View /\ DraftFits'
      BY DEF SaveDraft, TabTypeOK, View, DraftFits
  <1>7. acts' \in 0..MaxActs /\ odd' \subseteq {"late", "hasty", "lost"}
      BY BoundsAssumption DEF SaveDraft, Act, TabTypeOK
  <1> QED  BY <1>5, <1>6, <1>7 DEF SaveDraft, TabTypeOK, PagesKeepTheirText

LEMMA PressKeeps ==
  ASSUME TextInv, NEW kind \in {"create", "delete"}, NEW p \in DocPaths,
         NEW text \in PageText \cup {Nil}, TextFits(Send(kind, p, Nil, text)),
         Click(kind, p, text)
  PROVE  TextInv'
  <1> USE DEF TextInv
  <1>1. Send(kind, p, Nil, text) \in TabRequest
      BY SendFits DEF TabTypeOK, RequestKinds
  <1>2. net' \subseteq TabRequest /\ TextsFit'
      BY <1>1 DEF Click, TabTypeOK, TextsFit
  <1>3. acts' \in 0..MaxActs
      BY BoundsAssumption DEF Click, Act, TabTypeOK
  <1> QED  BY <1>2, <1>3 DEF Click, TabTypeOK, DraftFits, PagesKeepTheirText

LEMMA CreateKeeps == ASSUME TextInv, Create PROVE TextInv'
  <1> DEFINE p == view.notFound
  <1>1. p \in DocPaths
      BY DEF Create, TextInv, TabTypeOK, View
  <1>2. NewText(p) \in PageText /\ NewText(p).of = p /\ NewText(p).ref = Nil
      BY <1>1, BoundsAssumption DEF NewText, PageText
  <1>3. NewText(p) # Nil
      BY <1>2, NilAssumption
  <1>4. TextFits(Send("create", p, Nil, NewText(p)))
      BY <1>2, <1>3 DEF Send, TextFits
  <1> QED  BY <1>1, <1>2, <1>4, PressKeeps DEF Create

LEMMA DeleteKeeps == ASSUME TextInv, Delete PROVE TextInv'
  <1>1. view.doc.path \in DocPaths
      BY DEF Delete, DocShown, TextInv, TabTypeOK, View, Doc
  <1>2. TextFits(Send("delete", view.doc.path, Nil, Nil))
      BY DEF Send, TextFits
  <1> QED  BY <1>1, <1>2, PressKeeps DEF Delete

-----------------------------------------------------------------------------
\* The steps of the server.
LEMMA ServeKeeps == ASSUME TextInv, NEW r \in net, Serve(r) PROVE TextInv'
  <1> USE DEF TextInv
  <1>1. r \in TabRequest /\ TextFits(r)
      BY DEF TabTypeOK, TextsFit
  <1>2. view' = view /\ route' = route /\ key' = key /\ sidebar' = sidebar /\ odd' = odd
        /\ acts' = acts /\ keys' = keys /\ failures' = failures
      BY DEF Serve
  <1>3. /\ net' \subseteq TabRequest /\ TextsFit'
        /\ pages' \in [DocPaths -> PageText \cup {Nil}] /\ PagesKeepTheirText'
    <2>1. CASE r.kind = "load"
      <3>1. pages' = pages
          BY <2>1 DEF Serve
      <3>2. PICK state \in {"ok", "missing"}, text \in PageText \cup {Nil} :
              /\ Become(r, state, text)
              /\ TextFits([r EXCEPT !.state = state, !.text = text])
        <4>1. CASE r.ref # Nil
          <5> DEFINE old == [of |-> r.path, ref |-> r.ref, n |-> 0]
          <5>1. old \in PageText /\ old.of = r.path /\ old.ref = r.ref
              BY <1>1, <4>1, BoundsAssumption DEF TabRequest, PageText
          <5>2. old # Nil
              BY <5>1, NilAssumption
          <5>3. TextFits([r EXCEPT !.state = "ok", !.text = old])
              BY <1>1, <2>1, <5>1, <5>2 DEF TabRequest, TextFits
          <5>4. TextFits([r EXCEPT !.state = "missing", !.text = Nil])
              BY <1>1, <2>1 DEF TabRequest, TextFits
          <5>5. Become(r, "ok", old) \/ Become(r, "missing", Nil)
              BY <2>1, <4>1 DEF Serve
          <5> QED  BY <5>1, <5>3, <5>4, <5>5
        <4>2. CASE r.ref = Nil /\ pages[r.path] = Nil
          <5>1. TextFits([r EXCEPT !.state = "missing", !.text = Nil])
              BY <1>1, <2>1 DEF TabRequest, TextFits
          <5>2. Become(r, "missing", Nil)
              BY <2>1, <4>2 DEF Serve
          <5> QED  BY <5>1, <5>2
        <4>3. CASE r.ref = Nil /\ pages[r.path] # Nil
          <5> DEFINE page == pages[r.path]
          <5>1. page \in PageText \cup {Nil} /\ page.of = r.path /\ page.ref = Nil
              BY <1>1, <4>3 DEF TabRequest, TabTypeOK, PagesKeepTheirText
          <5>2. TextFits([r EXCEPT !.state = "ok", !.text = page])
              BY <1>1, <2>1, <4>3, <5>1 DEF TabRequest, TextFits
          <5>3. Become(r, "ok", page)
              BY <2>1, <4>3 DEF Serve
          <5> QED  BY <5>1, <5>2, <5>3
        <4> QED  BY <4>1, <4>2, <4>3
      <3>3. net' \subseteq TabRequest /\ TextsFit'
          BY <3>2, BecomeKeeps
      <3> QED  BY <3>1, <3>3 DEF TabTypeOK, PagesKeepTheirText
    <2>2. CASE r.kind \in {"save", "create"}
      <3>1. Become(r, "ok", r.text) /\ Store(r)
          BY <2>2 DEF Serve
      <3>2. TextFits([r EXCEPT !.state = "ok", !.text = r.text])
          BY <1>1, <2>2 DEF TabRequest, TextFits
      <3>3. r.text \in PageText \cup {Nil}
          BY <1>1 DEF TabRequest
      <3>4. net' \subseteq TabRequest /\ TextsFit'
          BY <3>1, <3>2, <3>3, BecomeKeeps
      <3> QED  BY <2>2, <3>1, <3>4, StoreKeeps
    <2>3. CASE r.kind = "delete"
      <3>1. PICK state \in {"ok", "missing"} : Become(r, state, Nil)
          BY <2>3 DEF Serve
      <3>2. TextFits([r EXCEPT !.state = state, !.text = Nil])
          BY <1>1, <2>3 DEF TabRequest, TextFits
      <3>3. net' \subseteq TabRequest /\ TextsFit'
          BY <3>1, <3>2, BecomeKeeps
      <3>4. Store(r)
          BY <2>3 DEF Serve
      <3> QED  BY <2>3, <3>3, <3>4, StoreKeeps
    <2> QED  BY <1>1, <2>1, <2>2, <2>3 DEF Serve, TabRequest, RequestKinds
  <1> QED  BY <1>2, <1>3 DEF TabTypeOK, DraftFits

LEMMA FailsKeeps == ASSUME TextInv, NEW r \in net, Fails(r) PROVE TextInv'
  <1> USE DEF TextInv
  <1>1. r \in TabRequest /\ TextFits(r)
      BY DEF TabTypeOK, TextsFit
  <1>2. r.text \in PageText \cup {Nil}
      BY <1>1 DEF TabRequest
  <1>3. TextFits([r EXCEPT !.state = "failed", !.text = r.text])
      BY <1>1 DEF TabRequest, TextFits
  <1>4. net' \subseteq TabRequest /\ TextsFit'
      BY <1>2, <1>3, BecomeKeeps DEF Fails
  <1>5. /\ pages' \in [DocPaths -> PageText \cup {Nil}] /\ PagesKeepTheirText'
        /\ odd' \subseteq {"late", "hasty", "lost"}
    <2>1. CASE UNCHANGED <<pages, odd>>
        BY <2>1 DEF TabTypeOK, PagesKeepTheirText
    <2>2. CASE r.kind \in {"save", "create", "delete"} /\ Store(r)
               /\ odd' = odd \cup {"lost"}
        BY <2>2, StoreKeeps DEF TabTypeOK
    <2> QED  BY <2>1, <2>2 DEF Fails
  <1>6. failures' \in 0..MaxFailures
      BY BoundsAssumption DEF Fails, TabTypeOK
  <1> QED  BY <1>4, <1>5, <1>6 DEF Fails, TabTypeOK, DraftFits

-----------------------------------------------------------------------------
\* Answers.
LEMMA LoadedKeeps == ASSUME TextInv, NEW r \in net, Loaded(r) PROVE TextInv'
  <1> USE DEF TextInv
  <1>1. r \in TabRequest /\ TextFits(r) /\ r.path \in DocPaths /\ r.ref \in Refs \cup {Nil}
      BY DEF TabTypeOK, TextsFit, TabRequest
  <1>2. /\ pages' = pages /\ route' = route /\ key' = key /\ acts' = acts
        /\ keys' = keys /\ failures' = failures
        /\ odd' \subseteq {"late", "hasty", "lost"}
      BY DEF Loaded, Belated, TabTypeOK
  <1>3. view' \in View /\ DraftFits'
    <2>1. CASE Found(r)
      <3>1. /\ r.text \in PageText /\ r.text # Nil
            /\ r.text.of = r.path /\ r.text.ref = r.ref
          BY <1>1, <2>1 DEF Found, Loaded, TabRequest, TextFits
      <3> DEFINE d == [path |-> r.path, ref |-> r.ref, text |-> r.text]
      <3>2. d \in Doc
          BY <1>1, <3>1 DEF Doc
      <3>3. view' = [view EXCEPT !.loading = FALSE, !.doc = d, !.draft = r.text]
          BY <2>1 DEF Loaded, Found, TabTypeOK, View
      <3>4. view' \in View /\ view'.doc = d /\ view'.draft = r.text
          BY <3>1, <3>2, <3>3 DEF TabTypeOK, View
      <3> QED  BY <3>1, <3>4 DEF DraftFits
    <2>2. CASE ~Found(r)
      <3>1. view' \in View /\ view'.doc = view.doc /\ view'.draft = view.draft
          BY <1>1, <2>2 DEF Loaded, TabTypeOK, View
      <3> QED  BY <3>1 DEF DraftFits
    <2> QED  BY <2>1, <2>2
  <1>4. net' \subseteq TabRequest /\ TextsFit' /\ sidebar' \in Sidebar
    <2>1. CASE Found(r)
      <3>1. net' = Ask(r.path, net \ {r}) /\ sidebar' = [sidebar EXCEPT !.wanted = r.path]
          BY <2>1 DEF Loaded
      <3> QED  BY <1>1, <3>1, AskKeeps DEF TabTypeOK, TextsFit, Sidebar
    <2>2. CASE ~Found(r)
        BY <2>2 DEF Loaded, TabTypeOK, TextsFit
    <2> QED  BY <2>1, <2>2
  <1> QED  BY <1>2, <1>3, <1>4 DEF TabTypeOK, PagesKeepTheirText

LEMMA SavedKeeps == ASSUME TextInv, NEW r \in net, Saved(r) PROVE TextInv'
  <1> USE DEF TextInv
  <1>1. r \in TabRequest /\ TextFits(r) /\ r.path \in DocPaths
      BY DEF TabTypeOK, TextsFit, TabRequest
  <1>2. /\ pages' = pages /\ route' = route /\ key' = key /\ sidebar' = sidebar
        /\ acts' = acts /\ keys' = keys /\ failures' = failures
        /\ odd' \subseteq {"late", "hasty", "lost"}
      BY DEF Saved, Belated, TabTypeOK
  <1>3. view' \in View /\ DraftFits'
    <2>1. CASE Succeeded(r)
      <3>1. /\ r.text \in PageText /\ r.text # Nil
            /\ r.text.of = r.path /\ r.text.ref = Nil
          BY <1>1 DEF Saved, TabRequest, TextFits
      <3> DEFINE d == [path |-> r.path, ref |-> Nil, text |-> r.text]
      <3>2. d \in Doc
          BY <1>1, <3>1 DEF Doc
      <3>3. view' = [view EXCEPT !.doc = d, !.draft = r.text, !.save = "idle"]
          BY <2>1 DEF Saved
      <3>4. view' \in View /\ view'.doc = d /\ view'.draft = r.text
          BY <3>1, <3>2, <3>3 DEF TabTypeOK, View
      <3> QED  BY <3>1, <3>4 DEF DraftFits
    <2>2. CASE ~Succeeded(r)
      <3>1. view' = [view EXCEPT !.save = "error"]
          BY <2>2 DEF Saved
      <3> QED  BY <3>1 DEF TabTypeOK, View, DraftFits
    <2> QED  BY <2>1, <2>2
  <1>4. net' \subseteq TabRequest /\ TextsFit'
    <2>1. CASE net' = net \ {r}
        BY <2>1 DEF TabTypeOK, TextsFit
    <2>2. CASE sidebar.wanted # Nil /\ net' = Ask(sidebar.wanted, net \ {r})
      <3>1. sidebar.wanted \in DocPaths
          BY <2>2 DEF TabTypeOK, Sidebar
      <3> QED  BY <2>2, <3>1, AskKeeps DEF TextsFit
    <2> QED  BY <2>1, <2>2 DEF Saved
  <1> QED  BY <1>2, <1>3, <1>4 DEF TabTypeOK, PagesKeepTheirText

\* Created and Deleted load a document, or leave everything as it is.
LEMMA ReloadKeeps ==
  ASSUME TextInv, NEW r \in net, NEW p \in DocPaths,
         \/ LoadPage(p, Nil, net \ {r})
         \/ net' = net \ {r} /\ UNCHANGED <<key, view, odd>>,
         route' \in Key, UNCHANGED <<pages, sidebar, acts, keys, failures>>
  PROVE  TextInv'
  <1> USE DEF TextInv
  <1>1. /\ key' \in Key /\ view' \in View /\ net' \subseteq TabRequest
        /\ DraftFits' /\ TextsFit' /\ odd' \subseteq {"late", "hasty", "lost"}
    <2>1. CASE LoadPage(p, Nil, net \ {r})
        BY <2>1, FetchKeeps
    <2>2. CASE net' = net \ {r} /\ UNCHANGED <<key, view, odd>>
        BY <2>2 DEF TabTypeOK, DraftFits, TextsFit
    <2> QED  BY <2>1, <2>2
  <1> QED  BY <1>1 DEF TabTypeOK, PagesKeepTheirText

LEMMA CreatedKeeps == ASSUME TextInv, NEW r \in net, Created(r) PROVE TextInv'
  <1>1. route.path \in DocPaths /\ route' \in Key
      BY DEF Created, TextInv, TabTypeOK, Key
  <1> QED  BY <1>1, ReloadKeeps DEF Created

LEMMA DeletedKeeps == ASSUME TextInv, NEW r \in net, Deleted(r) PROVE TextInv'
  <1>1. Home \in DocPaths /\ route' \in Key
      BY PathsAssumption DEF Deleted, TextInv, TabTypeOK, Key
  <1> QED  BY <1>1, ReloadKeeps DEF Deleted

LEMMA ListedKeeps == ASSUME TextInv, NEW r \in net, Listed(r) PROVE TextInv'
  <1> USE DEF TextInv
  <1>1. r.path \in DocPaths
      BY DEF TabTypeOK, TabRequest
  <1>2. /\ sidebar' \in Sidebar /\ failures' \in 0..MaxFailures
        /\ odd' \subseteq {"late", "hasty", "lost"}
      BY <1>1, BoundsAssumption DEF Listed, TabTypeOK, Sidebar
  <1>3. net' \subseteq TabRequest /\ TextsFit'
      BY DEF Listed, TabTypeOK, TextsFit
  <1> QED  BY <1>2, <1>3 DEF Listed, TabTypeOK, DraftFits, PagesKeepTheirText

-----------------------------------------------------------------------------
LEMMA TextStep == ASSUME TextInv, [TabNext]_tabVars PROVE TextInv'
  <1>1. CASE \E p \in DocPaths, ref \in Refs \cup {Nil} : Open(p, ref)
      BY <1>1, OpenKeeps
  <1>2. CASE Retry
      BY <1>2, RetryKeeps
  <1>3. CASE ToggleEdit \/ Type
      BY <1>3, ToggleEditKeeps, TypeKeeps
  <1>4. CASE SaveDraft \/ Create \/ Delete
      BY <1>4, SaveKeeps, CreateKeeps, DeleteKeeps
  <1>5. ASSUME NEW r \in net, Serve(r) \/ Fails(r) PROVE TextInv'
      BY <1>5, ServeKeeps, FailsKeeps
  <1>6. ASSUME NEW r \in net, Loaded(r) \/ Saved(r) \/ Created(r) \/ Deleted(r) \/ Listed(r)
        PROVE  TextInv'
      BY <1>6, LoadedKeeps, SavedKeeps, CreatedKeeps, DeletedKeeps, ListedKeeps
  <1>7. CASE TabIdle \/ UNCHANGED tabVars
      BY <1>7 DEF TabIdle, tabVars, TextInv, TabTypeOK, DraftFits, TextsFit, PagesKeepTheirText
  <1> QED  BY <1>1, <1>2, <1>3, <1>4, <1>5, <1>6, <1>7 DEF TabNext

-----------------------------------------------------------------------------
\* Revisions are not edited.
Calm == AwaitedAlone /\ ClosedForRevisions

\* Nothing changes what is shown, and nothing is awaited that was not.
LEMMA CalmStays ==
  ASSUME Calm, odd \subseteq odd', view'.doc = view.doc, view'.editing = view.editing,
         \A q \in net' : q.now /\ q.kind \in {"load", "save"} => q \in net
  PROVE  Calm'
  BY DEF Calm, AwaitedAlone, Awaited, ClosedForRevisions

\* A load leaves all other requests behind.
LEMMA CalmFetch ==
  ASSUME TabTypeOK, NEW p, NEW ref, NEW rest \in SUBSET net, LoadPage(p, ref, rest)
  PROVE  Calm'
  <1>1. view'.doc = Nil /\ ~view'.editing
      BY DEF LoadPage, Cleared, TabTypeOK, View
  <1>2. \A q \in Left(rest) : ~q.now
      BY DEF Left, TabTypeOK, TabRequest
  <1>3. \A q \in net' : q.now => q = Send("load", p, ref, Nil)
      BY <1>2 DEF LoadPage
  <1> QED  BY <1>1, <1>3 DEF Calm, AwaitedAlone, Awaited, ClosedForRevisions

\* What is asked for the sidebar is neither.
LEMMA CalmAsk ==
  ASSUME NEW p, NEW rest
  PROVE  \A q \in Ask(p, rest) : q.now /\ q.kind \in {"load", "save"} => q \in rest
  BY DEF Ask, Send

\* A request becomes an answer.
LEMMA CalmBecome ==
  ASSUME TabTypeOK, Calm, NEW r \in net, NEW state, NEW text, Become(r, state, text),
         view' = view, odd \subseteq odd'
  PROVE  Calm'
  <1> DEFINE a == [r EXCEPT !.state = state, !.text = text]
  <1>1. a.kind = r.kind /\ a.now = r.now
      BY DEF TabTypeOK, TabRequest
  <1>2. net' = (net \ {r}) \cup {a}
      BY DEF Become
  <1> HIDE DEF a
  <1>3. ClosedForRevisions'
      BY DEF Calm, ClosedForRevisions
  <1>4. ASSUME "late" \notin odd', NEW s \in net', s.kind = "load", s.now
        PROVE  view.doc = Nil /\ ~view.editing
               /\ \A q \in net' : q.now /\ q.kind \in {"load", "save"} => q = s
      BY <1>1, <1>2, <1>4 DEF Calm, AwaitedAlone, Awaited
  <1> QED  BY <1>3, <1>4 DEF Calm, AwaitedAlone, Awaited

LEMMA CalmOpen ==
  ASSUME TabTypeOK, Calm, NEW p \in DocPaths, NEW ref \in Refs \cup {Nil}, Open(p, ref)
  PROVE  Calm'
  <1>1. CASE key = route'
      BY <1>1 DEF Open, Calm, AwaitedAlone, Awaited, ClosedForRevisions
  <1>2. CASE key # route'
      BY <1>2, CalmFetch DEF Open
  <1> QED  BY <1>1, <1>2

LEMMA CalmEdit == ASSUME TabTypeOK, Calm, ToggleEdit \/ Type \/ SaveDraft PROVE Calm'
  <1>1. CASE ToggleEdit
    <2>1. view'.doc = view.doc /\ view.doc # Nil /\ view.doc.ref = Nil
        BY <1>1 DEF ToggleEdit, Editable, TabTypeOK, View
    <2> QED  BY <1>1, <2>1 DEF ToggleEdit, Calm, AwaitedAlone, Awaited, ClosedForRevisions
  <1>2. CASE Type
    <2>1. view'.doc = view.doc /\ view'.editing = view.editing
        BY <1>2 DEF Type, TabTypeOK, View
    <2>2. odd' = odd /\ net' = net
        BY <1>2 DEF Type
    <2> QED  BY <2>1, <2>2, CalmStays
  <1>3. CASE SaveDraft
    <2>1. /\ view'.doc = view.doc /\ view'.editing = view.editing
          /\ view.doc # Nil /\ odd \subseteq odd'
        BY <1>3 DEF SaveDraft, Editable, TabTypeOK, View
    <2>2. \A q \in net' : q.kind = "load" => q \in net
        BY <1>3 DEF SaveDraft, Send
    <2> QED  BY <2>1, <2>2 DEF Calm, AwaitedAlone, Awaited, ClosedForRevisions
  <1> QED  BY <1>1, <1>2, <1>3

LEMMA CalmPress ==
  ASSUME Calm, NEW kind \in {"create", "delete"}, NEW p, NEW text, Click(kind, p, text)
  PROVE  Calm'
  <1>1. \A q \in net' : q.kind \in {"load", "save"} => q \in net
      BY DEF Click, Send
  <1> QED  BY <1>1, CalmStays DEF Click

LEMMA CalmServer ==
  ASSUME TabTypeOK, Calm, NEW r \in net, Serve(r) \/ Fails(r)
  PROVE  Calm'
  <1>1. view' = view /\ odd \subseteq odd'
      BY DEF Serve, Fails
  <1>2. PICK state, text : Become(r, state, text)
      BY DEF Serve, Fails, TabTypeOK, TabRequest, RequestKinds
  <1> QED  BY <1>1, <1>2, CalmBecome

LEMMA CalmLoaded == ASSUME TabTypeOK, Calm, NEW r \in net, Loaded(r) PROVE Calm'
  <1>1. CASE "late" \in odd'
      BY <1>1 DEF Calm, AwaitedAlone, ClosedForRevisions
  <1>2. CASE "late" \notin odd'
    <2>1. "late" \notin odd /\ r.now /\ r.kind = "load"
        BY <1>2 DEF Loaded, Belated
    <2>2. Awaited(r)
        BY <2>1 DEF Calm, AwaitedAlone
    <2>3. ~view'.editing
        BY <2>2 DEF Loaded, Awaited, TabTypeOK, View
    <2>4. \A q \in net' : q.now /\ q.kind \in {"load", "save"} => q \in net \ {r}
        BY CalmAsk DEF Loaded
    <2>5. \A q \in net' : ~(q.now /\ q.kind \in {"load", "save"})
        BY <2>2, <2>4 DEF Awaited
    <2> QED  BY <2>3, <2>5 DEF Calm, AwaitedAlone, ClosedForRevisions
  <1> QED  BY <1>1, <1>2

LEMMA CalmSaved == ASSUME TabTypeOK, Calm, NEW r \in net, Saved(r) PROVE Calm'
  <1>1. CASE "late" \in odd'
      BY <1>1 DEF Calm, AwaitedAlone, ClosedForRevisions
  <1>2. CASE "late" \notin odd'
    <2>1. "late" \notin odd /\ r.now /\ r.kind = "save"
        BY <1>2 DEF Saved, Belated
    <2>2. \A q \in net : ~(q.kind = "load" /\ q.now)
        BY <2>1 DEF Calm, AwaitedAlone, Awaited
    <2>3. \A q \in net' : q.now /\ q.kind \in {"load", "save"} => q \in net \ {r}
        BY CalmAsk DEF Saved
    <2>4. AwaitedAlone'
        BY <2>2, <2>3 DEF AwaitedAlone
    <2>5. ClosedForRevisions'
      <3>1. CASE Succeeded(r)
        <4> DEFINE d == [path |-> r.path, ref |-> Nil, text |-> r.text]
        <4>1. view' = [view EXCEPT !.doc = d, !.draft = r.text, !.save = "idle"]
            BY <3>1 DEF Saved
        <4>2. view'.doc = d
            BY <4>1 DEF TabTypeOK, View
        <4> QED  BY <4>2 DEF ClosedForRevisions
      <3>2. CASE ~Succeeded(r)
        <4>1. view'.doc = view.doc /\ view'.editing = view.editing
            BY <3>2 DEF Saved, TabTypeOK, View
        <4> QED  BY <2>1, <4>1 DEF Calm, ClosedForRevisions
      <3> QED  BY <3>1, <3>2
    <2> QED  BY <2>4, <2>5 DEF Calm
  <1> QED  BY <1>1, <1>2

LEMMA CalmOther ==
  ASSUME TabTypeOK, Calm, NEW r \in net, Created(r) \/ Deleted(r) \/ Listed(r)
  PROVE  Calm'
  <1>1. CASE \E p : LoadPage(p, Nil, net \ {r})
      BY <1>1, CalmFetch
  <1>2. CASE net' = net \ {r} /\ view' = view /\ odd \subseteq odd'
      BY <1>2, CalmStays
  <1> QED  BY <1>1, <1>2 DEF Created, Deleted, Listed

LEMMA CalmStep == ASSUME TabTypeOK, Calm, [TabNext]_tabVars PROVE Calm'
  <1>1. CASE \E p \in DocPaths, ref \in Refs \cup {Nil} : Open(p, ref)
      BY <1>1, CalmOpen
  <1>2. CASE Retry
      BY <1>2, CalmFetch DEF Retry
  <1>3. CASE ToggleEdit \/ Type \/ SaveDraft
      BY <1>3, CalmEdit
  <1>4. CASE Create \/ Delete
      BY <1>4, CalmPress DEF Create, Delete
  <1>5. ASSUME NEW r \in net, Serve(r) \/ Fails(r) PROVE Calm'
      BY <1>5, CalmServer
  <1>6. ASSUME NEW r \in net, Loaded(r) \/ Saved(r) \/ Created(r) \/ Deleted(r) \/ Listed(r)
        PROVE  Calm'
      BY <1>6, CalmLoaded, CalmSaved, CalmOther
  <1>7. CASE TabIdle \/ UNCHANGED tabVars
      BY <1>7 DEF TabIdle, tabVars, Calm, AwaitedAlone, Awaited, ClosedForRevisions
  <1> QED  BY <1>1, <1>2, <1>3, <1>4, <1>5, <1>6, <1>7 DEF TabNext

LEMMA InitCalm == ASSUME TabInit PROVE Calm
  <1>1. \A q \in net : q = Send("load", Home, Nil, Nil)
      BY DEF TabInit
  <1>2. view.doc = Nil /\ ~view.editing
      BY DEF TabInit
  <1> QED  BY <1>1, <1>2 DEF Calm, AwaitedAlone, Awaited, ClosedForRevisions

-----------------------------------------------------------------------------
\* What the tab shows and has under way fits its document, and nothing but the
\* page asked for last is awaited, whatever answers overtake each other and
\* whatever fails (document-store.ts).
THEOREM EditorInvariant == TabSpec => []TabInv
  <1>1. TabInit => TextInv /\ Calm
      BY InitTextInv, InitCalm
  <1>2. TextInv /\ Calm /\ [TabNext]_tabVars => TextInv' /\ Calm'
      BY TextStep, CalmStep DEF TextInv
  <1>3. TextInv /\ Calm => TabInv
      BY DEF Calm, TabInv
  <1> QED  BY <1>1, <1>2, <1>3, PTL DEF TabSpec

\* No document ever gets the text of another one or of a revision.
THEOREM TextsStayInPlace == TabSpec => []PagesKeepTheirText
  <1>1. TabInv => PagesKeepTheirText
      BY DEF TabInv, TextInv
  <1> QED  BY <1>1, EditorInvariant, PTL

-----------------------------------------------------------------------------
(***************************************************************************)
(* What is shown when everything has been answered                         *)
(***************************************************************************)
\* The load and the saves for the page that was asked for last.
LoadNow(r) == r.kind = "load" /\ r.now
SaveNow(r) == r.kind = "save" /\ r.now

\* Behind AddressShown: unless an answer was late, what is shown, said not to be
\* there or to have failed, awaited or being saved is the page asked for last.
KeyIsRoute == key.path = route.path

Awaiting == view.loading => \E r \in net : LoadNow(r)

Expected ==
  /\ view.doc # Nil =>
       /\ ~view.loading /\ ~view.error /\ view.notFound = Nil
       /\ view.doc.path = key.path /\ view.doc.ref = key.ref
  /\ view.doc = Nil =>
       \/ \E r \in net : LoadNow(r)
       \/ ~view.loading /\ (view.error \/ view.notFound = key.path)
  /\ \A r \in net : LoadNow(r) =>
       r.path = key.path /\ r.ref = key.ref /\ ~view.error /\ view.notFound = Nil
  /\ \A r \in net : SaveNow(r) =>
       view.doc # Nil /\ view.doc.path = r.path /\ view.doc.ref = Nil

AddressInv == KeyIsRoute /\ Awaiting /\ ("late" \notin odd => Expected)

\* Behind CommentsOfDoc: the comments of what is shown are listed or asked for.
CommentsInv ==
  odd = {} /\ view.doc # Nil =>
    /\ sidebar.wanted = view.doc.path
    /\ \/ sidebar.listed = view.doc.path
       \/ \E r \in net : r.kind = "comments" /\ r.path = view.doc.path

\* Behind ShownIsStored: a reload is coming, or an answer that will be late.
Pending ==
  \E r \in net : \/ r.kind \in {"create", "delete"} /\ r.state = "ok"
                 \/ r.kind = "save" /\ ~r.now

\* Otherwise the answers on their way, and what is shown, are what the server has.
OneSave == "hasty" \notin odd => \A q, r \in net : SaveNow(q) /\ SaveNow(r) => q = r

Current(r) ==
  r.state = "ok" /\ (SaveNow(r) \/ (LoadNow(r) /\ r.ref = Nil)) => pages[r.path] = r.text

StoredInv ==
  /\ OneSave
  /\ odd = {} /\ ~Pending =>
       /\ \A r \in net : Current(r)
       /\ Editable => \/ pages[view.doc.path] = view.doc.text
                      \/ \E r \in net : SaveNow(r) /\ r.state = "ok"

Quiet == TextInv /\ Calm
Settling == AddressInv /\ CommentsInv /\ StoredInv

\* A load replaces everything that was awaited.
LEMMA SettlingFetch ==
  ASSUME TabTypeOK, Settling, NEW p \in DocPaths, NEW ref \in Refs \cup {Nil},
         NEW rest \in SUBSET net, LoadPage(p, ref, rest), route'.path = p,
         UNCHANGED <<pages, sidebar>>
  PROVE  Settling'
  <1> DEFINE a == Send("load", p, ref, Nil)
  <1>1. /\ view'.doc = Nil /\ ~view'.error /\ view'.notFound = Nil
        /\ key' = [path |-> p, ref |-> ref]
      BY DEF LoadPage, Cleared, TabTypeOK, View
  <1>2. LoadNow(a) /\ a.path = p /\ a.ref = ref /\ a.state = "sent" /\ a.kind = "load"
      BY DEF Send, LoadNow
  <1>3. net' = Left(rest) \cup {a}
      BY DEF LoadPage
  <1> HIDE DEF a
  <1>4. \A q \in Left(rest) : ~q.now
      BY DEF Left, TabTypeOK, TabRequest
  <1>5. AddressInv'
      BY <1>1, <1>2, <1>3, <1>4 DEF AddressInv, KeyIsRoute, Awaiting, Expected, LoadNow, SaveNow
  <1>6. CommentsInv'
      BY <1>1 DEF CommentsInv
  <1>7. OneSave'
      BY <1>2, <1>3, <1>4 DEF OneSave, SaveNow
  <1>8. ASSUME ~Pending' PROVE \A r \in net' : Current(r)'
      BY <1>2, <1>3, <1>4, <1>8 DEF Pending, Current, SaveNow, LoadNow
  <1>9. ~Editable'
      BY <1>1 DEF Editable
  <1> QED  BY <1>5, <1>6, <1>7, <1>8, <1>9 DEF Settling, StoredInv

\* Questions that are neither loads nor saves, and answers that change nothing.
LEMMA SettlingOther ==
  ASSUME Settling, UNCHANGED <<pages, key, sidebar, odd>>, route'.path = route.path,
         view'.doc = view.doc, view'.loading = view.loading, view'.error = view.error,
         view'.notFound = view.notFound,
         \A r \in net' \ net : r.kind \in {"create", "delete"} /\ r.state = "sent",
         \A r \in net \ net' : r.kind \in {"create", "delete"} /\ r.state # "ok"
  PROVE  Settling'
  <1>1. AddressInv'
      BY DEF Settling, AddressInv, KeyIsRoute, Awaiting, Expected, LoadNow, SaveNow
  <1>2. CommentsInv'
      BY DEF Settling, CommentsInv
  <1>3. Pending => Pending'
      BY DEF Pending
  <1>4. OneSave'
      BY DEF Settling, StoredInv, OneSave, SaveNow
  <1>5. Editable' = Editable
      BY DEF Editable
  <1>6. (\A r \in net : Current(r)) => \A r \in net' : Current(r)'
      BY DEF Current, SaveNow, LoadNow
  <1>7. (\E r \in net : SaveNow(r) /\ r.state = "ok")
          => \E r \in net' : SaveNow(r)' /\ r.state = "ok"
      BY DEF SaveNow
  <1>8. StoredInv'
      BY <1>3, <1>4, <1>5, <1>6, <1>7 DEF Settling, StoredInv, SaveNow
  <1> QED  BY <1>1, <1>2, <1>8 DEF Settling

LEMMA SettlingOpen ==
  ASSUME TabTypeOK, Settling, NEW p \in DocPaths, NEW ref \in Refs \cup {Nil}, Open(p, ref)
  PROVE  Settling'
  <1>1. route' = [path |-> p, ref |-> ref] /\ UNCHANGED <<pages, sidebar>>
      BY DEF Open
  <1>2. CASE key = route'
    <2>1. UNCHANGED <<key, view, net, odd>>
        BY <1>2 DEF Open
    <2>2. key.path = route.path
        BY DEF Settling, AddressInv, KeyIsRoute
    <2> QED  BY <1>1, <1>2, <2>1, <2>2, SettlingOther
  <1>3. CASE key # route'
      BY <1>1, <1>3, SettlingFetch DEF Open
  <1> QED  BY <1>2, <1>3

LEMMA SettlingSave == ASSUME TabTypeOK, Settling, SaveDraft PROVE Settling'
  <1> DEFINE a == Send("save", Target, Nil, view.draft)
  <1>1. /\ view'.doc = view.doc /\ view'.loading = view.loading
        /\ view'.error = view.error /\ view'.notFound = view.notFound
        /\ UNCHANGED <<pages, key, sidebar, route>>
        /\ view.doc # Nil /\ view.doc.ref = Nil
      BY DEF SaveDraft, Editable, TabTypeOK, View
  <1>2. a.kind = "save" /\ a.now /\ a.path = view.doc.path /\ a.state = "sent"
      BY DEF Send, Target
  <1>3. net' = net \cup {a}
      BY DEF SaveDraft
  <1>4. odd \subseteq odd' /\ ("hasty" \notin odd' => \A r \in net : ~SaveNow(r))
      BY DEF SaveDraft, SaveNow
  <1> HIDE DEF a
  <1>5. AddressInv'
    <2>0. Awaiting'
        BY <1>1, <1>3 DEF Settling, AddressInv, Awaiting, LoadNow
    <2> SUFFICES ASSUME "late" \notin odd' PROVE Expected'
        BY <1>1, <2>0 DEF Settling, AddressInv, KeyIsRoute
    <2>1. Expected
        BY <1>4 DEF Settling, AddressInv
    <2> QED  BY <1>1, <1>2, <1>3, <2>1 DEF Expected, LoadNow, SaveNow
  <1>6. CommentsInv'
      BY <1>1, <1>3, <1>4 DEF Settling, CommentsInv
  <1>7. OneSave'
      BY <1>2, <1>3, <1>4 DEF OneSave, SaveNow
  <1>8. odd' = {} /\ ~Pending' => odd = {} /\ ~Pending
      BY <1>3, <1>4 DEF Pending
  <1>9. (\A r \in net : Current(r)) => \A r \in net' : Current(r)'
      BY <1>1, <1>2, <1>3 DEF Current, SaveNow, LoadNow
  <1>10. (\E r \in net : SaveNow(r) /\ r.state = "ok")
           => \E r \in net' : SaveNow(r)' /\ r.state = "ok"
      BY <1>3 DEF SaveNow
  <1>11. Editable' = Editable
      BY <1>1 DEF Editable
  <1>12. StoredInv'
      BY <1>1, <1>7, <1>8, <1>9, <1>10, <1>11 DEF Settling, StoredInv, SaveNow
  <1> QED  BY <1>5, <1>6, <1>12 DEF Settling

\* How an answer comes about, and what it does to the pages.
Effect(r, state, text) ==
  \/ state = "failed" /\ (UNCHANGED pages \/ odd' # {})
  \/ /\ r.kind = "load" /\ UNCHANGED pages
     /\ r.ref = Nil /\ state = "ok" => text = pages[r.path]
  \/ r.kind \in {"save", "create"} /\ state = "ok" /\ text = r.text /\ Store(r)
  \/ r.kind = "delete" /\ state = "ok"
  \/ r.kind = "delete" /\ state = "missing" /\ UNCHANGED pages

LEMMA ServerEffect ==
  ASSUME TabTypeOK, NEW r \in net, TextFits(r), Serve(r) \/ Fails(r)
  PROVE  \E state, text : Become(r, state, text) /\ Effect(r, state, text)
  <1>0. r \in TabRequest
      BY DEF TabTypeOK
  <1>1. CASE Fails(r)
      BY <1>1 DEF Fails, Effect
  <1>2. CASE Serve(r) /\ r.kind = "load"
    <2>1. pages' = pages
        BY <1>2 DEF Serve
    <2>2. CASE r.ref # Nil
        BY <1>2, <2>1, <2>2 DEF Serve, Effect
    <2>3. CASE r.ref = Nil
      <3>1. Become(r, "missing", Nil) \/ Become(r, "ok", pages[r.path])
          BY <1>2, <2>3 DEF Serve
      <3>2. Effect(r, "missing", Nil) /\ Effect(r, "ok", pages[r.path])
          BY <1>2, <2>1 DEF Effect
      <3> QED  BY <3>1, <3>2
    <2> QED  BY <2>2, <2>3
  <1>3. CASE Serve(r) /\ r.kind \in {"save", "create"}
      BY <1>3 DEF Serve, Effect
  <1>4. CASE Serve(r) /\ r.kind = "delete"
    <2>1. Store(r) /\ r.text = Nil
        BY <1>4 DEF Serve, TextFits
    <2>2. CASE pages[r.path] = Nil
      <3>1. pages' = pages
          BY <2>1, <2>2 DEF Store, TabTypeOK
      <3> QED  BY <1>4, <2>2, <3>1 DEF Serve, Effect
    <2>3. CASE pages[r.path] # Nil
        BY <1>4, <2>3 DEF Serve, Effect
    <2> QED  BY <2>2, <2>3
  <1> QED  BY <1>0, <1>1, <1>2, <1>3, <1>4 DEF Serve, TabRequest, RequestKinds

\* A request becomes an answer: nothing is shown, and a page may change.
LEMMA SettlingServer ==
  ASSUME Quiet, Settling, NEW r \in net, Serve(r) \/ Fails(r)
  PROVE  Settling'
  <1>0. TabTypeOK /\ r \in TabRequest /\ TextFits(r)
      BY DEF Quiet, TextInv, TabTypeOK, TextsFit
  <1>1. /\ UNCHANGED <<route, key, view, sidebar>> /\ odd \subseteq odd'
        /\ r.state = "sent" /\ r.kind # "comments"
      BY DEF Serve, Fails
  <1>2. PICK state, text : Become(r, state, text) /\ Effect(r, state, text)
      BY <1>0, ServerEffect
  <1> DEFINE a == [r EXCEPT !.state = state, !.text = text]
  <1>3. /\ a.kind = r.kind /\ a.now = r.now /\ a.path = r.path /\ a.ref = r.ref
        /\ a.state = state /\ a.text = text
      BY <1>0 DEF TabRequest
  <1>4. net' = (net \ {r}) \cup {a}
      BY <1>2 DEF Become
  <1> HIDE DEF a
  <1>5. AddressInv'
    <2>0. Awaiting'
        BY <1>1, <1>3, <1>4 DEF Settling, AddressInv, Awaiting, LoadNow
    <2> SUFFICES ASSUME "late" \notin odd' PROVE Expected'
        BY <1>1, <2>0 DEF Settling, AddressInv, KeyIsRoute
    <2>1. Expected
        BY <1>1 DEF Settling, AddressInv
    <2> QED  BY <1>1, <1>3, <1>4, <2>1 DEF Expected, LoadNow, SaveNow
  <1>6. CommentsInv'
    <2>1. \A q \in net : q.kind = "comments" => q \in net'
        BY <1>1, <1>4
    <2>2. odd' = {} => odd = {}
        BY <1>1
    <2> QED  BY <1>1, <2>1, <2>2 DEF Settling, CommentsInv
  <1>7. OneSave'
    <2> SUFFICES ASSUME "hasty" \notin odd' PROVE OneSave'
        BY DEF OneSave
    <2>1. \A p, q \in net : SaveNow(p) /\ SaveNow(q) => p = q
        BY <1>1 DEF Settling, StoredInv, OneSave
    <2> QED  BY <1>3, <1>4, <2>1 DEF OneSave, SaveNow
  <1>8. ASSUME odd' = {}, ~Pending'
        PROVE  /\ \A q \in net' : Current(q)'
               /\ Editable' => \/ pages'[view'.doc.path] = view'.doc.text
                               \/ \E q \in net' : SaveNow(q) /\ q.state = "ok"
    <2>0. odd = {}
        BY <1>1, <1>8
    <2>1. ~Pending
      <3>1. r.kind \in {"create", "delete"} /\ r.state = "ok" => FALSE
          BY <1>1
      <3> QED  BY <1>3, <1>4, <1>8, <3>1 DEF Pending
    <2>2. /\ \A q \in net : Current(q)
          /\ Editable => \/ pages[view.doc.path] = view.doc.text
                         \/ \E q \in net : SaveNow(q) /\ q.state = "ok"
        BY <2>0, <2>1 DEF Settling, StoredInv
    <2>3. \A q \in net : SaveNow(q) /\ q.state = "ok" => q \in net'
        BY <1>1, <1>4
    <2>4. Editable' = Editable
        BY <1>1 DEF Editable
    <2>5. ASSUME pages' = pages, Current(a)
          PROVE  /\ \A q \in net' : Current(q)'
                 /\ Editable' => \/ pages'[view'.doc.path] = view'.doc.text
                                 \/ \E q \in net' : SaveNow(q) /\ q.state = "ok"
        BY <1>1, <1>4, <2>2, <2>3, <2>4, <2>5 DEF Current
    <2>6. CASE state = "failed"
        BY <1>2, <1>3, <1>8, <2>5, <2>6 DEF Effect, Current
    <2>7. CASE /\ r.kind = "load" /\ UNCHANGED pages
               /\ r.ref = Nil /\ state = "ok" => text = pages[r.path]
        BY <1>3, <2>5, <2>7 DEF Current, SaveNow
    <2>8. CASE r.kind \in {"create", "delete"} /\ state = "ok"
        BY <1>3, <1>4, <1>8, <2>8 DEF Pending
    <2>9. CASE r.kind = "delete" /\ UNCHANGED pages
        BY <1>3, <2>5, <2>9 DEF Current, SaveNow, LoadNow
    <2>10. CASE r.kind = "save" /\ state = "ok" /\ text = r.text /\ Store(r)
      <3>1. r.now
          BY <1>3, <1>4, <1>8, <2>10 DEF Pending
      <3>2. \A q \in net : ~LoadNow(q) /\ (SaveNow(q) => q = r)
          BY <2>0, <2>10, <3>1 DEF Quiet, Calm, AwaitedAlone, Awaited, LoadNow,
                                   Settling, StoredInv, OneSave, SaveNow
      <3>3. pages'[a.path] = a.text
          BY <1>0, <1>3, <2>10 DEF Store, TabTypeOK, TabRequest
      <3>4. \A q \in net' : Current(q)'
          BY <1>3, <1>4, <2>10, <3>2, <3>3 DEF Current, SaveNow, LoadNow
      <3>5. a \in net' /\ SaveNow(a) /\ a.state = "ok"
          BY <1>3, <1>4, <2>10, <3>1 DEF SaveNow
      <3> QED  BY <3>4, <3>5
    <2> QED  BY <1>2, <2>6, <2>7, <2>8, <2>9, <2>10 DEF Effect
  <1>9. StoredInv'
      BY <1>7, <1>8 DEF StoredInv, SaveNow
  <1> QED  BY <1>5, <1>6, <1>9 DEF Settling

\* The page asked for last is shown, or is not there.
LEMMA SettlingLoaded ==
  ASSUME Quiet, Settling, NEW r \in net, Loaded(r) PROVE Settling'
  <1>0. TabTypeOK /\ r \in TabRequest
      BY DEF Quiet, TextInv, TabTypeOK
  <1>1. /\ UNCHANGED <<pages, route, key>> /\ odd \subseteq odd'
        /\ r.kind = "load" /\ r.state # "sent"
        /\ "late" \notin odd' => r.now /\ odd' = odd
      BY DEF Loaded, Belated
  <1>2. /\ view'.loading = FALSE
        /\ view'.doc = IF Found(r) THEN [path |-> r.path, ref |-> r.ref, text |-> r.text]
                                   ELSE view.doc
        /\ view'.notFound = IF r.state = "missing" THEN r.path ELSE view.notFound
        /\ view'.error = IF r.state = "failed" THEN TRUE ELSE view.error
      BY <1>0 DEF Loaded, TabTypeOK, View
  <1>3. /\ \A q \in net' \ net : q.kind = "comments"
        /\ \A q \in net \ net' : q = r
        /\ r \notin net'
      BY <1>1 DEF Loaded, Ask, Send
  <1>4. Awaiting'
      BY <1>2 DEF Awaiting
  <1>5. CASE "late" \in odd'
    <2>1. AddressInv' /\ CommentsInv'
        BY <1>1, <1>5, <1>4 DEF Settling, AddressInv, KeyIsRoute, CommentsInv
    <2>2. OneSave'
        BY <1>1, <1>3 DEF Settling, StoredInv, OneSave, SaveNow
    <2> QED  BY <1>5, <2>1, <2>2 DEF Settling, StoredInv
  <1>6. CASE "late" \notin odd'
    <2>1. r.now /\ odd' = odd /\ LoadNow(r)
        BY <1>1, <1>6 DEF LoadNow
    <2>2. /\ view.doc = Nil
          /\ \A q \in net : LoadNow(q) \/ SaveNow(q) => q = r
        BY <1>6, <2>1 DEF Quiet, Calm, AwaitedAlone, Awaited, LoadNow, SaveNow
    <2>3. r.path = key.path /\ r.ref = key.ref /\ ~view.error /\ view.notFound = Nil
        BY <1>6, <2>1 DEF Settling, AddressInv, Expected
    <2>4. \A q \in net' : ~LoadNow(q) /\ ~SaveNow(q)
        BY <1>3, <2>2 DEF LoadNow, SaveNow
    <2>5. r.state \in {"ok", "missing", "failed"} /\ (Found(r) <=> r.state = "ok")
        BY <1>0, <1>1 DEF TabRequest, Found
    <2>6. Nil \notin Doc /\ (Found(r) => r.text \in PageText)
        BY <1>0, <1>1, <2>5, NilAssumption
           DEF Quiet, TextInv, TextsFit, TextFits, TabRequest
    <2>7. Found(r) => [path |-> r.path, ref |-> r.ref, text |-> r.text] \in Doc
        BY <1>0, <2>6 DEF TabRequest, Doc
    <2>8. AddressInv'
      <3>1. Expected'
          BY <1>1, <1>2, <2>2, <2>3, <2>4, <2>5, <2>6, <2>7 DEF Expected, LoadNow, SaveNow
      <3> QED  BY <1>1, <1>4, <3>1 DEF Settling, AddressInv, KeyIsRoute
    <2>9. CommentsInv'
      <3>1. CASE Found(r)
        <4>1. view'.doc.path = r.path /\ sidebar'.wanted = r.path
            BY <1>0, <1>2, <3>1 DEF Loaded, TabTypeOK, Sidebar
        <4>2. \E q \in net' : q.kind = "comments" /\ q.path = r.path
          <5>1. net' = (net \ {r}) \cup {Send("comments", r.path, Nil, Nil)}
              BY <3>1 DEF Loaded, Ask
          <5>2. /\ Send("comments", r.path, Nil, Nil).kind = "comments"
                /\ Send("comments", r.path, Nil, Nil).path = r.path
              BY DEF Send
          <5> QED  BY <5>1, <5>2
        <4> QED  BY <4>1, <4>2 DEF CommentsInv
      <3>2. CASE ~Found(r)
          BY <1>2, <2>2, <3>2 DEF CommentsInv
      <3> QED  BY <3>1, <3>2
    <2>10. OneSave'
        BY <1>1, <1>3 DEF Settling, StoredInv, OneSave, SaveNow
    <2>11. ASSUME odd' = {}, ~Pending', Editable'
           PROVE  pages'[view'.doc.path] = view'.doc.text
      <3>1. Found(r) /\ r.ref = Nil
          BY <1>2, <2>2, <2>11 DEF Editable
      <3>2. ~Pending
          BY <1>1, <1>3, <2>11 DEF Pending
      <3>3. pages[r.path] = r.text
          BY <2>1, <2>11, <3>1, <3>2, <2>5 DEF Settling, StoredInv, Current
      <3> QED  BY <1>1, <1>2, <3>1, <3>3
    <2> QED  BY <2>4, <2>8, <2>9, <2>10, <2>11 DEF Settling, StoredInv, Current, SaveNow, LoadNow
  <1> QED  BY <1>5, <1>6

\* What has been saved is shown.
LEMMA SettlingSaved ==
  ASSUME Quiet, Settling, NEW r \in net, Saved(r) PROVE Settling'
  <1>0. TabTypeOK /\ r \in TabRequest
      BY DEF Quiet, TextInv, TabTypeOK
  <1>1. /\ UNCHANGED <<pages, route, key, sidebar>> /\ odd \subseteq odd'
        /\ r.kind = "save"
        /\ "late" \notin odd' => r.now /\ odd' = odd
      BY DEF Saved, Belated
  <1>2. /\ view'.loading = view.loading /\ view'.error = view.error
        /\ view'.notFound = view.notFound
        /\ ~Succeeded(r) => view'.doc = view.doc
        /\ Succeeded(r) => view'.doc = [path |-> r.path, ref |-> Nil, text |-> r.text]
      BY <1>0 DEF Saved, TabTypeOK, View
  <1>3. /\ \A q \in net' \ net : q.kind = "comments"
        /\ \A q \in net \ net' : q = r
        /\ r \notin net'
      BY <1>1 DEF Saved, Ask, Send
  <1>4. Awaiting'
      BY <1>1, <1>2, <1>3 DEF Settling, AddressInv, Awaiting, LoadNow
  <1>5. CASE "late" \in odd'
    <2>1. AddressInv' /\ CommentsInv'
        BY <1>1, <1>5, <1>4 DEF Settling, AddressInv, KeyIsRoute, CommentsInv
    <2>2. OneSave'
        BY <1>1, <1>3 DEF Settling, StoredInv, OneSave, SaveNow
    <2> QED  BY <1>5, <2>1, <2>2 DEF Settling, StoredInv
  <1>6. CASE "late" \notin odd'
    <2>1. r.now /\ odd' = odd /\ SaveNow(r)
        BY <1>1, <1>6 DEF SaveNow
    <2>2. view.doc # Nil /\ view.doc.path = r.path /\ view.doc.ref = Nil
        BY <1>6, <2>1 DEF Settling, AddressInv, Expected
    <2>3. \A q \in net : ~LoadNow(q)
        BY <1>6, <2>1, <2>2 DEF Quiet, Calm, AwaitedAlone, Awaited, LoadNow
    <2>4. [path |-> r.path, ref |-> Nil, text |-> r.text] \in Doc
      <3>1. r.text \in PageText
          BY <1>0, <1>1 DEF Quiet, TextInv, TextsFit, TextFits, TabRequest
      <3> QED  BY <1>0, <3>1 DEF TabRequest, Doc
    <2>5. view'.doc # Nil /\ view'.doc.path = r.path /\ view'.doc.ref = Nil
        BY <1>2, <2>2, <2>4, NilAssumption
    <2>6. AddressInv'
      <3>1. Expected
          BY <1>6, <2>1 DEF Settling, AddressInv
      <3>2. Expected'
          BY <1>1, <1>2, <1>3, <2>2, <2>3, <2>5, <3>1 DEF Expected, LoadNow, SaveNow
      <3> QED  BY <1>1, <1>4, <3>2 DEF Settling, AddressInv, KeyIsRoute
    <2>7. CommentsInv'
      <3>1. \A q \in net : q.kind = "comments" => q \in net'
          BY <1>1, <1>3
      <3> QED  BY <1>1, <2>1, <2>2, <2>5, <3>1 DEF Settling, CommentsInv
    <2>8. OneSave'
        BY <1>1, <1>3 DEF Settling, StoredInv, OneSave, SaveNow
    <2>9. ASSUME odd' = {}, ~Pending'
          PROVE  /\ \A q \in net' : Current(q)'
                 /\ pages'[view'.doc.path] = view'.doc.text
      <3>1. ~Pending
          BY <1>1, <1>3, <2>1, <2>9 DEF Pending
      <3>2. /\ \A q \in net : Current(q)
            /\ Editable => \/ pages[view.doc.path] = view.doc.text
                           \/ \E q \in net : SaveNow(q) /\ q.state = "ok"
          BY <2>1, <2>9, <3>1 DEF Settling, StoredInv
      <3>3. \A q \in net' : Current(q)'
          BY <1>1, <1>3, <3>2 DEF Current, SaveNow, LoadNow
      <3>4. CASE Succeeded(r)
          BY <1>1, <1>2, <2>1, <3>2, <3>3, <3>4 DEF Current, Succeeded
      <3>5. CASE ~Succeeded(r)
        <4>1. \A q \in net : SaveNow(q) => q.state # "ok"
            BY <1>1, <2>1, <2>9, <3>5 DEF Settling, StoredInv, OneSave, SaveNow, Succeeded
        <4> QED  BY <1>1, <1>2, <2>2, <3>2, <3>3, <3>5, <4>1 DEF Editable
      <3> QED  BY <3>3, <3>4, <3>5
    <2> QED  BY <2>6, <2>7, <2>8, <2>9 DEF Settling, StoredInv
  <1> QED  BY <1>5, <1>6

\* Only a list that is wanted is taken.
LEMMA SettlingListed ==
  ASSUME TabTypeOK, Settling, NEW r \in net, Listed(r) PROVE Settling'
  <1>1. /\ UNCHANGED <<pages, route, key, view>> /\ odd \subseteq odd'
        /\ r.kind = "comments" /\ net' = net \ {r}
      BY DEF Listed
  <1>2. AddressInv'
    <2>0. Awaiting'
        BY <1>1 DEF Settling, AddressInv, Awaiting, LoadNow
    <2> SUFFICES ASSUME "late" \notin odd' PROVE Expected'
        BY <1>1, <2>0 DEF Settling, AddressInv, KeyIsRoute
    <2>1. Expected
        BY <1>1 DEF Settling, AddressInv
    <2> QED  BY <1>1, <2>1 DEF Expected, LoadNow, SaveNow
  <1>3. CommentsInv'
    <2> SUFFICES ASSUME odd' = {}, view.doc # Nil
                 PROVE  /\ sidebar'.wanted = view.doc.path
                        /\ \/ sidebar'.listed = view.doc.path
                           \/ \E q \in net' : q.kind = "comments" /\ q.path = view.doc.path
        BY <1>1 DEF CommentsInv
    <2>1. odd = {} /\ sidebar' = IF StillWanted(r) THEN [sidebar EXCEPT !.listed = r.path]
                                                   ELSE sidebar
        BY DEF Listed
    <2>2. /\ sidebar.wanted = view.doc.path
          /\ \/ sidebar.listed = view.doc.path
             \/ \E q \in net : q.kind = "comments" /\ q.path = view.doc.path
        BY <2>1 DEF Settling, CommentsInv
    <2>3. sidebar'.wanted = sidebar.wanted
        BY <2>1 DEF TabTypeOK, Sidebar
    <2>4. CASE StillWanted(r)
        BY <2>1, <2>2, <2>3, <2>4 DEF TabTypeOK, Sidebar, StillWanted
    <2>5. CASE ~StillWanted(r)
        BY <1>1, <2>1, <2>2, <2>3, <2>5 DEF StillWanted
    <2> QED  BY <2>4, <2>5
  <1>4. OneSave'
      BY <1>1 DEF Settling, StoredInv, OneSave, SaveNow
  <1>5. Pending' = Pending
      BY <1>1 DEF Pending
  <1>6. StoredInv'
      BY <1>1, <1>4, <1>5 DEF Settling, StoredInv, Current, SaveNow, LoadNow, Editable
  <1> QED  BY <1>2, <1>3, <1>6 DEF Settling

\* A document was created or deleted, or could not be.
LEMMA SettlingReloaded ==
  ASSUME Quiet, Settling, NEW r \in net, Created(r) \/ Deleted(r) PROVE Settling'
  <1>0. TabTypeOK /\ route.path \in DocPaths /\ Home \in DocPaths
      BY PathsAssumption DEF Quiet, TextInv, TabTypeOK, Key
  <1>1. /\ UNCHANGED <<pages, sidebar>>
        /\ r.kind \in {"create", "delete"}
      BY DEF Created, Deleted
  <1>2. CASE r.state = "ok"
    <2>1. \/ LoadPage(route.path, Nil, net \ {r}) /\ route' = route
          \/ LoadPage(Home, Nil, net \ {r}) /\ route' = [path |-> Home, ref |-> Nil]
        BY <1>2 DEF Created, Deleted
    <2> QED  BY <1>0, <1>1, <2>1, SettlingFetch
  <1>3. CASE r.state # "ok"
    <2>1. net' = net \ {r} /\ UNCHANGED <<key, view, route, odd>>
        BY <1>3 DEF Created, Deleted
    <2> QED  BY <1>1, <1>3, <2>1, SettlingOther
  <1> QED  BY <1>2, <1>3

LEMMA SettlingStep == ASSUME Quiet, Settling, [TabNext]_tabVars PROVE Settling'
  <1>0. TabTypeOK /\ route.path \in DocPaths
      BY DEF Quiet, TextInv, TabTypeOK, Key
  <1>1. CASE \E p \in DocPaths, ref \in Refs \cup {Nil} : Open(p, ref)
      BY <1>0, <1>1, SettlingOpen
  <1>2. CASE Retry
      BY <1>0, <1>2, SettlingFetch DEF Retry
  <1>3. CASE ToggleEdit \/ Type
    <2>1. /\ view'.doc = view.doc /\ view'.loading = view.loading
          /\ view'.error = view.error /\ view'.notFound = view.notFound
          /\ UNCHANGED <<pages, key, sidebar, odd, route, net>>
        BY <1>0, <1>3 DEF ToggleEdit, Type, TabTypeOK, View
    <2> QED  BY <2>1, SettlingOther
  <1>4. CASE SaveDraft
      BY <1>0, <1>4, SettlingSave
  <1>5. CASE Create \/ Delete
    <2>1. \E kind \in {"create", "delete"} : \E p, text : Click(kind, p, text)
        BY <1>5 DEF Create, Delete
    <2> QED  BY <2>1, SettlingOther DEF Click, Send
  <1>6. ASSUME NEW r \in net, Serve(r) \/ Fails(r) PROVE Settling'
      BY <1>6, SettlingServer
  <1>7. ASSUME NEW r \in net, Loaded(r) \/ Saved(r) \/ Created(r) \/ Deleted(r) \/ Listed(r)
        PROVE  Settling'
      BY <1>0, <1>7, SettlingLoaded, SettlingSaved, SettlingReloaded, SettlingListed
  <1>8. CASE TabIdle \/ UNCHANGED tabVars
    <2>1. UNCHANGED tabVars
        BY <1>8 DEF TabIdle
    <2> QED  BY <2>1, SettlingOther DEF tabVars
  <1> QED  BY <1>1, <1>2, <1>3, <1>4, <1>5, <1>6, <1>7, <1>8 DEF TabNext

LEMMA InitSettling == ASSUME TabInit PROVE Settling
  <1> DEFINE a == Send("load", Home, Nil, Nil)
  <1>1. a.kind = "load" /\ a.now /\ a.path = Home /\ a.ref = Nil /\ a.state = "sent"
      BY DEF Send
  <1>2. net = {a}
      BY DEF TabInit
  <1> HIDE DEF a
  <1>3. AddressInv
      BY <1>1, <1>2 DEF TabInit, AddressInv, KeyIsRoute, Awaiting, Expected, LoadNow, SaveNow
  <1>4. CommentsInv
      BY DEF TabInit, CommentsInv
  <1>5. StoredInv
      BY <1>1, <1>2 DEF TabInit, StoredInv, OneSave, Current, SaveNow, LoadNow, Editable
  <1> QED  BY <1>3, <1>4, <1>5 DEF Settling

\* What the tab shows when everything has been answered follows from what was
\* awaited, whatever overtook what (document-store.ts, comments-store.ts).
LEMMA SettlingInvariant == TabSpec => [](TabInv /\ Settling)
  <1>1. TabInv => Quiet
      BY DEF TabInv, Quiet, Calm
  <1>2. TabInv /\ Settling /\ [TabNext]_tabVars => Settling'
      BY <1>1, SettlingStep
  <1> QED  BY <1>2, InitSettling, EditorInvariant, PTL DEF TabSpec

\* The tab does not stay in wait, whatever answers come late; and the page asked
\* for last is shown, or why it is not, a revision without the editor, unless a
\* late answer came after the question (document-store.ts:26-59).
THEOREM AddressIsShown == TabSpec => []AddressShown
  <1>1. TabInv /\ Settling => AddressShown
      BY DEF TabInv, ClosedForRevisions, Settling, AddressInv, KeyIsRoute, Awaiting, Expected,
             AddressShown
  <1> QED  BY <1>1, SettlingInvariant, PTL

\* What is shown is what the server has (document-store.ts:103-125).
THEOREM ShownIsWhatIsStored == TabSpec => []ShownIsStored
  <1>1. Settling => ShownIsStored
      BY DEF Settling, StoredInv, Pending, ShownIsStored
  <1> QED  BY <1>1, SettlingInvariant, PTL

\* The comments next to a document are its own (comments-store.ts:11-24).
THEOREM CommentsAreOfDoc == TabSpec => []CommentsOfDoc
  <1>1. Settling => CommentsOfDoc
      BY DEF Settling, CommentsInv, CommentsOfDoc
  <1> QED  BY <1>1, SettlingInvariant, PTL
==============================================================================
