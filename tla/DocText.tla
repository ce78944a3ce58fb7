------------------------------ MODULE DocText ------------------------------
(***************************************************************************)
(* What is in a document's file, and what saving, copying, moving and      *)
(* indexing make of it: internal/frontmatter, the handlers of docs.go and  *)
(* docs_ops.go, internal/search.  A file is a sequence of lines, of which  *)
(* the first ones may be a header of YAML between two fences.  Files are   *)
(* also written by git pull and in a shell, with any line ends, a byte     *)
(* order mark, a header that is broken, or a fence that is never closed.   *)
(*                                                                         *)
(* A handler is one step here: DocPipeline has the steps between which     *)
(* others run, and what fails.                                             *)
(***************************************************************************)
EXTENDS Integers, FiniteSets, SequencesExt

CONSTANTS
  Paths,
  Walked,     \* the paths that IndexAll visits: *.md outside hidden directories
  Keys,       \* keys of a header
  Bodies,     \* texts that clients send
  Files,      \* files that others write
  MaxInt,     \* the greatest int
  MaxClock    \* bound: handlers run, edits and restarts

\* "opaque": what YAML reads and JSON has no form for, a map with keys that are no
\* strings or, but for a version, .nan and .inf.
Kinds == {"int", "uint", "float", "text", "null", "opaque"}
Value == [kind : Kinds, n : -MaxInt - 1 .. MaxInt]
Null == [kind |-> "null", n |-> 0]
Text(n) == [kind |-> "text", n |-> n]
NoText == Text(0)

\* What a line is: a fence, a fence behind a byte order mark, a line of
\* Markdown, or an entry of YAML; what it says; and how it ends.
\* "code heading": a line of code that begins like a heading, as comments do.
Marks == {"fence", "bom fence", "blank", "heading", "subheading", "code heading", "code",
          "prose"}
Line == [is : Marks \cup Keys, val : Value, eol : {"lf", "crlf", "crcrlf", "none"}]
Fence == [is |-> "fence", val |-> Null, eol |-> "lf"]
Entry(k, v) == [is |-> k, val |-> v, eol |-> "lf"]

ASSUME PathAssumption == Walked \subseteq Paths
ASSUME KeyAssumption ==
  /\ IsFiniteSet(Keys) /\ Keys \cap Marks = {}
  /\ {"created", "version", "title"} \subseteq Keys
ASSUME IntAssumption == MaxInt \in Nat \ {0} /\ MaxClock \in 0 .. MaxInt
ASSUME LinesAssumption == \A s \in Bodies \cup Files : s \in Seq(Line)

-----------------------------------------------------------------------------
(***************************************************************************)
(* Frontmatter                                                             *)
(***************************************************************************)
Opens(raw) ==
  /\ raw # <<>>
  /\ raw[1].is \in {"fence", "bom fence"} /\ raw[1].eol \in {"lf", "crlf"}

\* findClose: a later line that is a fence, however it ends.
Closing(raw) == {i \in 2 .. Len(raw) : raw[i].is = "fence"}

HasHeader(raw) == Opens(raw) /\ Closing(raw) # {}

\* Faulty variant: the last fence closes.
CloseLast(raw) == CHOOSE i \in Closing(raw) : \A j \in Closing(raw) : i >= j

Close(raw) == CHOOSE i \in Closing(raw) : \A j \in Closing(raw) : i <= j

Header(raw) == SubSeq(raw, 2, Close(raw) - 1)

\* Split takes one "\r\n" or "\n" behind the closing fence, so that of
\* "\r\r\n" an empty line is left.
LeftOf(close) ==
  IF close.eol = "crcrlf" THEN <<[is |-> "blank", val |-> Null, eol |-> "crlf"]>> ELSE <<>>

Body(raw) ==
  IF HasHeader(raw)
  THEN LeftOf(raw[Close(raw)]) \o SubSeq(raw, Close(raw) + 1, Len(raw))
  ELSE raw

Sharps == {"heading", "subheading", "code heading"}

\* Parse: YAML takes a heading, of any level, for a comment.
Malformed(header) ==
  \/ \E i \in DOMAIN header : header[i].is \notin Keys \cup Sharps \cup {"blank"}
  \/ \E i, j \in DOMAIN header : i # j /\ header[i].is \in Keys /\ header[i].is = header[j].is

Parse(header) ==
  [k \in {header[i].is : i \in DOMAIN header} \cap Keys |->
     header[CHOOSE i \in DOMAIN header : header[i].is = k].val]

Serialize(fm) ==
  LET order == SetToSeq(DOMAIN fm) IN [i \in DOMAIN order |-> Entry(order[i], fm[order[i]])]

Recombine(fm, body) == <<Fence>> \o Serialize(fm) \o <<Fence>> \o body

NoHeader == [k \in {} |-> Null]

\* What Parse takes, and the header as those read it who ignore its errors.
Readable(raw) == HasHeader(raw) => ~Malformed(Header(raw))
HeaderOf(raw) == IF HasHeader(raw) /\ Readable(raw) THEN Parse(Header(raw)) ELSE NoHeader

\* GetDoc and PutDoc answer with the document: otherwise with 500, or, where
\* writeJSON drops the error of the encoder, with 200 and nothing.
Encodable(fm) == \A k \in DOMAIN fm : fm[k].kind # "opaque"
Shows(raw) == Readable(raw) /\ Encodable(HeaderOf(raw))

\* int(v) + 1 in 64 bits.
Next64(n) == IF n = MaxInt THEN -MaxInt - 1 ELSE n + 1

\* A YAML number is an int, a uint64 beyond it, or a float64, here its integer part.
NextVersion(fm) ==
  [kind |-> "int",
   n |-> IF "version" \in DOMAIN fm /\ fm["version"].kind \in {"int", "float"}
         THEN Next64(fm["version"].n) ELSE 1]

\* Faulty variant: a save sets the time of creation.
ApplyUpdateAnew(fm, now) ==
  [k \in DOMAIN fm \cup {"created", "version"} |->
     IF k = "version" THEN NextVersion(fm) ELSE IF k = "created" THEN Text(now) ELSE fm[k]]

\* updated and updated_by, which a save always sets, are left out.
ApplyUpdate(fm, now) ==
  [k \in DOMAIN fm \cup {"created", "version"} |->
     IF k = "version" THEN NextVersion(fm)
     ELSE IF k \notin DOMAIN fm \/ (k = "created" /\ fm[k] \in {Null, NoText}) THEN Text(now)
     ELSE fm[k]]

-----------------------------------------------------------------------------
(***************************************************************************)
(* What the search index keeps of a document                               *)
(***************************************************************************)
\* Only the text leaves out what is code.
H1s(body) == SelectSeq(body, LAMBDA l : l.is \in {"heading", "code heading"})
Headings(body) == SelectSeq(body, LAMBDA l : l.is \in Sharps)
Prose(body) == SelectSeq(body, LAMBDA l : l.is \notin {"code", "code heading", "blank"})

Title(body, fm, p) ==
  IF "title" \in DOMAIN fm /\ fm["title"].kind = "text" /\ fm["title"] # NoText
  THEN <<"header", fm["title"]>>
  ELSE IF H1s(body) # <<>> THEN <<"heading", H1s(body)[1].val>> ELSE <<"name", p>>

FromBody(body, fm, p) ==
  [title |-> Title(body, fm, p), headings |-> Headings(body), text |-> Prose(body)]

IndexFromRaw(p, raw) == FromBody(Body(raw), HeaderOf(raw), p)

-----------------------------------------------------------------------------
VARIABLES
  file,     \* the working tree: a function on the documents that exist
  index,    \* rows of documents and documents_fts: a function on their paths
  acked,    \* history: the text last acknowledged, unless others wrote the file since
  foreign,  \* history: paths that others wrote since they were indexed
  opaque,   \* history: paths whose header others wrote, with an opaque entry
  clock

vars == <<file, index, acked, foreign, opaque, clock>>

\* A function like f, with p mapped to v, or without p.
Put(f, p, v) == [q \in DOMAIN f \cup {p} |-> IF q = p THEN v ELSE f[q]]
Without(f, p) == [q \in DOMAIN f \ {p} |-> f[q]]

\* A set of paths when p has become q.
Renamed(S, p, q) == IF p \in S THEN (S \ {p}) \cup {q} ELSE S

Partial(R) == UNION {[ps -> R] : ps \in SUBSET Paths}

TypeOK ==
  /\ DOMAIN file \subseteq Paths /\ \A p \in DOMAIN file : file[p] \in Seq(Line)
  /\ DOMAIN index \subseteq Paths
  /\ DOMAIN acked \subseteq DOMAIN file
  /\ foreign \subseteq Paths /\ opaque \subseteq DOMAIN file
  /\ clock \in 0 .. MaxClock

\* The index as the start leaves it.
Init ==
  /\ file \in Partial(Files)
  /\ index = [p \in Walked \cap DOMAIN file |-> IndexFromRaw(p, file[p])]
  /\ acked = [p \in {} |-> <<>>]
  /\ foreign = DOMAIN file \ Walked
  /\ opaque = {p \in DOMAIN file : ~Encodable(HeaderOf(file[p]))}
  /\ clock = 0

Tick == clock < MaxClock /\ clock' = clock + 1

\* docs.Write and IndexOne, which takes the header from the file and the
\* body from the request.
Save(p, fm, body) ==
  /\ \E raw \in {Recombine(ApplyUpdate(fm, clock + 1), body)} :
       /\ file' = Put(file, p, raw)
       /\ index' = Put(index, p, FromBody(body, HeaderOf(raw), p))
  /\ acked' = Put(acked, p, body)
  /\ foreign' = foreign \ {p}
  /\ UNCHANGED opaque

\* PutDoc keeps the header of the file that is there, if it can be read.
PutDoc(p, body) ==
  /\ Tick
  /\ \E fm \in {IF p \in DOMAIN file THEN HeaderOf(file[p]) ELSE NoHeader} : Save(p, fm, body)

\* CopyDoc: the body under a header of its own.
CopyDoc(p, q) ==
  /\ p \in DOMAIN file /\ q \notin DOMAIN file
  /\ Tick
  /\ \E body \in {Body(file[p])} : Save(q, NoHeader, body)

\* Faulty variant: the old path stays in the index.
MoveDocIndexed(p, q) ==
  /\ p \in DOMAIN file /\ q \notin DOMAIN file
  /\ Tick
  /\ file' = Put(Without(file, p), q, file[p])
  /\ index' = Put(index, q, IndexFromRaw(q, file[p]))
  /\ acked' = IF p \in DOMAIN acked THEN Put(Without(acked, p), q, acked[p]) ELSE acked
  /\ foreign' = foreign \ {p, q}
  /\ opaque' = Renamed(opaque, p, q)

\* MoveDoc: git mv, Remove, and IndexOne with what is in the file.
MoveDoc(p, q) ==
  /\ p \in DOMAIN file /\ q \notin DOMAIN file
  /\ Tick
  /\ file' = Put(Without(file, p), q, file[p])
  /\ index' = Put(Without(index, p), q, IndexFromRaw(q, file[p]))
  /\ acked' = IF p \in DOMAIN acked THEN Put(Without(acked, p), q, acked[p]) ELSE acked
  /\ foreign' = foreign \ {p, q}
  /\ opaque' = Renamed(opaque, p, q)

DeleteDoc(p) ==
  /\ p \in DOMAIN file
  /\ Tick
  /\ file' = Without(file, p)
  /\ index' = Without(index, p)
  /\ acked' = Without(acked, p)
  /\ foreign' = foreign \ {p}
  /\ opaque' = opaque \ {p}

\* git pull, or somebody with a shell, writes or removes a file.
Edit(p) ==
  /\ Tick
  /\ \/ \E raw \in Files :
          /\ file' = Put(file, p, raw)
          /\ opaque' = IF Encodable(HeaderOf(raw)) THEN opaque \ {p} ELSE opaque \cup {p}
     \/ p \in DOMAIN file /\ file' = Without(file, p) /\ opaque' = opaque \ {p}
  /\ acked' = Without(acked, p)
  /\ foreign' = foreign \cup {p}
  /\ UNCHANGED index

\* IndexAll at the start: it indexes what it finds and removes nothing.
IndexAll ==
  /\ Tick
  /\ index' = [p \in DOMAIN index \cup (Walked \cap DOMAIN file) |->
                 IF p \in Walked \cap DOMAIN file THEN IndexFromRaw(p, file[p]) ELSE index[p]]
  /\ foreign' = foreign \ (Walked \cap DOMAIN file)
  /\ UNCHANGED <<file, acked, opaque>>

\* A client sends a text of its own, or sends back the one it was shown.
Next ==
  \/ \E p \in Paths :
       \/ \E body \in Bodies : PutDoc(p, body)
       \/ p \in DOMAIN file /\ Shows(file[p]) /\ PutDoc(p, Body(file[p]))
       \/ DeleteDoc(p)
       \/ Edit(p)
       \/ \E q \in Paths : CopyDoc(p, q) \/ MoveDoc(p, q)
  \/ IndexAll

Spec == Init /\ [][Next]_vars

-----------------------------------------------------------------------------
\* What was acknowledged is the text of the document, whatever it begins with and
\* whatever the file was before the save (Split, Recombine); and GetDoc shows it,
\* unless others gave the header an entry that the encoder refuses.
SavedIsShown ==
  \A p \in DOMAIN acked :
    /\ Readable(file[p]) /\ Body(file[p]) = acked[p]
    /\ p \notin opaque => Shows(file[p])

\* The index says of a document what its file says: IndexOne, which takes
\* the body from the request, agrees with indexFromRaw, and no path is left
\* behind.  Excepted is what others wrote since.
IndexIsText ==
  \A p \in Paths \ foreign :
    /\ p \in DOMAIN index <=> p \in DOMAIN file
    /\ p \in DOMAIN file => index[p] = IndexFromRaw(p, file[p])

\* A save takes over every entry of a header that YAML can read, but for an empty
\* time of creation; and a version that is a number grows, until the greatest int.
\* What could be shown can be shown again.
Carried(old, new) ==
  \A k \in DOMAIN old :
    /\ k \in DOMAIN new
    /\ \/ new[k] = old[k]
       \/ k = "created" /\ old[k] \in {Null, NoText}
       \/ k = "version" /\ (new[k].n > old[k].n
                             \/ old[k].kind \notin {"int", "float"} \/ old[k].n = MaxInt)

DetailsSurvive ==
  [][\A p \in DOMAIN file \cap DOMAIN acked' :
       file'[p] # file[p] /\ Readable(file[p])
         => /\ Readable(file'[p]) /\ Carried(HeaderOf(file[p]), HeaderOf(file'[p]))
            /\ Shows(file[p]) => Shows(file'[p])]_vars

\* Behind SavedIsShown: no opaque entry comes from the program.
OpaqueIsForeign == \A p \in DOMAIN file \ opaque : Encodable(HeaderOf(file[p]))

IndInv == TypeOK /\ SavedIsShown /\ IndexIsText /\ OpaqueIsForeign
=============================================================================
