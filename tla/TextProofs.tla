----------------------------- MODULE TextProofs -----------------------------
(***************************************************************************)
(* What happens to the text of a document: its header comes back as it was *)
(* saved (DocText), and its comments keep their threads and are anchored   *)
(* as the ladder says (CommentStore, Anchoring).                           *)
(***************************************************************************)
EXTENDS DocText, CommentStore, FiniteSetTheorems, SequenceTheorems,
        WellFoundedInduction, TLAPS

-----------------------------------------------------------------------------
(***************************************************************************)
(* The header (frontmatter)                                                *)
(***************************************************************************)
\* What a header may say.
Maps == UNION {[ks -> Value] : ks \in SUBSET Keys}

\* An order of a finite set has each element once (SetToSeq).
LEMMA OrderOfKeys ==
  ASSUME NEW ks, IsFiniteSet(ks)
  PROVE  LET order == SetToSeq(ks) IN
         /\ order \in Seq(ks)
         /\ Len(order) = Cardinality(ks)
         /\ \A i, j \in 1 .. Len(order) : order[i] = order[j] => i = j
         /\ \A k \in ks : \E i \in 1 .. Len(order) : order[i] = k
<1> DEFINE n == Cardinality(ks)
           order == SetToSeq(ks)
<1>1. n \in Nat /\ ExistsBijection(1 .. n, ks)
  BY FS_CardinalityType
<1>2. \E f \in [1 .. n -> ks] : IsInjective(f)
  BY <1>1 DEF ExistsBijection, Bijection, Injection
<1>3. order \in [1 .. n -> ks] /\ IsInjective(order)
  BY <1>2 DEF SetToSeq
<1>4. order \in Seq(ks) /\ Len(order) = n
  BY <1>1, <1>3, SeqDef
<1>5. order \in Injection(1 .. n, ks)
  BY <1>3 DEF Injection
<1>6. Cardinality(1 .. n) = n
  BY <1>1, FS_Interval
<1>7. order \in Surjection(1 .. n, ks)
  BY <1>5, <1>6, FS_Injection
<1>8. QED
  BY <1>3, <1>4, <1>7 DEF IsInjective, Surjection

\* A header that Serialize writes has one line for each key, and no fence.
LEMMA SerializeLines ==
  ASSUME NEW fm \in Maps
  PROVE  LET header == Serialize(fm) IN
         /\ header \in Seq(Line)
         /\ \A i \in 1 .. Len(header) :
              header[i].is \in DOMAIN fm /\ header[i].val = fm[header[i].is]
         /\ \A i, j \in 1 .. Len(header) : header[i].is = header[j].is => i = j
         /\ \A k \in DOMAIN fm : \E i \in 1 .. Len(header) : header[i].is = k
<1> DEFINE order == SetToSeq(DOMAIN fm)
           header == Serialize(fm)
<1>1. DOMAIN fm \subseteq Keys /\ \A k \in DOMAIN fm : fm[k] \in Value
  BY DEF Maps
<1>2. IsFiniteSet(DOMAIN fm)
  BY <1>1, KeyAssumption, FS_Subset
<1>3. /\ order \in Seq(DOMAIN fm)
      /\ \A i, j \in 1 .. Len(order) : order[i] = order[j] => i = j
      /\ \A k \in DOMAIN fm : \E i \in 1 .. Len(order) : order[i] = k
  BY <1>2, OrderOfKeys
<1>4. Len(order) \in Nat /\ DOMAIN order = 1 .. Len(order)
      /\ \A i \in 1 .. Len(order) : order[i] \in DOMAIN fm
  BY <1>3
<1> HIDE DEF order
<1>5. header = [i \in 1 .. Len(order) |-> Entry(order[i], fm[order[i]])]
  BY <1>4 DEF Serialize, order
<1>6. \A i \in 1 .. Len(order) : Entry(order[i], fm[order[i]]) \in Line
  BY <1>1, <1>4 DEF Entry, Line
<1>7. header \in Seq(Line) /\ Len(header) = Len(order)
  BY <1>4, <1>5, <1>6
<1>8. \A i \in 1 .. Len(header) : header[i].is = order[i] /\ header[i].val = fm[order[i]]
  BY <1>5, <1>7 DEF Entry
<1>9. QED
  BY <1>3, <1>4, <1>7, <1>8

\* Parse reads what Serialize has written.
LEMMA ParseSerialize ==
  ASSUME NEW fm \in Maps
  PROVE  ~Malformed(Serialize(fm)) /\ Parse(Serialize(fm)) = fm
<1> DEFINE header == Serialize(fm)
<1>1. DOMAIN fm \subseteq Keys /\ fm = [k \in DOMAIN fm |-> fm[k]]
  BY DEF Maps
<1>2. /\ header \in Seq(Line)
      /\ \A i \in 1 .. Len(header) :
           header[i].is \in DOMAIN fm /\ header[i].val = fm[header[i].is]
      /\ \A i, j \in 1 .. Len(header) : header[i].is = header[j].is => i = j
      /\ \A k \in DOMAIN fm : \E i \in 1 .. Len(header) : header[i].is = k
  BY SerializeLines
<1>3. DOMAIN header = 1 .. Len(header)
  BY <1>2
<1> HIDE DEF header
<1>4. ~Malformed(header)
  BY <1>1, <1>2, <1>3 DEF Malformed
<1>5. {header[i].is : i \in DOMAIN header} \cap Keys = DOMAIN fm
  <2>1. \A k \in {header[i].is : i \in DOMAIN header} : k \in DOMAIN fm
    BY <1>2, <1>3
  <2>2. \A k \in DOMAIN fm : k \in {header[i].is : i \in DOMAIN header}
    BY <1>2, <1>3
  <2>3. QED
    BY <1>1, <2>1, <2>2
<1>6. ASSUME NEW k \in DOMAIN fm
      PROVE  header[CHOOSE i \in DOMAIN header : header[i].is = k].val = fm[k]
  <2>1. PICK i \in DOMAIN header : header[i].is = k
    BY <1>2, <1>3
  <2>2. \A j \in DOMAIN header : header[j].is = k => header[j].val = fm[k]
    BY <1>2, <1>3
  <2>3. QED
    BY <2>1, <2>2
<1>7. Parse(header) = [k \in DOMAIN fm |-> fm[k]]
  BY <1>5, <1>6 DEF Parse
<1>8. QED
  BY <1>1, <1>4, <1>7 DEF header

\* Split takes apart what Recombine has joined, whatever the body begins with:
\* the body comes back line for line, and the header is the one written.
THEOREM SplitRecombine ==
  ASSUME NEW fm \in Maps, NEW body \in Seq(Line)
  PROVE  LET raw == Recombine(fm, body) IN
         /\ raw \in Seq(Line)
         /\ HasHeader(raw) /\ Header(raw) = Serialize(fm) /\ Body(raw) = body
         /\ Readable(raw) /\ HeaderOf(raw) = fm
<1> DEFINE header == Serialize(fm)
           n == Len(header)
           raw == Recombine(fm, body)
           c == n + 2
<1>1. /\ header \in Seq(Line) /\ n \in Nat
      /\ \A i \in 1 .. n : header[i].is # "fence"
  <2>1. DOMAIN fm \subseteq Keys /\ "fence" \notin Keys
    BY KeyAssumption DEF Maps, Marks
  <2>2. header \in Seq(Line) /\ \A i \in 1 .. n : header[i].is \in DOMAIN fm
    BY SerializeLines
  <2>3. QED
    BY <2>1, <2>2
<1>2. Fence \in Line
  <2>1. 0 \in -MaxInt - 1 .. MaxInt
    BY IntAssumption
  <2>2. Null \in Value
    BY <2>1 DEF Null, Value, Kinds
  <2>3. QED
    BY <2>2 DEF Fence, Line, Marks
<1> HIDE DEF header
<1>3. /\ <<Fence>> \o header \in Seq(Line) /\ Len(<<Fence>> \o header) = n + 1
      /\ \A i \in 1 .. n + 1 : (<<Fence>> \o header)[i] = IF i = 1 THEN Fence ELSE header[i - 1]
  BY <1>1, <1>2
<1>4. LET front == (<<Fence>> \o header) \o <<Fence>> IN
      /\ front \in Seq(Line) /\ Len(front) = c
      /\ \A i \in 1 .. c : front[i] = IF i \in {1, c} THEN Fence ELSE header[i - 1]
  BY <1>1, <1>2, <1>3
<1>5. /\ raw \in Seq(Line) /\ Len(raw) = c + Len(body)
      /\ \A i \in 1 .. c + Len(body) :
           raw[i] = IF i \in {1, c} THEN Fence ELSE IF i < c THEN header[i - 1] ELSE body[i - c]
  <2> DEFINE front == (<<Fence>> \o header) \o <<Fence>>
  <2>1. front \in Seq(Line) /\ Len(front) = c
        /\ \A i \in 1 .. c : front[i] = IF i \in {1, c} THEN Fence ELSE header[i - 1]
    BY <1>4
  <2>2. raw = front \o body
    BY DEF Recombine, header
  <2> HIDE DEF front, raw
  <2>3. front \o body \in Seq(Line) /\ Len(front \o body) = Len(front) + Len(body)
        /\ \A i \in 1 .. Len(front) + Len(body) :
             (front \o body)[i] = IF i <= Len(front) THEN front[i] ELSE body[i - Len(front)]
    BY <2>1, ConcatProperties
  <2>4. QED
    BY <1>1, <2>1, <2>2, <2>3
<1> HIDE DEF raw
<1>6. Opens(raw)
  <2>1. raw[1] = Fence /\ Len(raw) # 0
    BY <1>1, <1>5
  <2>2. QED
    BY <2>1 DEF Opens, Fence
<1>7. c \in Closing(raw)
  BY <1>1, <1>5 DEF Closing, Fence
<1>8. \A i \in Closing(raw) : c <= i
  <2> SUFFICES ASSUME NEW i \in Closing(raw), i < c
      PROVE  FALSE
    BY <1>1, <1>5 DEF Closing
  <2>1. i \in 2 .. c - 1 /\ raw[i] = header[i - 1] /\ raw[i].is = "fence"
    BY <1>1, <1>5 DEF Closing
  <2>2. QED
    BY <1>1, <2>1
<1>9. Close(raw) = c
  BY <1>1, <1>5, <1>7, <1>8 DEF Close, Closing
<1>10. Header(raw) = header
  <2>1. /\ SubSeq(raw, 2, c - 1) \in Seq(Line) /\ Len(SubSeq(raw, 2, c - 1)) = n
        /\ \A i \in 1 .. n : SubSeq(raw, 2, c - 1)[i] = raw[i + 1]
    BY <1>1, <1>5
  <2>2. \A i \in 1 .. n : SubSeq(raw, 2, c - 1)[i] = header[i]
    <3> SUFFICES ASSUME NEW i \in 1 .. n PROVE raw[i + 1] = header[i]
      BY <2>1
    <3>1. i + 1 \in 1 .. c + Len(body) /\ i + 1 \notin {1, c} /\ i + 1 < c /\ (i + 1) - 1 = i
      BY <1>1
    <3>2. QED
      BY <1>5, <3>1
  <2>3. SubSeq(raw, 2, c - 1) = header
    BY <1>1, <2>1, <2>2, SeqEqual
  <2>4. QED
    BY <1>9, <2>3 DEF Header
<1>11. HasHeader(raw)
  BY <1>6, <1>7 DEF HasHeader
<1>12. Body(raw) = body
  <2>1. /\ SubSeq(raw, c + 1, Len(raw)) \in Seq(Line)
        /\ Len(SubSeq(raw, c + 1, Len(raw))) = Len(body)
        /\ \A i \in 1 .. Len(body) : SubSeq(raw, c + 1, Len(raw))[i] = raw[c + i]
    BY <1>1, <1>5
  <2>2. \A i \in 1 .. Len(body) : SubSeq(raw, c + 1, Len(raw))[i] = body[i]
    <3> SUFFICES ASSUME NEW i \in 1 .. Len(body) PROVE raw[c + i] = body[i]
      BY <2>1
    <3>1. c + i \in 1 .. c + Len(body) /\ c + i \notin {1, c} /\ ~(c + i < c) /\ (c + i) - c = i
      BY <1>1
    <3>2. QED
      BY <1>5, <3>1
  <2>3. SubSeq(raw, c + 1, Len(raw)) = body
    BY <2>1, <2>2, SeqEqual
  <2>4. LeftOf(raw[c]) = <<>>
    BY <1>1, <1>5 DEF LeftOf, Fence
  <2>5. QED
    BY <1>9, <1>11, <2>3, <2>4 DEF Body
<1>13. Readable(raw) /\ HeaderOf(raw) = fm
  BY <1>10, <1>11, ParseSerialize DEF Readable, HeaderOf, header
<1>14. QED
  BY <1>5, <1>10, <1>11, <1>12, <1>13 DEF raw, header

-----------------------------------------------------------------------------
\* The closing fence is the first of those that may close.
LEMMA CloseIsFirst ==
  ASSUME NEW raw \in Seq(Line), HasHeader(raw)
  PROVE  Close(raw) \in 2 .. Len(raw)
<1>1. Closing(raw) \subseteq Nat /\ Closing(raw) # {}
  BY DEF Closing, HasHeader
<1>2. PICK i \in Closing(raw) : \A j \in Closing(raw) : ~ (<<j, i>> \in OpToRel(<, Nat))
  BY <1>1, NatLessThanWellFounded, WFMin
<1>3. ASSUME NEW j \in Closing(raw)
      PROVE  i <= j
  <2>1. i \in Nat /\ j \in Nat
    BY <1>1
  <2>2. ~(j < i)
    BY <1>2, <2>1 DEF OpToRel
  <2>3. QED
    BY <2>1, <2>2
<1>4. Close(raw) \in Closing(raw)
  BY <1>3 DEF Close
<1>5. QED
  BY <1>4 DEF Closing

\* Whatever is in a file: its header is a map, its body a sequence of lines.
LEMMA SplitTypes ==
  ASSUME NEW raw \in Seq(Line)
  PROVE  HeaderOf(raw) \in Maps /\ Body(raw) \in Seq(Line)
<1>1. CASE ~HasHeader(raw)
  <2>1. NoHeader \in [{} -> Value]
    BY DEF NoHeader
  <2>2. NoHeader \in Maps
    BY <2>1 DEF Maps
  <2>3. QED
    BY <1>1, <2>2 DEF HeaderOf, Body
<1>2. CASE HasHeader(raw)
  <2> DEFINE c == Close(raw)
  <2>1. c \in 2 .. Len(raw)
    BY <1>2, CloseIsFirst
  <2> HIDE DEF c
  <2>2. Header(raw) \in Seq(Line)
    BY <2>1 DEF Header, c
  <2>3. Parse(Header(raw)) \in Maps
    <3> DEFINE header == Header(raw)
               given == {header[i].is : i \in DOMAIN header} \cap Keys
    <3>1. \A i \in DOMAIN header : header[i] \in Line
      BY <2>2
    <3>2. ASSUME NEW k \in given
          PROVE  header[CHOOSE i \in DOMAIN header : header[i].is = k].val \in Value
      <4>1. PICK i \in DOMAIN header : header[i].is = k
        OBVIOUS
      <4>2. (CHOOSE j \in DOMAIN header : header[j].is = k) \in DOMAIN header
        BY <4>1
      <4>3. QED
        BY <3>1, <4>2 DEF Line
    <3>3. Parse(header) \in [given -> Value]
      BY <3>2 DEF Parse
    <3>4. given \in SUBSET Keys
      OBVIOUS
    <3>5. QED
      BY <3>3, <3>4 DEF Maps
  <2>4. NoHeader \in Maps
    <3>1. NoHeader \in [{} -> Value]
      BY DEF NoHeader
    <3>2. QED
      BY <3>1 DEF Maps
  <2>5. LeftOf(raw[c]) \in Seq(Line)
    <3>1. 0 \in -MaxInt - 1 .. MaxInt
      BY IntAssumption
    <3>2. Null \in Value
      BY <3>1 DEF Null, Value, Kinds
    <3>3. [is |-> "blank", val |-> Null, eol |-> "crlf"] \in Line
      BY <3>2 DEF Line, Marks
    <3>4. QED
      BY <3>3 DEF LeftOf
  <2>6. SubSeq(raw, c + 1, Len(raw)) \in Seq(Line)
    BY <2>1
  <2>7. QED
    BY <1>2, <2>3, <2>4, <2>5, <2>6 DEF HeaderOf, Body, c
<1>3. QED
  BY <1>1, <1>2

LEMMA ApplyUpdateType ==
  ASSUME NEW fm \in Maps, NEW now \in 0 .. MaxInt
  PROVE  ApplyUpdate(fm, now) \in Maps
<1> DEFINE given == DOMAIN fm \cup {"created", "version"}
<1>1. given \in SUBSET Keys /\ \A k \in DOMAIN fm : fm[k] \in Value
  BY KeyAssumption DEF Maps
<1>2. Text(now) \in Value
  <2>1. now \in -MaxInt - 1 .. MaxInt
    BY IntAssumption
  <2>2. QED
    BY <2>1 DEF Text, Value, Kinds
<1>3. NextVersion(fm) \in Value
  <2>1. \A n \in -MaxInt - 1 .. MaxInt : Next64(n) \in -MaxInt - 1 .. MaxInt
    BY IntAssumption DEF Next64
  <2>2. 1 \in -MaxInt - 1 .. MaxInt
    BY IntAssumption
  <2>3. \A v \in Value : v.n \in -MaxInt - 1 .. MaxInt
    BY DEF Value
  <2>4. QED
    BY <1>1, <2>1, <2>2, <2>3 DEF NextVersion, Value, Kinds
<1>4. ApplyUpdate(fm, now) \in [given -> Value]
  BY <1>1, <1>2, <1>3 DEF ApplyUpdate
<1>5. QED
  BY <1>1, <1>4 DEF Maps

-----------------------------------------------------------------------------
\* A save puts nothing into a header that the encoder refuses.
LEMMA UpdateEncodes ==
  ASSUME NEW fm, NEW now, Encodable(fm)
  PROVE  Encodable(ApplyUpdate(fm, now))
<1>1. Text(now).kind # "opaque" /\ NextVersion(fm).kind # "opaque"
  BY DEF Text, NextVersion
<1>2. QED
  BY <1>1 DEF ApplyUpdate, Encodable

LEMMA TickType ==
  ASSUME TypeOK, Tick
  PROVE  clock' \in 0 .. MaxClock /\ clock + 1 \in 0 .. MaxInt
BY IntAssumption DEF TypeOK, Tick

\* What PutDoc and CopyDoc have in common.
LEMMA SaveKeeps ==
  ASSUME IndInv, Tick,
         NEW p \in Paths, NEW fm \in Maps, NEW body \in Seq(Line), Save(p, fm, body),
         p \in opaque \/ Encodable(fm)
  PROVE  IndInv'
<1> DEFINE new == ApplyUpdate(fm, clock + 1)
           raw == Recombine(new, body)
<1>1. new \in Maps
  <2>1. clock + 1 \in 0 .. MaxInt
    BY TickType DEF IndInv
  <2>2. QED
    BY <2>1, ApplyUpdateType
<1> HIDE DEF new
<1>2. /\ raw \in Seq(Line) /\ Body(raw) = body
      /\ Readable(raw) /\ HeaderOf(raw) = new
  BY <1>1, SplitRecombine
<1>3. /\ file' = Put(file, p, raw)
      /\ index' = Put(index, p, FromBody(body, HeaderOf(raw), p))
      /\ acked' = Put(acked, p, body)
      /\ foreign' = foreign \ {p}
      /\ opaque' = opaque
  BY DEF Save, new
<1>0. p \in opaque \/ Encodable(new)
  BY UpdateEncodes DEF new
<1> HIDE DEF raw
<1>4. TypeOK'
  BY <1>2, <1>3, TickType DEF IndInv, TypeOK, Put
<1>5. SavedIsShown'
  BY <1>0, <1>2, <1>3 DEF IndInv, TypeOK, SavedIsShown, Shows, Put
<1>6. IndexIsText'
  BY <1>2, <1>3 DEF IndInv, TypeOK, IndexIsText, IndexFromRaw, Put
<1>7. OpaqueIsForeign'
  BY <1>0, <1>2, <1>3 DEF IndInv, TypeOK, OpaqueIsForeign, Put
<1>8. QED
  BY <1>4, <1>5, <1>6, <1>7 DEF IndInv

LEMMA NextKeeps == IndInv /\ [Next]_vars => IndInv'
<1> SUFFICES ASSUME IndInv, [Next]_vars
    PROVE  IndInv'
  OBVIOUS
<1> USE DEF IndInv
<1>1. CASE UNCHANGED vars
  BY <1>1 DEF vars, TypeOK, SavedIsShown, IndexIsText, OpaqueIsForeign
<1>2. ASSUME NEW p \in Paths, NEW body \in Seq(Line), PutDoc(p, body)
      PROVE  IndInv'
  <2>1. PICK fm \in {IF p \in DOMAIN file THEN HeaderOf(file[p]) ELSE NoHeader} :
          Tick /\ Save(p, fm, body)
    BY <1>2 DEF PutDoc
  <2>2. fm \in Maps
    <3>1. NoHeader \in [{} -> Value]
      BY DEF NoHeader
    <3>2. NoHeader \in Maps
      BY <3>1 DEF Maps
    <3>3. QED
      BY <2>1, <3>2, SplitTypes DEF TypeOK
  <2>3. p \in opaque \/ Encodable(fm)
    BY <2>1 DEF OpaqueIsForeign, NoHeader, Encodable
  <2>4. QED
    BY <1>2, <2>1, <2>2, <2>3, SaveKeeps
<1>3. ASSUME NEW p \in Paths, DeleteDoc(p)
      PROVE  IndInv'
  <2>1. TypeOK'
    BY <1>3, TickType DEF DeleteDoc, Without, TypeOK
  <2>2. SavedIsShown'
    BY <1>3 DEF DeleteDoc, Without, TypeOK, SavedIsShown
  <2>3. IndexIsText'
    BY <1>3 DEF DeleteDoc, Without, TypeOK, IndexIsText
  <2>4. OpaqueIsForeign'
    BY <1>3 DEF DeleteDoc, Without, TypeOK, OpaqueIsForeign
  <2>5. QED
    BY <2>1, <2>2, <2>3, <2>4
<1>4. ASSUME NEW p \in Paths, Edit(p)
      PROVE  IndInv'
  <2>1. TypeOK'
    BY <1>4, TickType, LinesAssumption DEF Edit, Put, Without, TypeOK
  <2>2. SavedIsShown'
    BY <1>4 DEF Edit, Put, Without, TypeOK, SavedIsShown
  <2>3. IndexIsText'
    BY <1>4 DEF Edit, Put, Without, TypeOK, IndexIsText
  <2>4. OpaqueIsForeign'
    BY <1>4 DEF Edit, Put, Without, TypeOK, OpaqueIsForeign
  <2>5. QED
    BY <2>1, <2>2, <2>3, <2>4
<1>5. ASSUME NEW p \in Paths, NEW q \in Paths, CopyDoc(p, q)
      PROVE  IndInv'
  <2>1. Tick /\ Save(q, NoHeader, Body(file[p])) /\ file[p] \in Seq(Line)
    BY <1>5 DEF CopyDoc, TypeOK
  <2>2. NoHeader \in [{} -> Value]
    BY DEF NoHeader
  <2>3. NoHeader \in Maps
    BY <2>2 DEF Maps
  <2>4. Body(file[p]) \in Seq(Line)
    BY <2>1, SplitTypes
  <2>5. Encodable(NoHeader)
    BY DEF Encodable, NoHeader
  <2>6. QED
    BY <2>1, <2>3, <2>4, <2>5, SaveKeeps
<1>6. ASSUME NEW p \in Paths, NEW q \in Paths, MoveDoc(p, q)
      PROVE  IndInv'
  <2>1. TypeOK'
    BY <1>6, TickType DEF MoveDoc, Put, Without, Renamed, TypeOK
  <2>2. SavedIsShown'
    BY <1>6 DEF MoveDoc, Put, Without, Renamed, TypeOK, SavedIsShown
  <2>3. IndexIsText'
    BY <1>6 DEF MoveDoc, Put, Without, TypeOK, IndexIsText
  <2>4. OpaqueIsForeign'
    BY <1>6 DEF MoveDoc, Put, Without, Renamed, TypeOK, OpaqueIsForeign
  <2>5. QED
    BY <2>1, <2>2, <2>3, <2>4
<1>7. CASE IndexAll
  <2>1. TypeOK'
    BY <1>7, TickType, PathAssumption DEF IndexAll, TypeOK
  <2>2. SavedIsShown'
    BY <1>7 DEF IndexAll, TypeOK, SavedIsShown
  <2>3. IndexIsText'
    BY <1>7, PathAssumption DEF IndexAll, TypeOK, IndexIsText
  <2>4. OpaqueIsForeign'
    BY <1>7 DEF IndexAll, OpaqueIsForeign
  <2>5. QED
    BY <2>1, <2>2, <2>3, <2>4
<1>8. \A body \in Bodies : body \in Seq(Line)
  BY LinesAssumption
<1>9. \A p \in DOMAIN file : Body(file[p]) \in Seq(Line)
  BY SplitTypes DEF TypeOK
<1>10. QED
  BY <1>1, <1>2, <1>3, <1>4, <1>5, <1>6, <1>7, <1>8, <1>9 DEF Next

-----------------------------------------------------------------------------
\* Types, what was acknowledged and what is indexed are an inductive
\* invariant, whatever others write into the files.
THEOREM TextInvariance == Spec => []IndInv
<1>1. Init => IndInv
  <2> SUFFICES ASSUME Init PROVE IndInv
    OBVIOUS
  <2>1. DOMAIN file \subseteq Paths /\ \A p \in DOMAIN file : file[p] \in Files
    BY DEF Init, Partial
  <2>2. TypeOK
    BY <2>1, LinesAssumption, PathAssumption, IntAssumption DEF Init, TypeOK
  <2>3. SavedIsShown
    BY DEF Init, SavedIsShown
  <2>4. IndexIsText
    BY <2>1 DEF Init, IndexIsText
  <2>5. OpaqueIsForeign
    BY DEF Init, OpaqueIsForeign
  <2>6. QED
    BY <2>2, <2>3, <2>4, <2>5 DEF IndInv
<1>2. QED
  BY <1>1, NextKeeps, PTL DEF Spec

\* What was acknowledged is the text of the document, and it can be shown, but for
\* a header that others wrote and JSON cannot encode (PutDoc, GetDoc, writeJSON).
THEOREM SavesAreShown == Spec => []SavedIsShown
<1>1. IndInv => SavedIsShown
  BY DEF IndInv
<1>2. QED
  BY <1>1, TextInvariance, PTL

\* The index says what the files say, but for what others wrote since.
THEOREM IndexAgrees == Spec => []IndexIsText
<1>1. IndInv => IndexIsText
  BY DEF IndInv
<1>2. QED
  BY <1>1, TextInvariance, PTL

\* Whatever else the header says, a save takes it over (ApplyUpdate).
LEMMA UpdateCarries ==
  ASSUME NEW fm \in Maps, NEW now
  PROVE  Carried(fm, ApplyUpdate(fm, now))
<1> DEFINE new == ApplyUpdate(fm, now)
<1> SUFFICES ASSUME NEW k \in DOMAIN fm
    PROVE  /\ k \in DOMAIN new
           /\ \/ new[k] = fm[k]
              \/ k = "created" /\ fm[k] \in {Null, NoText}
              \/ k = "version" /\ (new[k].n > fm[k].n
                                    \/ fm[k].kind \notin {"int", "float"} \/ fm[k].n = MaxInt)
  BY DEF Carried
<1>1. k \in DOMAIN new
  BY DEF ApplyUpdate
<1>2. CASE k # "version"
  BY <1>1, <1>2 DEF ApplyUpdate
<1>3. CASE k = "version"
  <2>1. fm[k].n \in Int
    BY IntAssumption DEF Maps, Value
  <2>2. new[k] = NextVersion(fm)
    BY <1>1, <1>3 DEF ApplyUpdate
  <2>3. fm[k].kind \in {"int", "float"} => new[k].n = Next64(fm[k].n)
    BY <1>3, <2>2 DEF NextVersion
  <2>4. fm[k].n # MaxInt => Next64(fm[k].n) > fm[k].n
    BY <2>1 DEF Next64
  <2>5. QED
    BY <1>1, <1>3, <2>3, <2>4
<1>4. QED
  BY <1>2, <1>3

\* No save loses an entry of a header that YAML could read, through Split, Parse,
\* ApplyUpdate and Recombine, and none makes a document unfit to be shown.
THEOREM DetailsAlwaysSurvive == Spec => DetailsSurvive
<1>1. ASSUME IndInv, [Next]_vars,
             NEW p \in DOMAIN file \cap DOMAIN acked', file'[p] # file[p], Readable(file[p])
      PROVE  /\ Readable(file'[p]) /\ Carried(HeaderOf(file[p]), HeaderOf(file'[p]))
             /\ Shows(file[p]) => Shows(file'[p])
  <2> DEFINE old == HeaderOf(file[p])
  <2>1. p \in Paths /\ file[p] \in Seq(Line) /\ old \in Maps
    BY <1>1, SplitTypes DEF IndInv, TypeOK
  <2>2. PICK body \in Seq(Line) : PutDoc(p, body)
    <3>1. ASSUME NEW q \in Paths, NEW body, PutDoc(q, body)
          PROVE  q = p
      BY <1>1, <3>1 DEF PutDoc, Save, Put
    <3>2. ASSUME NEW q \in Paths, DeleteDoc(q)
          PROVE  FALSE
      BY <1>1, <3>2 DEF DeleteDoc, Without
    <3>3. ASSUME NEW q \in Paths, Edit(q)
          PROVE  FALSE
      BY <1>1, <3>3 DEF Edit, Put, Without
    <3>4. ASSUME NEW q \in Paths, NEW r \in Paths, CopyDoc(q, r)
          PROVE  FALSE
      BY <1>1, <3>4 DEF CopyDoc, Save, Put
    <3>5. ASSUME NEW q \in Paths, NEW r \in Paths, MoveDoc(q, r)
          PROVE  FALSE
      BY <1>1, <3>5 DEF MoveDoc, Put, Without, IndInv, TypeOK
    <3>6. ~IndexAll /\ ~UNCHANGED vars
      BY <1>1 DEF IndexAll, vars
    <3>7. PICK q \in Paths :
            \/ \E body \in Bodies : PutDoc(q, body)
            \/ q \in DOMAIN file /\ PutDoc(q, Body(file[q]))
      BY <1>1, <3>2, <3>3, <3>4, <3>5, <3>6 DEF Next
    <3>8. \A body \in Bodies : body \in Seq(Line)
      BY LinesAssumption
    <3>9. \A r \in DOMAIN file : Body(file[r]) \in Seq(Line)
      BY <1>1, SplitTypes DEF IndInv, TypeOK
    <3>10. QED
      BY <3>1, <3>7, <3>8, <3>9
  <2> DEFINE new == ApplyUpdate(old, clock + 1)
  <2>3. Tick /\ file' = Put(file, p, Recombine(new, body))
    BY <1>1, <2>2 DEF PutDoc, Save
  <2>4. new \in Maps
    BY <1>1, <2>1, <2>3, TickType, ApplyUpdateType DEF IndInv
  <2>5. Readable(file'[p]) /\ HeaderOf(file'[p]) = new
    BY <2>3, <2>4, SplitRecombine DEF Put
  <2>6. QED
    BY <2>1, <2>5, UpdateCarries, UpdateEncodes DEF Shows
<1>2. ASSUME IndInv, [Next]_vars
      PROVE  [\A p \in DOMAIN file \cap DOMAIN acked' :
                file'[p] # file[p] /\ Readable(file[p])
                  => /\ Readable(file'[p]) /\ Carried(HeaderOf(file[p]), HeaderOf(file'[p]))
                     /\ Shows(file[p]) => Shows(file'[p])]_vars
  BY <1>1, <1>2
<1>3. QED
  BY <1>2, TextInvariance, PTL DEF Spec, DetailsSurvive

-----------------------------------------------------------------------------
(***************************************************************************)
(* Recursion over 0..n                                                     *)
(***************************************************************************)
\* Induction over 0..n, with a set for the predicate.
LEMMA UpTo ==
  ASSUME NEW n \in Nat, NEW S, 0 \in S, \A k \in 1 .. n : k - 1 \in S => k \in S
  PROVE  0 .. n \subseteq S
<1> DEFINE bad == (0 .. n) \ S
<1> SUFFICES ASSUME bad # {} PROVE FALSE
  OBVIOUS
<1>1. bad \subseteq Nat
  OBVIOUS
<1>2. PICK m \in bad : \A k \in bad : ~ (<<k, m>> \in OpToRel(<, Nat))
  BY <1>1, NatLessThanWellFounded, WFMin
<1>3. m \in Nat /\ m <= n /\ m # 0 /\ m - 1 \in Nat
  OBVIOUS
<1>4. ASSUME m - 1 \in bad PROVE FALSE
  <2>1. ~ (<<m - 1, m>> \in OpToRel(<, Nat))
    BY <1>2, <1>4
  <2>2. <<m - 1, m>> \in OpToRel(<, Nat)
    BY <1>3 DEF OpToRel
  <2>3. QED
    BY <2>1, <2>2
<1>5. m - 1 \in S /\ m \in 1 .. n
  BY <1>3, <1>4
<1>6. QED
  BY <1>5

\* A function given by its value at 0 and by how each value makes the next.
Recursive(n, V, v, step) ==
  \E f \in [0 .. n -> V] : f[0] = v /\ \A i \in 1 .. n : f[i] = step[i][f[i - 1]]

\* It exists.
LEMMA Recursion ==
  ASSUME NEW n \in Nat, NEW V, NEW v \in V, NEW step \in [1 .. n -> [V -> V]]
  PROVE  Recursive(n, V, v, step)
<1> DEFINE Fits(f, k) == f = [i \in 0 .. k |-> IF i = 0 THEN v ELSE step[i][f[i - 1]]]
           S == {k \in 0 .. n : \E f \in [0 .. k -> V] : Fits(f, k)}
<1>1. 0 \in S
  <2> DEFINE f == [i \in 0 .. 0 |-> v]
  <2>1. f \in [0 .. 0 -> V] /\ Fits(f, 0)
    OBVIOUS
  <2> HIDE DEF Fits, f
  <2>2. QED
    BY <2>1
<1>2. ASSUME NEW k \in 1 .. n, k - 1 \in S
      PROVE  k \in S
  <2>1. PICK f \in [0 .. k - 1 -> V] : Fits(f, k - 1)
    BY <1>2
  <2> DEFINE g == [i \in 0 .. k |-> IF i = k THEN step[k][f[k - 1]] ELSE f[i]]
  <2>2. k - 1 \in 0 .. k - 1 /\ step[k] \in [V -> V]
    OBVIOUS
  <2>3. g \in [0 .. k -> V]
    BY <2>2
  <2>4. \A i \in 0 .. k - 1 : g[i] = f[i]
    OBVIOUS
  <2>5. ASSUME NEW i \in 0 .. k
        PROVE  g[i] = IF i = 0 THEN v ELSE step[i][g[i - 1]]
    <3>1. CASE i = k
      BY <3>1, <2>2, <2>4
    <3>2. CASE i # k
      <4>1. i \in 0 .. k - 1 /\ f[i] = IF i = 0 THEN v ELSE step[i][f[i - 1]]
        BY <2>1, <3>2
      <4>2. i # 0 => i - 1 \in 0 .. k - 1
        BY <3>2
      <4>3. QED
        BY <2>4, <4>1, <4>2
    <3>3. QED
      BY <3>1, <3>2
  <2>6. Fits(g, k)
    BY <2>5
  <2> HIDE DEF Fits, g
  <2>7. QED
    BY <2>3, <2>6
<1>3. 0 .. n \subseteq S
  <2> HIDE DEF S
  <2>1. QED
    BY <1>1, <1>2, UpTo
<1>4. PICK f \in [0 .. n -> V] : Fits(f, n)
  BY <1>3
<1>5. f[0] = v /\ \A i \in 1 .. n : f[i] = step[i][f[i - 1]]
  BY <1>4
<1>6. QED
  BY <1>5 DEF Recursive

-----------------------------------------------------------------------------
(***************************************************************************)
(* The table of distances (levenshtein.go)                                 *)
(***************************************************************************)
\* A row of the table from the one before it.
LEMMA NextRowIs ==
  ASSUME NEW C, NEW a \in Seq(C), NEW b \in Seq(C),
         NEW prev \in [0 .. Len(b) -> Nat], NEW i \in 1 .. Len(a)
  PROVE  LET next == NextRow(a, b, prev, i)
         IN  /\ next \in [0 .. Len(b) -> Nat]
             /\ next[0] = i
             /\ \A j \in 1 .. Len(b) :
                  next[j] = Smaller(Smaller(next[j - 1] + 1, prev[j] + 1),
                                    prev[j - 1] + (IF a[i] = b[j] THEN 0 ELSE 1))
<1> DEFINE n == Len(b)
           Cost(j) == IF a[i] = b[j] THEN 0 ELSE 1
           Best(j, x) == Smaller(Smaller(x + 1, prev[j] + 1), prev[j - 1] + Cost(j))
           step == [j \in 1 .. n |-> [x \in Nat |-> Best(j, x)]]
           Fits(f) == f = [j \in 0 .. n |-> IF j = 0 THEN i ELSE Best(j, f[j - 1])]
<1>0. n \in Nat /\ i \in Nat
  OBVIOUS
<1>1. ASSUME NEW j \in 1 .. n, NEW x \in Nat
      PROVE  Best(j, x) \in Nat
  <2>1. prev[j] \in Nat /\ prev[j - 1] \in Nat /\ Cost(j) \in Nat
    OBVIOUS
  <2>2. QED
    BY <2>1 DEF Smaller
<1>2. step \in [1 .. n -> [Nat -> Nat]]
  BY <1>1
<1>3. PICK f \in [0 .. n -> Nat] : f[0] = i /\ \A j \in 1 .. n : f[j] = step[j][f[j - 1]]
  <2> HIDE DEF step, n
  <2>1. Recursive(n, Nat, i, step)
    BY <1>0, <1>2, Recursion
  <2>2. QED
    BY <2>1 DEF Recursive
<1>4. Fits(f)
  <2>1. ASSUME NEW j \in 0 .. n
        PROVE  f[j] = IF j = 0 THEN i ELSE Best(j, f[j - 1])
    <3>1. CASE j = 0
      BY <1>3, <3>1
    <3>2. CASE j # 0
      <4>1. j \in 1 .. n /\ f[j - 1] \in Nat
        BY <1>0, <3>2
      <4>2. f[j] = step[j][f[j - 1]]
        BY <1>3, <4>1
      <4> HIDE DEF Best
      <4>3. QED
        BY <4>1, <4>2, <3>2
    <3>3. QED
      BY <3>1, <3>2
  <2> HIDE DEF Best
  <2>2. QED
    BY <2>1
<1> DEFINE next == NextRow(a, b, prev, i)
<1>5. Fits(next)
  <2>1. \E g : Fits(g)
    BY <1>4
  <2>2. Fits(CHOOSE g : Fits(g))
    <3> HIDE DEF Fits
    <3>1. QED
      BY <2>1
  <2>3. QED
    BY <2>2 DEF NextRow
<1> HIDE DEF next
<1>6. next[0] = i /\ \A j \in 1 .. n : next[j] = Best(j, next[j - 1])
  BY <1>0, <1>5
<1>7. next \in [0 .. n -> Nat]
  <2> DEFINE S == {j \in 0 .. n : next[j] \in Nat}
  <2>1. 0 \in S
    BY <1>6
  <2>2. ASSUME NEW j \in 1 .. n, j - 1 \in S
        PROVE  j \in S
    <3>1. next[j - 1] \in Nat
      BY <2>2
    <3>2. next[j] = Best(j, next[j - 1])
      BY <1>6
    <3> HIDE DEF Best
    <3>3. next[j] \in Nat
      BY <1>1, <3>1, <3>2
    <3>4. QED
      BY <1>0, <3>3
  <2>3. 0 .. n \subseteq S
    <3> HIDE DEF S, Best
    <3>1. QED
      BY <1>0, <2>1, <2>2, UpTo
  <2>4. QED
    BY <1>5, <2>3
<1>8. QED
  BY <1>6, <1>7 DEF next

\* The table of distances between the prefixes of a and b.
IsTable(t, a, b) ==
  /\ t \in [0 .. Len(a) -> [0 .. Len(b) -> Nat]]
  /\ \A j \in 0 .. Len(b) : t[0][j] = j
  /\ \A i \in 0 .. Len(a) : t[i][0] = i
  /\ \A i \in 1 .. Len(a) : \A j \in 1 .. Len(b) :
       t[i][j] = Smaller(Smaller(t[i][j - 1] + 1, t[i - 1][j] + 1),
                         t[i - 1][j - 1] + (IF a[i] = b[j] THEN 0 ELSE 1))

\* The rolling row goes through it.
LEMMA RollingRowIs ==
  ASSUME NEW C, NEW a \in Seq(C), NEW b \in Seq(C)
  PROVE  IsTable(RollingRow(a, b), a, b)
<1> DEFINE m == Len(a)
           V == [0 .. Len(b) -> Nat]
           first == [j \in 0 .. Len(b) |-> j]
           step == [i \in 1 .. m |-> [prev \in V |-> NextRow(a, b, prev, i)]]
           Fits(f) == f = [i \in 0 .. m |-> IF i = 0 THEN first ELSE NextRow(a, b, f[i - 1], i)]
<1>0. m \in Nat /\ Len(b) \in Nat /\ first \in V
  OBVIOUS
<1>1. ASSUME NEW i \in 1 .. m, NEW prev \in V
      PROVE  NextRow(a, b, prev, i) \in V
  BY NextRowIs
<1> HIDE DEF V
<1>2. step \in [1 .. m -> [V -> V]]
  BY <1>1
<1>3. PICK f \in [0 .. m -> V] : f[0] = first /\ \A i \in 1 .. m : f[i] = step[i][f[i - 1]]
  <2> HIDE DEF step, m, first
  <2>1. Recursive(m, V, first, step)
    BY <1>0, <1>2, Recursion
  <2>2. QED
    BY <2>1 DEF Recursive
<1>4. Fits(f)
  <2>1. ASSUME NEW i \in 1 .. m
        PROVE  f[i] = NextRow(a, b, f[i - 1], i)
    <3>1. f[i - 1] \in V
      BY <1>0
    <3>2. QED
      BY <1>3, <3>1
  <2>2. ASSUME NEW i \in 0 .. m
        PROVE  f[i] = IF i = 0 THEN first ELSE NextRow(a, b, f[i - 1], i)
    <3>1. i # 0 => i \in 1 .. m
      BY <1>0
    <3> HIDE DEF first, m
    <3>2. QED
      BY <1>3, <2>1, <3>1
  <2> HIDE DEF first, m
  <2>3. QED
    BY <2>2
<1> DEFINE t == RollingRow(a, b)
<1>5. Fits(t)
  <2>1. \E g : Fits(g)
    BY <1>4
  <2>2. Fits(CHOOSE g : Fits(g))
    <3> HIDE DEF Fits
    <3>1. QED
      BY <2>1
  <2>3. QED
    BY <2>2 DEF RollingRow
<1> HIDE DEF t
<1>6. t[0] = first /\ \A i \in 1 .. m : t[i] = NextRow(a, b, t[i - 1], i)
  <2> HIDE DEF m, first
  <2>1. 0 \in 0 .. m /\ \A i \in 1 .. m : i \in 0 .. m /\ i # 0
    BY <1>0
  <2>2. QED
    BY <1>5, <2>1
<1>7. t \in [0 .. m -> V]
  <2> DEFINE S == {i \in 0 .. m : t[i] \in V}
  <2>1. 0 \in S
    BY <1>0, <1>6
  <2>2. ASSUME NEW i \in 1 .. m, i - 1 \in S
        PROVE  i \in S
    <3>1. t[i] \in V
      BY <1>1, <1>6, <2>2
    <3>2. QED
      BY <1>0, <3>1
  <2>3. 0 .. m \subseteq S
    <3> HIDE DEF S, m
    <3>1. QED
      BY <1>0, <2>1, <2>2, UpTo
  <2>4. QED
    BY <1>5, <2>3
<1>8. ASSUME NEW i \in 1 .. m
      PROVE  /\ t[i][0] = i
             /\ \A j \in 1 .. Len(b) :
                  t[i][j] = Smaller(Smaller(t[i][j - 1] + 1, t[i - 1][j] + 1),
                                    t[i - 1][j - 1] + (IF a[i] = b[j] THEN 0 ELSE 1))
  <2>1. i - 1 \in 0 .. m /\ i \in 1 .. Len(a)
    BY <1>0
  <2>2. PICK prev \in [0 .. Len(b) -> Nat] : prev = t[i - 1]
    BY <1>7, <2>1 DEF V
  <2>3. t[i] = NextRow(a, b, prev, i)
    BY <1>6, <2>2
  <2> HIDE DEF m
  <2>4. /\ t[i][0] = i
        /\ \A j \in 1 .. Len(b) :
             t[i][j] = Smaller(Smaller(t[i][j - 1] + 1, prev[j] + 1),
                               prev[j - 1] + (IF a[i] = b[j] THEN 0 ELSE 1))
    BY <2>1, <2>3, NextRowIs, SMTT(60)
  <2>5. QED
    BY <2>2, <2>4
<1>9. \A j \in 0 .. Len(b) : t[0][j] = j
  BY <1>6
<1>10. \A i \in 0 .. m : t[i][0] = i
  <2>1. ASSUME NEW i \in 0 .. m PROVE i = 0 \/ i \in 1 .. m
    BY <1>0
  <2>2. t[0][0] = 0
    BY <1>0, <1>9
  <2>3. QED
    BY <1>8, <2>1, <2>2
<1>11. QED
  BY <1>7, <1>8, <1>9, <1>10 DEF IsTable, V, t

\* An entry is the smallest of the three ways to it.
LEMMA TableStep ==
  ASSUME NEW C, NEW a \in Seq(C), NEW b \in Seq(C), NEW t, IsTable(t, a, b),
         NEW i \in 1 .. Len(a), NEW j \in 1 .. Len(b)
  PROVE  /\ t[i][j] <= t[i][j - 1] + 1
         /\ t[i][j] <= t[i - 1][j] + 1
         /\ t[i][j] <= t[i - 1][j - 1] + 1
         /\ a[i] = b[j] => t[i][j] <= t[i - 1][j - 1]
         /\ \/ t[i][j] = t[i][j - 1] + 1
            \/ t[i][j] = t[i - 1][j] + 1
            \/ a[i] = b[j] /\ t[i][j] = t[i - 1][j - 1]
            \/ a[i] # b[j] /\ t[i][j] = t[i - 1][j - 1] + 1
<1> DEFINE x == t[i][j - 1] 
           y == t[i - 1][j]
           z == t[i - 1][j - 1]
<1>1. x \in Nat /\ y \in Nat /\ z \in Nat
  BY DEF IsTable
<1>2. t[i][j] = Smaller(Smaller(x + 1, y + 1), z + (IF a[i] = b[j] THEN 0 ELSE 1))
  BY DEF IsTable
<1> HIDE DEF x, y, z
<1>3. /\ t[i][j] <= x + 1 /\ t[i][j] <= y + 1 /\ t[i][j] <= z + 1
      /\ a[i] = b[j] => t[i][j] <= z
      /\ \/ t[i][j] = x + 1 \/ t[i][j] = y + 1
         \/ a[i] = b[j] /\ t[i][j] = z
         \/ a[i] # b[j] /\ t[i][j] = z + 1
  BY <1>1, <1>2 DEF Smaller
<1>4. QED
  BY <1>3 DEF x, y, z

\* The entries are naturals, and the edges count.
LEMMA TableType ==
  ASSUME NEW C, NEW a \in Seq(C), NEW b \in Seq(C), NEW t, IsTable(t, a, b),
         NEW i \in 0 .. Len(a), NEW j \in 0 .. Len(b)
  PROVE  t[i][j] \in Nat /\ (i = 0 => t[i][j] = j) /\ (j = 0 => t[i][j] = i)
BY DEF IsTable

\* Induction over a table, each entry from those on its left and above.
LEMMA Grid ==
  ASSUME NEW m \in Nat, NEW n \in Nat, NEW S,
         \A i \in 0 .. m : \A j \in 0 .. n :
           /\ j > 0 => <<i, j - 1>> \in S
           /\ i > 0 => <<i - 1, j>> \in S
           /\ i > 0 /\ j > 0 => <<i - 1, j - 1>> \in S
           => <<i, j>> \in S
  PROVE  \A i \in 0 .. m : \A j \in 0 .. n : <<i, j>> \in S
<1> DEFINE Below(s) == \A i \in 0 .. m : \A j \in 0 .. n : i + j <= s => <<i, j>> \in S
           D == {s \in 0 .. m + n : Below(s)}
<1>0. m + n \in Nat
  OBVIOUS
<1>1. 0 \in D
  <2>0. 0 \in 0 .. m /\ 0 \in 0 .. n /\ ~ (0 > 0)
    OBVIOUS
  <2>1. <<0, 0>> \in S
    BY <2>0
  <2>2. \A i \in 0 .. m : \A j \in 0 .. n : i + j <= 0 => i = 0 /\ j = 0
    OBVIOUS
  <2>3. Below(0)
    BY <2>1, <2>2
  <2>4. QED
    BY <1>0, <2>3
<1>2. ASSUME NEW s \in 1 .. m + n, s - 1 \in D
      PROVE  s \in D
  <2>1. ASSUME NEW i \in 0 .. m, NEW j \in 0 .. n, i + j <= s
        PROVE  <<i, j>> \in S
    <3>0. Below(s - 1) /\ s \in Nat
      BY <1>0, <1>2
    <3>1. ASSUME j > 0 PROVE <<i, j - 1>> \in S
      <4>1. j - 1 \in 0 .. n /\ i + (j - 1) <= s - 1
        BY <2>1, <3>0, <3>1
      <4>2. QED
        BY <3>0, <4>1
    <3>2. ASSUME i > 0 PROVE <<i - 1, j>> \in S
      <4>1. i - 1 \in 0 .. m /\ (i - 1) + j <= s - 1
        BY <2>1, <3>0, <3>2
      <4>2. QED
        BY <3>0, <4>1
    <3>3. ASSUME i > 0, j > 0 PROVE <<i - 1, j - 1>> \in S
      <4>1. i - 1 \in 0 .. m /\ j - 1 \in 0 .. n /\ (i - 1) + (j - 1) <= s - 1
        BY <2>1, <3>0, <3>3
      <4>2. QED
        BY <3>0, <4>1
    <3>4. QED
      BY <3>1, <3>2, <3>3
  <2>2. Below(s)
    BY <2>1
  <2> HIDE DEF Below
  <2>3. QED
    BY <1>0, <2>2
<1>3. 0 .. m + n \subseteq D
  <2> HIDE DEF D
  <2>1. QED
    BY <1>0, <1>1, <1>2, UpTo
<1>4. m + n \in 0 .. m + n
  BY <1>0
<1>5. Below(m + n)
  <2> HIDE DEF Below
  <2>1. QED
    BY <1>3, <1>4
<1>6. \A i \in 0 .. m : \A j \in 0 .. n : i + j <= m + n
  OBVIOUS
<1>7. QED
  BY <1>5, <1>6

\* The distance is the same in both directions.
LEMMA TableMirror ==
  ASSUME NEW C, NEW a \in Seq(C), NEW b \in Seq(C), NEW t, IsTable(t, a, b),
         NEW u, IsTable(u, b, a)
  PROVE  \A i \in 0 .. Len(a) : \A j \in 0 .. Len(b) : t[i][j] = u[j][i]
<1> DEFINE m == Len(a)
           n == Len(b)
           S == {p \in (0 .. m) \X (0 .. n) : t[p[1]][p[2]] = u[p[2]][p[1]]}
<1>0. m \in Nat /\ n \in Nat
  OBVIOUS
<1>1. ASSUME NEW i \in 0 .. m, NEW j \in 0 .. n,
             j > 0 => <<i, j - 1>> \in S, i > 0 => <<i - 1, j>> \in S,
             i > 0 /\ j > 0 => <<i - 1, j - 1>> \in S
      PROVE  <<i, j>> \in S
  <2>1. CASE i = 0 \/ j = 0
    BY <2>1, TableType
  <2>2. CASE i > 0 /\ j > 0
    <3>1. i \in 1 .. m /\ j \in 1 .. n
      BY <1>0, <2>2
    <3>2. PICK x \in Nat, y \in Nat, z \in Nat :
            x = t[i][j - 1] /\ y = t[i - 1][j] /\ z = t[i - 1][j - 1]
      <4>1. /\ i - 1 \in 0 .. m /\ j - 1 \in 0 .. n
        BY <3>1
      <4>2. t[i][j - 1] \in Nat /\ t[i - 1][j] \in Nat /\ t[i - 1][j - 1] \in Nat
        BY <4>1, TableType
      <4>3. QED
        BY <4>2
    <3>3. x = u[j - 1][i] /\ y = u[j][i - 1] /\ z = u[j - 1][i - 1]
      BY <1>1, <2>2, <3>2
    <3>4. t[i][j] = Smaller(Smaller(x + 1, y + 1), z + (IF a[i] = b[j] THEN 0 ELSE 1))
      BY <3>1, <3>2 DEF IsTable
    <3>5. u[j][i] = Smaller(Smaller(y + 1, x + 1), z + (IF a[i] = b[j] THEN 0 ELSE 1))
      <4>1. u[j][i] = Smaller(Smaller(y + 1, x + 1), z + (IF b[j] = a[i] THEN 0 ELSE 1))
        BY <3>1, <3>3 DEF IsTable
      <4>2. QED
        BY <4>1
    <3>6. Smaller(x + 1, y + 1) = Smaller(y + 1, x + 1)
      BY DEF Smaller
    <3>7. QED
      BY <3>4, <3>5, <3>6
  <2>3. QED
    BY <1>0, <2>1, <2>2
<1>2. \A i \in 0 .. m : \A j \in 0 .. n : <<i, j>> \in S
  <2> HIDE DEF S, m, n
  <2>1. QED
    BY <1>0, <1>1, Grid
<1>3. QED
  BY <1>2

\* No edit makes a word from itself.
LEMMA TableDiagonal ==
  ASSUME NEW C, NEW a \in Seq(C), NEW t, IsTable(t, a, a)
  PROVE  t[Len(a)][Len(a)] = 0
<1> DEFINE n == Len(a)
           S == {i \in 0 .. n : t[i][i] = 0}
<1>0. n \in Nat
  OBVIOUS
<1>1. 0 \in S
  BY <1>0, TableType
<1>2. ASSUME NEW i \in 1 .. n, i - 1 \in S
      PROVE  i \in S
  <2>1. i \in 0 .. n /\ t[i][i] \in Nat
    BY <1>0, TableType
  <2>2. t[i][i] <= t[i - 1][i - 1]
    BY TableStep
  <2>3. QED
    BY <1>2, <2>1, <2>2
<1>3. 0 .. n \subseteq S
  <2> HIDE DEF S, n
  <2>1. QED
    BY <1>0, <1>1, <1>2, UpTo
<1>4. QED
  BY <1>0, <1>3

\* Two words that begin alike have the same distances there.
LEMMA TablePrefix ==
  ASSUME NEW C, NEW a \in Seq(C), NEW c \in Seq(C), NEW b \in Seq(C),
         NEW t, IsTable(t, a, b), NEW u, IsTable(u, c, b),
         NEW m \in Nat, m <= Len(a), m <= Len(c), \A i \in 1 .. m : a[i] = c[i]
  PROVE  \A i \in 0 .. m : \A j \in 0 .. Len(b) : t[i][j] = u[i][j]
<1> DEFINE n == Len(b)
           S == {p \in (0 .. m) \X (0 .. n) : t[p[1]][p[2]] = u[p[1]][p[2]]}
<1>0. m \in Nat /\ n \in Nat /\ Len(a) \in Nat /\ Len(c) \in Nat
  OBVIOUS
<1>1. ASSUME NEW i \in 0 .. m, NEW j \in 0 .. n,
             j > 0 => <<i, j - 1>> \in S, i > 0 => <<i - 1, j>> \in S,
             i > 0 /\ j > 0 => <<i - 1, j - 1>> \in S
      PROVE  <<i, j>> \in S
  <2>0. i \in 0 .. Len(a) /\ i \in 0 .. Len(c)
    BY <1>0
  <2>1. CASE i = 0 \/ j = 0
    BY <2>0, <2>1, TableType
  <2>2. CASE i > 0 /\ j > 0
    <3>1. i \in 1 .. Len(a) /\ i \in 1 .. Len(c) /\ j \in 1 .. n /\ a[i] = c[i]
      BY <1>0, <2>2
    <3>2. /\ t[i][j - 1] = u[i][j - 1] /\ t[i - 1][j] = u[i - 1][j]
          /\ t[i - 1][j - 1] = u[i - 1][j - 1]
      BY <1>1, <2>2
    <3>3. t[i][j] = u[i][j]
      <4>1. t[i][j] = Smaller(Smaller(t[i][j - 1] + 1, t[i - 1][j] + 1),
                              t[i - 1][j - 1] + (IF a[i] = b[j] THEN 0 ELSE 1))
        BY <3>1 DEF IsTable
      <4>2. u[i][j] = Smaller(Smaller(u[i][j - 1] + 1, u[i - 1][j] + 1),
                              u[i - 1][j - 1] + (IF c[i] = b[j] THEN 0 ELSE 1))
        BY <3>1 DEF IsTable
      <4>3. QED
        BY <3>1, <3>2, <4>1, <4>2
    <3>4. QED
      BY <3>3
  <2>3. QED
    BY <1>0, <2>1, <2>2
<1>2. \A i \in 0 .. m : \A j \in 0 .. n : <<i, j>> \in S
  <2> HIDE DEF S, n
  <2>1. QED
    BY <1>0, <1>1, Grid
<1>3. QED
  BY <1>2

\* Where two words go on alike, distances that differ by one at most keep doing so.
LEMMA TableSuffix ==
  ASSUME NEW C, NEW a \in Seq(C), NEW c \in Seq(C), NEW b \in Seq(C),
         NEW t, IsTable(t, a, b), NEW u, IsTable(u, c, b),
         NEW p \in Nat, NEW q \in Nat, NEW m \in Nat,
         p + m = Len(a), q + m = Len(c), \A k \in 1 .. m : a[p + k] = c[q + k],
         \A j \in 0 .. Len(b) : t[p][j] <= u[q][j] + 1
  PROVE  t[Len(a)][Len(b)] <= u[Len(c)][Len(b)] + 1
<1> DEFINE n == Len(b)
           S == {e \in (0 .. m) \X (0 .. n) : t[p + e[1]][e[2]] <= u[q + e[1]][e[2]] + 1}
<1>0. m \in Nat /\ n \in Nat /\ Len(a) \in Nat /\ Len(c) \in Nat
  OBVIOUS
<1>1. ASSUME NEW k \in 0 .. m, NEW j \in 0 .. n,
             j > 0 => <<k, j - 1>> \in S, k > 0 => <<k - 1, j>> \in S,
             k > 0 /\ j > 0 => <<k - 1, j - 1>> \in S
      PROVE  <<k, j>> \in S
  <2>1. CASE k = 0
    BY <2>1
  <2>2. CASE j = 0
    <3>1. /\ p \in 0 .. Len(a) /\ q \in 0 .. Len(c)
          /\ p + k \in 0 .. Len(a) /\ q + k \in 0 .. Len(c) /\ 0 \in 0 .. n
      BY <1>0
    <3>2. t[p][0] = p /\ t[p + k][0] = p + k
      BY <3>1 DEF IsTable
    <3>5. u[q][0] = q /\ u[q + k][0] = q + k
      BY <3>1 DEF IsTable
    <3>3. p <= q + 1
      BY <3>1, <3>2, <3>5
    <3>4. QED
      BY <2>2, <3>2, <3>3, <3>5
  <2>3. CASE k > 0 /\ j > 0
    <3>1. PICK r \in 1 .. Len(a), s \in 1 .. Len(c) :
            /\ r = p + k /\ r - 1 = p + (k - 1)
            /\ s = q + k /\ s - 1 = q + (k - 1)
            /\ a[r] = c[s]
      <4>1. p + k \in 1 .. Len(a) /\ q + k \in 1 .. Len(c) /\ k \in 1 .. m
        BY <1>0, <2>3
      <4>2. /\ p + k - 1 = p + (k - 1) /\ q + k - 1 = q + (k - 1)
            /\ a[p + k] = c[q + k]
        BY <4>1
      <4>3. QED
        BY <4>1, <4>2
    <3> DEFINE x == t[r][j - 1]
               y == t[r - 1][j]
               z == t[r - 1][j - 1]
               f == u[s][j - 1]
               g == u[s - 1][j]
               h == u[s - 1][j - 1]
    <3>2. x <= f + 1 /\ y <= g + 1 /\ z <= h + 1
      <4>1. <<k, j - 1>> \in S /\ <<k - 1, j>> \in S /\ <<k - 1, j - 1>> \in S
        BY <1>1, <2>3
      <4>2. QED
        BY <3>1, <4>1
    <3>3. /\ r - 1 \in 0 .. Len(a) /\ s - 1 \in 0 .. Len(c) /\ j - 1 \in 0 .. n
          /\ r \in 0 .. Len(a) /\ s \in 0 .. Len(c) /\ j \in 1 .. n
      BY <1>0, <2>3
    <3>4. x \in Nat /\ y \in Nat /\ z \in Nat /\ t[r][j] \in Nat
      BY <3>3, TableType
    <3>5. f \in Nat /\ g \in Nat /\ h \in Nat /\ u[s][j] \in Nat
      BY <3>3, TableType
    <3>6. /\ t[r][j] <= x + 1 /\ t[r][j] <= y + 1 /\ t[r][j] <= z + 1
          /\ a[r] = b[j] => t[r][j] <= z
      BY <3>3, TableStep
    <3>7. \/ u[s][j] = f + 1
          \/ u[s][j] = g + 1
          \/ a[r] = b[j] /\ u[s][j] = h
          \/ u[s][j] = h + 1
      BY <3>1, <3>3, TableStep
    <3> HIDE DEF x, y, z, f, g, h
    <3> DEFINE v == t[r][j]
               w == u[s][j]
    <3>8. /\ v \in Nat /\ w \in Nat /\ v <= x + 1 /\ v <= y + 1 /\ v <= z + 1
          /\ w = f + 1 \/ w = g + 1 \/ (v <= z /\ w = h) \/ w = h + 1
      BY <3>4, <3>5, <3>6, <3>7
    <3> HIDE DEF v, w, S
    <3>10. v <= w + 1
      <4>1. CASE w = f + 1
        BY <3>2, <3>4, <3>5, <3>8, <4>1
      <4>2. CASE w = g + 1
        BY <3>2, <3>4, <3>5, <3>8, <4>2
      <4>3. CASE v <= z /\ w = h
        BY <3>2, <3>4, <3>5, <3>8, <4>3
      <4>4. CASE w = h + 1
        BY <3>2, <3>4, <3>5, <3>8, <4>4
      <4>5. QED
        BY <3>8, <4>1, <4>2, <4>3, <4>4
    <3>9. QED
      BY <3>1, <3>10 DEF v, w, S
  <2>4. QED
    BY <1>0, <2>1, <2>2, <2>3
<1>2. \A k \in 0 .. m : \A j \in 0 .. n : <<k, j>> \in S
  <2> HIDE DEF S, n
  <2>1. QED
    BY <1>0, <1>1, Grid
<1>3. m \in 0 .. m /\ n \in 0 .. n
  BY <1>0
<1>4. <<m, n>> \in S
  BY <1>2, <1>3
<1>5. QED
  BY <1>4

-----------------------------------------------------------------------------
(***************************************************************************)
(* Edits and words                                                         *)
(***************************************************************************)
\* The three edits, character by character.
LEMMA RemoveIs ==
  ASSUME NEW C, NEW l \in Seq(C), NEW p \in 1 .. Len(l)
  PROVE  /\ RemoveAt(l, p) \in Seq(C) /\ Len(RemoveAt(l, p)) = Len(l) - 1
         /\ \A k \in 1 .. Len(l) - 1 :
              RemoveAt(l, p)[k] = IF k < p THEN l[k] ELSE l[k + 1]
<1> DEFINE x == SubSeq(l, 1, p - 1)
           y == SubSeq(l, p + 1, Len(l))
<1>0. Len(l) \in Nat /\ p \in Nat /\ p >= 1 /\ p <= Len(l)
  OBVIOUS
<1>1. x \in Seq(C) /\ Len(x) = p - 1 /\ \A k \in 1 .. p - 1 : x[k] = l[k]
  BY <1>0
<1>2. /\ y \in Seq(C) /\ Len(y) = Len(l) - p
      /\ \A k \in 1 .. Len(l) - p : y[k] = l[p + k]
  BY <1>0
<1>3. RemoveAt(l, p) = x \o y
  BY DEF RemoveAt
<1> HIDE DEF x, y
<1>4. x \o y \in Seq(C) /\ Len(x \o y) = Len(l) - 1
  <2>1. x \o y \in Seq(C) /\ Len(x \o y) = Len(x) + Len(y)
    BY <1>1, <1>2, ConcatProperties
  <2>2. QED
    BY <1>0, <1>1, <1>2, <2>1
<1>5. ASSUME NEW k \in 1 .. Len(l) - 1
      PROVE  (x \o y)[k] = IF k < p THEN l[k] ELSE l[k + 1]
  <2>1. CASE k < p
    BY <1>0, <1>1, <1>2, <2>1
  <2>2. CASE ~ (k < p)
    <3>1. k - (p - 1) \in 1 .. Len(l) - p /\ p + (k - (p - 1)) = k + 1
      BY <1>0, <2>2
    <3>2. (x \o y)[k] = y[k - (p - 1)]
      BY <1>0, <1>1, <1>2, <2>2
    <3>3. QED
      BY <1>2, <2>2, <3>1, <3>2
  <2>3. QED
    BY <2>1, <2>2
<1>6. QED
  BY <1>3, <1>4, <1>5

\* A character more: the word up to it, the character, the rest.
LEMMA InsertIs ==
  ASSUME NEW C, NEW l \in Seq(C), NEW p \in 1 .. Len(l) + 1, NEW c \in C
  PROVE  /\ InsertAt(l, p, c) \in Seq(C) /\ Len(InsertAt(l, p, c)) = Len(l) + 1
         /\ \A k \in 1 .. Len(l) + 1 :
              InsertAt(l, p, c)[k] = IF k < p THEN l[k] ELSE IF k = p THEN c ELSE l[k - 1]
<1> DEFINE x == SubSeq(l, 1, p - 1)
           y == SubSeq(l, p, Len(l))
           z == x \o <<c>>
<1>0. Len(l) \in Nat /\ p \in Nat /\ p >= 1 /\ p <= Len(l) + 1
  OBVIOUS
<1>1. x \in Seq(C) /\ Len(x) = p - 1 /\ \A k \in 1 .. p - 1 : x[k] = l[k]
  BY <1>0
<1>2. /\ y \in Seq(C) /\ Len(y) = Len(l) + 1 - p
      /\ \A k \in 1 .. Len(l) + 1 - p : y[k] = l[p + k - 1]
  BY <1>0
<1>3. InsertAt(l, p, c) = z \o y
  BY DEF InsertAt
<1> HIDE DEF x, y
<1>4. /\ z \in Seq(C) /\ Len(z) = p
      /\ \A k \in 1 .. p - 1 : z[k] = l[k]
      /\ z[p] = c
  BY <1>0, <1>1
<1> HIDE DEF z
<1>5. z \o y \in Seq(C) /\ Len(z \o y) = Len(l) + 1
  <2>1. z \o y \in Seq(C) /\ Len(z \o y) = Len(z) + Len(y)
    BY <1>2, <1>4, ConcatProperties
  <2>2. QED
    BY <1>0, <1>2, <1>4, <2>1
<1>6. ASSUME NEW k \in 1 .. Len(l) + 1
      PROVE  (z \o y)[k] = IF k < p THEN l[k] ELSE IF k = p THEN c ELSE l[k - 1]
  <2>1. CASE k <= p
    <3>1. (z \o y)[k] = z[k]
      BY <1>0, <1>2, <1>4, <2>1
    <3>2. k < p => k \in 1 .. p - 1
      BY <1>0
    <3>3. QED
      BY <1>0, <1>4, <2>1, <3>1, <3>2
  <2>2. CASE ~ (k <= p)
    <3>1. k - p \in 1 .. Len(l) + 1 - p /\ p + (k - p) - 1 = k - 1
      BY <1>0, <2>2
    <3>2. (z \o y)[k] = y[k - p]
      BY <1>0, <1>2, <1>4, <2>2
    <3>3. QED
      BY <1>0, <1>2, <2>2, <3>1, <3>2
  <2>3. QED
    BY <2>1, <2>2
<1>7. QED
  BY <1>3, <1>5, <1>6

\* Another character in its place.
LEMMA ReplaceIs ==
  ASSUME NEW C, NEW l \in Seq(C), NEW p \in 1 .. Len(l), NEW c \in C
  PROVE  /\ ReplaceAt(l, p, c) \in Seq(C) /\ Len(ReplaceAt(l, p, c)) = Len(l)
         /\ \A k \in 1 .. Len(l) : ReplaceAt(l, p, c)[k] = IF k = p THEN c ELSE l[k]
BY DEF ReplaceAt

\* What edits make of a word.
LEMMA OneEditIs ==
  ASSUME NEW C, NEW l \in Seq(C), NEW chars \in SUBSET C, NEW w
  PROVE  w \in OneEdit(l, chars) <=>
           \/ \E p \in 1 .. Len(l) : w = RemoveAt(l, p)
           \/ \E p \in 1 .. Len(l), c \in chars : w = ReplaceAt(l, p, c)
           \/ \E p \in 1 .. Len(l) + 1, c \in chars : w = InsertAt(l, p, c)
<1>1. DOMAIN l = 1 .. Len(l)
  OBVIOUS
<1>2. QED
  BY <1>1 DEF OneEdit

\* One edit brings a word nearer to another one by one at most.
LEMMA EditBound ==
  ASSUME NEW C, NEW a \in Seq(C), NEW b \in Seq(C), NEW chars \in SUBSET C,
         NEW c \in OneEdit(a, chars), NEW t, IsTable(t, a, b), NEW u, IsTable(u, c, b)
  PROVE  c \in Seq(C) /\ t[Len(a)][Len(b)] <= u[Len(c)][Len(b)] + 1
<1> DEFINE n == Len(b)
<1>0. Len(a) \in Nat /\ n \in Nat
  OBVIOUS
<1>1. ASSUME NEW p \in 1 .. Len(a), c = RemoveAt(a, p)
      PROVE  c \in Seq(C) /\ t[Len(a)][n] <= u[Len(c)][n] + 1
  <2>1. /\ c \in Seq(C) /\ Len(c) = Len(a) - 1
        /\ \A k \in 1 .. Len(a) - 1 : c[k] = IF k < p THEN a[k] ELSE a[k + 1]
    BY <1>1, RemoveIs
  <2>2. /\ p \in Nat /\ p - 1 \in Nat /\ p - 1 <= Len(a) /\ p - 1 <= Len(c)
        /\ Len(a) - p \in Nat /\ p + (Len(a) - p) = Len(a) /\ p - 1 + (Len(a) - p) = Len(c)
    BY <1>0, <2>1
  <2>3. \A i \in 1 .. p - 1 : a[i] = c[i]
    BY <1>0, <2>1
  <2>4. \A i \in 0 .. p - 1 : \A j \in 0 .. n : t[i][j] = u[i][j]
    <3>1. PICK q \in Nat : q = p - 1
      BY <2>2
    <3>2. q <= Len(a) /\ q <= Len(c) /\ \A i \in 1 .. q : a[i] = c[i]
      BY <2>2, <2>3, <3>1
    <3>3. \A i \in 0 .. q : \A j \in 0 .. n : t[i][j] = u[i][j]
      <4>1. c \in Seq(C)
        BY <2>1
      <4>2. QED
        BY <3>2, <4>1, TablePrefix
    <3>4. QED
      BY <3>1, <3>3
  <2>5. ASSUME NEW j \in 0 .. n
        PROVE  t[p][j] <= u[p - 1][j] + 1
    <3>1. p \in 0 .. Len(a) /\ p - 1 \in 0 .. Len(a) /\ t[p - 1][j] \in Nat /\ t[p][j] \in Nat
      BY <1>0, TableType
    <3>2. t[p][j] <= t[p - 1][j] + 1
      <4>1. CASE j = 0
        BY <3>1, <4>1, TableType
      <4>2. CASE j # 0
        <5>1. j \in 1 .. n
          BY <1>0, <4>2
        <5>2. QED
          BY <5>1, TableStep
      <4>3. QED
        BY <4>1, <4>2
    <3>3. p - 1 \in 0 .. p - 1
      BY <2>2
    <3>4. QED
      BY <2>4, <3>2, <3>3
  <2>6. \A k \in 1 .. Len(a) - p : a[p + k] = c[p - 1 + k]
    <3>1. ASSUME NEW k \in 1 .. Len(a) - p
          PROVE  a[p + k] = c[p - 1 + k]
      <4>1. /\ p - 1 + k \in 1 .. Len(a) - 1 /\ ~ (p - 1 + k < p)
            /\ p - 1 + k + 1 = p + k
        BY <1>0
      <4>2. QED
        BY <2>1, <4>1
    <3>2. QED
      BY <3>1
  <2>7. QED
    <3> DEFINE q == p - 1
               m == Len(a) - p
    <3>1. q \in Nat /\ m \in Nat /\ p \in Nat /\ p + m = Len(a) /\ q + m = Len(c)
      BY <2>2
    <3>2. \A k \in 1 .. m : a[p + k] = c[q + k]
      BY <2>6
    <3>3. \A j \in 0 .. Len(b) : t[p][j] <= u[q][j] + 1
      BY <2>5
    <3> HIDE DEF q, m
    <3>4. QED
      BY <2>1, <3>1, <3>2, <3>3, TableSuffix
<1>2. ASSUME NEW p \in 1 .. Len(a), NEW e \in chars, c = ReplaceAt(a, p, e)
      PROVE  c \in Seq(C) /\ t[Len(a)][n] <= u[Len(c)][n] + 1
  <2>1. /\ c \in Seq(C) /\ Len(c) = Len(a)
        /\ \A k \in 1 .. Len(a) : c[k] = IF k = p THEN e ELSE a[k]
    <3>1. e \in C
      OBVIOUS
    <3>2. /\ ReplaceAt(a, p, e) \in Seq(C) /\ Len(ReplaceAt(a, p, e)) = Len(a)
          /\ \A k \in 1 .. Len(a) : ReplaceAt(a, p, e)[k] = IF k = p THEN e ELSE a[k]
      BY <3>1, ReplaceIs
    <3>3. QED
      BY <1>2, <3>2
  <2>2. /\ p \in Nat /\ p - 1 \in Nat /\ p - 1 <= Len(a) /\ p - 1 <= Len(c)
        /\ Len(a) - p \in Nat /\ p + (Len(a) - p) = Len(a) /\ p + (Len(a) - p) = Len(c)
    BY <1>0, <2>1
  <2>3. \A i \in 1 .. p - 1 : a[i] = c[i]
    BY <1>0, <2>1
  <2>4. \A i \in 0 .. p - 1 : \A j \in 0 .. n : t[i][j] = u[i][j]
    <3>1. PICK q \in Nat : q = p - 1
      BY <2>2
    <3>2. q <= Len(a) /\ q <= Len(c) /\ \A i \in 1 .. q : a[i] = c[i]
      BY <2>2, <2>3, <3>1
    <3>3. \A i \in 0 .. q : \A j \in 0 .. n : t[i][j] = u[i][j]
      <4>1. c \in Seq(C)
        BY <2>1
      <4>2. QED
        BY <3>2, <4>1, TablePrefix
    <3>4. QED
      BY <3>1, <3>3
  <2>5. \A j \in 0 .. n : t[p][j] <= u[p][j] + 1
    <3> DEFINE S == {j \in 0 .. n : t[p][j] <= u[p][j] + 1}
    <3>0. p \in 0 .. Len(a) /\ p \in 0 .. Len(c) /\ p - 1 \in 0 .. p - 1
      BY <1>0, <2>1
    <3>1. 0 \in S
      BY <1>0, <2>1, <3>0, TableType
    <3>2. ASSUME NEW j \in 1 .. n, j - 1 \in S
          PROVE  j \in S
      <4>1. /\ j - 1 \in 0 .. n /\ j \in 0 .. n /\ p \in 1 .. Len(c)
            /\ p - 1 \in 0 .. Len(c) /\ p - 1 \in 0 .. Len(a)
        BY <1>0, <2>1
      <4> DEFINE v == t[p][j]
                 w == u[p][j]
                 x == t[p][j - 1]
                 y == u[p][j - 1]
                 f == t[p - 1][j]
                 g == t[p - 1][j - 1]
      <4>2. v \in Nat /\ x \in Nat /\ f \in Nat /\ g \in Nat
        BY <3>0, <4>1, TableType
      <4>3. w \in Nat /\ y \in Nat
        BY <2>1, <3>0, <4>1, TableType
      <4>4. v <= x + 1 /\ v <= f + 1 /\ v <= g + 1
        BY TableStep
      <4>5. w = y + 1 \/ w = f + 1 \/ w = g \/ w = g + 1
        <5>1. f = u[p - 1][j] /\ g = u[p - 1][j - 1]
          BY <2>4, <3>0, <4>1
        <5> HIDE DEF f, g
        <5>2. QED
          BY <2>1, <4>1, <5>1, TableStep
      <4>6. x <= y + 1
        BY <3>2
      <4> HIDE DEF v, w, x, y, f, g
      <4>7. v <= w + 1
        BY <4>2, <4>3, <4>4, <4>5, <4>6
      <4>8. QED
        BY <4>1, <4>7 DEF v, w
    <3>3. 0 .. n \subseteq S
      <4> HIDE DEF S, n
      <4>1. QED
        BY <1>0, <3>1, <3>2, UpTo
    <3>4. QED
      BY <3>3
  <2>6. \A k \in 1 .. Len(a) - p : a[p + k] = c[p + k]
    <3>1. ASSUME NEW k \in 1 .. Len(a) - p
          PROVE  a[p + k] = c[p + k]
      <4>1. p + k \in 1 .. Len(a) /\ p + k # p
        BY <1>0
      <4>2. QED
        BY <2>1, <4>1
    <3>2. QED
      BY <3>1
  <2>7. QED
    <3> DEFINE m == Len(a) - p
    <3>1. m \in Nat /\ p \in Nat /\ p + m = Len(a) /\ p + m = Len(c)
      BY <2>2
    <3>2. \A k \in 1 .. m : a[p + k] = c[p + k]
      BY <2>6
    <3>3. \A j \in 0 .. Len(b) : t[p][j] <= u[p][j] + 1
      BY <2>5
    <3> HIDE DEF m
    <3>4. PICK q \in Nat : q = p
      BY <3>1
    <3>5. /\ q + m = Len(c) /\ \A k \in 1 .. m : a[p + k] = c[q + k]
          /\ \A j \in 0 .. Len(b) : t[p][j] <= u[q][j] + 1
      BY <3>1, <3>2, <3>3, <3>4
    <3>6. c \in Seq(C)
      BY <2>1
    <3>7. t[Len(a)][Len(b)] <= u[Len(c)][Len(b)] + 1
      BY <3>1, <3>5, <3>6, TableSuffix
    <3>8. QED
      BY <3>6, <3>7
<1>3. ASSUME NEW p \in 1 .. Len(a) + 1, NEW e \in chars, c = InsertAt(a, p, e)
      PROVE  c \in Seq(C) /\ t[Len(a)][n] <= u[Len(c)][n] + 1
  <2> DEFINE q == p - 1
             m == Len(a) + 1 - p
  <2>1. /\ c \in Seq(C) /\ Len(c) = Len(a) + 1
        /\ \A k \in 1 .. Len(a) + 1 :
             c[k] = IF k < p THEN a[k] ELSE IF k = p THEN e ELSE a[k - 1]
    <3>1. e \in C
      OBVIOUS
    <3>2. /\ InsertAt(a, p, e) \in Seq(C) /\ Len(InsertAt(a, p, e)) = Len(a) + 1
          /\ \A k \in 1 .. Len(a) + 1 :
               InsertAt(a, p, e)[k] = IF k < p THEN a[k] ELSE IF k = p THEN e ELSE a[k - 1]
      BY <3>1, InsertIs
    <3>3. QED
      BY <1>3, <3>2
  <2>2. /\ p \in Nat /\ q \in Nat /\ m \in Nat /\ q <= Len(a) /\ q <= Len(c)
        /\ q + m = Len(a) /\ p + m = Len(c) /\ p = q + 1
    BY <1>0, <2>1
  <2>3. \A i \in 1 .. q : a[i] = c[i]
    BY <1>0, <2>1
  <2>4. \A i \in 0 .. q : \A j \in 0 .. n : t[i][j] = u[i][j]
    <3>1. PICK r \in Nat : r = q
      BY <2>2
    <3>2. r <= Len(a) /\ r <= Len(c) /\ \A i \in 1 .. r : a[i] = c[i]
      BY <2>2, <2>3, <3>1
    <3>3. \A i \in 0 .. r : \A j \in 0 .. n : t[i][j] = u[i][j]
      <4>1. c \in Seq(C)
        BY <2>1
      <4>2. QED
        BY <3>2, <4>1, TablePrefix
    <3>4. QED
      BY <3>1, <3>3
  <2>6. \A k \in 1 .. m : a[q + k] = c[p + k]
    <3>1. ASSUME NEW k \in 1 .. m
          PROVE  a[q + k] = c[p + k]
      <4>1. p + k \in 1 .. Len(a) + 1 /\ ~ (p + k <= p) /\ p + k - 1 = q + k
        BY <1>0
      <4>2. QED
        BY <2>1, <4>1
    <3>2. QED
      BY <3>1
  <2> HIDE DEF q, m
  <2>5. \A j \in 0 .. n : t[q][j] <= u[p][j] + 1
    <3> DEFINE S == {j \in 0 .. n : t[q][j] <= u[p][j] + 1}
    <3>0. /\ q \in 0 .. Len(a) /\ p \in 1 .. Len(c) /\ p \in 0 .. Len(c) /\ q \in 0 .. q
          /\ p - 1 = q
      BY <1>0, <2>1, <2>2
    <3>1. 0 \in S
      <4>1. t[q][0] = q /\ u[p][0] = p
        BY <1>0, <2>1, <3>0, TableType
      <4>2. QED
        BY <1>0, <2>2, <4>1
    <3>2. ASSUME NEW j \in 1 .. n, j - 1 \in S
          PROVE  j \in S
      <4>1. j - 1 \in 0 .. n /\ j \in 0 .. n
        BY <1>0
      <4> DEFINE v == t[q][j]
                 w == u[p][j]
                 x == t[q][j - 1]
                 y == u[p][j - 1]
      <4>2. v \in Nat /\ x \in Nat
        BY <3>0, <4>1, TableType
      <4>3. w \in Nat /\ y \in Nat
        BY <2>1, <3>0, <4>1, TableType
      <4>4. v <= x + 1
        <5>1. CASE q = 0
          <6>1. v = j /\ x = j - 1
            BY <3>0, <4>1, <5>1, TableType
          <6>2. QED
            BY <6>1
        <5>2. CASE q # 0
          <6>1. q \in 1 .. Len(a)
            BY <3>0, <5>2
          <6>2. QED
            BY <6>1, TableStep
        <5>3. QED
          BY <5>1, <5>2
      <4>5. w = y + 1 \/ w = v + 1 \/ w = x \/ w = x + 1
        <5>1. v = u[p - 1][j] /\ x = u[p - 1][j - 1]
          BY <2>4, <3>0, <4>1
        <5>2. p \in 1 .. Len(c)
          BY <3>0
        <5> HIDE DEF v, x
        <5>3. QED
          BY <2>1, <5>1, <5>2, TableStep
      <4>6. x <= y + 1
        BY <3>2
      <4> HIDE DEF v, w, x, y
      <4>7. v <= w + 1
        BY <4>2, <4>3, <4>4, <4>5, <4>6
      <4>8. QED
        BY <4>1, <4>7 DEF v, w
    <3>3. 0 .. n \subseteq S
      <4> HIDE DEF S, n
      <4>1. QED
        BY <1>0, <3>1, <3>2, UpTo
    <3>4. QED
      BY <3>3
  <2>7. QED
    <3>1. p \in Nat /\ q \in Nat /\ m \in Nat /\ q + m = Len(a) /\ p + m = Len(c)
      BY <2>2
    <3>2. \A j \in 0 .. Len(b) : t[q][j] <= u[p][j] + 1
      BY <2>5
    <3>3. QED
      BY <2>1, <2>6, <3>1, <3>2, TableSuffix
<1>4. QED
  BY <1>1, <1>2, <1>3, OneEditIs

\* The words that up to n edits make from a, set by set.
EditSets(reach, C, chars, a, n) ==
  /\ reach \in [0 .. n -> SUBSET Seq(C)]
  /\ reach[0] = {a}
  /\ \A k \in 1 .. n :
       reach[k] = reach[k - 1] \cup UNION {OneEdit(l, chars) : l \in reach[k - 1]}

\* WithinEdits goes through these sets.
LEMMA WithinEditsIs ==
  ASSUME NEW C, NEW a \in Seq(C), NEW b \in Seq(C), NEW n \in Nat
  PROVE  \E reach : /\ EditSets(reach, C, ToSet(a) \cup ToSet(b), a, n)
                    /\ WithinEdits(a, b, n) <=> b \in reach[n]
<1> DEFINE chars == ToSet(a) \cup ToSet(b)
           V == SUBSET Seq(C)
           More(x) == x \cup UNION {OneEdit(l, chars) : l \in x}
           step == [k \in 1 .. n |-> [x \in V |-> More(x)]]
           Fits(f) == f = [k \in 0 .. n |-> IF k = 0 THEN {a} ELSE More(f[k - 1])]
<1>1. chars \in SUBSET C
  BY DEF ToSet
<1> HIDE DEF chars
<1>2. ASSUME NEW x \in V
      PROVE  More(x) \in V
  <2>1. ASSUME NEW l \in x, NEW w \in OneEdit(l, chars)
        PROVE  w \in Seq(C)
    <3>1. l \in Seq(C)
      OBVIOUS
    <3>2. ASSUME NEW p \in 1 .. Len(l) PROVE RemoveAt(l, p) \in Seq(C)
      BY <3>1, RemoveIs
    <3>3. ASSUME NEW p \in 1 .. Len(l), NEW c \in chars PROVE ReplaceAt(l, p, c) \in Seq(C)
      BY <1>1, <3>1, ReplaceIs
    <3>4. ASSUME NEW p \in 1 .. Len(l) + 1, NEW c \in chars PROVE InsertAt(l, p, c) \in Seq(C)
      BY <1>1, <3>1, InsertIs
    <3>5. QED
      BY <1>1, <3>1, <3>2, <3>3, <3>4, OneEditIs
  <2>2. QED
    BY <2>1
<1> HIDE DEF V
<1>3. step \in [1 .. n -> [V -> V]]
  BY <1>2
<1>4. {a} \in V
  BY DEF V
<1>5. PICK f \in [0 .. n -> V] : f[0] = {a} /\ \A k \in 1 .. n : f[k] = step[k][f[k - 1]]
  <2> HIDE DEF step
  <2>1. Recursive(n, V, {a}, step)
    BY <1>3, <1>4, Recursion
  <2>2. QED
    BY <2>1 DEF Recursive
<1>6. Fits(f)
  <2>1. ASSUME NEW k \in 0 .. n
        PROVE  f[k] = IF k = 0 THEN {a} ELSE More(f[k - 1])
    <3>1. CASE k = 0
      BY <1>5, <3>1
    <3>2. CASE k # 0
      <4>1. k \in 1 .. n /\ f[k - 1] \in V
        BY <3>2
      <4> HIDE DEF More
      <4>2. QED
        BY <1>5, <3>2, <4>1
    <3>3. QED
      BY <3>1, <3>2
  <2> HIDE DEF More
  <2>2. QED
    BY <2>1
<1> DEFINE reach == CHOOSE g : Fits(g)
<1>7. Fits(reach)
  <2>1. \E g : Fits(g)
    BY <1>6
  <2> HIDE DEF Fits
  <2>2. QED
    BY <2>1
<1>8. WithinEdits(a, b, n) <=> b \in reach[n]
  BY DEF WithinEdits, chars
<1> HIDE DEF reach, More
<1>9. /\ reach[0] = {a}
      /\ \A k \in 1 .. n : reach[k] = More(reach[k - 1])
  <2>1. 0 \in 0 .. n /\ \A k \in 1 .. n : k \in 0 .. n /\ k # 0
    OBVIOUS
  <2>2. QED
    BY <1>7, <2>1
<1>10. reach \in [0 .. n -> V]
  <2> DEFINE S == {k \in 0 .. n : reach[k] \in V}
  <2>0. 0 \in 0 .. n
    OBVIOUS
  <2>1. 0 \in S
    BY <1>4, <1>9, <2>0
  <2>2. ASSUME NEW k \in 1 .. n, k - 1 \in S
        PROVE  k \in S
    <3>1. reach[k] \in V
      BY <1>2, <1>9, <2>2
    <3>2. QED
      BY <3>1
  <2>3. 0 .. n \subseteq S
    <3> HIDE DEF S
    <3>1. QED
      BY <2>1, <2>2, UpTo
  <2>4. QED
    BY <1>7, <2>3
<1>11. QED
  <2>1. \A k \in 1 .. n : reach[k] = reach[k - 1] \cup UNION {OneEdit(l, chars) : l \in reach[k - 1]}
    BY <1>9 DEF More
  <2>2. reach \in [0 .. n -> SUBSET Seq(C)]
    BY <1>10 DEF V
  <2>3. EditSets(reach, C, chars, a, n)
    BY <1>9, <2>1, <2>2 DEF EditSets
  <2>4. QED
    BY <1>8, <2>3 DEF chars

\* The beginning of b and then the end of a: a word on the way from a to b.
Splice(a, b, i, j) ==
  [k \in 1 .. Len(a) - i + j |-> IF k <= j THEN b[k] ELSE a[k - j + i]]

IsSplice(x, C, a, b, i, j) ==
  /\ x \in Seq(C) /\ Len(x) = Len(a) - i + j
  /\ \A k \in 1 .. Len(a) - i + j : x[k] = IF k <= j THEN b[k] ELSE a[k - j + i]

\* It is a word, and these are its characters.
LEMMA SpliceType ==
  ASSUME NEW C, NEW a \in Seq(C), NEW b \in Seq(C),
         NEW i \in 0 .. Len(a), NEW j \in 0 .. Len(b)
  PROVE  IsSplice(Splice(a, b, i, j), C, a, b, i, j)
<1> DEFINE n == Len(a) - i + j
<1>1. n \in Nat /\ Len(a) \in Nat /\ Len(b) \in Nat
  OBVIOUS
<1>2. ASSUME NEW k \in 1 .. n
      PROVE  (IF k <= j THEN b[k] ELSE a[k - j + i]) \in C
  <2>1. CASE k <= j
    <3>1. k \in 1 .. Len(b)
      BY <1>1, <2>1
    <3>2. QED
      BY <2>1, <3>1
  <2>2. CASE ~ (k <= j)
    <3>1. k - j + i \in 1 .. Len(a)
      BY <1>1, <2>2
    <3>2. QED
      BY <2>2, <3>1
  <2>3. QED
    BY <2>1, <2>2
<1> HIDE DEF n
<1>3. QED
  BY <1>1, <1>2 DEF Splice, IsSplice, n

\* From one word on the way to the next by an insertion, a deletion or a replacement.
LEMMA SpliceInsert ==
  ASSUME NEW C, NEW a \in Seq(C), NEW b \in Seq(C),
         NEW i \in 0 .. Len(a), NEW j \in 1 .. Len(b)
  PROVE  /\ j \in 1 .. Len(Splice(a, b, i, j - 1)) + 1
         /\ Splice(a, b, i, j) = InsertAt(Splice(a, b, i, j - 1), j, b[j])
<1> DEFINE x == Splice(a, b, i, j - 1)
           y == Splice(a, b, i, j)
           n == Len(a) - i + j
<1>0. j - 1 \in 0 .. Len(b) /\ j \in 0 .. Len(b) /\ b[j] \in C /\ Len(a) \in Nat /\ i \in Nat /\ j \in Nat
  OBVIOUS
<1>1. /\ x \in Seq(C) /\ Len(x) = Len(a) - i + (j - 1)
      /\ \A k \in 1 .. Len(a) - i + (j - 1) :
           x[k] = IF k <= j - 1 THEN b[k] ELSE a[k - (j - 1) + i]
  <2>1. IsSplice(x, C, a, b, i, j - 1)
    BY <1>0, SpliceType
  <2>2. QED
    BY <2>1 DEF IsSplice
<1>2. /\ y \in Seq(C) /\ Len(y) = n
      /\ \A k \in 1 .. n : y[k] = IF k <= j THEN b[k] ELSE a[k - j + i]
  <2>1. IsSplice(y, C, a, b, i, j)
    BY <1>0, SpliceType
  <2>2. QED
    BY <2>1 DEF IsSplice
<1> HIDE DEF x, y
<1>3. Len(x) + 1 = n /\ j \in 1 .. n /\ n \in Nat
  BY <1>0, <1>1
<1>4. /\ InsertAt(x, j, b[j]) \in Seq(C) /\ Len(InsertAt(x, j, b[j])) = n
      /\ \A k \in 1 .. n :
           InsertAt(x, j, b[j])[k] = IF k < j THEN x[k] ELSE IF k = j THEN b[j] ELSE x[k - 1]
  <2>1. j \in 1 .. Len(x) + 1
    BY <1>3
  <2>2. /\ InsertAt(x, j, b[j]) \in Seq(C) /\ Len(InsertAt(x, j, b[j])) = Len(x) + 1
        /\ \A k \in 1 .. Len(x) + 1 :
             InsertAt(x, j, b[j])[k] = IF k < j THEN x[k] ELSE IF k = j THEN b[j] ELSE x[k - 1]
    <3>1. PICK e \in C : e = b[j]
      BY <1>0
    <3>2. /\ InsertAt(x, j, e) \in Seq(C) /\ Len(InsertAt(x, j, e)) = Len(x) + 1
          /\ \A k \in 1 .. Len(x) + 1 :
               InsertAt(x, j, e)[k] = IF k < j THEN x[k] ELSE IF k = j THEN e ELSE x[k - 1]
      <4>1. x \in Seq(C)
        BY <1>1
      <4>2. QED
        BY <2>1, <4>1, InsertIs
    <3>3. QED
      BY <3>1, <3>2
  <2>3. QED
    BY <1>3, <2>2
<1>5. ASSUME NEW k \in 1 .. n
      PROVE  y[k] = InsertAt(x, j, b[j])[k]
  <2>1. CASE k < j
    <3>1. k \in 1 .. Len(a) - i + (j - 1) /\ k <= j - 1 /\ k <= j
      BY <1>0, <2>1
    <3>2. x[k] = b[k] /\ y[k] = b[k]
      BY <1>1, <1>2, <3>1
    <3>3. QED
      BY <1>4, <2>1, <3>2
  <2>2. CASE k = j
    BY <1>2, <1>4, <2>2
  <2>3. CASE k > j
    <3>1. /\ k - 1 \in 1 .. Len(a) - i + (j - 1) /\ ~ (k - 1 <= j - 1) /\ ~ (k <= j) /\ ~ (k < j)
          /\ k # j /\ (k - 1) - (j - 1) + i = k - j + i
      BY <1>0, <2>3
    <3>2. x[k - 1] = a[k - j + i]
      BY <1>1, <3>1
    <3>3. QED
      BY <1>2, <1>4, <3>1, <3>2
  <2>4. QED
    BY <1>0, <2>1, <2>2, <2>3
<1>6. y = InsertAt(x, j, b[j])
  BY <1>2, <1>4, <1>5, SeqEqual
<1>7. QED
  BY <1>3, <1>6 DEF x, y

\* A deletion.
LEMMA SpliceRemove ==
  ASSUME NEW C, NEW a \in Seq(C), NEW b \in Seq(C),
         NEW i \in 1 .. Len(a), NEW j \in 0 .. Len(b)
  PROVE  /\ j + 1 \in 1 .. Len(Splice(a, b, i - 1, j))
         /\ Splice(a, b, i, j) = RemoveAt(Splice(a, b, i - 1, j), j + 1)
<1> DEFINE x == Splice(a, b, i - 1, j)
           y == Splice(a, b, i, j)
           n == Len(a) - i + j
<1>0. i - 1 \in 0 .. Len(a) /\ i \in 0 .. Len(a) /\ Len(a) \in Nat /\ i \in Nat /\ j \in Nat
  OBVIOUS
<1>1. /\ x \in Seq(C) /\ Len(x) = Len(a) - (i - 1) + j
      /\ \A k \in 1 .. Len(a) - (i - 1) + j :
           x[k] = IF k <= j THEN b[k] ELSE a[k - j + (i - 1)]
  <2>1. IsSplice(x, C, a, b, i - 1, j)
    BY <1>0, SpliceType
  <2>2. QED
    BY <2>1 DEF IsSplice
<1>2. /\ y \in Seq(C) /\ Len(y) = n
      /\ \A k \in 1 .. n : y[k] = IF k <= j THEN b[k] ELSE a[k - j + i]
  <2>1. IsSplice(y, C, a, b, i, j)
    BY <1>0, SpliceType
  <2>2. QED
    BY <2>1 DEF IsSplice
<1> HIDE DEF x, y
<1>3. Len(x) = n + 1 /\ j + 1 \in 1 .. Len(x) /\ n \in Nat
  BY <1>0, <1>1
<1>4. /\ RemoveAt(x, j + 1) \in Seq(C) /\ Len(RemoveAt(x, j + 1)) = n
      /\ \A k \in 1 .. n : RemoveAt(x, j + 1)[k] = IF k < j + 1 THEN x[k] ELSE x[k + 1]
  <2>1. PICK p \in 1 .. Len(x) : p = j + 1
    BY <1>3
  <2>2. /\ RemoveAt(x, p) \in Seq(C) /\ Len(RemoveAt(x, p)) = Len(x) - 1
        /\ \A k \in 1 .. Len(x) - 1 :
             RemoveAt(x, p)[k] = IF k < p THEN x[k] ELSE x[k + 1]
    BY <1>1, RemoveIs
  <2>3. Len(x) - 1 = n
    BY <1>3
  <2>4. QED
    BY <2>1, <2>2, <2>3
<1>5. ASSUME NEW k \in 1 .. n
      PROVE  y[k] = RemoveAt(x, j + 1)[k]
  <2>1. CASE k <= j
    <3>1. k \in 1 .. Len(a) - (i - 1) + j /\ k < j + 1
      BY <1>0, <2>1
    <3>2. QED
      BY <1>1, <1>2, <1>4, <2>1, <3>1
  <2>2. CASE ~ (k <= j)
    <3>1. /\ k + 1 \in 1 .. Len(a) - (i - 1) + j /\ ~ (k + 1 <= j) /\ ~ (k < j + 1)
          /\ (k + 1) - j + (i - 1) = k - j + i
      BY <1>0, <2>2
    <3>2. x[k + 1] = a[k - j + i]
      BY <1>1, <3>1
    <3>3. QED
      BY <1>2, <1>4, <2>2, <3>1, <3>2
  <2>3. QED
    BY <2>1, <2>2
<1>6. y = RemoveAt(x, j + 1)
  BY <1>2, <1>4, <1>5, SeqEqual
<1>7. QED
  BY <1>3, <1>6 DEF x, y

\* A replacement, or nothing where the two words have the same character.
LEMMA SpliceReplace ==
  ASSUME NEW C, NEW a \in Seq(C), NEW b \in Seq(C),
         NEW i \in 1 .. Len(a), NEW j \in 1 .. Len(b)
  PROVE  /\ j \in 1 .. Len(Splice(a, b, i - 1, j - 1))
         /\ Splice(a, b, i, j) = ReplaceAt(Splice(a, b, i - 1, j - 1), j, b[j])
         /\ a[i] = b[j] => Splice(a, b, i, j) = Splice(a, b, i - 1, j - 1)
<1> DEFINE x == Splice(a, b, i - 1, j - 1)
           y == Splice(a, b, i, j)
           n == Len(a) - i + j
<1>0. /\ i - 1 \in 0 .. Len(a) /\ i \in 0 .. Len(a) /\ Len(a) \in Nat /\ i \in Nat /\ j \in Nat
      /\ j - 1 \in 0 .. Len(b) /\ j \in 0 .. Len(b) /\ b[j] \in C
      /\ Len(a) - (i - 1) + (j - 1) = n
  OBVIOUS
<1>1. /\ x \in Seq(C) /\ Len(x) = n
      /\ \A k \in 1 .. n : x[k] = IF k <= j - 1 THEN b[k] ELSE a[k - (j - 1) + (i - 1)]
  <2>1. /\ x \in Seq(C) /\ Len(x) = Len(a) - (i - 1) + (j - 1)
        /\ \A k \in 1 .. Len(a) - (i - 1) + (j - 1) :
             x[k] = IF k <= j - 1 THEN b[k] ELSE a[k - (j - 1) + (i - 1)]
    <3>1. IsSplice(x, C, a, b, i - 1, j - 1)
      BY <1>0, SpliceType
    <3>2. QED
      BY <3>1 DEF IsSplice
  <2>2. QED
    BY <1>0, <2>1
<1>2. /\ y \in Seq(C) /\ Len(y) = n
      /\ \A k \in 1 .. n : y[k] = IF k <= j THEN b[k] ELSE a[k - j + i]
  <2>1. IsSplice(y, C, a, b, i, j)
    BY <1>0, SpliceType
  <2>2. QED
    BY <2>1 DEF IsSplice
<1> HIDE DEF x, y
<1>3. j \in 1 .. Len(x) /\ n \in Nat
  BY <1>0, <1>1
<1>4. /\ ReplaceAt(x, j, b[j]) \in Seq(C) /\ Len(ReplaceAt(x, j, b[j])) = n
      /\ \A k \in 1 .. n : ReplaceAt(x, j, b[j])[k] = IF k = j THEN b[j] ELSE x[k]
  <2>1. /\ ReplaceAt(x, j, b[j]) \in Seq(C) /\ Len(ReplaceAt(x, j, b[j])) = Len(x)
        /\ \A k \in 1 .. Len(x) : ReplaceAt(x, j, b[j])[k] = IF k = j THEN b[j] ELSE x[k]
    <3>1. PICK e \in C : e = b[j]
      BY <1>0
    <3>2. /\ ReplaceAt(x, j, e) \in Seq(C) /\ Len(ReplaceAt(x, j, e)) = Len(x)
          /\ \A k \in 1 .. Len(x) : ReplaceAt(x, j, e)[k] = IF k = j THEN e ELSE x[k]
      <4>1. x \in Seq(C) /\ j \in 1 .. Len(x)
        BY <1>1, <1>3
      <4>2. QED
        BY <4>1, ReplaceIs
    <3>3. QED
      BY <3>1, <3>2
  <2>2. QED
    BY <1>1, <2>1
<1>5. ASSUME NEW k \in 1 .. n, k # j
      PROVE  y[k] = x[k]
  <2>1. k - (j - 1) + (i - 1) = k - j + i /\ (k <= j - 1 <=> k <= j)
    BY <1>0, <1>5
  <2>2. QED
    BY <1>1, <1>2, <2>1
<1>6. y[j] = b[j]
  <2>1. j \in 1 .. n /\ j <= j
    BY <1>1, <1>3
  <2>2. QED
    BY <1>2, <2>1
<1>7. \A k \in 1 .. n : y[k] = ReplaceAt(x, j, b[j])[k]
  BY <1>4, <1>5, <1>6
<1>8. y = ReplaceAt(x, j, b[j])
  BY <1>2, <1>4, <1>7, SeqEqual
<1>9. ASSUME a[i] = b[j]
      PROVE  y = x
  <2>1. j \in 1 .. n /\ ~ (j <= j - 1) /\ j - (j - 1) + (i - 1) = i
    BY <1>0, <1>1, <1>3
  <2>2. x[j] = y[j]
    BY <1>1, <1>6, <1>9, <2>1
  <2>3. \A k \in 1 .. n : y[k] = x[k]
    BY <1>5, <2>2
  <2>4. QED
    BY <1>1, <1>2, <2>3, SeqEqual
<1>10. QED
  BY <1>3, <1>8, <1>9 DEF x, y

\* As many edits as the table says make b from a.
LEMMA TableReaches ==
  ASSUME NEW C, NEW a \in Seq(C), NEW b \in Seq(C), NEW n \in Nat,
         NEW t, IsTable(t, a, b), t[Len(a)][Len(b)] <= n
  PROVE  WithinEdits(a, b, n)
<1> DEFINE chars == ToSet(a) \cup ToSet(b)
           p == Len(a)
           q == Len(b)
<1>0. p \in Nat /\ q \in Nat
  OBVIOUS
<1>1. PICK reach : EditSets(reach, C, chars, a, n) /\ (WithinEdits(a, b, n) <=> b \in reach[n])
  BY WithinEditsIs
<1>2. chars \in SUBSET C /\ \A j \in 1 .. q : b[j] \in chars
  BY DEF ToSet
<1> HIDE DEF chars
<1>3. ASSUME NEW k \in 1 .. n, NEW l \in reach[k - 1], NEW w \in OneEdit(l, chars)
      PROVE  w \in reach[k]
  BY <1>1 DEF EditSets
<1>4. \A k \in 0 .. n : a \in reach[k]
  <2> DEFINE S == {k \in 0 .. n : a \in reach[k]}
  <2>1. 0 \in S
    BY <1>1 DEF EditSets
  <2>2. \A k \in 1 .. n : k - 1 \in S => k \in S
    BY <1>1 DEF EditSets
  <2>3. 0 .. n \subseteq S
    <3> HIDE DEF S
    <3>1. QED
      BY <2>1, <2>2, UpTo
  <2>4. QED
    BY <2>3
<1> DEFINE Met(i, j) == \A k \in 0 .. n : t[i][j] <= k => Splice(a, b, i, j) \in reach[k]
           S == {e \in (0 .. p) \X (0 .. q) : Met(e[1], e[2])}
<1>5. ASSUME NEW i \in 0 .. p, NEW j \in 1 .. q, Met(i, j - 1), t[i][j] = t[i][j - 1] + 1,
             NEW k \in 0 .. n, t[i][j] <= k
      PROVE  Splice(a, b, i, j) \in reach[k]
  <2>1. t[i][j - 1] \in Nat
    BY <1>0, TableType
  <2>2. k \in 1 .. n /\ k - 1 \in 0 .. n /\ t[i][j - 1] <= k - 1
    BY <1>5, <2>1
  <2> DEFINE l == Splice(a, b, i, j - 1)
  <2>3. l \in reach[k - 1] /\ l \in Seq(C)
    BY <1>1, <1>5, <2>2 DEF EditSets
  <2>4. j \in 1 .. Len(l) + 1 /\ Splice(a, b, i, j) = InsertAt(l, j, b[j])
    BY SpliceInsert
  <2> HIDE DEF l
  <2>5. Splice(a, b, i, j) \in OneEdit(l, chars)
    BY <1>2, <2>3, <2>4, OneEditIs
  <2>6. QED
    BY <1>3, <2>2, <2>3, <2>5
<1>6. ASSUME NEW i \in 1 .. p, NEW j \in 0 .. q, Met(i - 1, j), t[i][j] = t[i - 1][j] + 1,
             NEW k \in 0 .. n, t[i][j] <= k
      PROVE  Splice(a, b, i, j) \in reach[k]
  <2>1. t[i - 1][j] \in Nat
    BY <1>0, TableType
  <2>2. k \in 1 .. n /\ k - 1 \in 0 .. n /\ t[i - 1][j] <= k - 1
    BY <1>6, <2>1
  <2> DEFINE l == Splice(a, b, i - 1, j)
  <2>3. l \in reach[k - 1] /\ l \in Seq(C)
    BY <1>1, <1>6, <2>2 DEF EditSets
  <2>4. j + 1 \in 1 .. Len(l) /\ Splice(a, b, i, j) = RemoveAt(l, j + 1)
    BY SpliceRemove
  <2> HIDE DEF l
  <2>5. Splice(a, b, i, j) \in OneEdit(l, chars)
    BY <1>2, <2>3, <2>4, OneEditIs
  <2>6. QED
    BY <1>3, <2>2, <2>3, <2>5
<1>7. ASSUME NEW i \in 1 .. p, NEW j \in 1 .. q, Met(i - 1, j - 1),
             t[i][j] = t[i - 1][j - 1] + 1, NEW k \in 0 .. n, t[i][j] <= k
      PROVE  Splice(a, b, i, j) \in reach[k]
  <2>0. i - 1 \in 0 .. p /\ j - 1 \in 0 .. q
    BY <1>0
  <2>1. t[i - 1][j - 1] \in Nat
    BY <2>0, TableType
  <2>2. k \in 1 .. n /\ k - 1 \in 0 .. n /\ t[i - 1][j - 1] <= k - 1
    BY <1>7, <2>1
  <2> DEFINE l == Splice(a, b, i - 1, j - 1)
  <2>3. l \in reach[k - 1] /\ l \in Seq(C)
    BY <1>1, <1>7, <2>2 DEF EditSets
  <2>4. j \in 1 .. Len(l) /\ Splice(a, b, i, j) = ReplaceAt(l, j, b[j])
    BY SpliceReplace
  <2> HIDE DEF l
  <2>5. Splice(a, b, i, j) \in OneEdit(l, chars)
    BY <1>2, <2>3, <2>4, OneEditIs
  <2>6. QED
    BY <1>3, <2>2, <2>3, <2>5
<1>8. ASSUME NEW i \in 1 .. p, NEW j \in 1 .. q, Met(i - 1, j - 1),
             t[i][j] = t[i - 1][j - 1], a[i] = b[j], NEW k \in 0 .. n, t[i][j] <= k
      PROVE  Splice(a, b, i, j) \in reach[k]
  <2>1. Splice(a, b, i, j) = Splice(a, b, i - 1, j - 1)
    BY <1>8, SpliceReplace
  <2>2. QED
    BY <1>8, <2>1
<1>9. Splice(a, b, 0, 0) = a
  <2>1. 0 \in 0 .. p /\ 0 \in 0 .. q
    BY <1>0
  <2>2. IsSplice(Splice(a, b, 0, 0), C, a, b, 0, 0)
    BY <2>1, SpliceType
  <2>3. /\ Splice(a, b, 0, 0) \in Seq(C) /\ Len(Splice(a, b, 0, 0)) = Len(a)
        /\ \A k \in 1 .. Len(a) : Splice(a, b, 0, 0)[k] = a[k]
    BY <2>2 DEF IsSplice
  <2>4. QED
    BY <2>3, SeqEqual
<1>10. Splice(a, b, p, q) = b
  <2>1. p \in 0 .. p /\ q \in 0 .. q
    BY <1>0
  <2>2. IsSplice(Splice(a, b, p, q), C, a, b, p, q)
    BY <2>1, SpliceType
  <2>3. /\ Splice(a, b, p, q) \in Seq(C) /\ Len(Splice(a, b, p, q)) = Len(b)
        /\ \A k \in 1 .. Len(b) : Splice(a, b, p, q)[k] = b[k]
    BY <2>2 DEF IsSplice
  <2>4. QED
    BY <2>3, SeqEqual
<1>11. ASSUME NEW i \in 0 .. p, NEW j \in 0 .. q,
              j > 0 => <<i, j - 1>> \in S, i > 0 => <<i - 1, j>> \in S,
              i > 0 /\ j > 0 => <<i - 1, j - 1>> \in S
       PROVE  <<i, j>> \in S
  <2>0. /\ j > 0 => Met(i, j - 1)
        /\ i > 0 => Met(i - 1, j)
        /\ i > 0 /\ j > 0 => Met(i - 1, j - 1)
    BY <1>11
  <2> SUFFICES ASSUME NEW k \in 0 .. n, t[i][j] <= k
               PROVE  Splice(a, b, i, j) \in reach[k]
    OBVIOUS
  <2> HIDE DEF Met, S
  <2>1. CASE i = 0 /\ j = 0
    BY <1>4, <1>9, <2>1
  <2>2. CASE i = 0 /\ j > 0
    <3>1. j \in 1 .. q /\ j - 1 \in 0 .. q
      BY <1>0, <2>2
    <3>2. t[i][j] = j /\ t[i][j - 1] = j - 1
      BY <2>2, <3>1, TableType
    <3>3. QED
      BY <1>5, <2>0, <2>2, <3>1, <3>2
  <2>3. CASE i > 0 /\ j = 0
    <3>1. i \in 1 .. p /\ i - 1 \in 0 .. p
      BY <1>0, <2>3
    <3>2. \A m \in 0 .. p : t[m][0] = m
      BY TableType
    <3>4. t[i][j] = i /\ t[i - 1][j] = i - 1
      BY <1>11, <2>3, <3>1, <3>2
    <3>3. QED
      BY <1>6, <2>0, <2>3, <3>1, <3>4
  <2>4. CASE i > 0 /\ j > 0
    <3>1. i \in 1 .. p /\ j \in 1 .. q
      BY <1>0, <2>4
    <3>2. \/ t[i][j] = t[i][j - 1] + 1
          \/ t[i][j] = t[i - 1][j] + 1
          \/ a[i] = b[j] /\ t[i][j] = t[i - 1][j - 1]
          \/ t[i][j] = t[i - 1][j - 1] + 1
      BY <3>1, TableStep
    <3>3. CASE t[i][j] = t[i][j - 1] + 1
      BY <1>5, <2>0, <2>4, <3>1, <3>3
    <3>4. CASE t[i][j] = t[i - 1][j] + 1
      BY <1>6, <2>0, <2>4, <3>1, <3>4
    <3>5. CASE a[i] = b[j] /\ t[i][j] = t[i - 1][j - 1]
      BY <1>8, <2>0, <2>4, <3>1, <3>5
    <3>6. CASE t[i][j] = t[i - 1][j - 1] + 1
      BY <1>7, <2>0, <2>4, <3>1, <3>6
    <3>7. QED
      BY <3>2, <3>3, <3>4, <3>5, <3>6
  <2>5. QED
    BY <1>0, <2>1, <2>2, <2>3, <2>4
<1>12. \A i \in 0 .. p : \A j \in 0 .. q : <<i, j>> \in S
  <2> HIDE DEF S, p, q
  <2>1. QED
    BY <1>0, <1>11, Grid
<1>13. Met(p, q)
  <2>1. p \in 0 .. p /\ q \in 0 .. q
    BY <1>0
  <2>2. <<p, q>> \in S
    BY <1>12, <2>1
  <2> HIDE DEF Met
  <2>3. QED
    BY <2>2
<1>14. b \in reach[n]
  <2>1. n \in 0 .. n
    OBVIOUS
  <2>2. QED
    BY <1>10, <1>13, <2>1
<1>15. QED
  BY <1>1, <1>14

\* No fewer edits do.
LEMMA TableBounds ==
  ASSUME NEW C, NEW a \in Seq(C), NEW b \in Seq(C), NEW n \in Nat,
         NEW t, IsTable(t, a, b), WithinEdits(a, b, n)
  PROVE  t[Len(a)][Len(b)] <= n
<1> DEFINE chars == ToSet(a) \cup ToSet(b)
           Far(l) == RollingRow(l, b)[Len(l)][Len(b)]
<1>1. PICK reach : EditSets(reach, C, chars, a, n) /\ (WithinEdits(a, b, n) <=> b \in reach[n])
  BY WithinEditsIs
<1>2. chars \in SUBSET C
  BY DEF ToSet
<1> HIDE DEF chars
<1> DEFINE least == t[Len(a)][Len(b)]
           S == {k \in 0 .. n : \A l \in reach[k] : least <= Far(l) + k}
<1>3. ASSUME NEW l \in Seq(C)
      PROVE  Far(l) \in Nat
  <2>1. IsTable(RollingRow(l, b), l, b)
    BY RollingRowIs
  <2>2. Len(l) \in 0 .. Len(l) /\ Len(b) \in 0 .. Len(b)
    OBVIOUS
  <2>3. QED
    BY <2>1, <2>2, TableType
<1>4. least \in Nat
  <2>1. Len(a) \in 0 .. Len(a) /\ Len(b) \in 0 .. Len(b)
    OBVIOUS
  <2>2. QED
    BY <2>1, TableType
<1>5. least = Far(a)
  <2>1. IsTable(RollingRow(a, b), a, b)
    BY RollingRowIs
  <2>2. Len(a) \in Nat /\ Len(a) \in 0 .. Len(a) /\ Len(b) \in 0 .. Len(b)
    OBVIOUS
  <2>3. QED
    BY <2>1, <2>2, TablePrefix
<1>6. ASSUME NEW l \in Seq(C), NEW w \in OneEdit(l, chars)
      PROVE  w \in Seq(C) /\ Far(l) <= Far(w) + 1
  <2>1. IsTable(RollingRow(l, b), l, b)
    BY RollingRowIs
  <2>2. w \in Seq(C)
    <3>1. ASSUME NEW p \in 1 .. Len(l) PROVE RemoveAt(l, p) \in Seq(C)
      BY RemoveIs
    <3>2. ASSUME NEW p \in 1 .. Len(l), NEW c \in chars PROVE ReplaceAt(l, p, c) \in Seq(C)
      BY <1>2, ReplaceIs
    <3>3. ASSUME NEW p \in 1 .. Len(l) + 1, NEW c \in chars PROVE InsertAt(l, p, c) \in Seq(C)
      BY <1>2, InsertIs
    <3>4. QED
      BY <1>2, <3>1, <3>2, <3>3, OneEditIs
  <2>3. IsTable(RollingRow(w, b), w, b)
    BY <2>2, RollingRowIs
  <2>4. QED
    BY <1>2, <2>1, <2>2, <2>3, EditBound
<1> HIDE DEF Far, least
<1>7. 0 \in S
  <2>1. \A l \in reach[0] : l = a
    BY <1>1 DEF EditSets
  <2>2. 0 \in 0 .. n
    OBVIOUS
  <2>3. QED
    BY <1>4, <1>5, <2>1, <2>2
<1>8. ASSUME NEW k \in 1 .. n, k - 1 \in S
      PROVE  k \in S
  <2>1. ASSUME NEW w \in reach[k]
        PROVE  least <= Far(w) + k
    <3>1. reach[k] = reach[k - 1] \cup UNION {OneEdit(l, chars) : l \in reach[k - 1]}
      BY <1>1 DEF EditSets
    <3>2. \A l \in reach[k - 1] : l \in Seq(C) /\ least <= Far(l) + (k - 1)
      BY <1>1, <1>8 DEF EditSets
    <3>3. CASE w \in reach[k - 1]
      <4>1. Far(w) \in Nat /\ least <= Far(w) + (k - 1)
        BY <1>3, <3>2, <3>3
      <4>2. QED
        BY <1>4, <4>1
    <3>4. CASE w \notin reach[k - 1]
      <4>1. PICK l \in reach[k - 1] : w \in OneEdit(l, chars)
        BY <3>1, <3>4
      <4>2. w \in Seq(C) /\ Far(l) <= Far(w) + 1
        BY <1>6, <3>2, <4>1
      <4>3. Far(l) \in Nat /\ Far(w) \in Nat /\ least <= Far(l) + (k - 1)
        BY <1>3, <3>2, <4>2
      <4>4. QED
        BY <1>4, <4>2, <4>3
    <3>5. QED
      BY <3>3, <3>4
  <2>2. QED
    BY <2>1
<1>9. 0 .. n \subseteq S
  <2> HIDE DEF S
  <2>1. QED
    BY <1>7, <1>8, UpTo
<1>10. least <= Far(b) + n
  <2>1. n \in 0 .. n
    OBVIOUS
  <2>2. QED
    BY <1>1, <1>9, <2>1
<1>11. Far(b) = 0
  BY RollingRowIs, TableDiagonal DEF Far
<1>12. QED
  BY <1>4, <1>10, <1>11 DEF least

-----------------------------------------------------------------------------
\* For all words: Distance is the least number of insertions, deletions and
\* replacements of a character that make one word from the other, whichever is
\* the longer (levenshtein.go).
THEOREM DistanceCountsEdits ==
  ASSUME NEW C, NEW a \in Seq(C), NEW b \in Seq(C)
  PROVE  /\ Distance(a, b) \in Nat
         /\ Distance(a, b) = Distance(b, a)
         /\ \A n \in Nat : Distance(a, b) <= n <=> WithinEdits(a, b, n)
<1> DEFINE t == RollingRow(a, b)
           u == RollingRow(b, a)
<1>1. IsTable(t, a, b) /\ IsTable(u, b, a)
  BY RollingRowIs
<1>2. /\ Len(a) \in Nat /\ Len(b) \in Nat
      /\ Len(a) \in 0 .. Len(a) /\ Len(b) \in 0 .. Len(b)
  OBVIOUS
<1> HIDE DEF t, u
<1>3. t[Len(a)][Len(b)] = u[Len(b)][Len(a)] /\ t[Len(a)][Len(b)] \in Nat
  BY <1>1, <1>2, TableMirror, TableType
<1>4. Distance(a, b) = t[Len(a)][Len(b)] /\ Distance(b, a) = t[Len(a)][Len(b)]
  <2>1. CASE Len(a) < Len(b)
    BY <1>2, <1>3, <2>1 DEF Distance, t, u
  <2>2. CASE Len(b) < Len(a)
    BY <1>2, <1>3, <2>2 DEF Distance, t, u
  <2>3. CASE Len(a) = Len(b)
    BY <1>2, <1>3, <2>3 DEF Distance, t, u
  <2>4. QED
    BY <1>2, <2>1, <2>2, <2>3
<1>5. ASSUME NEW n \in Nat
      PROVE  t[Len(a)][Len(b)] <= n <=> WithinEdits(a, b, n)
  BY <1>1, TableReaches, TableBounds
<1>6. QED
  BY <1>3, <1>4, <1>5

-----------------------------------------------------------------------------
(***************************************************************************)
(* The loops of MarkPath (comments.go:291-385)                             *)
(***************************************************************************)
\* Two lines are similar when the edits allowed to a line make one of the other.
LEMMA SimilarIs ==
  ASSUME NEW C, NEW l \in Seq(C), NEW anchor \in Seq(C), anchor # <<>>
  PROVE  SimilarTo(l, anchor) <=> WithinEdits(anchor, l, Allowed(anchor, l))
<1>1. Len(l) \in Nat /\ Len(anchor) \in Nat /\ Len(anchor) > 0
  OBVIOUS
<1>2. Allowed(l, anchor) = Allowed(anchor, l) /\ Allowed(anchor, l) \in Nat
  <2> DEFINE m == Greater(Len(l), Len(anchor))
  <2>1. Greater(Len(anchor), Len(l)) = m /\ m \in Nat
    BY <1>1 DEF Greater
  <2> HIDE DEF m
  <2>2. (3 * m) \div 10 \in Nat
    BY <2>1
  <2>3. Greater(1, (3 * m) \div 10) \in Nat
    BY <2>2 DEF Greater
  <2>4. QED
    BY <2>1, <2>3 DEF Allowed, m
<1>3. /\ Distance(l, anchor) = Distance(anchor, l) /\ Distance(l, anchor) \in Nat
      /\ Distance(anchor, l) <= Allowed(anchor, l) <=> WithinEdits(anchor, l, Allowed(anchor, l))
  BY <1>2, DistanceCountsEdits
<1>4. Distance(anchor, anchor) = 0
  BY RollingRowIs, TableDiagonal DEF Distance
<1>5. l = anchor => Distance(l, anchor) <= Allowed(anchor, l)
  BY <1>2, <1>4
<1>6. QED
  BY <1>1, <1>2, <1>3, <1>5 DEF SimilarTo

\* The line of found that is closest to origin, and of two as close the first.
IsClosest(i, found, origin) ==
  /\ i \in found
  /\ \A j \in found : \/ Apart(i, origin) < Apart(j, origin)
                      \/ Apart(i, origin) = Apart(j, origin) /\ i <= j

\* There is only one, the one ClosestOf names.
LEMMA ClosestIs ==
  ASSUME NEW found \in SUBSET Nat, NEW origin \in Nat, NEW i, IsClosest(i, found, origin)
  PROVE  ClosestOf(found, origin) = i
<1> DEFINE P(k) == \A j \in found :
                     \/ Apart(k, origin) < Apart(j, origin)
                     \/ Apart(k, origin) = Apart(j, origin) /\ k <= j
           c == CHOOSE k \in found : P(k)
<1>1. i \in found /\ P(i)
  BY DEF IsClosest
<1>2. c \in found /\ P(c)
  <2> HIDE DEF P
  <2>1. QED
    BY <1>1
<1>3. ClosestOf(found, origin) = c
  BY DEF ClosestOf
<1> HIDE DEF c
<1>4. i \in Nat /\ c \in Nat /\ Apart(i, origin) \in Nat /\ Apart(c, origin) \in Nat
  BY <1>1, <1>2 DEF Apart
<1>5. \/ Apart(i, origin) < Apart(c, origin)
      \/ Apart(i, origin) = Apart(c, origin) /\ i <= c
  BY <1>1, <1>2
<1>6. \/ Apart(c, origin) < Apart(i, origin)
      \/ Apart(i, origin) = Apart(c, origin) /\ c <= i
  BY <1>1, <1>2
<1>7. QED
  BY <1>3, <1>4, <1>5, <1>6

\* The lines of fits at most radius away from origin.
Around(lines, origin, radius, fits) ==
  {i \in DOMAIN lines : Apart(i, origin) <= radius /\ lines[i] \in fits}

\* The loop of Scan finds the closest line, the first of two, or none.
LEMMA ScanIs ==
  ASSUME NEW C, NEW lines \in Seq(C), NEW origin \in Nat, NEW radius \in Nat, NEW fits
  PROVE  IF Around(lines, origin, radius, fits) = {}
           THEN Scan(lines, origin, radius, fits) = 0
           ELSE IsClosest(Scan(lines, origin, radius, fits),
                          Around(lines, origin, radius, fits), origin)
<1> DEFINE n == Len(lines)
           lo == IF origin > radius THEN origin - radius ELSE 1
           hi == Smaller(origin + radius, n)
           Pick(i, x) == IF i < lo THEN 0
                         ELSE IF lines[i] \in fits /\ Closer(i, x, origin) THEN i ELSE x
           step == [i \in 1 .. n |-> [x \in Nat |-> Pick(i, x)]]
           Fits(f) == f = [i \in 0 .. n |-> Pick(i, f[i - 1])]
           found == Around(lines, origin, radius, fits)
<1>0. n \in Nat /\ lo \in Nat /\ lo > 0 /\ hi \in Nat /\ hi <= n
  BY DEF Smaller
<1>1. step \in [1 .. n -> [Nat -> Nat]]
  BY <1>0
<1>2. PICK f \in [0 .. n -> Nat] : f[0] = 0 /\ \A i \in 1 .. n : f[i] = step[i][f[i - 1]]
  <2> HIDE DEF step, n
  <2>1. Recursive(n, Nat, 0, step)
    BY <1>0, <1>1, Recursion
  <2>2. QED
    BY <2>1 DEF Recursive
<1>3. Fits(f)
  <2>1. ASSUME NEW i \in 0 .. n
        PROVE  f[i] = Pick(i, f[i - 1])
    <3>1. CASE i = 0
      BY <1>0, <1>2, <3>1
    <3>2. CASE i # 0
      <4>1. i \in 1 .. n /\ f[i - 1] \in Nat
        BY <1>0, <3>2
      <4> HIDE DEF Pick
      <4>2. QED
        BY <1>2, <4>1
    <3>3. QED
      BY <3>1, <3>2
  <2> HIDE DEF Pick
  <2>2. QED
    BY <2>1
<1> DEFINE best == CHOOSE g : Fits(g)
<1>4. Fits(best)
  <2>1. \E g : Fits(g)
    BY <1>3
  <2> HIDE DEF Fits
  <2>2. QED
    BY <2>1
<1>5. Scan(lines, origin, radius, fits) = best[hi]
  BY DEF Scan
<1> HIDE DEF best
<1>6. \A i \in 0 .. n : best[i] = Pick(i, best[i - 1])
  BY <1>4
<1>7. \A i \in DOMAIN lines : Apart(i, origin) <= radius <=> lo <= i /\ i <= hi
  BY DEF Apart, Smaller
<1> DEFINE Found(k) == {i \in found : i <= k}
           S == {k \in 0 .. hi : IF Found(k) = {} THEN best[k] = 0
                                 ELSE IsClosest(best[k], Found(k), origin)}
<1>8. found \subseteq 1 .. n /\ \A i \in found : lo <= i /\ i <= hi /\ lines[i] \in fits
  BY <1>7 DEF Around
<1>9. \A i \in 1 .. n : lo <= i /\ i <= hi /\ lines[i] \in fits => i \in found
  BY <1>7 DEF Around
<1> HIDE DEF found, lo, hi, n
<1>10. 0 \in S
  <2>1. 0 \in 0 .. n /\ 0 \in 0 .. hi /\ 0 < lo
    BY <1>0
  <2>2. best[0] = 0
    BY <1>6, <2>1
  <2>3. Found(0) = {}
    <3>1. \A i \in found : i \in Nat /\ i > 0
      BY <1>0, <1>8
    <3>2. QED
      BY <3>1
  <2>4. QED
    BY <2>1, <2>2, <2>3
<1>11. ASSUME NEW k \in 1 .. hi, k - 1 \in S
       PROVE  k \in S
  <2>0. k \in Nat /\ k > 0 /\ k \in 0 .. n /\ k \in 1 .. n /\ k \in 0 .. hi /\ k <= hi
    BY <1>0
  <2>6. \A i \in found : i \in Nat
    BY <1>0, <1>8
  <2>1. best[k] = Pick(k, best[k - 1])
    BY <1>6, <2>0
  <2>2. IF Found(k - 1) = {} THEN best[k - 1] = 0
        ELSE IsClosest(best[k - 1], Found(k - 1), origin)
    BY <1>11
  <2>3. CASE k \notin found
    <3>1. Found(k) = Found(k - 1)
      BY <2>6, <2>0, <2>3
    <3>2. CASE k < lo
      <4>1. Found(k) = {}
        BY <1>0, <1>8, <2>0, <3>2
      <4>2. best[k] = 0
        BY <2>1, <3>2
      <4>3. QED
        BY <2>0, <4>1, <4>2
    <3>3. CASE ~ (k < lo)
      <4>1. lines[k] \notin fits
        BY <1>0, <1>9, <2>0, <2>3, <3>3
      <4>2. best[k] = best[k - 1]
        BY <2>1, <3>3, <4>1
      <4> HIDE DEF Found
      <4>3. QED
        BY <2>0, <2>2, <3>1, <4>2
    <3>4. QED
      BY <3>2, <3>3
  <2>4. CASE k \in found
    <3>1. ~ (k < lo) /\ lines[k] \in fits
      BY <1>0, <1>8, <2>0, <2>4
    <3>2. best[k] = IF Closer(k, best[k - 1], origin) THEN k ELSE best[k - 1]
      BY <2>1, <3>1
    <3>3. Found(k) = Found(k - 1) \cup {k}
      <4>1. \A i \in found : i <= k <=> (i <= k - 1 \/ i = k)
        BY <2>0, <2>6
      <4>2. k <= k
        BY <2>0
      <4>3. QED
        BY <2>4, <4>1, <4>2
    <3>4. \A j \in Found(k - 1) : j \in Nat /\ j < k /\ j > 0
      BY <1>8, <2>0
    <3>5. \A j \in Found(k) : j \in Nat /\ Apart(j, origin) \in Nat
      BY <1>8, <3>3 DEF Apart
    <3> HIDE DEF Found
    <3> SUFFICES IsClosest(best[k], Found(k), origin)
      BY <2>0, <3>3
    <3>6. CASE Found(k - 1) = {}
      <4>1. best[k] = k /\ Found(k) = {k}
        BY <2>2, <3>2, <3>3, <3>6 DEF Closer
      <4>2. QED
        BY <2>0, <4>1 DEF IsClosest
    <3>7. CASE Found(k - 1) # {}
      <4> DEFINE x == best[k - 1]
      <4>1. /\ x \in Found(k - 1)
            /\ \A j \in Found(k - 1) :
                 \/ Apart(x, origin) < Apart(j, origin)
                 \/ Apart(x, origin) = Apart(j, origin) /\ x <= j
        BY <2>2, <3>7 DEF IsClosest
      <4>2. x \in Nat /\ x < k /\ x # 0 /\ x \in Found(k) /\ k \in Found(k)
        BY <3>3, <3>4, <4>1
      <4> HIDE DEF x
      <4>3. CASE Apart(k, origin) < Apart(x, origin)
        <5>1. best[k] = k
          BY <3>2, <4>3 DEF Closer, x
        <5>2. ASSUME NEW j \in Found(k - 1)
              PROVE  Apart(k, origin) < Apart(j, origin)
          <6>1. /\ Apart(k, origin) \in Nat /\ Apart(x, origin) \in Nat
                /\ Apart(j, origin) \in Nat
            BY <3>3, <3>5, <4>2
          <6>2. Apart(x, origin) < Apart(j, origin) \/ Apart(x, origin) = Apart(j, origin)
            BY <4>1
          <6>3. QED
            BY <4>3, <6>1, <6>2
        <5>3. QED
          BY <2>0, <3>3, <5>1, <5>2 DEF IsClosest
      <4>4. CASE ~ (Apart(k, origin) < Apart(x, origin))
        <5>1. best[k] = x
          BY <3>2, <4>2, <4>4 DEF Closer, x
        <5>2. Apart(x, origin) < Apart(k, origin) \/ Apart(x, origin) = Apart(k, origin)
          BY <3>5, <4>2, <4>4
        <5>3. QED
          BY <2>0, <3>3, <4>1, <4>2, <5>1, <5>2 DEF IsClosest
      <4>5. QED
        BY <4>3, <4>4
    <3>8. QED
      BY <3>6, <3>7
  <2>5. QED
    BY <2>3, <2>4
<1>12. 0 .. hi \subseteq S
  <2> HIDE DEF S
  <2>1. QED
    BY <1>0, <1>10, <1>11, UpTo
<1>13. hi \in S
  <2>1. hi \in 0 .. hi
    BY <1>0
  <2> HIDE DEF S
  <2>2. QED
    BY <1>12, <2>1
<1>14. Found(hi) = found
  BY <1>8
<1>15. QED
  <2> HIDE DEF Found
  <2>1. QED
    BY <1>5, <1>13, <1>14 DEF found

\* For all documents, lines and radii: the two loops of MarkPath, with the
\* rolling rows of levenshtein.go in the second, climb the ladder that its
\* comment promises (comments.go:205-208), and name a line of the document or
\* none.
THEOREM ClassifyClimbsLadder ==
  ASSUME NEW C, NEW lines \in Seq(Seq(C)), NEW anchor \in Seq(C), NEW line \in Nat
  PROVE  /\ Classify(line, anchor, lines).status = Ladder(line, anchor, lines).status
         /\ (IF Classify(line, anchor, lines).line > 0
               THEN Classify(line, anchor, lines).line ELSE line)
              = Ladder(line, anchor, lines).line
         /\ Classify(line, anchor, lines)
              \in [status : {"open", "orphaned", "relocated"}, line : DOMAIN lines \cup {0}]
<1> DEFINE near == {i \in DOMAIN lines : Apart(i, line) <= NearbyRadius}
           far == {i \in DOMAIN lines : Apart(i, line) <= FuzzyRadius}
           exact == {i \in near \cup ({line} \cap DOMAIN lines) : lines[i] = anchor}
           fuzzy == {i \in far : lines[i] # <<>> /\
                       WithinEdits(anchor, lines[i], Allowed(anchor, lines[i]))}
           similar == {l \in ToSet(lines) : l # <<>> /\ SimilarTo(l, anchor)}
           e == NearbyExact(lines, line, anchor)
           f == NearbyFuzzy(lines, line, anchor)
<1>0. NearbyRadius \in Nat /\ FuzzyRadius \in Nat
  BY RadiusAssumption
<1>1. exact \subseteq DOMAIN lines /\ fuzzy \subseteq DOMAIN lines /\ DOMAIN lines \subseteq Nat \ {0}
  OBVIOUS
<1>2. Around(lines, line, NearbyRadius, {anchor}) = exact
  <2>1. line \in DOMAIN lines => Apart(line, line) <= NearbyRadius
    BY <1>0 DEF Apart
  <2>2. QED
    BY <2>1 DEF Around
<1>3. anchor # <<>> => Around(lines, line, FuzzyRadius, similar) = fuzzy
  <2> SUFFICES ASSUME anchor # <<>>
               PROVE  Around(lines, line, FuzzyRadius, similar) = fuzzy
    OBVIOUS
  <2>1. ASSUME NEW i \in DOMAIN lines
        PROVE  lines[i] \in similar <=>
                 lines[i] # <<>> /\ WithinEdits(anchor, lines[i], Allowed(anchor, lines[i]))
    <3>1. PICK l \in Seq(C) : l = lines[i]
      OBVIOUS
    <3>2. l \in ToSet(lines)
      BY <3>1 DEF ToSet
    <3>3. SimilarTo(l, anchor) <=> WithinEdits(anchor, l, Allowed(anchor, l))
      BY SimilarIs
    <3>4. QED
      BY <3>1, <3>2, <3>3
  <2> HIDE DEF similar
  <2>2. QED
    BY <2>1 DEF Around
<1> HIDE DEF similar
<1>4. IF exact = {} THEN e = 0 ELSE IsClosest(e, exact, line)
  <2> HIDE DEF exact
  <2>1. QED
    BY <1>0, <1>2, ScanIs DEF NearbyExact
<1>5. anchor # <<>> => IF fuzzy = {} THEN f = 0 ELSE IsClosest(f, fuzzy, line)
  <2>1. f = Scan(lines, line, FuzzyRadius, similar)
    BY DEF NearbyFuzzy, similar
  <2> HIDE DEF fuzzy, f
  <2>2. QED
    BY <1>0, <1>3, <2>1, ScanIs
<1> HIDE DEF e, f
<1>6. Ladder(line, anchor, lines) =
        IF anchor = <<>> THEN [status |-> "orphaned", line |-> line]
        ELSE IF exact # {} THEN [status |-> "open", line |-> ClosestOf(exact, line)]
        ELSE IF fuzzy # {} THEN [status |-> "relocated", line |-> ClosestOf(fuzzy, line)]
        ELSE [status |-> "orphaned", line |-> line]
  BY DEF Ladder
<1>7. Classify(line, anchor, lines) =
        IF anchor = <<>> THEN [status |-> "orphaned", line |-> 0]
        ELSE IF line \in DOMAIN lines /\ lines[line] = anchor THEN [status |-> "open", line |-> 0]
        ELSE IF e > 0 THEN [status |-> "open", line |-> e]
        ELSE IF f > 0 THEN [status |-> "relocated", line |-> f]
        ELSE [status |-> "orphaned", line |-> 0]
  BY DEF Classify, e, f
<1>8. line \in DOMAIN lines /\ lines[line] = anchor => IsClosest(line, exact, line)
  <2> SUFFICES ASSUME line \in DOMAIN lines, lines[line] = anchor
               PROVE  IsClosest(line, exact, line)
    OBVIOUS
  <2>1. line \in exact
    OBVIOUS
  <2>2. \A j \in exact : \/ Apart(line, line) < Apart(j, line)
                         \/ Apart(line, line) = Apart(j, line) /\ line <= j
    BY <1>1 DEF Apart
  <2> HIDE DEF exact
  <2>3. QED
    BY <2>1, <2>2 DEF IsClosest
<1> HIDE DEF exact, fuzzy
<1>9. ASSUME NEW i, IsClosest(i, exact, line)
      PROVE  exact # {} /\ ClosestOf(exact, line) = i /\ i \in DOMAIN lines /\ i > 0
  <2>1. i \in exact
    BY <1>9 DEF IsClosest
  <2>2. exact \in SUBSET Nat
    BY <1>1
  <2>3. ClosestOf(exact, line) = i
    BY <1>9, <2>2, ClosestIs
  <2>4. QED
    BY <1>1, <2>1, <2>3
<1>10. ASSUME NEW i, IsClosest(i, fuzzy, line)
       PROVE  fuzzy # {} /\ ClosestOf(fuzzy, line) = i /\ i \in DOMAIN lines /\ i > 0
  <2>1. i \in fuzzy
    BY <1>10 DEF IsClosest
  <2>2. fuzzy \in SUBSET Nat
    BY <1>1
  <2>3. ClosestOf(fuzzy, line) = i
    BY <1>10, <2>2, ClosestIs
  <2>4. QED
    BY <1>1, <2>1, <2>3
<1>11. CASE anchor = <<>>
  BY <1>6, <1>7, <1>11
<1>12. CASE anchor # <<>> /\ line \in DOMAIN lines /\ lines[line] = anchor
  <2>1. exact # {} /\ ClosestOf(exact, line) = line
    BY <1>8, <1>9, <1>12
  <2>2. QED
    BY <1>6, <1>7, <1>12, <2>1
<1>13. CASE anchor # <<>> /\ ~ (line \in DOMAIN lines /\ lines[line] = anchor)
  <2>1. CASE exact # {}
    <3>1. ClosestOf(exact, line) = e /\ e \in DOMAIN lines /\ e > 0
      BY <1>4, <1>9, <2>1
    <3>2. QED
      BY <1>6, <1>7, <1>13, <2>1, <3>1
  <2>2. CASE exact = {} /\ fuzzy # {}
    <3>1. e = 0
      BY <1>4, <2>2
    <3>2. ClosestOf(fuzzy, line) = f /\ f \in DOMAIN lines /\ f > 0
      BY <1>5, <1>10, <1>13, <2>2
    <3>3. QED
      BY <1>6, <1>7, <1>13, <2>2, <3>1, <3>2
  <2>3. CASE exact = {} /\ fuzzy = {}
    <3>1. e = 0 /\ f = 0
      BY <1>4, <1>5, <1>13, <2>3
    <3>2. QED
      BY <1>6, <1>7, <1>13, <2>3, <3>1
  <2>4. QED
    BY <2>1, <2>2, <2>3
<1>14. QED
  BY <1>11, <1>12, <1>13

-----------------------------------------------------------------------------
(***************************************************************************)
(* The comments table                                                      *)
(***************************************************************************)
\* What the constants say of the documents.
LEMMA DocumentTypes ==
  ASSUME NEW d \in Documents
  PROVE  /\ d \in Seq(Seq(Characters)) /\ DOMAIN d \subseteq LineNos
         /\ \A n \in DOMAIN d : d[n] \in Lines
         /\ Lines \subseteq Seq(Characters) /\ LineNos \subseteq Nat \ {0}
<1>1. \A e \in Documents : e \in Seq(Seq(Characters))
  BY DocumentsAssumption
<1>2. \A e \in Documents : \A n \in DOMAIN e : n \in Nat \ {0} /\ e[n] \in Seq(Characters)
  BY <1>1
<1>3. QED
  BY <1>1, <1>2 DEF Lines, LineNos, ToSet

\* What MarkPath classifies is a plan, and follows the ladder.
LEMMA PlanIs ==
  ASSUME NEW row \in Row, NEW d \in Documents
  PROVE  /\ Classify(row.line, row.anchor, d) \in Plan
         /\ Anchor(row, Classify(row.line, row.anchor, d)).status
              = Ladder(row.line, row.anchor, d).status
         /\ Anchor(row, Classify(row.line, row.anchor, d)).line
              = Ladder(row.line, row.anchor, d).line
<1>1. row.line \in LineNos /\ row.anchor \in Lines
  BY DEF Row
<1>2. row.line \in Nat /\ row.anchor \in Seq(Characters) /\ d \in Seq(Seq(Characters))
  BY <1>1, DocumentTypes
<1> DEFINE plan == Classify(row.line, row.anchor, d)
           rung == Ladder(row.line, row.anchor, d)
<1>3. /\ plan.status = rung.status
      /\ (IF plan.line > 0 THEN plan.line ELSE row.line) = rung.line
      /\ plan \in [status : {"open", "orphaned", "relocated"}, line : DOMAIN d \cup {0}]
  <2>1. PICK line \in Nat, anchor \in Seq(Characters) : line = row.line /\ anchor = row.anchor
    BY <1>2
  <2>2. QED
    BY <1>2, <2>1, ClassifyClimbsLadder
<1> HIDE DEF plan, rung
<1>4. plan \in Plan
  BY <1>3, DocumentTypes DEF Plan, Statuses
<1>5. Anchor(row, plan).status = plan.status
  BY DEF Anchor, Row
<1>6. Anchor(row, plan).line = IF plan.line > 0 THEN plan.line ELSE row.line
  BY DEF Anchor, Row
<1>7. QED
  BY <1>3, <1>4, <1>5, <1>6 DEF plan, rung

\* The plans follow the ladder because they are what Classify makes of the rows
\* and the documents as they are.
LEMMA LadderFollows ==
  CommentInv => PlansFollowLadder
<1> SUFFICES ASSUME CommentInv, NEW p \in Pages, NEW i \in DOMAIN plans[p] \cap Present
             PROVE  /\ Anchor(rows[i], plans[p][i]).status
                         = Ladder(rows[i].line, rows[i].anchor, docs[p]).status
                    /\ Anchor(rows[i], plans[p][i]).line
                         = Ladder(rows[i].line, rows[i].anchor, docs[p]).line
  BY DEF PlansFollowLadder
<1>1. /\ plans[p][i] = Classify(rows[i].line, rows[i].anchor, docs[p])
      /\ mark[p] # "idle" /\ docs[p] # None
  BY DEF CommentInv, PlansFit
<1>2. docs[p] \in Documents
  BY <1>1 DEF CommentInv, CommentTypeOK
<1>3. rows[i] \in Row
  BY DEF CommentInv, CommentTypeOK, Present
<1>4. QED
  BY <1>1, <1>2, <1>3, PlanIs

\* The invariant holds at the start.
LEMMA CommentStarts ==
  CommentInit => CommentInv
<1> SUFFICES ASSUME CommentInit PROVE CommentInv
  OBVIOUS
<1>1. Present = {}
  BY DEF CommentInit, Present
<1>2. CommentTypeOK
  <2>1. \A p \in Pages : DOMAIN plans[p] = {}
    BY DEF CommentInit
  <2>2. plans = [p \in Pages |-> plans[p]]
    BY DEF CommentInit
  <2>3. QED
    BY <2>1, <2>2, BoundsAssumption DEF CommentInit, CommentTypeOK
<1>3. RequestsFit /\ FlatThreads /\ RepliesFit /\ ThreadsTogether
  BY <1>1 DEF CommentInit, RequestsFit, FlatThreads, RepliesFit, ThreadsTogether
<1>4. PlansFit
  BY <1>1 DEF CommentInit, PlansFit
<1>5. QED
  BY <1>2, <1>3, <1>4 DEF CommentInv

\* A comment that is there has all its columns.
LEMMA RowFields ==
  ASSUME CommentTypeOK, NEW i \in Present
  PROVE  /\ rows[i] \in Row
         /\ rows[i].path \in Pages /\ rows[i].line \in LineNos /\ rows[i].anchor \in Lines
         /\ rows[i].parent \in Reqs \cup {None}
BY DEF CommentTypeOK, Present, Row

\* A request arrives: nothing is on its way to a row that was not there.
LEMMA StartKeeps ==
  ASSUME CommentInv, NEW r \in Reqs, Start(r)
  PROVE  CommentInv'
<1>0. CommentTypeOK /\ RequestsFit /\ FlatThreads /\ RepliesFit /\ ThreadsTogether /\ PlansFit
  BY DEF CommentInv
<1>1. PICK next \in {"insert", "parent", "get"} :
        /\ pc' = [pc EXCEPT ![r] = next]
        /\ \/ \E p \in Pages :
                /\ next = "insert" /\ docs[p] # None
                /\ \E n \in DOMAIN docs[p] :
                     asked' = [asked EXCEPT ![r] =
                       [op |-> "create", path |-> p, line |-> n,
                        anchor |-> docs[p][n], parent |-> None]]
           \/ \E i \in Present :
                /\ next = "parent"
                /\ asked' = [asked EXCEPT ![r] =
                     [op |-> "create", path |-> rows[i].path, line |-> rows[i].line,
                      anchor |-> rows[i].anchor, parent |-> i]]
           \/ \E i \in Present, s \in Statuses \cup {None} :
                /\ next = "get"
                /\ asked' = [asked EXCEPT ![r] = [op |-> "update", id |-> i, status |-> s]]
  BY DEF Start
<1>2. pc[r] = "idle" /\ UNCHANGED <<docs, rows, read, marking, apart, bounds>>
  BY DEF Start
<1>3. PICK request \in Create \cup Update :
        /\ asked' = [asked EXCEPT ![r] = request]
        /\ \/ next = "insert" /\ request \in Create /\ request.parent = None
           \/ next = "parent" /\ request \in Create /\ request.parent # None
           \/ next = "get" /\ request \in Update
  <2>1. CASE \E p \in Pages :
                /\ next = "insert" /\ docs[p] # None
                /\ \E n \in DOMAIN docs[p] :
                     asked' = [asked EXCEPT ![r] =
                       [op |-> "create", path |-> p, line |-> n,
                        anchor |-> docs[p][n], parent |-> None]]
    <3>1. PICK p \in Pages :
            /\ next = "insert" /\ docs[p] # None
            /\ \E n \in DOMAIN docs[p] :
                 asked' = [asked EXCEPT ![r] =
                   [op |-> "create", path |-> p, line |-> n,
                    anchor |-> docs[p][n], parent |-> None]]
      BY <2>1
    <3>2. docs[p] \in Documents
      BY <1>0, <3>1 DEF CommentTypeOK
    <3>3. PICK n \in DOMAIN docs[p] :
            asked' = [asked EXCEPT ![r] =
              [op |-> "create", path |-> p, line |-> n, anchor |-> docs[p][n], parent |-> None]]
      BY <3>1
    <3>4. n \in LineNos /\ docs[p][n] \in Lines
      BY <3>2, DocumentTypes
    <3> DEFINE request == [op |-> "create", path |-> p, line |-> n,
                           anchor |-> docs[p][n], parent |-> None]
    <3>5. request \in Create /\ request.parent = None /\ asked' = [asked EXCEPT ![r] = request]
      BY <3>3, <3>4 DEF Create
    <3> HIDE DEF request
    <3>6. QED
      BY <3>1, <3>5
  <2>2. CASE \E i \in Present :
                /\ next = "parent"
                /\ asked' = [asked EXCEPT ![r] =
                     [op |-> "create", path |-> rows[i].path, line |-> rows[i].line,
                      anchor |-> rows[i].anchor, parent |-> i]]
    <3>1. PICK i \in Present :
                /\ next = "parent"
                /\ asked' = [asked EXCEPT ![r] =
                     [op |-> "create", path |-> rows[i].path, line |-> rows[i].line,
                      anchor |-> rows[i].anchor, parent |-> i]]
      BY <2>2
    <3>2. i \in Reqs /\ i # None
      BY CommentNoneAssumption DEF Present
    <3> DEFINE request == [op |-> "create", path |-> rows[i].path, line |-> rows[i].line,
                           anchor |-> rows[i].anchor, parent |-> i]
    <3>3. /\ rows[i].path \in Pages /\ rows[i].line \in LineNos
          /\ rows[i].anchor \in Lines
      BY <1>0, RowFields
    <3>4. request \in Create /\ request.parent # None /\ asked' = [asked EXCEPT ![r] = request]
      BY <3>1, <3>2, <3>3 DEF Create
    <3> HIDE DEF request
    <3>5. QED
      BY <3>1, <3>4
  <2>3. CASE \E i \in Present, s \in Statuses \cup {None} :
                /\ next = "get"
                /\ asked' = [asked EXCEPT ![r] = [op |-> "update", id |-> i, status |-> s]]
    <3>1. PICK i \in Present, s \in Statuses \cup {None} :
                /\ next = "get"
                /\ asked' = [asked EXCEPT ![r] = [op |-> "update", id |-> i, status |-> s]]
      BY <2>3
    <3> DEFINE request == [op |-> "update", id |-> i, status |-> s]
    <3>2. request \in Update /\ asked' = [asked EXCEPT ![r] = request]
      BY <3>1 DEF Update, Present
    <3> HIDE DEF request
    <3>3. QED
      BY <3>1, <3>2
  <2>4. QED
    BY <1>1, <2>1, <2>2, <2>3
<1>4. asked \in [Reqs -> Create \cup Update \cup {None}] /\ DOMAIN pc = Reqs
  BY <1>0 DEF CommentTypeOK
<1>5. asked'[r] = request /\ pc'[r] = next
  BY <1>1, <1>3, <1>4
<1>6. \A s \in Reqs : s # r => asked'[s] = asked[s] /\ pc'[s] = pc[s]
  BY <1>1, <1>3, <1>4
<1>7. Present' = Present
  BY <1>2 DEF Present
<1>8. CommentTypeOK'
  BY <1>0, <1>1, <1>2, <1>3 DEF CommentTypeOK, marking, bounds
<1>9. RequestsFit'
  BY <1>0, <1>2, <1>3, <1>5, <1>6, <1>7 DEF RequestsFit
<1>10. FlatThreads' /\ ThreadsTogether'
  BY <1>0, <1>2, <1>7 DEF FlatThreads, ThreadsTogether
<1>11. RepliesFit'
  <2> SUFFICES ASSUME NEW s \in Reqs, pc'[s] = "insert", asked'[s].parent # None
               PROVE  /\ pc'[asked'[s].parent] = "ok"
                      /\ asked'[s].parent \in Present =>
                           /\ rows[asked'[s].parent].parent = None
                           /\ s \in apart \/ rows[asked'[s].parent].path = asked'[s].path
    BY <1>2, <1>7 DEF RepliesFit
  <2>1. s # r
    BY <1>3, <1>5
  <2>2. asked'[s] = asked[s] /\ pc[s] = "insert" /\ asked[s].parent # None
    BY <1>6, <2>1
  <2>3. pc[asked[s].parent] = "ok" /\ asked[s].parent \in Reqs
    BY <1>0, <2>2 DEF RepliesFit, RequestsFit, Create
  <2>4. pc'[asked[s].parent] = "ok"
    BY <1>2, <1>6, <2>3
  <2>5. QED
    BY <1>0, <2>2, <2>4 DEF RepliesFit
<1>12. PlansFit'
  <2>1. ASSUME NEW p \in Pages, NEW i \in DOMAIN plans[p]
        PROVE  pc'[i] = "ok"
    <3>1. pc[i] = "ok" /\ i \in Reqs
      BY <1>0 DEF PlansFit, CommentTypeOK
    <3>2. QED
      BY <1>2, <1>6, <3>1
  <2>2. QED
    BY <1>0, <1>2, <1>7, <2>1 DEF PlansFit, marking
<1>13. QED
  BY <1>8, <1>9, <1>10, <1>11, <1>12 DEF CommentInv

\* While a request is on its way, neither the documents nor MarkPath move, and
\* the plans stay about comments that have been answered.
LEMMA PlansUntouched ==
  ASSUME CommentTypeOK, PlansFit, UNCHANGED <<docs, rows, marking>>,
         \A s \in Reqs : pc[s] = "ok" => pc'[s] = "ok"
  PROVE  PlansFit'
<1>1. ASSUME NEW p \in Pages, NEW i \in DOMAIN plans[p]
      PROVE  pc'[i] = "ok"
  BY <1>1 DEF PlansFit, CommentTypeOK
<1>2. QED
  BY <1>1 DEF PlansFit, marking, Present

\* The parent is found: the reply is turned to its root, which threads have on their own
\* document unless they were put apart.
LEMMA LookUpParentKeeps ==
  ASSUME CommentInv, NEW r \in Reqs, LookUpParent(r)
  PROVE  CommentInv'
<1>0. CommentTypeOK /\ RequestsFit /\ FlatThreads /\ RepliesFit /\ ThreadsTogether /\ PlansFit
  BY DEF CommentInv
<1> DEFINE p == asked[r].parent
           parent == rows[p]
           root == IF parent.parent # None THEN parent.parent ELSE p
           request == [asked[r] EXCEPT !.parent = root]
<1>1. pc[r] = "parent" /\ UNCHANGED <<docs, rows, marking, bounds>>
  BY DEF LookUpParent
<1>2. apart' = IF p \in apart THEN apart \cup {r} ELSE apart
  BY DEF LookUpParent
<1>3. p \in Reqs /\ asked[r] \in Create
  BY <1>0, <1>1 DEF RequestsFit, Create
<1>4. Present' = Present
  BY <1>1 DEF Present
<1>5. \/ /\ ~ ParentFound(parent, asked[r].path)
         /\ Answer(r, "refused")
      \/ /\ ParentFound(parent, asked[r].path)
         /\ asked' = [asked EXCEPT ![r] = request]
         /\ pc' = [pc EXCEPT ![r] = "insert"]
         /\ UNCHANGED read
  BY DEF LookUpParent
<1>6. \A s \in Reqs : s # r => asked'[s] = asked[s] /\ pc'[s] = pc[s] /\ read'[s] = read[s]
  BY <1>0, <1>5 DEF CommentTypeOK, Answer
<1>7. pc'[r] \in {"refused", "insert"}
  BY <1>0, <1>5 DEF CommentTypeOK, Answer
<1>8. pc'[r] = "insert" =>
        /\ ParentFound(parent, asked[r].path) /\ asked'[r] = request
        /\ asked' = [asked EXCEPT ![r] = request] /\ UNCHANGED read
  BY <1>0, <1>5 DEF CommentTypeOK, Answer
<1>9. FlatThreads' /\ ThreadsTogether'
  BY <1>0, <1>1, <1>2, <1>4 DEF FlatThreads, ThreadsTogether
<1>10. ASSUME pc'[r] = "insert"
       PROVE  /\ root \in Present /\ rows[root].parent = None
              /\ r \in apart' \/ rows[root].path = asked[r].path
              /\ request \in Create /\ request.parent = root /\ request.path = asked[r].path
  <2>1. p \in Present /\ parent.path = asked[r].path
    BY <1>3, <1>8, <1>10 DEF ParentFound, Present
  <2>2. parent.parent # None =>
          /\ parent.parent \in Present /\ rows[parent.parent].parent = None
          /\ p \notin apart => rows[parent.parent].path = parent.path
    BY <1>0, <2>1 DEF FlatThreads, ThreadsTogether
  <2>3. root \in Present /\ rows[root].parent = None
    BY <2>1, <2>2
  <2>4. r \in apart' \/ rows[root].path = asked[r].path
    BY <1>2, <2>1, <2>2
  <2>5. root \in Reqs
    BY <2>3 DEF Present
  <2> HIDE DEF root
  <2>6. request \in Create /\ request.parent = root /\ request.path = asked[r].path
    BY <1>3, <2>5 DEF Create
  <2>7. QED
    BY <2>3, <2>4, <2>6
<1> HIDE DEF request, root
<1>11. CommentTypeOK'
  <2>1. /\ asked' \in [Reqs -> Create \cup Update \cup {None}]
        /\ read' \in [Reqs -> Row \cup {None}]
    <3>1. CASE pc'[r] = "insert"
      BY <1>0, <1>8, <1>10, <3>1 DEF CommentTypeOK
    <3>2. CASE pc'[r] # "insert"
      BY <1>0, <1>5, <3>2 DEF CommentTypeOK, Answer
    <3>3. QED
      BY <3>1, <3>2
  <2>2. pc' \in [Reqs -> {"idle", "parent", "insert", "get", "write", "ok", "refused", "failed"}]
    BY <1>0, <1>5 DEF CommentTypeOK, Answer
  <2>3. apart' \subseteq Reqs
    BY <1>0, <1>2 DEF CommentTypeOK
  <2>4. QED
    BY <1>0, <1>1, <2>1, <2>2, <2>3 DEF CommentTypeOK, marking, bounds
<1>12. RequestsFit'
  <2> SUFFICES ASSUME NEW s \in Reqs
               PROVE  /\ pc'[s] \in {"parent", "insert"} => asked'[s] \in Create
                      /\ pc'[s] = "parent" => asked'[s].parent # None
                      /\ pc'[s] \in {"get", "write"} => asked'[s] \in Update
                      /\ pc'[s] = "write" => read'[s] \in Row
                      /\ s \in Present => pc'[s] = "ok"
    BY <1>4 DEF RequestsFit
  <2>1. CASE s = r
    BY <1>0, <1>1, <1>7, <1>8, <1>10, <2>1 DEF RequestsFit
  <2>2. CASE s # r
    BY <1>0, <1>6, <2>2 DEF RequestsFit
  <2>3. QED
    BY <2>1, <2>2
<1>13. RepliesFit'
  <2> SUFFICES ASSUME NEW s \in Reqs, pc'[s] = "insert", asked'[s].parent # None
               PROVE  /\ pc'[asked'[s].parent] = "ok"
                      /\ asked'[s].parent \in Present =>
                           /\ rows[asked'[s].parent].parent = None
                           /\ s \in apart' \/ rows[asked'[s].parent].path = asked'[s].path
    BY <1>1, <1>4 DEF RepliesFit
  <2>1. CASE s = r
    <3>1. root \in Present /\ asked'[s].parent = root /\ asked'[s].path = asked[r].path
      BY <1>8, <1>10, <2>1
    <3>2. root \in Reqs /\ pc[root] = "ok"
      BY <1>0, <3>1 DEF RequestsFit, Present
    <3>3. pc'[root] = "ok"
      BY <1>1, <1>6, <3>2
    <3>4. QED
      BY <1>10, <2>1, <3>1, <3>3
  <2>2. CASE s # r
    <3>1. asked'[s] = asked[s] /\ pc[s] = "insert" /\ asked[s].parent # None
      BY <1>6, <2>2
    <3>2. pc[asked[s].parent] = "ok" /\ asked[s].parent \in Reqs
      BY <1>0, <3>1 DEF RepliesFit, RequestsFit, Create
    <3>3. pc'[asked[s].parent] = "ok"
      BY <1>1, <1>6, <3>2
    <3>4. apart \subseteq apart'
      BY <1>2
    <3>5. QED
      BY <1>0, <3>1, <3>3, <3>4 DEF RepliesFit
  <2>3. QED
    BY <2>1, <2>2
<1>14. PlansFit'
  <2>1. \A s \in Reqs : pc[s] = "ok" => pc'[s] = "ok"
    BY <1>1, <1>6
  <2>2. QED
    BY <1>0, <1>1, <2>1, PlansUntouched
<1>15. QED
  BY <1>9, <1>11, <1>12, <1>13, <1>14 DEF CommentInv

\* The row is inserted: its root is still a root if it is there, and no reply waited
\* for this row, since it was not answered.
LEMMA InsertRowKeeps ==
  ASSUME CommentInv, NEW r \in Reqs, InsertRow(r)
  PROVE  CommentInv'
<1>0. CommentTypeOK /\ RequestsFit /\ FlatThreads /\ RepliesFit /\ ThreadsTogether /\ PlansFit
  BY DEF CommentInv
<1> DEFINE c == asked[r]
           row == [path |-> c.path, line |-> c.line, anchor |-> c.anchor,
                   status |-> "open", resolvedAt |-> FALSE, parent |-> c.parent]
<1>1. pc[r] = "insert" /\ UNCHANGED <<docs, marking, apart, bounds>>
  BY DEF InsertRow
<1>2. \/ Answer(r, "failed") /\ UNCHANGED rows
      \/ /\ c.parent = None \/ rows[c.parent] # None
         /\ rows' = [rows EXCEPT ![r] = row]
         /\ Answer(r, "ok")
  BY DEF InsertRow
<1>3. c \in Create /\ r \notin Present
  BY <1>0, <1>1 DEF RequestsFit
<1>4. row \in Row /\ row # None /\ row.parent = c.parent /\ row.path = c.path
  <2>1. row \in Row
    BY <1>3 DEF Create, Row, Statuses
  <2>2. QED
    BY <2>1, CommentNoneAssumption
<1> HIDE DEF row
<1>5. /\ asked' = [asked EXCEPT ![r] = None] /\ read' = [read EXCEPT ![r] = None]
      /\ pc'[r] \in {"ok", "failed"}
      /\ \A s \in Reqs : s # r => asked'[s] = asked[s] /\ pc'[s] = pc[s] /\ read'[s] = read[s]
  BY <1>0, <1>2 DEF CommentTypeOK, Answer
<1>6. \A s \in Reqs : s # r => rows'[s] = rows[s]
  BY <1>0, <1>2 DEF CommentTypeOK
<1>7. CommentTypeOK'
  <2>1. rows' \in [Reqs -> Row \cup {None}]
    BY <1>0, <1>2, <1>4 DEF CommentTypeOK
  <2>2. pc' \in [Reqs -> {"idle", "parent", "insert", "get", "write", "ok", "refused", "failed"}]
    BY <1>0, <1>2 DEF CommentTypeOK, Answer
  <2>3. QED
    BY <1>0, <1>1, <1>5, <2>1, <2>2 DEF CommentTypeOK, marking, bounds
<1>8. CASE UNCHANGED rows
  <2>1. Present' = Present
    BY <1>8 DEF Present
  <2>2. RequestsFit'
    BY <1>0, <1>3, <1>5, <2>1 DEF RequestsFit
  <2>3. FlatThreads' /\ ThreadsTogether'
    BY <1>0, <1>1, <1>8, <2>1 DEF FlatThreads, ThreadsTogether
  <2>4. RepliesFit'
    <3> SUFFICES ASSUME NEW s \in Reqs, pc'[s] = "insert", asked'[s].parent # None
                 PROVE  /\ pc'[asked'[s].parent] = "ok"
                        /\ asked'[s].parent \in Present =>
                             /\ rows[asked'[s].parent].parent = None
                             /\ s \in apart \/ rows[asked'[s].parent].path = asked'[s].path
      BY <1>1, <1>8, <2>1 DEF RepliesFit
    <3>1. s # r /\ asked'[s] = asked[s] /\ pc[s] = "insert"
      BY <1>5
    <3>2. pc[asked[s].parent] = "ok" /\ asked[s].parent \in Reqs
      BY <1>0, <3>1 DEF RepliesFit, RequestsFit, Create
    <3>3. pc'[asked[s].parent] = "ok"
      BY <1>1, <1>5, <3>2
    <3>4. QED
      BY <1>0, <3>1, <3>3 DEF RepliesFit
  <2>5. PlansFit'
    <3>1. \A s \in Reqs : pc[s] = "ok" => pc'[s] = "ok"
      BY <1>1, <1>5
    <3>2. QED
      BY <1>0, <1>1, <1>8, <3>1, PlansUntouched
  <2>6. QED
    BY <1>7, <2>2, <2>3, <2>4, <2>5 DEF CommentInv
<1>9. CASE /\ c.parent = None \/ rows[c.parent] # None
           /\ rows' = [rows EXCEPT ![r] = row]
           /\ Answer(r, "ok")
  <2>1. rows'[r] = row /\ pc'[r] = "ok" /\ Present' = Present \cup {r}
    BY <1>0, <1>4, <1>9 DEF CommentTypeOK, Answer, Present
  <2>2. c.parent # None => /\ c.parent \in Present /\ c.parent # r
                           /\ rows[c.parent].parent = None
                           /\ r \in apart \/ rows[c.parent].path = c.path
    <3>1. c.parent # None => c.parent \in Present
      BY <1>3, <1>9 DEF Present, Create
    <3>2. QED
      BY <1>0, <1>1, <1>3, <3>1 DEF RepliesFit
  <2>3. \A i \in Present : i # r /\ rows'[i] = rows[i] /\ rows[i].parent # r
    BY <1>0, <1>3, <1>6, CommentNoneAssumption DEF FlatThreads, Present
  <2>4. RequestsFit'
    BY <1>0, <1>5, <2>1 DEF RequestsFit
  <2>5. FlatThreads'
    <3> SUFFICES ASSUME NEW i \in Present', rows'[i].parent # None
                 PROVE  rows'[i].parent \in Present' /\ rows'[rows'[i].parent].parent = None
      BY DEF FlatThreads
    <3>1. CASE i = r
      BY <1>4, <2>1, <2>2, <2>3, <3>1
    <3>2. CASE i # r
      <4>1. i \in Present /\ rows'[i] = rows[i]
        BY <2>1, <2>3, <3>2
      <4>2. rows[i].parent \in Present /\ rows[rows[i].parent].parent = None
        BY <1>0, <4>1 DEF FlatThreads
      <4>3. QED
        BY <2>1, <2>3, <4>1, <4>2
    <3>3. QED
      BY <3>1, <3>2
  <2>6. ThreadsTogether'
    <3> SUFFICES ASSUME NEW i \in Present', i \notin apart, rows'[i].parent # None
                 PROVE  rows'[rows'[i].parent].path = rows'[i].path
      BY <1>1 DEF ThreadsTogether
    <3>1. CASE i = r
      BY <1>4, <2>1, <2>2, <2>3, <3>1
    <3>2. CASE i # r
      <4>1. i \in Present /\ rows'[i] = rows[i]
        BY <2>1, <2>3, <3>2
      <4>2. rows[i].parent \in Present /\ rows[rows[i].parent].path = rows[i].path
        BY <1>0, <4>1 DEF FlatThreads, ThreadsTogether
      <4>3. QED
        BY <2>3, <4>1, <4>2
    <3>3. QED
      BY <3>1, <3>2
  <2>7. RepliesFit'
    <3> SUFFICES ASSUME NEW s \in Reqs, pc'[s] = "insert", asked'[s].parent # None
                 PROVE  /\ pc'[asked'[s].parent] = "ok"
                        /\ asked'[s].parent \in Present' =>
                             /\ rows'[asked'[s].parent].parent = None
                             /\ s \in apart \/ rows'[asked'[s].parent].path = asked'[s].path
      BY <1>1 DEF RepliesFit
    <3>1. s # r /\ asked'[s] = asked[s] /\ pc[s] = "insert"
      BY <1>5
    <3>2. pc[asked[s].parent] = "ok" /\ asked[s].parent \in Reqs /\ asked[s].parent # r
      BY <1>0, <1>1, <3>1 DEF RepliesFit, RequestsFit, Create
    <3>3. pc'[asked[s].parent] = "ok" /\ rows'[asked[s].parent] = rows[asked[s].parent]
      BY <1>5, <1>6, <3>2
    <3>4. asked[s].parent \in Present' => asked[s].parent \in Present
      BY <2>1, <3>2
    <3>5. QED
      BY <1>0, <3>1, <3>3, <3>4 DEF RepliesFit
  <2>8. PlansFit'
    <3> SUFFICES ASSUME NEW p \in Pages
                 PROVE  /\ mark[p] = "write" \/ DOMAIN plans[p] = {}
                        /\ mark[p] = "idle" \/ docs[p] # None
                        /\ \A i \in DOMAIN plans[p] : pc'[i] = "ok"
                        /\ \A i \in DOMAIN plans[p] \cap Present' :
                             /\ rows'[i].path = p
                             /\ plans[p][i] = Classify(rows'[i].line, rows'[i].anchor, docs[p])
      BY <1>1 DEF PlansFit, marking
    <3>1. ASSUME NEW i \in DOMAIN plans[p]
          PROVE  i \in Reqs /\ i # r /\ pc'[i] = "ok" /\ rows'[i] = rows[i]
      <4>1. i \in Reqs /\ pc[i] = "ok"
        BY <1>0 DEF CommentTypeOK, PlansFit
      <4>2. QED
        BY <1>1, <1>5, <1>6, <4>1
    <3>2. \A i \in DOMAIN plans[p] \cap Present' : i \in Present
      BY <2>1, <3>1
    <3>3. QED
      BY <1>0, <3>1, <3>2 DEF PlansFit
  <2>9. QED
    BY <1>7, <2>4, <2>5, <2>6, <2>7, <2>8 DEF CommentInv
<1>10. QED
  BY <1>2, <1>8, <1>9

\* Requests that are answered or turned to update leave the replies on their
\* way as they are.
LEMMA RepliesUntouched ==
  ASSUME RequestsFit, RepliesFit, UNCHANGED apart, Present' \subseteq Present,
         \A i \in Present' : rows'[i].parent \in {rows[i].parent, None} /\ rows'[i].path = rows[i].path,
         \A s \in Reqs : pc[s] = "ok" => pc'[s] = "ok",
         \A s \in Reqs : pc'[s] = "insert" => pc[s] = "insert" /\ asked'[s] = asked[s]
  PROVE  RepliesFit'
<1> SUFFICES ASSUME NEW s \in Reqs, pc'[s] = "insert", asked'[s].parent # None
             PROVE  /\ pc'[asked'[s].parent] = "ok"
                    /\ asked'[s].parent \in Present' =>
                         /\ rows'[asked'[s].parent].parent = None
                         /\ s \in apart' \/ rows'[asked'[s].parent].path = asked'[s].path
  BY DEF RepliesFit
<1> DEFINE root == asked[s].parent
<1>1. asked'[s] = asked[s] /\ pc[s] = "insert" /\ root # None
  OBVIOUS
<1>2. root \in Reqs
  BY <1>1 DEF RequestsFit, Create
<1>3. /\ pc[root] = "ok"
      /\ root \in Present => /\ rows[root].parent = None
                             /\ s \in apart \/ rows[root].path = asked[s].path
  BY <1>1 DEF RepliesFit
<1>4. pc'[root] = "ok"
  BY <1>2, <1>3
<1>5. ASSUME root \in Present'
      PROVE  rows'[root].parent = None /\ (s \in apart' \/ rows'[root].path = asked'[s].path)
  <2>1. root \in Present
    BY <1>5
  <2>2. rows'[root].parent = None /\ rows'[root].path = rows[root].path
    BY <1>3, <1>5, <2>1
  <2>3. QED
    BY <1>1, <1>3, <2>1, <2>2
<1>6. QED
  BY <1>1, <1>4, <1>5

\* A row is read for an update.
LEMMA GetRowKeeps ==
  ASSUME CommentInv, NEW r \in Reqs, GetRow(r)
  PROVE  CommentInv'
<1>0. CommentTypeOK /\ RequestsFit /\ FlatThreads /\ RepliesFit /\ ThreadsTogether /\ PlansFit
  BY DEF CommentInv
<1>1. pc[r] = "get" /\ UNCHANGED <<docs, rows, marking, apart, bounds>>
  BY DEF GetRow
<1>2. \/ Answer(r, "refused")
      \/ /\ rows[asked[r].id] # None
         /\ read' = [read EXCEPT ![r] = rows[asked[r].id]]
         /\ pc' = [pc EXCEPT ![r] = "write"]
         /\ UNCHANGED asked
  BY DEF GetRow
<1>3. asked[r] \in Update /\ asked[r].id \in Reqs
  BY <1>0, <1>1 DEF RequestsFit, Update
<1>4. Present' = Present
  BY <1>1 DEF Present
<1>5. rows[asked[r].id] # None => rows[asked[r].id] \in Row
  BY <1>0, <1>3 DEF CommentTypeOK
<1>6. /\ \/ pc'[r] = "refused"
         \/ pc'[r] = "write" /\ asked'[r] = asked[r] /\ read'[r] \in Row
      /\ \A s \in Reqs : s # r => asked'[s] = asked[s] /\ pc'[s] = pc[s] /\ read'[s] = read[s]
  BY <1>0, <1>2, <1>5 DEF CommentTypeOK, Answer
<1>7. CommentTypeOK'
  <2>1. CASE Answer(r, "refused")
    BY <1>0, <1>1, <2>1 DEF CommentTypeOK, Answer, marking, bounds
  <2>2. CASE /\ rows[asked[r].id] # None
             /\ read' = [read EXCEPT ![r] = rows[asked[r].id]]
             /\ pc' = [pc EXCEPT ![r] = "write"]
             /\ UNCHANGED asked
    BY <1>0, <1>1, <1>5, <2>2 DEF CommentTypeOK, marking, bounds
  <2>3. QED
    BY <1>2, <2>1, <2>2
<1>8. RequestsFit'
  BY <1>0, <1>1, <1>3, <1>4, <1>6 DEF RequestsFit
<1>9. FlatThreads' /\ ThreadsTogether'
  BY <1>0, <1>1, <1>4 DEF FlatThreads, ThreadsTogether
<1>10. \A s \in Reqs : /\ pc[s] = "ok" => pc'[s] = "ok"
                       /\ pc'[s] = "insert" => pc[s] = "insert" /\ asked'[s] = asked[s]
  BY <1>1, <1>6
<1>11. RepliesFit' /\ PlansFit'
  BY <1>0, <1>1, <1>4, <1>10, RepliesUntouched, PlansUntouched
<1>12. QED
  BY <1>7, <1>8, <1>9, <1>11 DEF CommentInv

\* The update writes the status and nothing that threads or plans go by.
LEMMA WriteRowKeeps ==
  ASSUME CommentInv, NEW r \in Reqs, WriteRow(r)
  PROVE  CommentInv'
<1>0. CommentTypeOK /\ RequestsFit /\ FlatThreads /\ RepliesFit /\ ThreadsTogether /\ PlansFit
  BY DEF CommentInv
<1> DEFINE u == asked[r]
           status == NewStatus(u, read[r])
           at == ResolvedAt(read[r], status)
<1>1. pc[r] = "write" /\ UNCHANGED <<docs, marking, apart, bounds>>
  BY DEF WriteRow
<1>2. \/ Answer(r, "refused") /\ UNCHANGED rows
      \/ /\ rows[u.id] # None
         /\ rows' = [rows EXCEPT ![u.id].status = status, ![u.id].resolvedAt = at]
         /\ Answer(r, "ok")
  BY DEF WriteRow
<1>3. u \in Update /\ u.id \in Reqs /\ read[r] \in Row
  BY <1>0, <1>1 DEF RequestsFit, Update
<1>4. status \in Statuses /\ at \in BOOLEAN
  BY <1>3 DEF NewStatus, ResolvedAt, Update, Row
<1> HIDE DEF status, at
<1>5. /\ pc'[r] \in {"ok", "refused"}
      /\ \A s \in Reqs : s # r => asked'[s] = asked[s] /\ pc'[s] = pc[s] /\ read'[s] = read[s]
  BY <1>0, <1>2 DEF CommentTypeOK, Answer
<1>6. /\ rows' \in [Reqs -> Row \cup {None}] /\ Present' = Present
      /\ \A i \in Present : /\ rows'[i].path = rows[i].path /\ rows'[i].line = rows[i].line
                            /\ rows'[i].anchor = rows[i].anchor
                            /\ rows'[i].parent = rows[i].parent
  <2>1. CASE UNCHANGED rows
    BY <1>0, <2>1 DEF CommentTypeOK, Present
  <2>2. CASE /\ rows[u.id] # None
             /\ rows' = [rows EXCEPT ![u.id].status = status, ![u.id].resolvedAt = at]
    <3> DEFINE row == rows[u.id]
               new == [rows[u.id] EXCEPT !.status = status, !.resolvedAt = at]
    <3>1. row \in Row
      BY <1>0, <1>3, <2>2 DEF CommentTypeOK
    <3>2. /\ new \in Row /\ new.path = row.path /\ new.line = row.line
          /\ new.anchor = row.anchor /\ new.parent = row.parent
      BY <1>4, <3>1 DEF Row
    <3>3. rows' = [rows EXCEPT ![u.id] = new]
      BY <1>0, <1>3, <2>2 DEF CommentTypeOK
    <3>4. new # None
      BY <3>2, CommentNoneAssumption
    <3> HIDE DEF new
    <3>5. QED
      BY <1>0, <1>3, <2>2, <3>2, <3>3, <3>4 DEF CommentTypeOK, Present
  <2>3. QED
    BY <1>2, <2>1, <2>2
<1>7. CommentTypeOK'
  BY <1>0, <1>1, <1>2, <1>6 DEF CommentTypeOK, Answer, marking, bounds
<1>8. RequestsFit'
  BY <1>0, <1>1, <1>5, <1>6 DEF RequestsFit
<1>9. FlatThreads'
  BY <1>0, <1>6 DEF FlatThreads
<1>10. ThreadsTogether'
  BY <1>0, <1>1, <1>6 DEF FlatThreads, ThreadsTogether
<1>11. \A s \in Reqs : /\ pc[s] = "ok" => pc'[s] = "ok"
                       /\ pc'[s] = "insert" => pc[s] = "insert" /\ asked'[s] = asked[s]
  BY <1>1, <1>5
<1>12. RepliesFit'
  BY <1>0, <1>1, <1>6, <1>11, RepliesUntouched
<1>13. PlansFit'
  <2>1. ASSUME NEW p \in Pages, NEW i \in DOMAIN plans[p]
        PROVE  pc'[i] = "ok"
    BY <1>0, <1>11, <2>1 DEF PlansFit, CommentTypeOK
  <2>2. QED
    BY <1>0, <1>1, <1>6, <2>1 DEF PlansFit, marking
<1>14. QED
  BY <1>7, <1>8, <1>9, <1>10, <1>12, <1>13 DEF CommentInv

\* A save: the lock of the document is free, so there is no plan for it.
LEMMA SaveDocKeeps ==
  ASSUME CommentInv, NEW p \in Pages, SaveDoc(p)
  PROVE  CommentInv'
<1>0. CommentTypeOK /\ RequestsFit /\ FlatThreads /\ RepliesFit /\ ThreadsTogether /\ PlansFit
  BY DEF CommentInv
<1>1. /\ mark[p] = "idle" /\ saves < MaxSaves /\ saves' = saves + 1
      /\ mark' = [mark EXCEPT ![p] = "read"]
      /\ UNCHANGED <<rows, requests, plans, apart, moves, faults>>
  BY DEF SaveDoc
<1>2. PICK d \in Documents : docs' = [docs EXCEPT ![p] = d]
  BY DEF SaveDoc
<1>3. Present' = Present /\ d # None
  BY <1>1, CommentNoneAssumption DEF Present
<1>4. CommentTypeOK'
  <2>1. saves' \in 0 .. MaxSaves
    BY <1>0, <1>1, BoundsAssumption DEF CommentTypeOK
  <2>2. QED
    BY <1>0, <1>1, <1>2, <2>1 DEF CommentTypeOK, requests
<1>5. RequestsFit' /\ FlatThreads' /\ RepliesFit' /\ ThreadsTogether'
  BY <1>0, <1>1, <1>3 DEF RequestsFit, FlatThreads, RepliesFit, ThreadsTogether, requests
<1>6. PlansFit'
  <2> SUFFICES ASSUME NEW q \in Pages
               PROVE  /\ mark'[q] = "write" \/ DOMAIN plans[q] = {}
                      /\ mark'[q] = "idle" \/ docs'[q] # None
                      /\ \A i \in DOMAIN plans[q] : pc[i] = "ok"
                      /\ \A i \in DOMAIN plans[q] \cap Present :
                           /\ rows[i].path = q
                           /\ plans[q][i] = Classify(rows[i].line, rows[i].anchor, docs'[q])
    BY <1>1, <1>3 DEF PlansFit, requests
  <2>1. CASE q = p
    <3>1. DOMAIN plans[p] = {}
      BY <1>0, <1>1 DEF PlansFit
    <3>2. docs'[p] # None
      BY <1>0, <1>2, <1>3 DEF CommentTypeOK
    <3>3. QED
      BY <2>1, <3>1, <3>2
  <2>2. CASE q # p
    <3>1. docs'[q] = docs[q] /\ mark'[q] = mark[q]
      BY <1>0, <1>1, <1>2, <2>2 DEF CommentTypeOK
    <3>2. QED
      BY <1>0, <3>1 DEF PlansFit
  <2>3. QED
    BY <2>1, <2>2
<1>7. QED
  BY <1>4, <1>5, <1>6 DEF CommentInv

\* MarkPath plans for the rows and the document that it reads.
LEMMA MarkReadKeeps ==
  ASSUME CommentInv, NEW p \in Pages, MarkRead(p)
  PROVE  CommentInv'
<1>0. CommentTypeOK /\ RequestsFit /\ FlatThreads /\ RepliesFit /\ ThreadsTogether /\ PlansFit
  BY DEF CommentInv
<1> DEFINE active == {i \in Present : rows[i].path = p /\ rows[i].status # "resolved"}
           plan == [i \in active |-> Classify(rows[i].line, rows[i].anchor, docs[p])]
<1>1. /\ mark[p] = "read"
      /\ plans' = [plans EXCEPT ![p] = plan]
      /\ mark' = [mark EXCEPT ![p] = IF active = {} THEN "idle" ELSE "write"]
      /\ UNCHANGED <<docs, rows, requests, apart, bounds>>
  BY DEF MarkRead
<1>2. Present' = Present
  BY <1>1 DEF Present
<1>3. docs[p] \in Documents
  BY <1>0, <1>1 DEF CommentTypeOK, PlansFit
<1>4. active \subseteq Reqs /\ active \subseteq Present /\ \A i \in active : plan[i] \in Plan
  <2>1. ASSUME NEW i \in active
        PROVE  Classify(rows[i].line, rows[i].anchor, docs[p]) \in Plan
    <3>1. rows[i] \in Row
      BY <1>0, RowFields
    <3>2. QED
      BY <1>3, <3>1, PlanIs
  <2>2. QED
    BY <2>1 DEF Present
<1>5. DOMAIN plan = active /\ \A i \in active : rows[i].path = p /\ pc[i] = "ok"
  BY <1>0 DEF RequestsFit, Present
<1>6. \A i \in active : plan[i] = Classify(rows[i].line, rows[i].anchor, docs[p])
  OBVIOUS
<1> HIDE DEF active, plan
<1>7. /\ DOMAIN plans' = Pages /\ plans'[p] = plan
      /\ \A q \in Pages : q # p => plans'[q] = plans[q] /\ mark'[q] = mark[q]
      /\ mark'[p] = IF active = {} THEN "idle" ELSE "write"
  BY <1>0, <1>1 DEF CommentTypeOK
<1>8. CommentTypeOK'
  <2>1. plans' = [q \in Pages |-> plans'[q]]
    BY <1>0, <1>1 DEF CommentTypeOK
  <2>2. \A q \in Pages : DOMAIN plans'[q] \subseteq Reqs /\ \A i \in DOMAIN plans'[q] : plans'[q][i] \in Plan
    <3>1. ASSUME NEW q \in Pages
          PROVE  DOMAIN plans'[q] \subseteq Reqs /\ \A i \in DOMAIN plans'[q] : plans'[q][i] \in Plan
      <4>1. CASE q = p
        BY <1>4, <1>5, <1>7, <4>1
      <4>2. CASE q # p
        BY <1>0, <1>7, <4>2 DEF CommentTypeOK
      <4>3. QED
        BY <4>1, <4>2
    <3>2. QED
      BY <3>1
  <2>3. mark' \in [Pages -> {"idle", "read", "write"}]
    BY <1>0, <1>1 DEF CommentTypeOK
  <2>4. QED
    BY <1>0, <1>1, <2>1, <2>2, <2>3 DEF CommentTypeOK, requests, bounds
<1>9. RequestsFit' /\ FlatThreads' /\ RepliesFit' /\ ThreadsTogether'
  BY <1>0, <1>1, <1>2 DEF RequestsFit, FlatThreads, RepliesFit, ThreadsTogether, requests
<1>10. PlansFit'
  <2> SUFFICES ASSUME NEW q \in Pages
               PROVE  /\ mark'[q] = "write" \/ DOMAIN plans'[q] = {}
                      /\ mark'[q] = "idle" \/ docs[q] # None
                      /\ \A i \in DOMAIN plans'[q] : pc[i] = "ok"
                      /\ \A i \in DOMAIN plans'[q] \cap Present :
                           /\ rows[i].path = q
                           /\ plans'[q][i] = Classify(rows[i].line, rows[i].anchor, docs[q])
    BY <1>1, <1>2 DEF PlansFit, requests
  <2>1. CASE q = p
    <3>1. docs[p] # None
      BY <1>0, <1>1 DEF PlansFit
    <3>2. QED
      BY <1>5, <1>6, <1>7, <2>1, <3>1
  <2>2. CASE q # p
    BY <1>0, <1>7, <2>2 DEF PlansFit
  <2>3. QED
    BY <2>1, <2>2
<1>11. QED
  BY <1>8, <1>9, <1>10 DEF CommentInv

\* When MarkPath ends, with its transaction or without, nothing is left to write.
LEMMA PlanDropped ==
  ASSUME CommentTypeOK, NEW p \in Pages,
         plans' = [plans EXCEPT ![p] = <<>>], mark' = [mark EXCEPT ![p] = "idle"]
  PROVE  /\ mark' \in [Pages -> {"idle", "read", "write"}]
         /\ plans' = [q \in Pages |-> plans'[q]]
         /\ DOMAIN plans'[p] = {} /\ mark'[p] = "idle"
         /\ \A q \in Pages : q # p => plans'[q] = plans[q] /\ mark'[q] = mark[q]
         /\ \A q \in Pages : /\ DOMAIN plans'[q] \subseteq Reqs
                            /\ \A i \in DOMAIN plans'[q] : plans'[q][i] \in Plan
<1>1. /\ mark' \in [Pages -> {"idle", "read", "write"}]
      /\ plans' = [q \in Pages |-> plans'[q]]
      /\ plans'[p] = <<>> /\ mark'[p] = "idle"
      /\ \A q \in Pages : q # p => plans'[q] = plans[q] /\ mark'[q] = mark[q]
  BY DEF CommentTypeOK
<1>2. DOMAIN plans'[p] = {}
  BY <1>1
<1>3. ASSUME NEW q \in Pages
      PROVE  DOMAIN plans'[q] \subseteq Reqs /\ \A i \in DOMAIN plans'[q] : plans'[q][i] \in Plan
  <2>1. CASE q = p
    BY <1>2, <2>1
  <2>2. CASE q # p
    BY <1>1, <2>2 DEF CommentTypeOK
  <2>3. QED
    BY <2>1, <2>2
<1>4. QED
  BY <1>1, <1>2, <1>3

\* MarkPath writes: the rows of another plan are on another page.
LEMMA MarkWriteKeeps ==
  ASSUME CommentInv, NEW p \in Pages, MarkWrite(p)
  PROVE  CommentInv'
<1>0. CommentTypeOK /\ RequestsFit /\ FlatThreads /\ RepliesFit /\ ThreadsTogether /\ PlansFit
  BY DEF CommentInv
<1>1. /\ rows' = [i \in Reqs |-> IF i \in DOMAIN plans[p] \cap Present
                                 THEN Anchor(rows[i], plans[p][i]) ELSE rows[i]]
      /\ plans' = [plans EXCEPT ![p] = <<>>]
      /\ mark' = [mark EXCEPT ![p] = "idle"]
      /\ UNCHANGED <<docs, requests, apart, bounds>>
  BY DEF MarkWrite
<1>2. ASSUME NEW i \in DOMAIN plans[p] \cap Present
      PROVE  /\ Anchor(rows[i], plans[p][i]) \in Row
             /\ Anchor(rows[i], plans[p][i]).path = rows[i].path
             /\ Anchor(rows[i], plans[p][i]).parent = rows[i].parent
  <2>1. rows[i] \in Row
    BY <1>0, RowFields
  <2>2. plans[p][i] \in Plan
    BY <1>0 DEF CommentTypeOK
  <2>3. plans[p][i].line > 0 => plans[p][i].line \in LineNos
    BY <2>2 DEF Plan
  <2>4. QED
    BY <2>1, <2>2, <2>3 DEF Anchor, Row, Plan
<1>3. rows' \in [Reqs -> Row \cup {None}] /\ Present' = Present
  BY <1>0, <1>1, <1>2, CommentNoneAssumption DEF CommentTypeOK, Present
<1>4. \A i \in Present : rows'[i].path = rows[i].path /\ rows'[i].parent = rows[i].parent
  BY <1>1, <1>2 DEF Present
<1>5. \A i \in Present : i \notin DOMAIN plans[p] => rows'[i] = rows[i]
  BY <1>1 DEF Present
<1>6. CommentTypeOK'
  BY <1>0, <1>1, <1>3, PlanDropped DEF CommentTypeOK, requests, bounds
<1>7. RequestsFit'
  BY <1>0, <1>1, <1>3 DEF RequestsFit, requests
<1>8. FlatThreads' /\ ThreadsTogether'
  <2>1. FlatThreads'
    BY <1>0, <1>3, <1>4 DEF FlatThreads
  <2>2. ASSUME NEW i \in Present, i \notin apart, rows[i].parent # None
        PROVE  rows'[rows'[i].parent].path = rows'[i].path
    <3>1. rows[i].parent \in Present /\ rows[rows[i].parent].path = rows[i].path
      BY <1>0, <2>2 DEF FlatThreads, ThreadsTogether
    <3>2. QED
      BY <1>4, <3>1
  <2>3. QED
    BY <1>1, <1>3, <1>4, <2>1, <2>2 DEF ThreadsTogether
<1>9. RepliesFit'
  BY <1>0, <1>1, <1>3, <1>4, RepliesUntouched DEF requests
<1>10. PlansFit'
  <2> SUFFICES ASSUME NEW q \in Pages
               PROVE  /\ mark'[q] = "write" \/ DOMAIN plans'[q] = {}
                      /\ mark'[q] = "idle" \/ docs[q] # None
                      /\ \A i \in DOMAIN plans'[q] : pc[i] = "ok"
                      /\ \A i \in DOMAIN plans'[q] \cap Present :
                           /\ rows'[i].path = q
                           /\ plans'[q][i] = Classify(rows'[i].line, rows'[i].anchor, docs[q])
    BY <1>1, <1>3 DEF PlansFit, requests
  <2>1. CASE q = p
    <3>1. DOMAIN plans'[p] = {} /\ mark'[p] = "idle"
      BY <1>0, <1>1, PlanDropped
    <3>2. QED
      BY <2>1, <3>1
  <2>2. CASE q # p
    <3>1. plans'[q] = plans[q] /\ mark'[q] = mark[q]
      BY <1>0, <1>1, <2>2, PlanDropped
    <3>2. ASSUME NEW i \in DOMAIN plans[q] \cap Present
          PROVE  rows'[i] = rows[i]
      <4>1. rows[i].path = q
        BY <1>0 DEF PlansFit
      <4>2. i \notin DOMAIN plans[p]
        BY <1>0, <2>2, <4>1 DEF PlansFit
      <4>3. QED
        BY <1>5, <4>2
    <3>3. QED
      BY <1>0, <3>1, <3>2 DEF PlansFit
  <2>3. QED
    BY <2>1, <2>2
<1>11. QED
  BY <1>6, <1>7, <1>8, <1>9, <1>10 DEF CommentInv

\* MarkPath fails, and its plan is dropped.
LEMMA MarkFailsKeeps ==
  ASSUME CommentInv, NEW p \in Pages, MarkFails(p)
  PROVE  CommentInv'
<1>0. CommentTypeOK /\ RequestsFit /\ FlatThreads /\ RepliesFit /\ ThreadsTogether /\ PlansFit
  BY DEF CommentInv
<1>1. /\ faults < MaxFaults /\ faults' = faults + 1
      /\ plans' = [plans EXCEPT ![p] = <<>>]
      /\ mark' = [mark EXCEPT ![p] = "idle"]
      /\ UNCHANGED <<docs, rows, requests, apart, saves, moves>>
  BY DEF MarkFails
<1>2. Present' = Present
  BY <1>1 DEF Present
<1>3. CommentTypeOK'
  <2>1. faults' \in 0 .. MaxFaults
    BY <1>0, <1>1, BoundsAssumption DEF CommentTypeOK
  <2>2. QED
    BY <1>0, <1>1, <2>1, PlanDropped DEF CommentTypeOK, requests
<1>4. RequestsFit' /\ FlatThreads' /\ RepliesFit' /\ ThreadsTogether'
  BY <1>0, <1>1, <1>2 DEF RequestsFit, FlatThreads, RepliesFit, ThreadsTogether, requests
<1>5. PlansFit'
  <2> SUFFICES ASSUME NEW q \in Pages
               PROVE  /\ mark'[q] = "write" \/ DOMAIN plans'[q] = {}
                      /\ mark'[q] = "idle" \/ docs[q] # None
                      /\ \A i \in DOMAIN plans'[q] : pc[i] = "ok"
                      /\ \A i \in DOMAIN plans'[q] \cap Present :
                           /\ rows[i].path = q
                           /\ plans'[q][i] = Classify(rows[i].line, rows[i].anchor, docs[q])
    BY <1>1, <1>2 DEF PlansFit, requests
  <2>1. CASE q = p
    <3>1. DOMAIN plans'[p] = {} /\ mark'[p] = "idle"
      BY <1>0, <1>1, PlanDropped
    <3>2. QED
      BY <2>1, <3>1
  <2>2. CASE q # p
    <3>1. plans'[q] = plans[q] /\ mark'[q] = mark[q]
      BY <1>0, <1>1, <2>2, PlanDropped
    <3>2. QED
      BY <1>0, <3>1 DEF PlansFit
  <2>3. QED
    BY <2>1, <2>2
<1>6. QED
  BY <1>3, <1>4, <1>5 DEF CommentInv

\* A move takes whole threads along, and the replies on their way are put apart.
LEMMA MovePathKeeps ==
  ASSUME CommentInv, NEW p \in Pages, NEW q \in Pages, MovePath(p, q)
  PROVE  CommentInv'
<1>0. CommentTypeOK /\ RequestsFit /\ FlatThreads /\ RepliesFit /\ ThreadsTogether /\ PlansFit
  BY DEF CommentInv
<1> DEFINE late == {r \in Reqs : /\ pc[r] = "insert" /\ asked[r].parent # None
                                 /\ asked[r].path = p}
<1>1. /\ mark[p] = "idle" /\ mark[q] = "idle"
      /\ docs[p] # None /\ docs[q] = None
      /\ moves < MaxMoves /\ moves' = moves + 1
      /\ docs' = [docs EXCEPT ![p] = None, ![q] = docs[p]]
      /\ rows' = [i \in Reqs |-> IF i \in Present /\ rows[i].path = p
                                 THEN [rows[i] EXCEPT !.path = q] ELSE rows[i]]
      /\ apart' = apart \cup late
      /\ UNCHANGED <<requests, marking, saves, faults>>
  BY DEF MovePath
<1>2. ASSUME NEW i \in Present
      PROVE  /\ rows'[i] \in Row
             /\ rows'[i].parent = rows[i].parent
             /\ rows'[i].path = IF rows[i].path = p THEN q ELSE rows[i].path
             /\ rows[i].path # p => rows'[i] = rows[i]
  <2>1. rows[i] \in Row /\ i \in Reqs
    BY <1>0, RowFields DEF Present
  <2>2. [rows[i] EXCEPT !.path = q] \in Row
    BY <2>1 DEF Row
  <2>3. /\ [rows[i] EXCEPT !.path = q].path = q
        /\ [rows[i] EXCEPT !.path = q].parent = rows[i].parent
    BY <2>1 DEF Row
  <2>4. rows'[i] = IF rows[i].path = p THEN [rows[i] EXCEPT !.path = q] ELSE rows[i]
    BY <1>1, <2>1
  <2>5. QED
    BY <2>1, <2>2, <2>3, <2>4
<1>3. \A i \in Reqs : i \notin Present => rows'[i] = None
  BY <1>1 DEF Present
<1>4. rows' \in [Reqs -> Row \cup {None}] /\ Present' = Present
  <2>1. DOMAIN rows' = Reqs
    BY <1>1
  <2>2. \A i \in Present : rows'[i] # None
    BY <1>2, CommentNoneAssumption
  <2>3. rows' = [i \in Reqs |-> rows'[i]]
    BY <1>1
  <2>4. QED
    BY <1>2, <1>3, <2>1, <2>2, <2>3 DEF Present
<1>5. CommentTypeOK'
  <2>1. moves' \in 0 .. MaxMoves
    BY <1>0, <1>1, BoundsAssumption DEF CommentTypeOK
  <2>2. docs' \in [Pages -> Documents \cup {None}] /\ apart' \subseteq Reqs
    BY <1>0, <1>1 DEF CommentTypeOK
  <2>3. QED
    BY <1>0, <1>1, <1>4, <2>1, <2>2 DEF CommentTypeOK, requests, marking
<1>6. RequestsFit'
  BY <1>0, <1>1, <1>4 DEF RequestsFit, requests
<1>7. FlatThreads'
  BY <1>0, <1>2, <1>4 DEF FlatThreads
<1>8. ThreadsTogether'
  <2> SUFFICES ASSUME NEW i \in Present, i \notin apart', rows'[i].parent # None
               PROVE  rows'[rows'[i].parent].path = rows'[i].path
    BY <1>4 DEF ThreadsTogether
  <2>1. i \notin apart /\ rows'[i].parent = rows[i].parent
    BY <1>1, <1>2
  <2>2. rows[i].parent \in Present /\ rows[rows[i].parent].path = rows[i].path
    BY <1>0, <2>1 DEF FlatThreads, ThreadsTogether
  <2>3. QED
    BY <1>2, <2>1, <2>2
<1>9. RepliesFit'
  <2> SUFFICES ASSUME NEW r \in Reqs, pc[r] = "insert", asked[r].parent # None
               PROVE  /\ pc[asked[r].parent] = "ok"
                      /\ asked[r].parent \in Present =>
                           /\ rows'[asked[r].parent].parent = None
                           /\ r \in apart' \/ rows'[asked[r].parent].path = asked[r].path
    BY <1>1, <1>4 DEF RepliesFit, requests
  <2> DEFINE root == asked[r].parent
  <2>1. /\ pc[root] = "ok"
        /\ root \in Present => /\ rows[root].parent = None
                               /\ r \in apart \/ rows[root].path = asked[r].path
    BY <1>0 DEF RepliesFit
  <2>2. asked[r].path = p => r \in apart'
    BY <1>1
  <2>3. r \in apart => r \in apart'
    BY <1>1
  <2> HIDE DEF root
  <2>4. ASSUME root \in Present
        PROVE  rows'[root].parent = None /\ (r \in apart' \/ rows'[root].path = asked[r].path)
    <3>1. rows'[root].parent = None
      BY <1>2, <2>1, <2>4
    <3>2. rows[root].path # p => rows'[root].path = rows[root].path
      BY <1>2, <2>4
    <3>3. r \in apart' \/ rows'[root].path = asked[r].path
      BY <2>1, <2>2, <2>3, <2>4, <3>2
    <3>4. QED
      BY <3>1, <3>3
  <2>5. QED
    BY <2>1, <2>4 DEF root
<1>10. PlansFit'
  <2> SUFFICES ASSUME NEW s \in Pages
               PROVE  /\ mark[s] = "write" \/ DOMAIN plans[s] = {}
                      /\ mark[s] = "idle" \/ docs'[s] # None
                      /\ \A i \in DOMAIN plans[s] : pc[i] = "ok"
                      /\ \A i \in DOMAIN plans[s] \cap Present :
                           /\ rows'[i].path = s
                           /\ plans[s][i] = Classify(rows'[i].line, rows'[i].anchor, docs'[s])
    <3>1. UNCHANGED <<pc, plans, mark>> /\ Present' = Present
      BY <1>1, <1>4 DEF requests, marking
    <3>2. QED
      BY <3>1 DEF PlansFit
  <2>1. CASE s \in {p, q}
    <3>1. mark[s] = "idle" /\ DOMAIN plans[s] = {}
      BY <1>0, <1>1, <2>1 DEF PlansFit
    <3>2. QED
      BY <3>1
  <2>2. CASE s \notin {p, q}
    <3>1. docs'[s] = docs[s]
      BY <1>0, <1>1, <2>2 DEF CommentTypeOK
    <3>2. ASSUME NEW i \in DOMAIN plans[s] \cap Present
          PROVE  rows'[i] = rows[i]
      BY <1>0, <1>2, <2>2 DEF PlansFit
    <3>3. QED
      BY <1>0, <3>1, <3>2 DEF PlansFit
  <2>3. QED
    BY <2>1, <2>2
<1>11. QED
  BY <1>5, <1>6, <1>7, <1>8, <1>9, <1>10 DEF CommentInv

\* A deletion takes rows away, and the replies that stay become roots.
LEMMA DeletePathKeeps ==
  ASSUME CommentInv, NEW p \in Pages, DeletePath(p)
  PROVE  CommentInv'
<1>0. CommentTypeOK /\ RequestsFit /\ FlatThreads /\ RepliesFit /\ ThreadsTogether /\ PlansFit
  BY DEF CommentInv
<1> DEFINE gone == {i \in Present : rows[i].path = p}
<1>1. /\ mark[p] = "idle" /\ docs[p] # None
      /\ moves < MaxMoves /\ moves' = moves + 1
      /\ docs' = [docs EXCEPT ![p] = None]
      /\ rows' = [i \in Reqs |-> IF i \in gone \/ i \notin Present THEN None
                                 ELSE OrphanReply(rows[i], gone)]
      /\ UNCHANGED <<requests, marking, apart, saves, faults>>
  BY DEF DeletePath
<1>2. gone \subseteq Present
  OBVIOUS
<1>3. \A i \in Present : i \in gone <=> rows[i].path = p
  OBVIOUS
<1> HIDE DEF gone
<1>4. ASSUME NEW i \in Present, i \notin gone
      PROVE  /\ rows'[i] \in Row
             /\ rows'[i].parent = IF rows[i].parent \in gone THEN None ELSE rows[i].parent
             /\ rows'[i].path = rows[i].path /\ rows'[i].line = rows[i].line
             /\ rows'[i].anchor = rows[i].anchor
  <2>1. rows[i] \in Row /\ i \in Reqs
    BY <1>0, RowFields DEF Present
  <2> DEFINE row == [rows[i] EXCEPT !.parent = None]
  <2>2. /\ row \in Row /\ row.parent = None /\ row.path = rows[i].path
        /\ row.line = rows[i].line /\ row.anchor = rows[i].anchor
    BY <2>1 DEF Row
  <2>3. rows'[i] = IF rows[i].parent \in gone THEN row ELSE rows[i]
    BY <1>1, <1>4, <2>1 DEF OrphanReply
  <2> HIDE DEF row
  <2>4. QED
    BY <2>1, <2>2, <2>3
<1>5. \A i \in Reqs : i \in gone \/ i \notin Present => rows'[i] = None
  BY <1>1
<1>6. rows' \in [Reqs -> Row \cup {None}] /\ Present' = Present \ gone
  <2>1. \A i \in Present : i \notin gone => rows'[i] # None
    BY <1>4, CommentNoneAssumption
  <2>2. rows' = [i \in Reqs |-> rows'[i]]
    BY <1>1
  <2>3. \A i \in Reqs : rows'[i] \in Row \cup {None}
    BY <1>4, <1>5
  <2>4. QED
    BY <1>5, <2>1, <2>2, <2>3 DEF Present
<1>7. CommentTypeOK'
  <2>1. moves' \in 0 .. MaxMoves
    BY <1>0, <1>1, BoundsAssumption DEF CommentTypeOK
  <2>2. docs' \in [Pages -> Documents \cup {None}]
    BY <1>0, <1>1 DEF CommentTypeOK
  <2>3. QED
    BY <1>0, <1>1, <1>6, <2>1, <2>2 DEF CommentTypeOK, requests, marking
<1>8. RequestsFit'
  BY <1>0, <1>1, <1>6 DEF RequestsFit, requests
<1>9. ASSUME NEW i \in Present', rows'[i].parent # None
      PROVE  /\ i \in Present /\ i \notin gone /\ rows'[i].parent = rows[i].parent
             /\ rows[i].parent \in Present' /\ rows'[rows[i].parent].parent = None
             /\ rows'[rows[i].parent].path = rows[rows[i].parent].path
  <2>1. i \in Present /\ i \notin gone
    BY <1>6
  <2>2. rows'[i].parent = rows[i].parent /\ rows[i].parent \notin gone
    BY <1>4, <1>9, <2>1
  <2>3. rows[i].parent \in Present /\ rows[rows[i].parent].parent = None
    BY <1>0, <1>9, <2>1, <2>2 DEF FlatThreads
  <2> DEFINE root == rows[i].parent
  <2>4. /\ rows'[root].parent = IF rows[root].parent \in gone THEN None ELSE rows[root].parent
        /\ rows'[root].path = rows[root].path
    BY <1>4, <2>2, <2>3
  <2>5. QED
    BY <1>6, <2>1, <2>2, <2>3, <2>4
<1>10. FlatThreads'
  BY <1>9 DEF FlatThreads
<1>11. ThreadsTogether'
  <2> SUFFICES ASSUME NEW i \in Present', i \notin apart, rows'[i].parent # None
               PROVE  rows'[rows'[i].parent].path = rows'[i].path
    BY <1>1 DEF ThreadsTogether
  <2>1. rows[rows[i].parent].path = rows[i].path
    BY <1>0, <1>9 DEF ThreadsTogether
  <2>2. rows'[i].path = rows[i].path
    BY <1>4, <1>9
  <2>3. QED
    BY <1>9, <2>1, <2>2
<1>12. RepliesFit'
  <2>1. \A i \in Present' : rows'[i].parent \in {rows[i].parent, None} /\ rows'[i].path = rows[i].path
    BY <1>4, <1>6
  <2>2. Present' \subseteq Present
    BY <1>6
  <2>3. QED
    BY <1>0, <1>1, <2>1, <2>2, RepliesUntouched DEF requests
<1>13. PlansFit'
  <2> SUFFICES ASSUME NEW s \in Pages
               PROVE  /\ mark[s] = "write" \/ DOMAIN plans[s] = {}
                      /\ mark[s] = "idle" \/ docs'[s] # None
                      /\ \A i \in DOMAIN plans[s] : pc[i] = "ok"
                      /\ \A i \in DOMAIN plans[s] \cap Present' :
                           /\ rows'[i].path = s
                           /\ plans[s][i] = Classify(rows'[i].line, rows'[i].anchor, docs'[s])
    BY <1>1 DEF PlansFit, requests, marking
  <2>1. CASE s = p
    <3>1. mark[s] = "idle" /\ DOMAIN plans[s] = {}
      BY <1>0, <1>1, <2>1 DEF PlansFit
    <3>2. QED
      BY <3>1
  <2>2. CASE s # p
    <3>1. docs'[s] = docs[s]
      BY <1>0, <1>1, <2>2 DEF CommentTypeOK
    <3>2. ASSUME NEW i \in DOMAIN plans[s] \cap Present'
          PROVE  /\ i \in Present /\ rows'[i].path = rows[i].path
                 /\ rows'[i].line = rows[i].line /\ rows'[i].anchor = rows[i].anchor
      BY <1>4, <1>6
    <3>3. QED
      BY <1>0, <3>1, <3>2 DEF PlansFit
  <2>3. QED
    BY <2>1, <2>2
<1>14. QED
  BY <1>7, <1>8, <1>10, <1>11, <1>12, <1>13 DEF CommentInv

\* Nothing changes.
LEMMA CommentStutter ==
  ASSUME CommentInv, UNCHANGED commentVars
  PROVE  CommentInv'
<1>1. UNCHANGED <<docs, rows, pc, asked, read, mark, plans, apart, saves, moves, faults>>
  BY DEF commentVars, requests, marking, bounds
<1>2. Present' = Present
  BY <1>1 DEF Present
<1>3. QED
  BY <1>1, <1>2 DEF CommentInv, CommentTypeOK, RequestsFit, FlatThreads, RepliesFit,
                    ThreadsTogether, PlansFit

\* Comments are left behind: where the document was and where it is now nothing is
\* planned.
LEMMA LeftBehindKeeps ==
  ASSUME CommentInv, NEW p \in Pages, LeftBehind(p)
  PROVE  CommentInv'
<1>0. CommentTypeOK /\ RequestsFit /\ FlatThreads /\ RepliesFit /\ ThreadsTogether /\ PlansFit
  BY DEF CommentInv
<1>1. /\ mark[p] = "idle" /\ docs[p] # None /\ moves < MaxMoves /\ faults < MaxFaults
      /\ moves' = moves + 1 /\ faults' = faults + 1
      /\ UNCHANGED <<rows, requests, marking, apart, saves>>
  BY DEF LeftBehind
<1>2. /\ docs' \in [Pages -> Documents \cup {None}]
      /\ \A s \in Pages : mark[s] # "idle" => docs'[s] = docs[s]
  <2>1. CASE docs' = [docs EXCEPT ![p] = None]
    BY <1>0, <1>1, <2>1 DEF CommentTypeOK
  <2>2. ASSUME NEW q \in Pages, mark[q] = "idle",
               docs' = [docs EXCEPT ![p] = None, ![q] = docs[p]]
        PROVE  /\ docs' \in [Pages -> Documents \cup {None}]
               /\ \A s \in Pages : mark[s] # "idle" => docs'[s] = docs[s]
    BY <1>0, <1>1, <2>2 DEF CommentTypeOK
  <2>3. QED
    BY <2>1, <2>2 DEF LeftBehind
<1>3. CommentTypeOK'
  <2>1. moves' \in 0 .. MaxMoves /\ faults' \in 0 .. MaxFaults
    BY <1>0, <1>1, BoundsAssumption DEF CommentTypeOK
  <2>2. QED
    BY <1>0, <1>1, <1>2, <2>1 DEF CommentTypeOK, requests, marking
<1>4. RequestsFit' /\ FlatThreads' /\ RepliesFit' /\ ThreadsTogether'
  <2>1. Present' = Present
    BY <1>1 DEF Present
  <2>2. QED
    BY <1>0, <1>1, <2>1 DEF RequestsFit, FlatThreads, RepliesFit, ThreadsTogether, requests
<1>5. PlansFit'
  <2>1. UNCHANGED <<rows, pc, mark, plans>> /\ Present' = Present
    BY <1>1 DEF Present, requests, marking
  <2> SUFFICES ASSUME NEW s \in Pages
               PROVE  /\ mark[s] = "write" \/ DOMAIN plans[s] = {}
                      /\ mark[s] = "idle" \/ docs'[s] # None
                      /\ \A i \in DOMAIN plans[s] : pc[i] = "ok"
                      /\ \A i \in DOMAIN plans[s] \cap Present :
                           /\ rows[i].path = s
                           /\ plans[s][i] = Classify(rows[i].line, rows[i].anchor, docs'[s])
    BY <2>1 DEF PlansFit
  <2>2. CASE mark[s] = "idle"
    <3>1. DOMAIN plans[s] = {}
      BY <1>0, <2>2 DEF PlansFit
    <3>2. QED
      BY <2>2, <3>1
  <2>3. CASE mark[s] # "idle"
    <3>1. docs'[s] = docs[s]
      BY <1>2, <2>3
    <3>2. QED
      BY <1>0, <3>1 DEF PlansFit
  <2>4. QED
    BY <2>2, <2>3
<1>6. QED
  BY <1>3, <1>4, <1>5 DEF CommentInv

\* Every step keeps the invariant.
LEMMA CommentSteps ==
  ASSUME CommentInv, [CommentNext]_commentVars
  PROVE  CommentInv'
<1>1. CASE \E r \in Reqs : Start(r) \/ LookUpParent(r) \/ InsertRow(r) \/ GetRow(r) \/ WriteRow(r)
  BY <1>1, StartKeeps, LookUpParentKeeps, InsertRowKeeps, GetRowKeeps, WriteRowKeeps
<1>2. CASE \E p \in Pages : \/ SaveDoc(p) \/ MarkRead(p) \/ MarkWrite(p) \/ MarkFails(p)
                            \/ DeletePath(p) \/ LeftBehind(p)
  BY <1>2, SaveDocKeeps, MarkReadKeeps, MarkWriteKeeps, MarkFailsKeeps, DeletePathKeeps,
     LeftBehindKeeps
<1>3. CASE \E p, q \in Pages : MovePath(p, q)
  BY <1>3, MovePathKeeps
<1>4. CASE Idle \/ UNCHANGED commentVars
  BY <1>4, CommentStutter DEF Idle
<1>5. QED
  BY <1>1, <1>2, <1>3, <1>4 DEF CommentNext

\* For any documents, requests and bounds: every request knows what it asked and
\* read, every reply has its root, and every plan of MarkPath is about the rows
\* and the document as they are.
THEOREM CommentInvariance == CommentSpec => []CommentInv
<1>1. CommentInit => CommentInv
  BY CommentStarts
<1>2. CommentInv /\ [CommentNext]_commentVars => CommentInv'
  BY CommentSteps
<1>3. QED
  BY <1>1, <1>2, PTL DEF CommentSpec

\* For any number of requests between any saves, moves and deletions: threads are
\* one level deep and every reply has its root, although Create looks the parent
\* up before it inserts and takes no lock (comments.go:79-107).
THEOREM ThreadsStayFlat == CommentSpec => []FlatThreads
<1>1. CommentInv => FlatThreads
  BY DEF CommentInv
<1>2. QED
  BY <1>1, CommentInvariance, PTL

\* A reply is on the document of the comment it answers, through all moves and
\* deletions, unless its document moved between the look-up of the parent and the
\* insertion, or it answers a comment of which this is true (comments.go:82-113).
THEOREM ThreadsStayTogether == CommentSpec => []ThreadsTogether
<1>1. CommentInv => ThreadsTogether
  BY DEF CommentInv
<1>2. QED
  BY <1>1, CommentInvariance, PTL

\* What MarkPath is about to write is what the four rungs promise for the rows and
\* the document as they still are: the path lock keeps both in place between its
\* reading and its transaction, and its loops climb the ladder
\* (comments.go:202-281).
THEOREM PlansAreLadder == CommentSpec => []PlansFollowLadder
BY LadderFollows, CommentInvariance, PTL
=============================================================================
