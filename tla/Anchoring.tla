------------------------------ MODULE Anchoring -----------------------------
(***************************************************************************)
(* How MarkPath finds the line of a comment in a document that has been    *)
(* saved (classify, nearbyExact, nearbyFuzzy and levenshtein.go), next to  *)
(* the ladder its comment promises.  A line is a sequence of characters,   *)
(* <<>> the empty or blank one.                                            *)
(***************************************************************************)
EXTENDS Naturals, Sequences, FiniteSets, SequencesExt

CONSTANTS
  NearbyRadius,   \* reanchorNearbyRadius, 10 in the code
  FuzzyRadius     \* reanchorFuzzyRadius, 20 in the code

ASSUME RadiusAssumption == {NearbyRadius, FuzzyRadius} \subseteq Nat

Smaller(a, b) == IF a < b THEN a ELSE b
Greater(a, b) == IF a < b THEN b ELSE a
Apart(i, j)   == IF i < j THEN j - i ELSE i - j

-----------------------------------------------------------------------------
\* A row of distances from the one before it: an insertion, a deletion, or the
\* step along the diagonal.
NextRow(a, b, prev, i) ==
  LET cost(j) == IF a[i] = b[j] THEN 0 ELSE 1
      curr[j \in 0..Len(b)] ==
        IF j = 0 THEN i
        ELSE Smaller(Smaller(curr[j - 1] + 1, prev[j] + 1), prev[j - 1] + cost(j))
  IN  curr

\* The rolling row.
RollingRow(a, b) ==
  LET row[i \in 0..Len(a)] ==
        IF i = 0 THEN [j \in 0..Len(b) |-> j] ELSE NextRow(a, b, row[i - 1], i)
  IN  row

\* The row is as long as the shorter word.
Distance(a, b) ==
  IF Len(a) < Len(b) THEN RollingRow(b, a)[Len(b)][Len(a)]
                     ELSE RollingRow(a, b)[Len(a)][Len(b)]

\* The edits that a line may have had: three in ten characters, or one.
Allowed(a, b) == Greater(1, (3 * Greater(Len(a), Len(b))) \div 10)

SimilarTo(a, b) == a = b \/ (Len(a) + Len(b) > 0 /\ Distance(a, b) <= Allowed(a, b))

-----------------------------------------------------------------------------
\* Faulty variant: a later line wins a tie.
CloserOrLater(i, best, origin) == best = 0 \/ Apart(i, origin) <= Apart(best, origin)

Closer(i, best, origin) == best = 0 \/ Apart(i, origin) < Apart(best, origin)

\* The loop over the lines around origin for one of fits; 0 if there is none.
Scan(lines, origin, radius, fits) ==
  LET lo == IF origin > radius THEN origin - radius ELSE 1
      hi == Smaller(origin + radius, Len(lines))
      best[i \in 0..Len(lines)] ==
        IF i < lo THEN 0
        ELSE IF lines[i] \in fits /\ Closer(i, best[i - 1], origin) THEN i ELSE best[i - 1]
  IN  best[hi]

NearbyExact(lines, origin, anchor) ==
  Scan(lines, origin, NearbyRadius, {anchor})

NearbyFuzzy(lines, origin, anchor) ==
  Scan(lines, origin, FuzzyRadius,
       {l \in ToSet(lines) : l # <<>> /\ SimilarTo(l, anchor)})

\* Status and line of a comment; line 0 leaves the line alone.
Classify(line, anchor, lines) ==
  LET exact == NearbyExact(lines, line, anchor)
      fuzzy == NearbyFuzzy(lines, line, anchor)
  IN  CASE anchor = <<>> -> [status |-> "orphaned", line |-> 0]
        [] anchor # <<>> /\ line \in DOMAIN lines /\ lines[line] = anchor ->
             [status |-> "open", line |-> 0]
        [] OTHER -> IF exact > 0 THEN [status |-> "open", line |-> exact]
                    ELSE IF fuzzy > 0 THEN [status |-> "relocated", line |-> fuzzy]
                    ELSE [status |-> "orphaned", line |-> 0]

-----------------------------------------------------------------------------
(***************************************************************************)
(* The promise, without loops                                              *)
(***************************************************************************)
\* The lines that one character more, less or other makes of a line.
OneEdit(l, chars) ==
  {RemoveAt(l, i) : i \in DOMAIN l}
    \cup {ReplaceAt(l, i, c) : i \in DOMAIN l, c \in chars}
    \cup {InsertAt(l, i, c) : i \in 1..(Len(l) + 1), c \in chars}

\* b can be made from a with n edits.
WithinEdits(a, b, n) ==
  LET chars == ToSet(a) \cup ToSet(b)
      reach[k \in 0..n] ==
        IF k = 0 THEN {a}
        ELSE reach[k - 1] \cup UNION {OneEdit(l, chars) : l \in reach[k - 1]}
  IN  b \in reach[n]

\* Of the lines that fit, the closest, and of two equally close the first.
ClosestOf(fits, origin) ==
  CHOOSE i \in fits : \A j \in fits :
    \/ Apart(i, origin) < Apart(j, origin)
    \/ Apart(i, origin) = Apart(j, origin) /\ i <= j

\* The four rungs of the comment on MarkPath (comments.go:205-208).
Ladder(line, anchor, lines) ==
  LET around(radius) == {i \in DOMAIN lines : Apart(i, line) <= radius}
      exact == {i \in around(NearbyRadius) \cup ({line} \cap DOMAIN lines) :
                  lines[i] = anchor}
      fuzzy == {i \in around(FuzzyRadius) :
                  lines[i] # <<>> /\ WithinEdits(anchor, lines[i], Allowed(anchor, lines[i]))}
  IN  IF anchor = <<>> THEN [status |-> "orphaned", line |-> line]
      ELSE IF exact # {} THEN [status |-> "open", line |-> ClosestOf(exact, line)]
      ELSE IF fuzzy # {} THEN [status |-> "relocated", line |-> ClosestOf(fuzzy, line)]
      ELSE [status |-> "orphaned", line |-> line]
=============================================================================
