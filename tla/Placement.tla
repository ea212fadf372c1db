------------------------------ MODULE Placement ------------------------------
(***************************************************************************)
(* How CellPlacements become route plans (cellplacement_validation.go,     *)
(* cellplacement_compiler.go and buildRoutePlans): the overlap check over  *)
(* all placements of a router, validation, and the compilation of selectors*)
(* into matches, numeric ranges into regular expressions.  A value is the  *)
(* sequence of its digits; a pattern is a sequence of digit sets; a regular*)
(* expression is a set of alternative patterns.  A path regex is what the  *)
(* scanner sees of its text: brackets, backslashes, captures, other text.  *)
(***************************************************************************)
EXTENDS Integers, Sequences, FiniteSets, SequencesExt

CONSTANTS
  PlacementLists,  \* bound: the lists of placements a router may see
  Requests,        \* bound: the requests that routes are tried on
  StaticRoutes,    \* names of the explicit routes of the CellRouter
  MaxUint64,       \* bound: the largest number strconv.ParseUint returns
  InBody(_, _),    \* whether regexp matches the body of a capture to a value
  None             \* no range, or a request without the value of a source

Digits == 0..9

\* strings.Repeat("9", n), "0" likewise.
Repeat(digit, n) == [i \in 1..n |-> digit]

-----------------------------------------------------------------------------
(* Numbers.                                                                *)

\* The number that a sequence of digits stands for.
NumberOf[s \in Seq(Digits)] == IF s = <<>> THEN 0 ELSE 10 * NumberOf[Front(s)] + Last(s)
Number(s) == NumberOf[s]

\* strconv.ParseUint(s, 10, 64): out of range gives an error and the maximum.
Fits(s) == Number(s) <= MaxUint64
ParseUint(s) == IF Fits(s) THEN Number(s) ELSE MaxUint64

\* ^(0|[1-9][0-9]*)$
IsDecimal(s) == s \in Seq(Digits) /\ (s = <<0>> \/ (s # <<>> /\ s[1] # 0))

-----------------------------------------------------------------------------
(* Range to regular expression.                                            *)

Literal(s) == [i \in DOMAIN s |-> {s[i]}]

DigitRangePattern(first, last) == <<first .. last>>

DigitWildcard(length) == Repeat(Digits, length)

AnyNumberPattern(length) ==
  IF length = 1 THEN <<Digits>> ELSE <<1..9>> \o DigitWildcard(length - 1)

MinValueForLength(length) ==
  IF length <= 1 THEN <<0>> ELSE <<1>> \o Repeat(0, length - 1)

PrependPattern(prefix, patterns) == {prefix \o p : p \in patterns}

SameLengthPairs == {pair \in Seq(Digits) \X Seq(Digits) : Len(pair[1]) = Len(pair[2])}

RangePatterns[pair \in SameLengthPairs] ==
  LET start == pair[1]
      end == pair[2]
      n == Len(start)
      lower == RangePatterns[<<Tail(start), Repeat(9, n - 1)>>]
      upper == RangePatterns[<<Repeat(0, n - 1), Tail(end)>>]
  IN  CASE n = 0 -> {<<>>}
        [] n > 0 /\ start = end -> {Literal(start)}
        [] n = 1 /\ start # end -> {DigitRangePattern(start[1], end[1])}
        [] n > 1 /\ start # end /\ start[1] = end[1] ->
             PrependPattern(<<{start[1]}>>, RangePatterns[<<Tail(start), Tail(end)>>])
        [] n > 1 /\ start[1] # end[1] ->
             PrependPattern(<<{start[1]}>>, lower)
             \cup (IF start[1] + 1 <= end[1] - 1
                   THEN {DigitRangePattern(start[1] + 1, end[1] - 1) \o DigitWildcard(n - 1)}
                   ELSE {})
             \cup PrependPattern(<<{end[1]}>>, upper)

SameLengthRangePatterns(start, end) == RangePatterns[<<start, end>>]

\* Mutant: the lengths between those of the two bounds are forgotten.
RegexWithoutMiddle(start, end) ==
  IF Len(start) = Len(end) THEN SameLengthRangePatterns(start, end)
  ELSE SameLengthRangePatterns(start, Repeat(9, Len(start)))
       \cup SameLengthRangePatterns(MinValueForLength(Len(end)), end)

\* The alternatives; only validated ranges get here, so its errors do not occur.
NumericRangeRegex(start, end) ==
  CASE start = end -> {Literal(start)}
    [] start # end /\ Len(start) = Len(end) -> SameLengthRangePatterns(start, end)
    [] OTHER ->
         SameLengthRangePatterns(start, Repeat(9, Len(start)))
         \cup {AnyNumberPattern(length) : length \in Len(start) + 1 .. Len(end) - 1}
         \cup SameLengthRangePatterns(MinValueForLength(Len(end)), end)

-----------------------------------------------------------------------------
(* Path regular expressions.  A part is plain text or a named capture, in  *)
(* Go's two spellings, with a body.                                        *)

NoPathRegex == << >>

Captures(pathRegex) == {part \in ToSet(pathRegex) : part.capture # None}

\* The text is a sequence of tokens <<character, argument>>: "(?P<name>" and
\* "(?<name>" are one token each, and so is what a selector puts into a capture.
Char(c) == <<c, None>>
OpenCapture(part) == <<IF part.spelledP THEN "(?P<" ELSE "(?<", part.capture>>
Body(regex) == <<"=", regex>>

PartText(part) ==
  IF part.capture = None THEN part.text
  ELSE <<OpenCapture(part)>> \o part.text \o <<Char(")")>>
RegexText(pathRegex) == FlattenSeq([i \in DOMAIN pathRegex |-> PartText(pathRegex[i])])

Openers == {"(", "(?P<", "(?<"}
Opens(token) == token[1] \in Openers
Closes(token) == token[1] = ")"

\* Mutant: classes are not looked for.
ScanIgnoringClasses(scan, token) ==
  IF scan.depth = 0 \/ (~scan.escaped /\ Closes(token) /\ scan.depth = 1)
  THEN [scan EXCEPT !.depth = 0]
  ELSE [length |-> scan.length + 1,
        escaped |-> ~scan.escaped /\ token[1] = "\\",
        inClass |-> FALSE,
        depth |-> CASE ~scan.escaped /\ Opens(token) -> scan.depth + 1
                    [] ~scan.escaped /\ Closes(token) -> scan.depth - 1
                    [] OTHER -> scan.depth]

\* The loop of replaceNamedCaptureBody: one character of the capture's body, until
\* the parenthesis that closes it.
ScanBody(scan, token) ==
  LET counts == ~scan.escaped /\ ~scan.inClass
  IN  IF scan.depth = 0 \/ (counts /\ Closes(token) /\ scan.depth = 1)
      THEN [scan EXCEPT !.depth = 0]
      ELSE [length |-> scan.length + 1,
            escaped |-> ~scan.escaped /\ token[1] = "\\",
            inClass |-> IF scan.escaped THEN scan.inClass
                        ELSE token[1] = "[" \/ (scan.inClass /\ token[1] # "]"),
            depth |-> CASE counts /\ Opens(token) -> scan.depth + 1
                        [] counts /\ Closes(token) -> scan.depth - 1
                        [] OTHER -> scan.depth]

\* The body of the first "(?P<name>", up to its closing parenthesis, is replaced;
\* None if there is no such capture in the text or it is not closed.
ReplaceNamedCaptureBody(text, name, replacement) ==
  LET found == {i \in DOMAIN text : text[i] = <<"(?P<", name>>}
      at == CHOOSE i \in found : \A j \in found : i <= j
      rest == SubSeq(text, at + 1, Len(text))
      start == [length |-> 0, escaped |-> FALSE, inClass |-> FALSE, depth |-> 1]
      end == FoldLeft(ScanBody, start, rest)
  IN  IF found = {} \/ end.depth # 0 THEN None
      ELSE SubSeq(text, 1, at) \o <<replacement>> \o SubSeq(rest, end.length + 1, Len(rest))

-----------------------------------------------------------------------------
(* Selectors.  A source is [type, name, pathRegex].                        *)

SourceTypes == {"Header", "QueryParam", "PathCapture"}
SelectorOperators == {"Exact", "Prefix", "Suffix", "Range"}

\* What the CRD's schema lets through; Validate checks the rest.
Admitted(selector) ==
  /\ selector.source.type \in SourceTypes /\ selector.operator \in SelectorOperators
  /\ (selector.operator = "Range") <=> (selector.range # None)
  /\ selector.range # None => IsDecimal(selector.range.start) /\ IsDecimal(selector.range.end)
  /\ selector.value \in Seq(Nat)

ASSUME AdmittedAssumption ==
  \A list \in PlacementLists : \A placement \in ToSet(list) :
    /\ placement.selectors \in Seq(ToSet(placement.selectors)) \ {<<>>}
    /\ \A selector \in ToSet(placement.selectors) : Admitted(selector)

\* The API server keeps names apart.
ASSUME NamesAssumption ==
  \A list \in PlacementLists : \A i, j \in DOMAIN list : list[i].name = list[j].name => i = j

\* A request has a text for every source, or None.
AllPlacements == UNION {ToSet(list) : list \in PlacementLists}
AllSelectors == UNION {ToSet(placement.selectors) : placement \in AllPlacements}
ASSUME RequestsAssumption ==
  /\ MaxUint64 \in Nat
  /\ \A source \in {<<s.source.type, s.source.name>> : s \in AllSelectors} :
       \A request \in Requests : request[source] # None => request[source] \in Seq(Nat)

\* A character after an odd number of backslashes stands for itself.
Escaped(text, i) ==
  \E n \in 1..i-1 : /\ n % 2 = 1
                    /\ \A k \in i-n..i-1 : text[k][1] = "\\"
                    /\ n < i - 1 => text[i - n - 1][1] # "\\"

\* So does one in a class, which the first bracket closes.
InClass(text, i) ==
  \E j \in 1..i-1 : /\ text[j][1] = "[" /\ ~Escaped(text, j)
                    /\ \A k \in j+1..i-1 : text[k][1] = "]" => Escaped(text, k)

\* The parentheses that open and close groups in the first n characters.
Groups(text, n, characters) ==
  {i \in 1..n : text[i][1] \in characters /\ ~Escaped(text, i) /\ ~InClass(text, i)}

Balanced(text) ==
  /\ ~Escaped(text, Len(text) + 1) /\ ~InClass(text, Len(text) + 1)
  /\ \A n \in DOMAIN text :
       Cardinality(Groups(text, n, {")"})) <= Cardinality(Groups(text, n, Openers))
  /\ Cardinality(Groups(text, Len(text), {")"})) = Cardinality(Groups(text, Len(text), Openers))

PathPart(names, tokens) ==
  [capture : {None}, text : Seq(tokens)]
  \cup [capture : names, spelledP : BOOLEAN, text : Seq(tokens)]

\* What regexp.Compile takes, of which Validate asks: no name twice, and bodies whose
\* groups, classes and escapes are closed.  Nested captures are text.
RegexpCompiles(regex) ==
  LET names == {part.capture : part \in Captures(regex)}
      tokens == UNION {ToSet(part.text) : part \in ToSet(regex)}
  IN  /\ regex \in Seq(PathPart(names, tokens))
      /\ \A i, j \in DOMAIN regex :
           regex[i].capture = regex[j].capture /\ regex[i].capture # None => i = j
      /\ \A token \in tokens : token[1] # "="
      /\ \A part \in Captures(regex) : Balanced(part.text)

\* No text looks like the opening of one of the captures.  That a nested capture has
\* another name, regexp.Compile checks; but it takes "(?P<zone>" after a backslash or
\* in a class, which strings.Index would find like any other.
NamesOnce(regex) ==
  LET names == {part.capture : part \in Captures(regex)}
  IN  \A part \in ToSet(regex) : \A token \in ToSet(part.text) : token[2] \notin names

ASSUME PathRegexAssumption ==
  \A selector \in AllSelectors :
    selector.source.type = "PathCapture" =>
      RegexpCompiles(selector.source.pathRegex) /\ NamesOnce(selector.source.pathRegex)

\* source.key(): the path regex counts only for path captures.
SourceKey(selector) ==
  LET source == selector.source
  IN  IF source.type = "PathCapture" THEN <<source.type, source.name, source.pathRegex>>
      ELSE <<source.type, source.name>>

SourceValid(source) ==
  IF source.type = "PathCapture"
  THEN source.name \in {part.capture : part \in Captures(source.pathRegex)}
  ELSE source.pathRegex = NoPathRegex

RangeValid(range) ==
  /\ IsDecimal(range.start) /\ IsDecimal(range.end)
  /\ Fits(range.start) /\ Fits(range.end)
  /\ ParseUint(range.start) <= ParseUint(range.end)

SelectorValid(selector) ==
  /\ SourceValid(selector.source)
  /\ IF selector.operator = "Range"
     THEN selector.range # None /\ RangeValid(selector.range) /\ selector.value = <<>>
     ELSE selector.value # <<>> /\ selector.range = None

AppendPath(paths, selector) ==
  IF selector.source.type = "PathCapture" THEN Append(paths, selector) ELSE paths
PathSelectors(selectors) == FoldLeft(AppendPath, <<>>, selectors)

\* CellPlacementSpec.Validate; routerRef and destinations are never empty here.
Validate(placement) ==
  LET selectors == placement.selectors
      paths == PathSelectors(selectors)
  IN  /\ selectors # <<>>
      /\ \A i \in DOMAIN selectors : SelectorValid(selectors[i])
      /\ \A i, j \in DOMAIN selectors :
           i # j => SourceKey(selectors[i]) # SourceKey(selectors[j])
      /\ \A i, j \in DOMAIN paths :
           paths[i].source.pathRegex = paths[j].source.pathRegex

\* selectorRegexBody: patterns between an optional leading and trailing ".*".
SelectorRegexBody(selector) ==
  LET body(before, patterns, after) ==
        [anyBefore |-> before, patterns |-> patterns, anyAfter |-> after]
  IN  CASE selector.operator = "Exact" -> body(FALSE, {Literal(selector.value)}, FALSE)
        [] selector.operator = "Prefix" -> body(FALSE, {Literal(selector.value)}, TRUE)
        [] selector.operator = "Suffix" -> body(TRUE, {Literal(selector.value)}, FALSE)
        [] selector.operator = "Range" ->
             body(FALSE, NumericRangeRegex(selector.range.start, selector.range.end), FALSE)

\* Mutant: every substitution starts from the text of the placement.
CompileLastCapture(placement) ==
  LET paths == PathSelectors(placement.selectors)
      substitute(text, selector) ==
        ReplaceNamedCaptureBody(RegexText(paths[1].source.pathRegex), selector.source.name,
                                Body(SelectorRegexBody(selector)))
  IN  IF paths = <<>> THEN <<>> ELSE FoldLeft(substitute, None, paths)

\* One round of the loop of compilePathRegex; None once a capture is not found.
Substitute(text, selector) ==
  IF text = None THEN None
  ELSE ReplaceNamedCaptureBody(text, selector.source.name, Body(SelectorRegexBody(selector)))

\* One substitution after the other, in the order of the selectors.
CompilePathRegex(placement) ==
  LET paths == PathSelectors(placement.selectors)
  IN  IF paths = <<>> THEN <<>>
      ELSE FoldLeft(Substitute, RegexText(paths[1].source.pathRegex), paths)

CompilesPath(placement) == CompilePathRegex(placement) # None

\* routeSpecFromPlacement: a match for each header and query selector, and one
\* path for all the path captures.
RouteSpecFromPlacement(placement) ==
  [matches |-> {[type |-> selector.source.type, name |-> selector.source.name,
                 regex |-> SelectorRegexBody(selector)] :
                  selector \in {selector \in ToSet(placement.selectors) :
                                  selector.source.type # "PathCapture"}},
   path |-> CompilePathRegex(placement)]

-----------------------------------------------------------------------------
(* The overlap check, which comes before validation.                       *)

Multiset(values) == [v \in ToSet(values) |-> Cardinality({i \in DOMAIN values : values[i] = v})]

\* The sorted "source|operator|value" lines.
SelectorSignature(selectors, includeRanges) ==
  LET kept == {i \in DOMAIN selectors : includeRanges \/ selectors[i].operator # "Range"}
      line(s) == IF s.operator = "Range" THEN <<SourceKey(s), "Range", s.range>>
                 ELSE <<SourceKey(s), s.operator, s.value>>
  IN  [l \in {line(selectors[i]) : i \in kept} |->
         Cardinality({i \in kept : line(selectors[i]) = l})]

\* The last range of a source wins.
RangeSelectorsBySource(selectors) ==
  LET ranges == {i \in DOMAIN selectors :
                   selectors[i].operator = "Range" /\ selectors[i].range # None}
      sources == {SourceKey(selectors[i]) : i \in ranges}
      last(source) == CHOOSE i \in ranges : /\ SourceKey(selectors[i]) = source
                                            /\ \A j \in ranges :
                                                 SourceKey(selectors[j]) = source => j <= i
  IN  [source \in sources |-> selectors[last(source)].range]

\* Mutant: ranges that share one bound do not intersect.
RangesIntersectStrictly(left, right) ==
  /\ ParseUint(left.start) < ParseUint(right.end)
  /\ ParseUint(right.start) < ParseUint(left.end)

\* Parse errors are ignored.
NumericRangesIntersect(left, right) ==
  /\ ParseUint(left.start) <= ParseUint(right.end)
  /\ ParseUint(right.start) <= ParseUint(left.end)

PlacementsObviouslyOverlap(left, right) ==
  LET leftRanges == RangeSelectorsBySource(left.selectors)
      rightRanges == RangeSelectorsBySource(right.selectors)
      same(includeRanges) == SelectorSignature(left.selectors, includeRanges)
                               = SelectorSignature(right.selectors, includeRanges)
  IN  /\ Multiset(left.listenerNames) = Multiset(right.listenerNames)
      /\ Multiset(left.hostnames) = Multiset(right.hostnames)
      /\ same(FALSE)
      /\ \/ same(TRUE)
         \/ \E source \in DOMAIN leftRanges \cap DOMAIN rightRanges :
              NumericRangesIntersect(leftRanges[source], rightRanges[source])

ValidatePlacementOverlaps(placements) ==
  {i \in DOMAIN placements :
     \E j \in DOMAIN placements \ {i} :
       PlacementsObviouslyOverlap(placements[i], placements[j])}

-----------------------------------------------------------------------------
(* buildRoutePlans, for the placements listPlacements returned.            *)

VARIABLES
  placements,  \* the list
  plans,       \* the placements that became routes, by name
  invalid,     \* the placements that did not
  pc           \* "start", "planned" or "error"

vars == <<placements, plans, invalid, pc>>

Init ==
  /\ placements \in PlacementLists
  /\ plans = << >> /\ invalid = {} /\ pc = "start"

NameConflict == \E i \in DOMAIN placements : placements[i].name \in StaticRoutes

BuildRoutePlans ==
  LET rejected == ValidatePlacementOverlaps(placements)
      compiled == {i \in DOMAIN placements \ rejected :
                     Validate(placements[i]) /\ CompilesPath(placements[i])}
      index(name) == CHOOSE i \in DOMAIN placements : placements[i].name = name
  IN  /\ pc = "start" /\ ~NameConflict
      /\ plans' = [name \in {placements[i].name : i \in compiled} |->
                     RouteSpecFromPlacement(placements[index(name)])]
      /\ invalid' = {placements[i].name : i \in DOMAIN placements \ compiled}
      /\ pc' = "planned" /\ UNCHANGED placements

\* A placement with the name of an explicit route fails the whole build.
BuildFails ==
  /\ pc = "start" /\ NameConflict
  /\ pc' = "error" /\ UNCHANGED <<placements, plans, invalid>>

Next == BuildRoutePlans \/ BuildFails

Spec == Init /\ [][Next]_vars

-----------------------------------------------------------------------------
(* Reference definitions: what selectors and routes mean for a request,    *)
(* which has the values of headers and query parameters, and of each part  *)
(* of the path that stands where a capture is.  Digits are numbers below   *)
(* 10; other characters are numbers from 10.                               *)

\* cellplacement_types.go: Range "matches unsigned decimal values inside an
\* inclusive numeric range", and so on for the other operators.
Selects(selector, value) ==
  CASE selector.operator = "Exact" -> value = selector.value
    [] selector.operator = "Prefix" -> IsPrefix(selector.value, value)
    [] selector.operator = "Suffix" -> IsSuffix(selector.value, value)
    [] selector.operator = "Range" ->
         /\ IsDecimal(value)
         /\ Number(value) \in Number(selector.range.start) .. Number(selector.range.end)

SelectorHolds(selector, request) ==
  LET value == request[<<selector.source.type, selector.source.name>>]
  IN  value # None /\ Selects(selector, value)

IsPath(selector) == selector.source.type = "PathCapture"

\* Selectors are combined with AND.
ValuesSelected(placement, request) ==
  \A selector \in ToSet(placement.selectors) : ~IsPath(selector) => SelectorHolds(selector, request)
PlacementSelects(placement, request) ==
  \A selector \in ToSet(placement.selectors) : SelectorHolds(selector, request)

FitsPattern(s, p) == Len(s) = Len(p) /\ \A i \in DOMAIN p : s[i] \in p[i]

\* Whole-string match of a regular expression.
RegexMatches(regex, s) ==
  \E p \in regex.patterns :
    /\ Len(p) <= Len(s)
    /\ \/ ~regex.anyBefore /\ ~regex.anyAfter /\ FitsPattern(s, p)
       \/ regex.anyAfter /\ FitsPattern(SubSeq(s, 1, Len(p)), p)
       \/ regex.anyBefore /\ FitsPattern(SubSeq(s, Len(s) - Len(p) + 1, Len(s)), p)

\* What a compiled path asks of the value at a capture: the body that was put there.
CaptureMatches(text, part, value) ==
  LET body == text[1 + CHOOSE i \in DOMAIN text : text[i] = OpenCapture(part)]
  IN  body[1] = "=" /\ RegexMatches(body[2], value)

\* A path regex with the bodies of the selectors' captures replaced.
SelectedBodies(paths, name) ==
  {Body(SelectorRegexBody(selector)) :
     selector \in {selector \in ToSet(paths) : selector.source.name = name}}
PartReplaced(paths, part) ==
  IF part.capture = None \/ SelectedBodies(paths, part.capture) = {} THEN part
  ELSE [part EXCEPT !.text = SetToSeq(SelectedBodies(paths, part.capture))]
PathReplaced(paths) ==
  LET regex == paths[1].source.pathRegex
  IN  RegexText([i \in DOMAIN regex |-> PartReplaced(paths, regex[i])])

\* The matches of a route's headers and query parameters.
ValuesMatch(placement, request) ==
  \A match \in plans[placement.name].matches :
    LET value == request[<<match.type, match.name>>]
    IN  value # None /\ RegexMatches(match.regex, value)

-----------------------------------------------------------------------------
(* Properties.                                                             *)

Planned(placement) == placement.name \in DOMAIN plans

\* A compiled route asks of headers and query parameters exactly what its placement's
\* selectors do: no number just outside a range, no number of another length, no
\* leading zeros, for all the splits numericRangeRegex makes of a range.
ValuesExactly ==
  \A placement \in ToSet(placements) : Planned(placement) =>
    \A r \in Requests : ValuesMatch(placement, r) <=> ValuesSelected(placement, r)

\* The capture that a selector is about, and the values that requests have there.
CaptureOf(selector) ==
  {part \in Captures(selector.source.pathRegex) : part.capture = selector.source.name}
ValuesAt(part) == {r[<<"PathCapture", part.capture>>] : r \in Requests} \ {None}

\* The compiled path asks at each selected capture for exactly the selected values: with
\* several selectors, each is found at its own capture after the ones before it were put
\* in, and a range has there the expression it has in a header.
CapturesExactly ==
  \A placement \in ToSet(placements) : Planned(placement) =>
    \A selector \in {s \in ToSet(placement.selectors) : IsPath(s)} :
      \A part \in CaptureOf(selector) : \A value \in ValuesAt(part) :
        CaptureMatches(plans[placement.name].path, part, value) <=> Selects(selector, value)

\* The compiled path is the path regex with the whole body of each selected capture
\* replaced and not a character more, although bodies hold groups, classes and
\* escaped parentheses.
CapturesReplaced ==
  \A placement \in ToSet(placements) :
    Planned(placement) /\ PathSelectors(placement.selectors) # <<>> =>
      plans[placement.name].path = PathReplaced(PathSelectors(placement.selectors))

\* The same listeners and hostnames in some order, the same sources and operators, and
\* the same values.
SameShape(p, q) ==
  /\ Multiset(p.listenerNames) = Multiset(q.listenerNames)
  /\ Multiset(p.hostnames) = Multiset(q.hostnames)
  /\ {<<s.source, s.operator>> : s \in ToSet(p.selectors)}
       = {<<s.source, s.operator>> : s \in ToSet(q.selectors)}
  /\ {s \in ToSet(p.selectors) : s.operator # "Range"}
       = {s \in ToSet(q.selectors) : s.operator # "Range"}

\* Two placements of the same shape that differ in their ranges at most never
\* both become routes when some request fits both: which of them the Gateway
\* would choose would be ambiguous.
NoAmbiguousPlans ==
  \A i, j \in DOMAIN placements :
    LET p == placements[i]
        q == placements[j]
    IN  i # j /\ Planned(p) /\ Planned(q) /\ SameShape(p, q) =>
          \A r \in Requests : ~(PlacementSelects(p, r) /\ PlacementSelects(q, r))

\* DEVELOPER_GUIDE.md:96: "`PathCapture` always compiles to a path regular expression
\* by constraining the named capture inside `pathRegex`": what a compiled path takes at
\* a capture, the capture in the pathRegex takes too.
CapturesConstrained ==
  \A placement \in ToSet(placements) : Planned(placement) =>
    \A selector \in {s \in ToSet(placement.selectors) : IsPath(s)} :
      \A part \in CaptureOf(selector) : \A value \in ValuesAt(part) :
        CaptureMatches(plans[placement.name].path, part, value) => InBody(part.text, value)
=============================================================================
