--------------------------- MODULE PlacementProofs ---------------------------
(***************************************************************************)
(* The plans that buildRoutePlans makes of placements: compiled selectors  *)
(* match what the selectors select, routes ask of headers, query parameters*)
(* and paths what their placements do, a compiled path is the path regex   *)
(* with the bodies of the selected captures replaced, and no two routes of *)
(* one shape take the same request.  The theorems hold for every set of    *)
(* lists of placements that the API server admits and for all requests.    *)
(***************************************************************************)
EXTENDS NumericRangeProofs

-----------------------------------------------------------------------------
(* Selectors.                                                              *)

\* The number of a decimal.
LEMMA DecimalNumber ==
  ASSUME NEW v, IsDecimal(v)
  PROVE  Number(v) \in Nat
<1>1. PICK n \in Nat : v \in DigitSeqs(n + 1)
  BY DecimalParts
<1>2. n + 1 \in Nat
  OBVIOUS
<1> QED BY <1>1, <1>2, NumberType

\* A text matches itself and nothing else.
LEMMA FitsText ==
  ASSUME NEW s \in Seq(Nat), NEW v \in Seq(Nat)
  PROVE  Len(Literal(s)) = Len(s) /\ (FitsPattern(v, Literal(s)) <=> v = s)
<1> DEFINE n == Len(s)
<1>1. n \in Nat /\ DOMAIN s = 1..n
  OBVIOUS
<1>2. Literal(s) = [i \in 1..n |-> {s[i]}]
  BY <1>1 DEF Literal
<1>3. Len(Literal(s)) = n /\ DOMAIN Literal(s) = 1..n /\ \A i \in 1..n : Literal(s)[i] = {s[i]}
  BY <1>1, <1>2
<1>4. FitsPattern(v, Literal(s)) <=> Len(v) = n /\ \A i \in 1..n : v[i] = s[i]
  <2> HIDE DEF n
  <2> QED BY <1>3 DEF FitsPattern
<1>5. Len(v) = n /\ (\A i \in 1..n : v[i] = s[i]) => v = s
  OBVIOUS
<1> QED BY <1>3, <1>4, <1>5

\* The first characters of a text.
LEMMA PrefixByElements ==
  ASSUME NEW s \in Seq(Nat), NEW v \in Seq(Nat), Len(s) <= Len(v)
  PROVE  /\ SubSeq(v, 1, Len(s)) \in Seq(Nat)
         /\ SubSeq(v, 1, Len(s)) = s <=> \A i \in 1..Len(s) : v[i] = s[i]
         /\ SubSeq(s, 1, Len(s)) = s
<1>1. SubSeq(v, 1, Len(s)) = [i \in 1..Len(s) |-> v[i]]
  OBVIOUS
<1>2. SubSeq(s, 1, Len(s)) = [i \in 1..Len(s) |-> s[i]]
  OBVIOUS
<1>3. s = [i \in 1..Len(s) |-> s[i]]
  OBVIOUS
<1>4. [i \in 1..Len(s) |-> v[i]] = [i \in 1..Len(s) |-> s[i]] <=> \A i \in 1..Len(s) : v[i] = s[i]
  OBVIOUS
<1>5. [i \in 1..Len(s) |-> v[i]] \in Seq(Nat)
  OBVIOUS
<1> QED BY <1>1, <1>2, <1>3, <1>4, <1>5

\* The last characters of a text.
LEMMA SuffixByElements ==
  ASSUME NEW s \in Seq(Nat), NEW v \in Seq(Nat), Len(s) <= Len(v)
  PROVE  /\ SubSeq(v, Len(v) - Len(s) + 1, Len(v)) \in Seq(Nat)
         /\ SubSeq(v, Len(v) - Len(s) + 1, Len(v)) = s
              <=> \A i \in 1..Len(s) : v[Len(v) - Len(s) + i] = s[i]
<1> DEFINE n == Len(s)
           m == Len(v)
           sub == [i \in 1..n |-> v[m - n + i]]
<1>1. n \in Nat /\ m \in Nat /\ n <= m
  OBVIOUS
<1>2. SubSeq(v, m - n + 1, m) = sub
  <2>1. SubSeq(v, m - n + 1, m) = [i \in 1..(1 + m - (m - n + 1)) |-> v[i + (m - n + 1) - 1]]
    BY <1>1
  <2>2. 1 + m - (m - n + 1) = n /\ \A i \in 1..n : i + (m - n + 1) - 1 = m - n + i
    BY <1>1
  <2> HIDE DEF n, m
  <2> QED BY <2>1, <2>2
<1>3. sub \in Seq(Nat)
  <2>1. \A i \in 1..n : m - n + i \in 1..m
    BY <1>1
  <2>2. \A i \in 1..n : v[m - n + i] \in Nat
    BY <2>1, SMTT(30)
  <2> QED BY <1>1, <2>2
<1>4. sub = s <=> \A i \in 1..n : v[m - n + i] = s[i]
  <2>1. s = [i \in 1..n |-> s[i]]
    OBVIOUS
  <2>2. sub = [i \in 1..n |-> s[i]] <=> \A i \in 1..n : v[m - n + i] = s[i]
    OBVIOUS
  <2> QED BY <2>1, <2>2
<1> QED BY <1>2, <1>3, <1>4

\* The suffixes of a text, by characters.
LEMMA SuffixDefined ==
  ASSUME NEW s \in Seq(Nat), NEW v \in Seq(Nat)
  PROVE  IsSuffix(s, v) <=> Len(s) <= Len(v) /\ \A i \in 1..Len(s) : v[Len(v) - Len(s) + i] = s[i]
<1> DEFINE n == Len(s)
           m == Len(v)
           rs == Reverse(s)
           rv == Reverse(v)
<1>1. n \in Nat /\ m \in Nat
  OBVIOUS
<1>2. /\ rs \in Seq(Nat) /\ Len(rs) = n /\ \A i \in 1..n : rs[i] = s[(n - i) + 1]
      /\ rv \in Seq(Nat) /\ Len(rv) = m /\ \A i \in 1..m : rv[i] = v[(m - i) + 1]
  <2>1. ASSUME NEW t \in Seq(Nat)
        PROVE  /\ Reverse(t) \in Seq(Nat) /\ Len(Reverse(t)) = Len(t)
               /\ \A i \in 1..Len(t) : Reverse(t)[i] = t[(Len(t) - i) + 1]
    <3>1. \A i \in 1..Len(t) : (Len(t) - i) + 1 \in 1..Len(t)
      OBVIOUS
    <3>2. \A i \in 1..Len(t) : t[(Len(t) - i) + 1] \in Nat
      BY <3>1
    <3> QED BY <3>2 DEF Reverse
  <2> QED BY <2>1
<1>3. IsSuffix(s, v) <=> n <= m /\ SubSeq(rs, 1, n) = SubSeq(rv, 1, n)
  BY <1>2 DEF IsSuffix, IsPrefix
<1> HIDE DEF rs, rv
<1>4. n <= m => (SubSeq(rs, 1, n) = SubSeq(rv, 1, n) <=> \A i \in 1..n : rv[i] = rs[i])
  <2>1. ASSUME n <= m PROVE SubSeq(rs, 1, n) = rs /\ (SubSeq(rv, 1, n) = rs <=> \A i \in 1..n : rv[i] = rs[i])
    <3>1. Len(rs) <= Len(rv)
      BY <1>2, <2>1
    <3> QED BY <1>2, <3>1, PrefixByElements
  <2> QED BY <2>1
<1>5. ASSUME n <= m
      PROVE  (\A i \in 1..n : rv[i] = rs[i]) <=> \A i \in 1..n : v[m - n + i] = s[i]
  <2>1. ASSUME \A i \in 1..n : rv[i] = rs[i], NEW i \in 1..n PROVE v[m - n + i] = s[i]
    <3> DEFINE j == (n - i) + 1
    <3>1. j \in 1..n /\ j \in 1..m /\ (n - j) + 1 = i /\ (m - j) + 1 = m - n + i
      BY <1>1, <1>5
    <3>2. rv[j] = rs[j] /\ rs[j] = s[(n - j) + 1] /\ rv[j] = v[(m - j) + 1]
      BY <1>2, <2>1, <3>1
    <3> HIDE DEF j
    <3> QED BY <3>1, <3>2
  <2>2. ASSUME \A i \in 1..n : v[m - n + i] = s[i], NEW i \in 1..n PROVE rv[i] = rs[i]
    <3> DEFINE j == (n - i) + 1
    <3>1. j \in 1..n /\ i \in 1..m /\ (m - i) + 1 = m - n + j
      BY <1>1, <1>5
    <3>2. v[m - n + j] = s[j] /\ rs[i] = s[j] /\ rv[i] = v[(m - i) + 1]
      BY <1>2, <2>2, <3>1
    <3> HIDE DEF j
    <3> QED BY <3>1, <3>2
  <2> QED BY <2>1, <2>2
<1> QED BY <1>3, <1>4, <1>5

\* A regular expression of one text, with or without ".*" before or after it.
LEMMA MatchesText ==
  ASSUME NEW s \in Seq(Nat), NEW v \in Seq(Nat), NEW regex, regex.patterns = {Literal(s)}
  PROVE  RegexMatches(regex, v) <=>
           /\ Len(s) <= Len(v)
           /\ \/ ~regex.anyBefore /\ ~regex.anyAfter /\ v = s
              \/ regex.anyAfter /\ \A i \in 1..Len(s) : v[i] = s[i]
              \/ regex.anyBefore /\ \A i \in 1..Len(s) : v[Len(v) - Len(s) + i] = s[i]
<1> DEFINE p == Literal(s)
           first == SubSeq(v, 1, Len(p))
           last == SubSeq(v, Len(v) - Len(p) + 1, Len(v))
<1>1. Len(p) = Len(s)
  BY FitsText
<1>2. RegexMatches(regex, v) <=>
        /\ Len(p) <= Len(v)
        /\ \/ ~regex.anyBefore /\ ~regex.anyAfter /\ FitsPattern(v, p)
           \/ regex.anyAfter /\ FitsPattern(first, p)
           \/ regex.anyBefore /\ FitsPattern(last, p)
  BY DEF RegexMatches
<1>3. FitsPattern(v, p) <=> v = s
  BY FitsText
<1>4. ASSUME Len(s) <= Len(v)
      PROVE  FitsPattern(first, p) <=> \A i \in 1..Len(s) : v[i] = s[i]
  <2>1. /\ first \in Seq(Nat)
        /\ first = s <=> \A i \in 1..Len(s) : v[i] = s[i]
    BY <1>1, <1>4, PrefixByElements
  <2> HIDE DEF first
  <2> QED BY <2>1, FitsText
<1>5. ASSUME Len(s) <= Len(v)
      PROVE  FitsPattern(last, p) <=> \A i \in 1..Len(s) : v[Len(v) - Len(s) + i] = s[i]
  <2>1. /\ last \in Seq(Nat)
        /\ last = s <=> \A i \in 1..Len(s) : v[Len(v) - Len(s) + i] = s[i]
    BY <1>1, <1>4, <1>5, SuffixByElements
  <2> HIDE DEF last
  <2> QED BY <2>1, FitsText
<1> HIDE DEF p, first, last
<1> QED BY <1>1, <1>2, <1>3, <1>4, <1>5

\* The prefixes of a text, by characters.
LEMMA PrefixDefined ==
  ASSUME NEW s \in Seq(Nat), NEW v \in Seq(Nat)
  PROVE  IsPrefix(s, v) <=> Len(s) <= Len(v) /\ \A i \in 1..Len(s) : v[i] = s[i]
<1>1. IsPrefix(s, v) <=> Len(s) <= Len(v) /\ SubSeq(s, 1, Len(s)) = SubSeq(v, 1, Len(s))
  BY DEF IsPrefix
<1> QED BY <1>1, PrefixByElements

\* A regular expression of alternatives without ".*".
LEMMA MatchesAlternatives ==
  ASSUME NEW v \in Seq(Nat), NEW regex, ~regex.anyBefore, ~regex.anyAfter
  PROVE  RegexMatches(regex, v) <=> AnyFits(v, regex.patterns)
<1>1. \A p : FitsPattern(v, p) => Len(p) <= Len(v)
  BY DEF FitsPattern
<1> QED BY <1>1 DEF RegexMatches, AnyFits

\* selectorRegexBody compiles a validated selector of any operator into a regular
\* expression of exactly the values the selector is documented to select.
THEOREM SelectorExact ==
  ASSUME NEW selector, Admitted(selector), SelectorValid(selector), NEW v \in Seq(Nat)
  PROVE  RegexMatches(SelectorRegexBody(selector), v) <=> Selects(selector, v)
<1> DEFINE s == selector.value
           regex == SelectorRegexBody(selector)
<1>1. s \in Seq(Nat) /\ selector.operator \in {"Exact", "Prefix", "Suffix", "Range"}
  BY DEF Admitted, SelectorOperators
<1>2. CASE selector.operator = "Exact"
  <2>1. regex.patterns = {Literal(s)} /\ ~regex.anyBefore /\ ~regex.anyAfter
    BY <1>2 DEF SelectorRegexBody
  <2>2. Selects(selector, v) <=> v = s
    BY <1>2 DEF Selects
  <2> HIDE DEF s, regex
  <2>3. RegexMatches(regex, v) <=> Len(s) <= Len(v) /\ v = s
    BY <1>1, <2>1, MatchesText
  <2>4. v = s => Len(s) <= Len(v)
    BY <1>1
  <2>5. RegexMatches(regex, v) <=> Selects(selector, v)
    BY <2>2, <2>3, <2>4
  <2> QED BY <2>5 DEF regex
<1>3. CASE selector.operator = "Prefix"
  <2>1. regex.patterns = {Literal(s)} /\ ~regex.anyBefore /\ regex.anyAfter
    BY <1>3 DEF SelectorRegexBody
  <2>2. Selects(selector, v) <=> IsPrefix(s, v)
    BY <1>3 DEF Selects
  <2> HIDE DEF s, regex
  <2>3. RegexMatches(regex, v) <=> Len(s) <= Len(v) /\ \A i \in 1..Len(s) : v[i] = s[i]
    BY <1>1, <2>1, MatchesText
  <2>4. RegexMatches(regex, v) <=> Selects(selector, v)
    BY <1>1, <2>2, <2>3, PrefixDefined
  <2> QED BY <2>4 DEF regex
<1>4. CASE selector.operator = "Suffix"
  <2>1. regex.patterns = {Literal(s)} /\ regex.anyBefore /\ ~regex.anyAfter
    BY <1>4 DEF SelectorRegexBody
  <2>2. Selects(selector, v) <=> IsSuffix(s, v)
    BY <1>4 DEF Selects
  <2> HIDE DEF s, regex
  <2>3. RegexMatches(regex, v) <=>
          Len(s) <= Len(v) /\ \A i \in 1..Len(s) : v[Len(v) - Len(s) + i] = s[i]
    BY <1>1, <2>1, MatchesText
  <2>4. RegexMatches(regex, v) <=> Selects(selector, v)
    BY <1>1, <2>2, <2>3, SuffixDefined
  <2> QED BY <2>4 DEF regex
<1>5. CASE selector.operator = "Range"
  <2> DEFINE a == selector.range.start
             b == selector.range.end
  <2>1. regex.patterns = NumericRangeRegex(a, b) /\ ~regex.anyBefore /\ ~regex.anyAfter
    BY <1>5 DEF SelectorRegexBody
  <2>2. IsDecimal(a) /\ IsDecimal(b) /\ Number(a) <= Number(b)
    BY <1>5 DEF SelectorValid, RangeValid, ParseUint
  <2>3. Number(a) \in Nat /\ Number(b) \in Nat /\ (IsDecimal(v) => Number(v) \in Nat)
    BY <2>2, DecimalNumber
  <2>4. Selects(selector, v) <=> IsDecimal(v) /\ Number(v) \in Number(a) .. Number(b)
    BY <1>5 DEF Selects
  <2> HIDE DEF a, b, regex
  <2>5. Selects(selector, v) <=>
          IsDecimal(v) /\ Number(a) <= Number(v) /\ Number(v) <= Number(b)
    BY <2>3, <2>4
  <2>6. RegexMatches(regex, v) <=> AnyFits(v, NumericRangeRegex(a, b))
    BY <2>1, MatchesAlternatives
  <2>7. RegexMatches(regex, v) <=> Selects(selector, v)
    BY <2>2, <2>5, <2>6, RangeExact
  <2> QED BY <2>7 DEF regex
<1> QED BY <1>1, <1>2, <1>3, <1>4, <1>5

-----------------------------------------------------------------------------
(* The plans.  What is known of every placement that became a route: it    *)
(* was valid, overlapped no other, and its route is its own compilation,   *)
(* not that of another placement with its name.                            *)

\* What planning asked of placement i, and the route it made of it.
PlannedRight(i) ==
  /\ Validate(placements[i]) /\ CompilesPath(placements[i])
  /\ i \notin ValidatePlacementOverlaps(placements)
  /\ plans[placements[i].name] = RouteSpecFromPlacement(placements[i])

\* The inductive invariant.
PlansInv ==
  /\ placements \in PlacementLists
  /\ pc = "start" => plans = << >>
  /\ \A i \in DOMAIN placements : Planned(placements[i]) => PlannedRight(i)

\* The step of buildRoutePlans keeps PlansInv.
LEMMA PlansInvBuild ==
  ASSUME PlansInv, BuildRoutePlans
  PROVE  PlansInv'
<1> DEFINE rejected == ValidatePlacementOverlaps(placements)
           compiled == {i \in DOMAIN placements \ rejected :
                          Validate(placements[i]) /\ CompilesPath(placements[i])}
           index(name) == CHOOSE i \in DOMAIN placements : placements[i].name = name
           names == {placements[i].name : i \in compiled}
<1>1. /\ plans' = [name \in names |-> RouteSpecFromPlacement(placements[index(name)])]
      /\ placements' = placements /\ pc' = "planned"
  BY DEF BuildRoutePlans
<1>2. placements \in PlacementLists
  BY DEF PlansInv
<1>3. \A i, j \in DOMAIN placements : placements[i].name = placements[j].name => i = j
  BY <1>2, NamesAssumption
<1>4. ASSUME NEW i \in DOMAIN placements, placements[i].name \in DOMAIN plans'
      PROVE  /\ Validate(placements[i]) /\ CompilesPath(placements[i]) /\ i \notin rejected
             /\ plans'[placements[i].name] = RouteSpecFromPlacement(placements[i])
  <2>1. placements[i].name \in names
    BY <1>1, <1>4
  <2>2. i \in compiled
    BY <1>3, <2>1
  <2>3. index(placements[i].name) = i
    BY <1>3
  <2>4. plans'[placements[i].name]
          = RouteSpecFromPlacement(placements[index(placements[i].name)])
    <3> HIDE DEF names, index
    <3> QED BY <1>1, <2>1
  <2> QED BY <2>2, <2>3, <2>4
<1> HIDE DEF rejected
<1>5. ASSUME NEW i \in DOMAIN placements, placements[i].name \in DOMAIN plans'
      PROVE  PlannedRight(i)'
  BY <1>1, <1>4, <1>5 DEF PlannedRight, rejected
<1> QED BY <1>1, <1>2, <1>5 DEF PlansInv, Planned

\* PlansInv holds in every reachable state.
LEMMA PlansRight == Spec => []PlansInv
<1>1. Init => PlansInv
  <2> SUFFICES ASSUME Init PROVE PlansInv
    OBVIOUS
  <2>1. DOMAIN plans = {}
    BY DEF Init
  <2> QED BY <2>1 DEF Init, PlansInv, Planned
<1>2. PlansInv /\ [Next]_vars => PlansInv'
  <2> SUFFICES ASSUME PlansInv, [Next]_vars PROVE PlansInv'
    OBVIOUS
  <2>1. CASE BuildRoutePlans
    BY <2>1, PlansInvBuild
  <2>2. CASE BuildFails
    BY <2>2 DEF BuildFails, PlansInv, Planned, PlannedRight
  <2>3. CASE UNCHANGED vars
    BY <2>3 DEF vars, PlansInv, Planned, PlannedRight
  <2> QED BY <2>1, <2>2, <2>3 DEF Next
<1> QED BY <1>1, <1>2, PTL DEF Spec

\* What admission and validation say of the selectors of a placement of some list.
LEMMA ValidatedSelectors ==
  ASSUME NEW list \in PlacementLists, NEW i \in DOMAIN list, Validate(list[i])
  PROVE  /\ list[i] \in AllPlacements
         /\ \A s \in ToSet(list[i].selectors) :
              Admitted(s) /\ SelectorValid(s) /\ s \in AllSelectors
         /\ \A k, l \in DOMAIN list[i].selectors :
              k # l => SourceKey(list[i].selectors[k]) # SourceKey(list[i].selectors[l])
<1>1. list[i] \in ToSet(list)
  BY DEF ToSet
<1>2. list[i] \in AllPlacements
  BY <1>1 DEF AllPlacements
<1>3. \A s \in ToSet(list[i].selectors) : Admitted(s)
  BY <1>1, AdmittedAssumption
<1>4. \A s \in ToSet(list[i].selectors) : SelectorValid(s)
  BY DEF Validate, ToSet
<1>5. \A s \in ToSet(list[i].selectors) : s \in AllSelectors
  BY <1>2 DEF AllSelectors
<1>6. \A k, l \in DOMAIN list[i].selectors :
        k # l => SourceKey(list[i].selectors[k]) # SourceKey(list[i].selectors[l])
  BY DEF Validate
<1> QED BY <1>2, <1>3, <1>4, <1>5, <1>6

\* The text a request has for the source of a selector.
LEMMA RequestTexts ==
  ASSUME NEW s \in AllSelectors, NEW r \in Requests, r[<<s.source.type, s.source.name>>] # None
  PROVE  r[<<s.source.type, s.source.name>>] \in Seq(Nat)
<1>1. <<s.source.type, s.source.name>> \in {<<t.source.type, t.source.name>> : t \in AllSelectors}
  OBVIOUS
<1> QED BY <1>1, RequestsAssumption

\* Every route asks of headers and query parameters exactly what the selectors of its
\* placement do, for every list of placements and every request.
THEOREM ValuesCompiledExactly == Spec => []ValuesExactly
<1>1. PlansInv => ValuesExactly
  <2> SUFFICES ASSUME PlansInv, NEW i \in DOMAIN placements, Planned(placements[i]),
                      NEW r \in Requests
               PROVE  ValuesMatch(placements[i], r) <=> ValuesSelected(placements[i], r)
    BY DEF ValuesExactly, ToSet
  <2> DEFINE p == placements[i]
             asked == {s \in ToSet(p.selectors) : s.source.type # "PathCapture"}
             text(s) == r[<<s.source.type, s.source.name>>]
  <2>1. placements \in PlacementLists /\ PlannedRight(i)
    BY DEF PlansInv
  <2>2. \A s \in ToSet(p.selectors) : Admitted(s) /\ SelectorValid(s) /\ s \in AllSelectors
    BY <2>1, ValidatedSelectors DEF PlannedRight
  <2>3. plans[p.name].matches
          = {[type |-> s.source.type, name |-> s.source.name, regex |-> SelectorRegexBody(s)] :
               s \in asked}
    BY <2>1 DEF PlannedRight, RouteSpecFromPlacement
  <2>4. ValuesMatch(p, r) <=>
          \A s \in asked : text(s) # None /\ RegexMatches(SelectorRegexBody(s), text(s))
    <3> DEFINE match(s) == [type |-> s.source.type, name |-> s.source.name,
                            regex |-> SelectorRegexBody(s)]
               fits(m) == /\ r[<<m.type, m.name>>] # None
                          /\ RegexMatches(m.regex, r[<<m.type, m.name>>])
    <3>1. ValuesMatch(p, r) <=> \A m \in plans[p.name].matches : fits(m)
      BY DEF ValuesMatch
    <3>2. plans[p.name].matches = {match(s) : s \in asked}
      BY <2>3
    <3>3. \A s \in asked :
            fits(match(s)) <=> text(s) # None /\ RegexMatches(SelectorRegexBody(s), text(s))
      OBVIOUS
    <3> HIDE DEF fits, match, asked, text
    <3> QED BY <3>1, <3>2, <3>3
  <2>5. ValuesSelected(p, r) <=>
          \A s \in asked : text(s) # None /\ Selects(s, text(s))
    BY DEF ValuesSelected, SelectorHolds, IsPath
  <2>6. ASSUME NEW s \in asked, text(s) # None
        PROVE  RegexMatches(SelectorRegexBody(s), text(s)) <=> Selects(s, text(s))
    <3>1. text(s) \in Seq(Nat)
      BY <2>2, <2>6, RequestTexts
    <3>2. Admitted(s) /\ SelectorValid(s)
      BY <2>2
    <3> HIDE DEF text
    <3> QED BY <3>1, <3>2, SelectorExact
  <2> HIDE DEF asked, text
  <2>7. ValuesMatch(p, r) <=> ValuesSelected(p, r)
    BY <2>4, <2>5, <2>6
  <2> QED BY <2>7
<1> QED BY <1>1, PlansRight, PTL

-----------------------------------------------------------------------------
(* Overlaps.                                                               *)

\* The line of a selector in a signature.
Line(s) ==
  IF s.operator = "Range" THEN <<SourceKey(s), "Range", s.range>>
  ELSE <<SourceKey(s), s.operator, s.value>>

\* The lines of a signature.
Lines(selectors, includeRanges) ==
  {Line(selectors[i]) :
     i \in {i \in DOMAIN selectors : includeRanges \/ selectors[i].operator # "Range"}}

\* No two selectors have the same source, as Validate asks.
SourcesApart(selectors) ==
  \A k, l \in DOMAIN selectors : k # l => SourceKey(selectors[k]) # SourceKey(selectors[l])

\* A signature of selectors with distinct sources is the set of its lines.
LEMMA SignatureOfLines ==
  ASSUME NEW selectors, SourcesApart(selectors), NEW includeRanges \in BOOLEAN
  PROVE  SelectorSignature(selectors, includeRanges)
           = [l \in Lines(selectors, includeRanges) |-> 1]
<1> DEFINE kept == {i \in DOMAIN selectors : includeRanges \/ selectors[i].operator # "Range"}
           count(l) == Cardinality({i \in kept : Line(selectors[i]) = l})
<1>1. SelectorSignature(selectors, includeRanges)
        = [l \in Lines(selectors, includeRanges) |-> count(l)]
  BY DEF SelectorSignature, Lines, Line
<1>2. ASSUME NEW l \in Lines(selectors, includeRanges) PROVE count(l) = 1
  <2>1. PICK k \in kept : l = Line(selectors[k])
    BY DEF Lines
  <2>2. ASSUME NEW i \in kept, Line(selectors[i]) = l PROVE i = k
    <3>1. SourceKey(selectors[i]) = SourceKey(selectors[k])
      BY <2>1, <2>2 DEF Line
    <3> QED BY <3>1 DEF SourcesApart
  <2>3. {i \in kept : Line(selectors[i]) = l} = {k}
    BY <2>1, <2>2
  <2> QED BY <2>3, FS_Singleton
<1> HIDE DEF count
<1> QED BY <1>1, <1>2

\* The range of a source, when sources are distinct.
LEMMA RangeOfSource ==
  ASSUME NEW S, NEW selectors \in Seq(S), SourcesApart(selectors),
         NEW k \in DOMAIN selectors,
         selectors[k].operator = "Range", selectors[k].range # None
  PROVE  /\ SourceKey(selectors[k]) \in DOMAIN RangeSelectorsBySource(selectors)
         /\ RangeSelectorsBySource(selectors)[SourceKey(selectors[k])] = selectors[k].range
<1> DEFINE ranges == {i \in DOMAIN selectors :
                        selectors[i].operator = "Range" /\ selectors[i].range # None}
           sources == {SourceKey(selectors[i]) : i \in ranges}
           last(source) == CHOOSE i \in ranges : /\ SourceKey(selectors[i]) = source
                                                 /\ \A j \in ranges :
                                                      SourceKey(selectors[j]) = source => j <= i
           key == SourceKey(selectors[k])
<1>1. RangeSelectorsBySource(selectors) = [source \in sources |-> selectors[last(source)].range]
  BY DEF RangeSelectorsBySource
<1>2. k \in ranges /\ key \in sources
  OBVIOUS
<1>3. \A j \in ranges : SourceKey(selectors[j]) = key => j = k
  BY DEF SourcesApart
<1>4. last(key) = k
  <2>1. k \in Nat
    OBVIOUS
  <2> QED BY <1>2, <1>3, <2>1
<1> HIDE DEF last, key, sources
<1>5. /\ key \in DOMAIN RangeSelectorsBySource(selectors)
      /\ RangeSelectorsBySource(selectors)[key] = selectors[last(key)].range
  BY <1>1, <1>2
<1> QED BY <1>4, <1>5 DEF key

\* Ranges with a number in common intersect.
LEMMA CommonNumber ==
  ASSUME NEW left, RangeValid(left), NEW right, RangeValid(right), NEW n \in Nat,
         n \in Number(left.start) .. Number(left.end),
         n \in Number(right.start) .. Number(right.end)
  PROVE  NumericRangesIntersect(left, right)
<1>1. /\ ParseUint(left.start) = Number(left.start) /\ ParseUint(left.end) = Number(left.end)
      /\ ParseUint(right.start) = Number(right.start) /\ ParseUint(right.end) = Number(right.end)
  BY DEF RangeValid, ParseUint
<1>2. /\ Number(left.start) \in Nat /\ Number(left.end) \in Nat
      /\ Number(right.start) \in Nat /\ Number(right.end) \in Nat
  BY DecimalNumber DEF RangeValid
<1>3. Number(left.start) <= Number(right.end) /\ Number(right.start) <= Number(left.end)
  BY <1>2
<1> QED BY <1>1, <1>3 DEF NumericRangesIntersect

\* Placements of one shape that some request fits both of overlap for
\* placementsObviouslyOverlap.
LEMMA SameShapeOverlaps ==
  ASSUME NEW list \in PlacementLists, NEW i \in DOMAIN list, NEW j \in DOMAIN list,
         Validate(list[i]), Validate(list[j]), SameShape(list[i], list[j]),
         NEW r \in Requests,
         PlacementSelects(list[i], r), PlacementSelects(list[j], r)
  PROVE  PlacementsObviouslyOverlap(list[i], list[j])
<1> DEFINE p == list[i]
           q == list[j]
           left == p.selectors
           right == q.selectors
<1>1. /\ \A s \in ToSet(left) : Admitted(s) /\ SelectorValid(s) /\ s \in AllSelectors
      /\ SourcesApart(left)
  BY ValidatedSelectors DEF SourcesApart
<1>2. /\ \A s \in ToSet(right) : Admitted(s) /\ SelectorValid(s) /\ s \in AllSelectors
      /\ SourcesApart(right)
  BY ValidatedSelectors DEF SourcesApart
<1>3. left \in Seq(ToSet(left)) /\ right \in Seq(ToSet(right))
  BY AdmittedAssumption DEF ToSet
<1>4. /\ {<<s.source, s.operator>> : s \in ToSet(left)}
           = {<<s.source, s.operator>> : s \in ToSet(right)}
      /\ {s \in ToSet(left) : s.operator # "Range"} = {s \in ToSet(right) : s.operator # "Range"}
      /\ Multiset(p.listenerNames) = Multiset(q.listenerNames)
      /\ Multiset(p.hostnames) = Multiset(q.hostnames)
  BY DEF SameShape
<1>5. /\ \A s \in ToSet(left) : SelectorHolds(s, r)
      /\ \A s \in ToSet(right) : SelectorHolds(s, r)
  BY DEF PlacementSelects
<1>6. /\ PlacementsObviouslyOverlap(p, q) <=>
           /\ Multiset(p.listenerNames) = Multiset(q.listenerNames)
           /\ Multiset(p.hostnames) = Multiset(q.hostnames)
           /\ SelectorSignature(left, FALSE) = SelectorSignature(right, FALSE)
           /\ \/ SelectorSignature(left, TRUE) = SelectorSignature(right, TRUE)
              \/ \E source \in DOMAIN RangeSelectorsBySource(left)
                                 \cap DOMAIN RangeSelectorsBySource(right) :
                   NumericRangesIntersect(RangeSelectorsBySource(left)[source],
                                          RangeSelectorsBySource(right)[source])
  BY DEF PlacementsObviouslyOverlap
<1> HIDE DEF left, right, p, q
<1>7. \A t : Lines(t, FALSE) = {Line(s) : s \in {s \in ToSet(t) : s.operator # "Range"}}
  BY DEF Lines, ToSet
<1>8. SelectorSignature(left, FALSE) = SelectorSignature(right, FALSE)
  <2>1. Lines(left, FALSE) = Lines(right, FALSE)
    BY <1>4, <1>7
  <2> QED BY <1>1, <1>2, <2>1, SignatureOfLines
<1>9. CASE \A s \in ToSet(left) : s.operator # "Range"
  <2>1. \A s \in ToSet(right) : s.operator # "Range"
    <3> SUFFICES ASSUME NEW s \in ToSet(right), s.operator = "Range" PROVE FALSE
      OBVIOUS
    <3>1. <<s.source, s.operator>> \in {<<t.source, t.operator>> : t \in ToSet(left)}
      BY <1>4
    <3>2. PICK t \in ToSet(left) : <<s.source, s.operator>> = <<t.source, t.operator>>
      BY <3>1
    <3> QED BY <1>9, <3>2
  <2>2. Lines(left, TRUE) = Lines(left, FALSE) /\ Lines(right, TRUE) = Lines(right, FALSE)
    BY <1>9, <2>1 DEF Lines, ToSet
  <2>3. Lines(left, TRUE) = Lines(right, TRUE)
    BY <1>4, <1>7, <2>2
  <2>4. SelectorSignature(left, TRUE) = SelectorSignature(right, TRUE)
    BY <1>1, <1>2, <2>3, SignatureOfLines
  <2> QED BY <1>4, <1>6, <1>8, <2>4 DEF p, q
<1>10. CASE \E s \in ToSet(left) : s.operator = "Range"
  <2>1. PICK k \in DOMAIN left : left[k].operator = "Range"
    BY <1>10 DEF ToSet
  <2>2. PICK l \in DOMAIN right :
          right[l].source = left[k].source /\ right[l].operator = "Range"
    <3>1. <<left[k].source, left[k].operator>> \in {<<s.source, s.operator>> : s \in ToSet(right)}
      BY <1>4 DEF ToSet
    <3>2. PICK s \in ToSet(right) : <<left[k].source, left[k].operator>> = <<s.source, s.operator>>
      BY <3>1
    <3> QED BY <2>1, <3>2 DEF ToSet
  <2> DEFINE s == left[k]
             t == right[l]
             v == r[<<s.source.type, s.source.name>>]
             key == SourceKey(s)
  <2>3. s \in ToSet(left) /\ t \in ToSet(right)
    BY DEF ToSet
  <2>4. /\ s.range # None /\ RangeValid(s.range)
        /\ t.range # None /\ RangeValid(t.range)
    BY <1>1, <1>2, <2>1, <2>2, <2>3 DEF SelectorValid
  <2>5. SourceKey(t) = key
    BY <2>2 DEF SourceKey
  <2>6. /\ IsDecimal(v) /\ Number(v) \in Number(s.range.start) .. Number(s.range.end)
        /\ Number(v) \in Number(t.range.start) .. Number(t.range.end)
    <3>1. Selects(s, v) /\ Selects(t, v)
      BY <1>5, <2>2, <2>3 DEF SelectorHolds
    <3> HIDE DEF v
    <3> QED BY <2>1, <2>2, <3>1 DEF Selects
  <2>7. NumericRangesIntersect(s.range, t.range)
    <3>1. Number(v) \in Nat
      BY <2>6, DecimalNumber
    <3> HIDE DEF s, t, v
    <3> QED BY <2>4, <2>6, <3>1, CommonNumber
  <2>8. key \in DOMAIN RangeSelectorsBySource(left) /\ RangeSelectorsBySource(left)[key] = s.range
    BY <1>1, <1>3, <2>1, <2>4, RangeOfSource
  <2>9. key \in DOMAIN RangeSelectorsBySource(right) /\ RangeSelectorsBySource(right)[key] = t.range
    BY <1>2, <1>3, <2>2, <2>4, <2>5, RangeOfSource
  <2> HIDE DEF s, t, key
  <2>10. \E source \in DOMAIN RangeSelectorsBySource(left)
                         \cap DOMAIN RangeSelectorsBySource(right) :
           NumericRangesIntersect(RangeSelectorsBySource(left)[source],
                                  RangeSelectorsBySource(right)[source])
    BY <2>7, <2>8, <2>9
  <2> QED BY <1>4, <1>6, <1>8, <2>10 DEF p, q
<1> QED BY <1>9, <1>10

\* No two placements of one shape both become routes if some request fits both, for
\* every list of placements: the overlap check of buildRoutePlans misses none.
THEOREM PlansUnambiguous == Spec => []NoAmbiguousPlans
<1>1. PlansInv => NoAmbiguousPlans
  <2> SUFFICES ASSUME PlansInv, NEW i \in DOMAIN placements, NEW j \in DOMAIN placements, i # j,
                      Planned(placements[i]), Planned(placements[j]),
                      SameShape(placements[i], placements[j]), NEW r \in Requests,
                      PlacementSelects(placements[i], r), PlacementSelects(placements[j], r)
               PROVE  FALSE
    BY DEF NoAmbiguousPlans
  <2>1. placements \in PlacementLists /\ PlannedRight(i) /\ PlannedRight(j)
    BY DEF PlansInv
  <2>2. PlacementsObviouslyOverlap(placements[i], placements[j])
    BY <2>1, SameShapeOverlaps DEF PlannedRight
  <2>3. i \in ValidatePlacementOverlaps(placements)
    BY <2>2 DEF ValidatePlacementOverlaps
  <2> QED BY <2>1, <2>3 DEF PlannedRight
<1> QED BY <1>1, PlansRight, PTL

-----------------------------------------------------------------------------
(* Folds over sequences, by the sets of positions they are defined with.   *)

\* The largest element of a set of positions.
LEMMA MaxPosition ==
  ASSUME NEW n \in Nat, NEW s \in SUBSET (1..n), s # {}
  PROVE  Max(s) \in s /\ \A i \in s : i <= Max(s)
<1> DEFINE T == {n - i : i \in s}
<1>0. \A i \in s : i \in Nat /\ n - i \in Nat
  OBVIOUS
<1>1. T \subseteq Nat /\ T # {}
  BY <1>0
<1>2. PICK k \in T : \A m \in T : k <= m
  BY <1>1, LeastNumber, Zenon
<1>3. PICK i \in s : k = n - i
  BY <1>2
<1>4. ASSUME NEW j \in s PROVE i >= j
  <2>1. k <= n - j
    BY <1>2
  <2> QED BY <1>0, <1>3, <2>1
<1>5. \E x \in s : \A y \in s : x >= y
  BY <1>4
<1>6. Max(s) \in s /\ \A y \in s : Max(s) >= y
  BY <1>5 DEF Max
<1> QED BY <1>6

\* Initial segments, as the folds take them apart.
LEMMA MaxFirst ==
  ASSUME NEW n \in Nat
  PROVE  Max(1..n+1) = n + 1 /\ (1..n+1) \ {n + 1} = 1..n /\ 1..n+1 # {}
<1>1. n + 1 \in Nat /\ 1..n+1 \in SUBSET (1..n+1) /\ n + 1 \in 1..n+1 /\ 1..n+1 # {}
  OBVIOUS
<1>2. Max(1..n+1) \in 1..n+1 /\ \A i \in 1..n+1 : i <= Max(1..n+1)
  <2> DEFINE s == 1..n+1
             m == n + 1
  <2>1. m \in Nat /\ s \in SUBSET (1..m) /\ s # {}
    BY <1>1
  <2> HIDE DEF s, m
  <2>2. Max(s) \in s /\ \A i \in s : i <= Max(s)
    BY <2>1, MaxPosition
  <2> QED BY <2>2 DEF s
<1> QED BY <1>1, <1>2

\* The last position of s is folded after the others.
FoldBody(f, base, op, seq, s) ==
  IF s = {} THEN base ELSE op[<<f[s \ {Max(s)}], seq[Max(s)]>>]

\* f is the function that MapThenFoldSet iterates, for FoldLeft.
Folds(f, V, base, op, seq) ==
  /\ f \in [SUBSET (1..Len(seq)) -> V]
  /\ f = [s \in SUBSET (1..Len(seq)) |-> FoldBody(f, base, op, seq, s)]

\* There is one, for every typed operation.
LEMMA FoldExists ==
  ASSUME NEW V, NEW E, NEW base \in V, NEW op \in [V \X E -> V], NEW seq \in Seq(E)
  PROVE  \E f : Folds(f, V, base, op, seq)
<1> DEFINE n == Len(seq)
           S == SUBSET (1..n)
           R == [S -> V]
           body(i, g) == [s \in S |-> IF i + 1 \in s THEN op[<<g[s \ {i + 1}], seq[i + 1]>>] ELSE g[s]]
           r0 == [s \in S |-> base]
           step == [x \in Nat \X R |-> body(x[1], x[2])]
<1>0. n \in Nat /\ \A i \in 1..n : seq[i] \in E
  OBVIOUS
<1> HIDE DEF n
<1>1. r0 \in R
  OBVIOUS
<1>2. ASSUME NEW i \in Nat, NEW g \in R PROVE body(i, g) \in R
  <2>1. ASSUME NEW s \in S, i + 1 \in s PROVE op[<<g[s \ {i + 1}], seq[i + 1]>>] \in V
    <3>1. seq[i + 1] \in E /\ s \ {i + 1} \in S
      BY <1>0, <2>1
    <3>2. g[s \ {i + 1}] \in V
      BY <3>1
    <3> QED BY <3>1, <3>2
  <2> QED BY <2>1
<1>3. step \in [Nat \X R -> R]
  <2> HIDE DEF R, body
  <2> QED BY <1>2
<1>4. \A i \in Nat, g \in R : step[<<i, g>>] = body(i, g)
  <2> HIDE DEF R, body
  <2> QED OBVIOUS
<1> HIDE DEF step
<1>5. PICK h \in [Nat -> R] : Recursive(h, r0, step)
  BY <1>1, <1>3, Recursion
<1>6. \A i \in Nat : h[i + 1] = body(i, h[i]) /\ h[i] \in R
  <2> HIDE DEF R, body
  <2> QED BY <1>4, <1>5 DEF Recursive
<1>7. \A s \in S, i \in Nat :
        h[i + 1][s] = IF i + 1 \in s THEN op[<<h[i][s \ {i + 1}], seq[i + 1]>>] ELSE h[i][s]
  <2> SUFFICES ASSUME NEW s \in S, NEW i \in Nat
               PROVE  h[i + 1][s] = IF i + 1 \in s THEN op[<<h[i][s \ {i + 1}], seq[i + 1]>>] ELSE h[i][s]
    OBVIOUS
  <2>1. h[i + 1] = body(i, h[i])
    BY <1>6
  <2> QED BY <2>1
<1>8. \A s \in S : h[0][s] = base
  BY <1>5 DEF Recursive
<1> HIDE DEF R, body, r0
\* Beyond the largest position nothing changes.
<1>9. ASSUME NEW s \in S, NEW m \in Nat, \A i \in s : i <= m
      PROVE  \A i \in Nat : i >= m => h[i][s] = h[m][s]
  <2> DEFINE T == {i \in Nat : i >= m => h[i][s] = h[m][s]}
  <2>1. 0 \in T
    OBVIOUS
  <2>2. ASSUME NEW i \in Nat, i \in T PROVE i + 1 \in T
    <3>1. CASE i + 1 >= m /\ i >= m
      <4>1. i + 1 \notin s
        BY <1>9, <3>1
      <4>2. h[i + 1][s] = h[i][s]
        BY <1>7, <4>1
      <4> QED BY <2>2, <3>1, <4>2
    <3>2. CASE i + 1 = m
      BY <3>2
    <3>3. CASE ~(i + 1 >= m)
      BY <3>3
    <3> QED BY <3>1, <3>2, <3>3
  <2> HIDE DEF T
  <2>3. Nat \subseteq T
    BY <2>1, <2>2, SetInduction
  <2> QED BY <2>3 DEF T
<1> DEFINE f == h[n]
<1>10. ASSUME NEW s \in S PROVE f[s] = FoldBody(f, base, op, seq, s)
  <2>1. CASE s = {}
    <3>1. h[n][s] = h[0][s]
      BY <1>0, <1>9, <2>1
    <3> QED BY <1>8, <2>1, <3>1 DEF FoldBody
  <2>2. CASE s # {}
    <3> DEFINE m == Max(s)
               k == m - 1
               t == s \ {m}
    <3>1. m \in s /\ \A i \in s : i <= m
      BY <1>0, <2>2, MaxPosition
    <3> HIDE DEF m
    <3>2. m \in 1..n /\ k \in Nat /\ m = k + 1 /\ n >= m /\ n >= k /\ m \in Nat
      BY <1>0, <3>1
    <3>3. t \in S /\ \A i \in t : i <= k
      BY <3>1, <3>2
    <3> HIDE DEF k, t
    <3>4. h[n][s] = h[m][s]
      BY <1>0, <1>9, <3>1, <3>2
    <3>5. h[n][t] = h[k][t]
      BY <1>0, <1>9, <3>2, <3>3
    <3>6. h[k + 1][s] = op[<<h[k][s \ {k + 1}], seq[k + 1]>>]
      BY <1>7, <3>1, <3>2
    <3>7. h[m][s] = op[<<h[k][t], seq[m]>>]
      BY <3>2, <3>6 DEF t
    <3>8. f[s] = op[<<f[t], seq[m]>>]
      BY <3>4, <3>5, <3>7
    <3> QED BY <2>2, <3>8 DEF FoldBody, m, t
  <2> QED BY <2>1, <2>2
<1>11. f \in [S -> V]
  BY <1>0, <1>6 DEF R
<1> HIDE DEF f
<1>12. f = [s \in S |-> FoldBody(f, base, op, seq, s)]
  BY <1>10, <1>11
<1> QED BY <1>11, <1>12 DEF n, Folds

-----------------------------------------------------------------------------
(* The scanner of replaceNamedCaptureBody, from the left.                  *)

\* Its states.
ScanState == [length : Nat, escaped : BOOLEAN, inClass : BOOLEAN, depth : Nat]

\* A character takes the scanner from state to state.
LEMMA ScanType ==
  ASSUME NEW scan \in ScanState, NEW token
  PROVE  ScanBody(scan, token) \in ScanState
<1>1. [scan EXCEPT !.depth = 0] \in ScanState
  BY DEF ScanState
<1>2. scan.length + 1 \in Nat /\ scan.depth + 1 \in Nat
  BY DEF ScanState
<1> DEFINE counts == ~scan.escaped /\ ~scan.inClass
           stops == scan.depth = 0 \/ (counts /\ Closes(token) /\ scan.depth = 1)
           esc == ~scan.escaped /\ token[1] = "\\"
           cls == IF scan.escaped THEN scan.inClass
                  ELSE token[1] = "[" \/ (scan.inClass /\ token[1] # "]")
           depth == CASE counts /\ Opens(token) -> scan.depth + 1
                      [] counts /\ Closes(token) -> scan.depth - 1
                      [] OTHER -> scan.depth
           next == [length |-> scan.length + 1, escaped |-> esc, inClass |-> cls, depth |-> depth]
<1>3. ScanBody(scan, token) = IF stops THEN [scan EXCEPT !.depth = 0] ELSE next
  BY DEF ScanBody
<1>4. esc \in BOOLEAN /\ cls \in BOOLEAN
  BY DEF ScanState
<1>5. ASSUME ~stops PROVE depth \in Nat
  <2>1. scan.depth \in Nat
    BY DEF ScanState
  <2>2. CASE counts /\ Opens(token)
    <3>1. ~Closes(token)
      BY <2>2 DEF Opens, Openers, Closes
    <3> QED BY <1>2, <2>2, <3>1
  <2>3. CASE counts /\ ~Opens(token) /\ Closes(token)
    <3>1. scan.depth # 0 /\ scan.depth # 1
      BY <1>5, <2>3
    <3>2. depth = scan.depth - 1
      BY <2>3
    <3> HIDE DEF depth
    <3> QED BY <2>1, <3>1, <3>2
  <2>4. CASE ~(counts /\ Opens(token)) /\ ~(counts /\ Closes(token))
    <3>1. depth = scan.depth
      <4> HIDE DEF counts
      <4> QED BY <2>4
    <3> HIDE DEF depth
    <3> QED BY <2>1, <3>1
  <2> QED BY <2>2, <2>3, <2>4
<1> HIDE DEF stops, esc, cls, depth
<1>6. ASSUME ~stops PROVE next \in ScanState
  BY <1>2, <1>4, <1>5, <1>6 DEF ScanState
<1> QED BY <1>1, <1>3, <1>6

\* The fold of the scanner is the sequence of its states.
LEMMA ScanFold ==
  ASSUME NEW E, NEW seq \in Seq(E), NEW base \in ScanState
  PROVE  \E f : /\ f[0] = base
                /\ \A i \in 0..Len(seq) - 1 : f[i + 1] = ScanBody(f[i], seq[i + 1])
                /\ FoldLeft(ScanBody, base, seq) = f[Len(seq)]
<1> DEFINE n == Len(seq)
           S == SUBSET (1..n)
           op == [x \in ScanState \X E |-> ScanBody(x[1], x[2])]
           eq(f) == f = [s \in S |-> IF s = {} THEN base ELSE ScanBody(f[s \ {Max(s)}], seq[Max(s)])]
           iter == CHOOSE f : eq(f)
<1>1. DOMAIN seq = 1..n /\ n \in Nat /\ \A i \in 1..n : seq[i] \in E
  OBVIOUS
<1>2. op \in [ScanState \X E -> ScanState]
  BY ScanType
<1>3. \A x \in ScanState, e \in E : op[<<x, e>>] = ScanBody(x, e)
  OBVIOUS
<1>4. \E f : eq(f)
  <2> HIDE DEF op, eq
  <2>1. PICK f : Folds(f, ScanState, base, op, seq)
    BY <1>2, FoldExists
  <2> HIDE DEF n
  <2>2. ASSUME NEW s \in S, s # {}
        PROVE  FoldBody(f, base, op, seq, s) = ScanBody(f[s \ {Max(s)}], seq[Max(s)])
    <3>1. Max(s) \in s
      BY <1>1, <2>2, MaxPosition
    <3>2. seq[Max(s)] \in E /\ s \ {Max(s)} \in S
      BY <1>1, <3>1
    <3>3. f[s \ {Max(s)}] \in ScanState
      BY <2>1, <3>2 DEF n, Folds
    <3> QED BY <1>3, <2>2, <3>2, <3>3 DEF FoldBody
  <2>3. \A s \in S : f[s] = IF s = {} THEN base ELSE ScanBody(f[s \ {Max(s)}], seq[Max(s)])
    <3>1. \A s \in S : f[s] = FoldBody(f, base, op, seq, s)
      BY <2>1 DEF n, Folds
    <3> QED BY <2>2, <3>1 DEF FoldBody
  <2>4. f = [s \in S |-> f[s]]
    BY <2>1 DEF n, Folds
  <2> HIDE DEF S
  <2>5. eq(f)
    BY <2>3, <2>4 DEF eq
  <2> QED BY <2>5
<1>5. eq(iter)
  <2> HIDE DEF eq
  <2> QED BY <1>4
<1>6. FoldLeft(ScanBody, base, seq) = iter[1..n]
  BY <1>1 DEF FoldLeft, MapThenFoldSet
<1> HIDE DEF iter, n
<1>7. \A s \in S : iter[s] = IF s = {} THEN base ELSE ScanBody(iter[s \ {Max(s)}], seq[Max(s)])
  BY <1>5
<1> DEFINE f == [m \in 0..n |-> iter[1..m]]
<1>8. f[0] = base
  <2>1. {} \in S /\ 1..0 = {} /\ 0 \in 0..n
    BY <1>1
  <2> QED BY <1>7, <2>1
<1>9. ASSUME NEW i \in 0..n - 1 PROVE f[i + 1] = ScanBody(f[i], seq[i + 1])
  <2>1. i \in Nat /\ 1..i+1 \in S /\ i \in 0..n /\ i + 1 \in 0..n
    BY <1>1
  <2>2. Max(1..i+1) = i + 1 /\ (1..i+1) \ {i + 1} = 1..i /\ 1..i+1 # {}
    BY <2>1, MaxFirst
  <2>3. iter[1..i+1] = ScanBody(iter[1..i], seq[i + 1])
    BY <1>7, <2>1, <2>2
  <2> QED BY <2>1, <2>3
<1>10. f[n] = iter[1..n]
  BY <1>1
<1> HIDE DEF f
<1> QED BY <1>6, <1>8, <1>9, <1>10 DEF n
\* Escapes from the left: a backslash that is not escaped escapes what follows.
LEMMA EscapedStep ==
  ASSUME NEW text, NEW i \in Nat \ {0}
  PROVE  /\ ~Escaped(text, 1)
         /\ Escaped(text, i + 1) <=> ~Escaped(text, i) /\ text[i][1] = "\\"
<1> DEFINE slash(k) == text[k][1] = "\\"
           run(n, j) == /\ \A k \in j-n..j-1 : slash(k)
                        /\ n < j - 1 => ~slash(j - n - 1)
<1>1. \A j : Escaped(text, j) <=> \E n \in 1..j-1 : n % 2 = 1 /\ run(n, j)
  BY DEF Escaped
<1> HIDE DEF slash
<1>2. ~Escaped(text, 1)
  BY <1>1
<1>3. ASSUME NEW n \in 1..i, n % 2 = 1, run(n, i + 1) PROVE slash(i) /\ ~Escaped(text, i)
  <2>1. slash(i)
    BY <1>3
  <2>2. ASSUME NEW m \in 1..i-1, m % 2 = 1, run(m, i) PROVE FALSE
    <3>1. CASE m < n - 1
      <4>1. m < i - 1 /\ i - m - 1 \in i+1-n..i
        BY <3>1
      <4> QED BY <1>3, <2>2, <4>1
    <3>2. CASE m > n - 1
      <4>1. n < i /\ i + 1 - n - 1 \in i-m..i-1 /\ (i + 1) - n - 1 = i + 1 - n - 1
        BY <3>2
      <4> QED BY <1>3, <2>2, <4>1
    <3>3. CASE m = n - 1
      BY <1>3, <2>2, <3>3
    <3> QED BY <3>1, <3>2, <3>3
  <2> QED BY <1>1, <2>1, <2>2
<1>4. ASSUME slash(i), ~Escaped(text, i) PROVE Escaped(text, i + 1)
  <2> DEFINE T == {m \in 0..i-1 : m < i - 1 => ~slash(i - m - 1)}
  <2>1. T \subseteq Nat /\ i - 1 \in T
    OBVIOUS
  <2>2. PICK r \in T : \A m \in T : r <= m
    BY <2>1, LeastNumber, Zenon
  <2>3. r \in 0..i-1 /\ (r < i - 1 => ~slash(i - r - 1))
    OBVIOUS
  <2>4. ASSUME NEW k \in i-r..i-1 PROVE slash(k)
    <3> DEFINE m == i - k - 1
    <3>1. m \in 0..i-1 /\ m < r /\ i - m - 1 = k /\ m < i - 1
      BY <2>3, <2>4
    <3> HIDE DEF m
    <3>2. m \notin T
      BY <2>2, <3>1
    <3> QED BY <3>1, <3>2
  <2> HIDE DEF T
  <2>5. run(r, i)
    BY <2>3, <2>4
  <2>6. r % 2 = 0
    <3>1. r % 2 # 1 \/ r = 0
      BY <1>1, <1>4, <2>3, <2>5
    <3> QED BY <2>3, <3>1
  <2> DEFINE n == r + 1
  <2>7. n \in 1..i /\ n % 2 = 1
    BY <2>3, <2>6
  <2>8. run(n, i + 1)
    <3>1. ASSUME NEW k \in (i+1)-n..(i+1)-1 PROVE slash(k)
      <4>1. k = i \/ k \in i-r..i-1
        BY <2>3
      <4> QED BY <1>4, <2>4, <4>1
    <3>2. ASSUME n < (i + 1) - 1 PROVE ~slash((i + 1) - n - 1)
      <4>1. r < i - 1 /\ (i + 1) - n - 1 = i - r - 1
        BY <2>3, <3>2
      <4> QED BY <2>3, <4>1
    <3> QED BY <3>1, <3>2
  <2>9. n \in 1..(i + 1)-1
    BY <2>7
  <2> HIDE DEF n
  <2> QED BY <1>1, <2>7, <2>8, <2>9
<1>5. Escaped(text, i + 1) => slash(i) /\ ~Escaped(text, i)
  <2>1. (i + 1) - 1 = i
    OBVIOUS
  <2>2. Escaped(text, i + 1) => \E n \in 1..i : n % 2 = 1 /\ run(n, i + 1)
    BY <1>1, <2>1
  <2> QED BY <1>3, <2>2
<1> QED BY <1>2, <1>4, <1>5 DEF slash

\* Classes from the left.
LEMMA InClassStep ==
  ASSUME NEW text, NEW i \in Nat \ {0}
  PROVE  /\ ~InClass(text, 1)
         /\ InClass(text, i + 1) <=>
              IF Escaped(text, i) THEN InClass(text, i)
              ELSE text[i][1] = "[" \/ (InClass(text, i) /\ text[i][1] # "]")
<1> DEFINE esc(k) == Escaped(text, k)
           opens(k) == text[k][1] = "[" /\ ~esc(k)
           shuts(k) == text[k][1] = "]" /\ ~esc(k)
<1>1. \A j : InClass(text, j) <=> \E k \in 1..j-1 : opens(k) /\ \A l \in k+1..j-1 : ~shuts(l)
  BY DEF InClass
<1>2. opens(i) => ~shuts(i)
  OBVIOUS
<1>3. InClass(text, i + 1) <=> opens(i) \/ (InClass(text, i) /\ ~shuts(i))
  <2> HIDE DEF opens, shuts
  <2>1. ASSUME NEW k \in 1..i PROVE k = i \/ k \in 1..i-1
    OBVIOUS
  <2>2. (i + 1) - 1 = i
    OBVIOUS
  <2>3. InClass(text, i + 1) <=> \E k \in 1..i : opens(k) /\ \A l \in k+1..i : ~shuts(l)
    BY <1>1, <2>2
  <2>4. ASSUME NEW k \in 1..i, opens(k), \A l \in k+1..i : ~shuts(l)
        PROVE  opens(i) \/ (InClass(text, i) /\ ~shuts(i))
    <3>1. CASE k = i
      BY <2>4, <3>1
    <3>2. CASE k \in 1..i-1
      <4>1. i \in k+1..i /\ \A l \in k+1..i-1 : l \in k+1..i
        BY <3>2
      <4> QED BY <1>1, <2>4, <3>2, <4>1
    <3> QED BY <2>1, <3>1, <3>2
  <2>5. ASSUME opens(i) PROVE InClass(text, i + 1)
    <3>1. i \in 1..i /\ \A l \in i+1..i : FALSE
      OBVIOUS
    <3> QED BY <2>3, <2>5, <3>1
  <2>6. ASSUME InClass(text, i), ~shuts(i) PROVE InClass(text, i + 1)
    <3>1. PICK k \in 1..i-1 : opens(k) /\ \A l \in k+1..i-1 : ~shuts(l)
      BY <1>1, <2>6
    <3>2. k \in 1..i /\ \A l \in k+1..i : l = i \/ l \in k+1..i-1
      OBVIOUS
    <3> QED BY <2>3, <2>6, <3>1, <3>2
  <2> QED BY <2>3, <2>4, <2>5, <2>6
<1>4. ~InClass(text, 1)
  BY <1>1
<1> QED BY <1>2, <1>3, <1>4

\* The groups of one more character.
LEMMA GroupsStep ==
  ASSUME NEW text, NEW characters, NEW n \in Nat
  PROVE  /\ Cardinality(Groups(text, 0, characters)) = 0
         /\ Cardinality(Groups(text, n, characters)) \in Nat
         /\ Cardinality(Groups(text, n + 1, characters)) =
              Cardinality(Groups(text, n, characters)) +
              (IF text[n + 1][1] \in characters /\ ~Escaped(text, n + 1) /\ ~InClass(text, n + 1) THEN 1 ELSE 0)
<1> DEFINE it(i) == text[i][1] \in characters /\ ~Escaped(text, i) /\ ~InClass(text, i)
<1>1. \A m : Groups(text, m, characters) = {i \in 1..m : it(i)}
  BY DEF Groups
<1> HIDE DEF it
<1> DEFINE G == {i \in 1..n : it(i)}
<1>2. IsFiniteSet(G) /\ Cardinality(G) \in Nat
  <2>1. IsFiniteSet(1..n)
    BY FS_Interval
  <2>2. IsFiniteSet(G)
    BY <2>1, FS_Subset
  <2> QED BY <2>2, FS_CardinalityType
<1>3. CASE it(n + 1)
  <2>1. {i \in 1..n+1 : it(i)} = G \cup {n + 1}
    BY <1>3
  <2>2. n + 1 \notin G
    OBVIOUS
  <2> HIDE DEF G
  <2>3. Cardinality(G \cup {n + 1}) = Cardinality(G) + 1
    BY <1>2, <2>2, FS_AddElement
  <2>4. {i \in 1..0 : it(i)} = {}
    OBVIOUS
  <2> QED BY <1>1, <1>2, <1>3, <2>1, <2>3, <2>4, FS_EmptySet DEF it, G
<1>4. CASE ~it(n + 1)
  <2>1. {i \in 1..n+1 : it(i)} = G
    BY <1>4
  <2>2. {i \in 1..0 : it(i)} = {}
    OBVIOUS
  <2>3. Cardinality(G) + 0 = Cardinality(G)
    BY <1>2
  <2> QED BY <1>1, <1>2, <1>4, <2>1, <2>2, <2>3, FS_EmptySet DEF it, G
<1> QED BY <1>3, <1>4

-----------------------------------------------------------------------------
(* The scanner in a balanced body.                                         *)

\* The scanner's state after the first m characters of a capture's body.
ScanAt(body, m) ==
  [length |-> m, escaped |-> Escaped(body, m + 1), inClass |-> InClass(body, m + 1),
   depth |-> 1 + Cardinality(Groups(body, m, Openers)) - Cardinality(Groups(body, m, {")"}))]

\* One character of a body that is balanced: the scanner goes on.
LEMMA ScanGoesOn ==
  ASSUME NEW E, NEW body \in Seq(E), Balanced(body), NEW m \in 0..Len(body) - 1
  PROVE  ScanBody(ScanAt(body, m), body[m + 1]) = ScanAt(body, m + 1)
<1> DEFINE scan == ScanAt(body, m)
           token == body[m + 1]
           esc == Escaped(body, m + 1)
           cls == InClass(body, m + 1)
           opens(k) == Cardinality(Groups(body, k, Openers))
           closes(k) == Cardinality(Groups(body, k, {")"}))
           counts == ~esc /\ ~cls
           plus == IF token[1] \in Openers /\ counts THEN 1 ELSE 0
           minus == IF token[1] \in {")"} /\ counts THEN 1 ELSE 0
<1>1. m \in Nat /\ m + 1 \in Nat \ {0} /\ m + 1 \in 1..Len(body) /\ DOMAIN body = 1..Len(body)
  OBVIOUS
<1>2. opens(m) \in Nat /\ opens(m + 1) = opens(m) + plus
  BY <1>1, GroupsStep
<1>3. closes(m) \in Nat /\ closes(m + 1) = closes(m) + minus
  BY <1>1, GroupsStep
<1>4. closes(m) <= opens(m)
  <2>1. CASE m = 0
    BY <2>1, GroupsStep
  <2>2. CASE m # 0
    <3>1. m \in 1..Len(body)
      BY <1>1, <2>2
    <3> QED BY <1>1, <3>1 DEF Balanced
  <2> QED BY <2>1, <2>2
<1>5. closes(m + 1) <= opens(m + 1)
  BY <1>1 DEF Balanced
<1>6. Escaped(body, (m + 1) + 1) <=> ~esc /\ token[1] = "\\"
  BY <1>1, EscapedStep
<1>7. InClass(body, (m + 1) + 1) <=>
        IF esc THEN cls ELSE token[1] = "[" \/ (cls /\ token[1] # "]")
  BY <1>1, InClassStep
<1>8. /\ scan.length = m /\ scan.escaped = esc /\ scan.inClass = cls
      /\ scan.depth = 1 + opens(m) - closes(m)
  BY DEF ScanAt
<1>9. /\ Opens(token) <=> token[1] \in Openers
      /\ Closes(token) <=> token[1] \in {")"}
      /\ ~(Opens(token) /\ Closes(token))
  BY DEF Opens, Openers, Closes
<1> DEFINE depth == CASE counts /\ Opens(token) -> scan.depth + 1
                      [] counts /\ Closes(token) -> scan.depth - 1
                      [] OTHER -> scan.depth
           next == [length |-> m + 1, escaped |-> ~esc /\ token[1] = "\\",
                    inClass |-> IF esc THEN cls ELSE token[1] = "[" \/ (cls /\ token[1] # "]"),
                    depth |-> depth]
           stops == scan.depth = 0 \/ (counts /\ Closes(token) /\ scan.depth = 1)
<1>10. ScanBody(scan, token) = IF stops THEN [scan EXCEPT !.depth = 0] ELSE next
  BY <1>8 DEF ScanBody
<1>11. ~stops
  <2>1. CASE counts /\ Closes(token)
    <3>1. plus = 0 /\ minus = 1
      BY <1>9, <2>1
    <3> HIDE DEF plus, minus, opens, closes, scan
    <3> QED BY <1>2, <1>3, <1>4, <1>5, <1>8, <3>1
  <2>2. CASE ~(counts /\ Closes(token))
    <3> HIDE DEF counts, opens, closes, scan
    <3> QED BY <1>2, <1>3, <1>4, <1>8, <2>2
  <2> QED BY <2>1, <2>2
<1>12. depth = 1 + opens(m + 1) - closes(m + 1)
  <2>1. CASE counts /\ Opens(token)
    <3>1. plus = 1 /\ minus = 0 /\ depth = scan.depth + 1
      BY <1>9, <2>1
    <3> HIDE DEF plus, minus, opens, closes, scan, depth
    <3> QED BY <1>2, <1>3, <1>8, <3>1
  <2>2. CASE counts /\ Closes(token)
    <3>1. plus = 0 /\ minus = 1 /\ depth = scan.depth - 1
      BY <1>9, <2>2
    <3> HIDE DEF plus, minus, opens, closes, scan, depth
    <3> QED BY <1>2, <1>3, <1>8, <3>1
  <2>3. CASE ~(counts /\ Opens(token)) /\ ~(counts /\ Closes(token))
    <3>1. plus = 0 /\ minus = 0
      BY <1>9, <2>3
    <3>2. depth = scan.depth
      <4> HIDE DEF counts, scan
      <4> QED BY <2>3
    <3> HIDE DEF plus, minus, opens, closes, scan, depth
    <3> QED BY <1>2, <1>3, <1>8, <3>1, <3>2
  <2> QED BY <2>1, <2>2, <2>3
<1> HIDE DEF stops, depth
<1>13. next = ScanAt(body, m + 1)
  <2> DEFINE e2 == Escaped(body, (m + 1) + 1)
             c2 == InClass(body, (m + 1) + 1)
  <2>1. (~esc /\ token[1] = "\\") = e2
    <3>1. e2 \in BOOLEAN
      BY DEF Escaped
    <3> QED BY <1>6, <3>1
  <2>2. (IF esc THEN cls ELSE token[1] = "[" \/ (cls /\ token[1] # "]")) = c2
    <3>1. c2 \in BOOLEAN /\ cls \in BOOLEAN
      BY DEF InClass
    <3> QED BY <1>7, <3>1
  <2> HIDE DEF esc, cls, e2, c2
  <2>3. next = [length |-> m + 1, escaped |-> e2, inClass |-> c2, depth |-> depth]
    BY <2>1, <2>2
  <2> QED BY <1>12, <2>3 DEF ScanAt, e2, c2
<1> QED BY <1>10, <1>11, <1>13

\* The scanner stops at the parenthesis that closes the capture, and nowhere before.
LEMMA ScanStops ==
  ASSUME NEW E, NEW body \in Seq(E), NEW close \in E, NEW post \in Seq(E),
         Balanced(body), close[1] = ")",
         NEW start, start = [length |-> 0, escaped |-> FALSE, inClass |-> FALSE, depth |-> 1]
  PROVE  LET end == FoldLeft(ScanBody, start, body \o (<<close>> \o post))
         IN  end.depth = 0 /\ end.length = Len(body)
<1> DEFINE n == Len(body)
           after == <<close>> \o post
           rest == body \o after
           stopped == [length : {n}, escaped : {FALSE}, inClass : {FALSE}, depth : {0}]
<1>1. /\ n \in Nat /\ rest \in Seq(E) /\ Len(rest) \in Nat /\ n + 1 <= Len(rest)
      /\ \A i \in 1..n : rest[i] = body[i]
      /\ rest[n + 1] = close
  OBVIOUS
<1>2. start \in ScanState
  BY DEF ScanState
<1> HIDE DEF rest
<1>3. PICK f : /\ f[0] = start
               /\ \A i \in 0..Len(rest) - 1 : f[i + 1] = ScanBody(f[i], rest[i + 1])
               /\ FoldLeft(ScanBody, start, rest) = f[Len(rest)]
  BY <1>1, <1>2, ScanFold
<1>4. f[0] = ScanAt(body, 0)
  <2>1. ~Escaped(body, 1) /\ ~InClass(body, 1)
    BY EscapedStep, InClassStep
  <2>2. Cardinality(Groups(body, 0, Openers)) = 0 /\ Cardinality(Groups(body, 0, {")"})) = 0
    BY GroupsStep
  <2>3. 0 + 1 = 1 /\ 1 + 0 - 0 = 1
    OBVIOUS
  <2>4. Escaped(body, 0 + 1) = FALSE /\ InClass(body, 0 + 1) = FALSE
    BY <2>1, <2>3
  <2> QED BY <1>3, <2>2, <2>3, <2>4 DEF ScanAt
<1> DEFINE T == {m \in Nat : m <= n => f[m] = ScanAt(body, m)}
<1>5. ASSUME NEW m \in Nat, m \in T PROVE m + 1 \in T
  <2>1. CASE m + 1 <= n
    <3>1. m \in 0..Len(body) - 1 /\ m <= n /\ m \in 0..Len(rest) - 1 /\ m + 1 \in 1..n
      BY <1>1, <2>1
    <3>2. f[m + 1] = ScanBody(ScanAt(body, m), body[m + 1])
      BY <1>1, <1>3, <1>5, <3>1
    <3> QED BY <3>1, <3>2, ScanGoesOn
  <2>2. CASE ~(m + 1 <= n)
    BY <2>2
  <2> QED BY <2>1, <2>2
<1>6. f[n] = ScanAt(body, n)
  <2>1. 0 \in T
    BY <1>4
  <2> HIDE DEF T
  <2>2. Nat \subseteq T
    BY <1>5, <2>1, SetInduction
  <2>3. n \in T
    BY <1>1, <2>2
  <2> QED BY <1>1, <2>3 DEF T
<1>7. f[n] = [length |-> n, escaped |-> FALSE, inClass |-> FALSE, depth |-> 1]
  <2> DEFINE o == Cardinality(Groups(body, n, Openers))
             c == Cardinality(Groups(body, n, {")"}))
  <2>1. Escaped(body, n + 1) = FALSE /\ InClass(body, n + 1) = FALSE /\ o = c
    BY DEF Balanced
  <2>2. o \in Nat
    BY <1>1, GroupsStep
  <2> HIDE DEF o, c
  <2>3. 1 + o - c = 1
    BY <2>1, <2>2
  <2> QED BY <1>6, <2>1, <2>3 DEF ScanAt, o, c
<1>8. f[n + 1] \in stopped
  <2>1. f[n + 1] = ScanBody(f[n], close)
    BY <1>1, <1>3
  <2> DEFINE scan == f[n]
  <2>2. ~scan.escaped /\ ~scan.inClass /\ scan.depth = 1
    BY <1>7
  <2>3. [scan EXCEPT !.depth = 0] \in stopped
    <3>1. scan \in [length : {n}, escaped : {FALSE}, inClass : {FALSE}, depth : {1}]
      BY <1>7
    <3> HIDE DEF scan, n
    <3> QED BY <3>1
  <2> HIDE DEF scan, stopped
  <2>4. ScanBody(scan, close) = [scan EXCEPT !.depth = 0]
    BY <2>2 DEF ScanBody, Closes
  <2> QED BY <2>1, <2>3, <2>4 DEF scan
<1> HIDE DEF stopped, n
<1> DEFINE U == {m \in Nat : n + 1 + m <= Len(rest) => f[n + 1 + m] \in stopped}
<1>9. ASSUME NEW m \in Nat, m \in U PROVE m + 1 \in U
  <2>1. CASE n + 1 + (m + 1) <= Len(rest)
    <3> DEFINE i == n + 1 + m
    <3>1. i \in 0..Len(rest) - 1 /\ i + 1 = n + 1 + (m + 1) /\ i <= Len(rest)
      BY <1>1, <2>1
    <3>2. f[i] \in stopped
      BY <1>9, <3>1
    <3>3. f[i + 1] = ScanBody(f[i], rest[i + 1])
      BY <1>3, <3>1
    <3>4. ASSUME NEW scan \in stopped PROVE ScanBody(scan, rest[i + 1]) \in stopped
      <4>1. scan.depth = 0 /\ [scan EXCEPT !.depth = 0] \in stopped
        BY DEF stopped
      <4> QED BY <4>1 DEF ScanBody
    <3>5. f[i + 1] \in stopped
      BY <3>2, <3>3, <3>4
    <3> HIDE DEF i
    <3> QED BY <3>1, <3>5
  <2>2. CASE ~(n + 1 + (m + 1) <= Len(rest))
    BY <2>2
  <2> QED BY <2>1, <2>2
<1>10. f[Len(rest)] \in stopped
  <2>1. 0 \in U
    <3>1. n + 1 + 0 = n + 1
      BY <1>1
    <3> QED BY <1>8, <3>1
  <2> HIDE DEF U
  <2>2. Nat \subseteq U
    BY <1>9, <2>1, SetInduction
  <2> DEFINE m == Len(rest) - (n + 1)
  <2>3. m \in Nat /\ n + 1 + m = Len(rest)
    BY <1>1
  <2> HIDE DEF m
  <2>4. m \in U
    BY <2>2, <2>3
  <2>5. n + 1 + m <= Len(rest) => f[n + 1 + m] \in stopped
    BY <2>4 DEF U
  <2>6. n + 1 + m <= Len(rest)
    BY <1>1, <2>3
  <2>7. f[n + 1 + m] \in stopped
    BY <2>5, <2>6
  <2> QED BY <2>3, <2>7, Zenon
<1> QED BY <1>3, <1>10 DEF rest, stopped, n

-----------------------------------------------------------------------------
(* One substitution.                                                       *)

\* A text in three parts.
Joined(pre, mid, post) == pre \o (mid \o post)

\* What follows the element after pre.
After(text, pre) == SubSeq(text, (Len(pre) + 1) + 1, Len(text))

\* It is the third part.
LEMMA AfterFirst ==
  ASSUME NEW E, NEW pre \in Seq(E), NEW e \in E, NEW tail \in Seq(E), NEW text,
         text = Joined(pre, <<e>>, tail)
  PROVE  After(text, pre) = tail
<1> USE DEF Joined, After
<1> DEFINE n == Len(pre)
<1>1. n \in Nat /\ Len(tail) \in Nat /\ text \in Seq(E) /\ Len(text) = n + 1 + Len(tail)
  OBVIOUS
<1>2. ASSUME NEW i \in 1..Len(tail) PROVE text[n + 1 + i] = tail[i]
  OBVIOUS
<1> DEFINE l == Len(text)
           m == (n + 1) + 1
           sub == [i \in 1..Len(tail) |-> text[n + 1 + i]]
<1>3. SubSeq(text, m, l) = sub
  <2>1. SubSeq(text, m, l) = [i \in 1..(1 + l - m) |-> text[i + m - 1]]
    BY <1>1
  <2>2. 1 + l - m = Len(tail) /\ \A i \in 1..Len(tail) : i + m - 1 = n + 1 + i
    BY <1>1
  <2> HIDE DEF n, m, l
  <2> QED BY <2>1, <2>2
<1>4. tail = [i \in 1..Len(tail) |-> tail[i]]
  OBVIOUS
<1>5. sub = tail
  <2> HIDE DEF n
  <2> QED BY <1>2, <1>4
<1> QED BY <1>3, <1>5

\* A text in which body stands between two characters.
Around(pre, open, body, close, post) == pre \o (<<open>> \o (body \o (<<close>> \o post)))

\* The body of a capture is replaced, and nothing else.
LEMMA BodyReplaced ==
  ASSUME NEW E, NEW pre \in Seq(E), NEW body \in Seq(E), NEW post \in Seq(E),
         NEW name, NEW open \in E, NEW close \in E, NEW replacement \in E,
         open = <<"(?P<", name>>, close[1] = ")",
         Balanced(body), open \notin ToSet(pre),
         NEW text, text = Around(pre, open, body, close, post)
  PROVE  ReplaceNamedCaptureBody(text, name, replacement) = Around(pre, open, <<replacement>>, close, post)
<1> USE DEF Around
<1> DEFINE found == {i \in DOMAIN text : text[i] = <<"(?P<", name>>}
           at == CHOOSE i \in found : \A j \in found : i <= j
           tail == body \o (<<close>> \o post)
           rest == SubSeq(text, at + 1, Len(text))
           start == [length |-> 0, escaped |-> FALSE, inClass |-> FALSE, depth |-> 1]
           end == FoldLeft(ScanBody, start, rest)
           k == Len(pre) + 1
<1>1. /\ tail \in Seq(E) /\ text \in Seq(E) /\ k \in DOMAIN text /\ text[k] = open
      /\ DOMAIN text = 1..Len(text) /\ Len(text) \in Nat
  OBVIOUS
<1>2. ASSUME NEW i \in 1..Len(pre) PROVE text[i] # open
  <2>1. text[i] = pre[i]
    OBVIOUS
  <2>2. pre[i] # open
    BY DEF ToSet
  <2> QED BY <2>1, <2>2
<1>3. at = k
  <2>1. k \in found
    BY <1>1
  <2>2. \A j \in found : k <= j
    <3>1. ASSUME NEW j \in found PROVE k <= j
      <4>1. j \in 1..Len(text) /\ Len(text) \in Nat /\ text[j] = open
        <5>1. j \in DOMAIN text /\ text[j] = open
          OBVIOUS
        <5> QED BY <1>1, <5>1
      <4>2. j \notin 1..Len(pre)
        BY <1>2, <4>1
      <4> QED BY <4>1, <4>2
    <3> QED BY <3>1
  <2>3. k \in Nat /\ \A j \in found : j \in Nat
    BY <1>1
  <2> HIDE DEF found, k
  <2>4. \A j \in found : (\A l \in found : j <= l) => j = k
    BY <2>1, <2>2, <2>3
  <2> QED BY <2>1, <2>2, <2>4
<1>4. rest = tail
  <2> HIDE DEF at
  <2>1. rest = SubSeq(text, k + 1, Len(text))
    BY <1>3
  <2> HIDE DEF tail
  <2>2. text = pre \o (<<open>> \o tail) /\ tail \in Seq(E)
    BY <1>1 DEF tail
  <2>3. SubSeq(text, (Len(pre) + 1) + 1, Len(text)) = tail
    <3>1. text = Joined(pre, <<open>>, tail)
      BY <2>2 DEF Joined
    <3>2. \A e \in E, t \in Seq(E) : \A all : all = Joined(pre, <<e>>, t) => After(all, pre) = t
      BY AfterFirst
    <3>3. After(text, pre) = tail
      BY <2>2, <3>1, <3>2
    <3> QED BY <3>3 DEF After
  <2> QED BY <2>1, <2>3
<1>5. end.depth = 0 /\ end.length = Len(body)
  <2> HIDE DEF rest
  <2>1. end = FoldLeft(ScanBody, start, body \o (<<close>> \o post))
    BY <1>4
  <2> HIDE DEF end
  <2> QED BY <2>1, ScanStops
<1>6. SubSeq(rest, end.length + 1, Len(rest)) = <<close>> \o post
  <2> HIDE DEF rest, end
  <2>1. SubSeq(tail, Len(body) + 1, Len(tail)) = <<close>> \o post
    OBVIOUS
  <2> QED BY <1>4, <1>5, <2>1
<1>7. SubSeq(text, 1, at) = pre \o <<open>>
  <2> HIDE DEF at
  <2>1. SubSeq(text, 1, k) = pre \o <<open>>
    OBVIOUS
  <2> QED BY <1>3, <2>1
<1>8. found # {}
  BY <1>1
<1>9. ReplaceNamedCaptureBody(text, name, replacement)
        = SubSeq(text, 1, at) \o <<replacement>> \o SubSeq(rest, end.length + 1, Len(rest))
  BY <1>5, <1>8 DEF ReplaceNamedCaptureBody
<1>10. ReplaceNamedCaptureBody(text, name, replacement)
         = (pre \o <<open>>) \o <<replacement>> \o (<<close>> \o post)
  <2> HIDE DEF at, rest, end
  <2> QED BY <1>6, <1>7, <1>9
<1>11. ((pre \o <<open>>) \o <<replacement>>) \o (<<close>> \o post)
         = pre \o (<<open>> \o (<<replacement>> \o (<<close>> \o post)))
  OBVIOUS
<1> QED BY <1>10, <1>11

\* No capture of that name, or one in the other spelling.
LEMMA NotFound ==
  ASSUME NEW text, NEW name, NEW replacement, <<"(?P<", name>> \notin ToSet(text)
  PROVE  ReplaceNamedCaptureBody(text, name, replacement) = None
<1>1. {i \in DOMAIN text : text[i] = <<"(?P<", name>>} = {}
  BY DEF ToSet
<1> QED BY <1>1 DEF ReplaceNamedCaptureBody

-----------------------------------------------------------------------------
(* Texts of several parts.                                                 *)

\* f has the concatenations of the first sequences.
Flattens(f, E, seqs) ==
  /\ f \in [1..Len(seqs) -> Seq(E)]
  /\ f[1] = seqs[1]
  /\ \A i \in 1..Len(seqs) - 1 : f[i + 1] = f[i] \o seqs[i + 1]

\* FlattenSeq is the last of them.
LEMMA FlattenIs ==
  ASSUME NEW E, NEW seqs \in Seq(Seq(E)), Len(seqs) # 0
  PROVE  \E f : Flattens(f, E, seqs) /\ FlattenSeq(seqs) = f[Len(seqs)]
<1> DEFINE n == Len(seqs)
           R == Seq(E)
           next(i, x) == IF i + 2 \in 1..n THEN x \o seqs[i + 2] ELSE x
           step == [x \in Nat \X R |-> next(x[1], x[2])]
           eq(f) == f = [i \in 1..n |-> IF i = 1 THEN seqs[i] ELSE f[i - 1] \o seqs[i]]
           flatten == CHOOSE f : eq(f)
<1>1. n \in Nat \ {0} /\ \A i \in 1..n : seqs[i] \in R
  OBVIOUS
<1>2. FlattenSeq(seqs) = flatten[n]
  BY <1>1 DEF FlattenSeq
<1> HIDE DEF n, R
<1>3. \A i \in Nat, x \in R : next(i, x) \in R
  <2>1. \A x, y \in R : x \o y \in R
    BY DEF R
  <2> QED BY <1>1, <2>1
<1>4. step \in [Nat \X R -> R] /\ \A i \in Nat, x \in R : step[<<i, x>>] = next(i, x)
  <2> HIDE DEF next
  <2> QED BY <1>3
<1> HIDE DEF step
<1>5. seqs[1] \in R
  BY <1>1
<1>6. PICK h \in [Nat -> R] : Recursive(h, seqs[1], step)
  BY <1>4, <1>5, Recursion
<1>7. h[0] = seqs[1] /\ \A i \in Nat : h[i] \in R /\ h[i + 1] = next(i, h[i])
  <2> HIDE DEF next
  <2> QED BY <1>4, <1>6 DEF Recursive
<1> DEFINE g == [i \in 1..n |-> h[i - 1]]
<1>8. ASSUME NEW i \in 1..n PROVE g[i] = IF i = 1 THEN seqs[i] ELSE g[i - 1] \o seqs[i]
  <2>1. CASE i = 1
    BY <1>7, <2>1
  <2>2. CASE i # 1
    <3> DEFINE k == i - 2
    <3>1. k \in Nat /\ k + 1 = i - 1 /\ k + 2 = i /\ i - 1 \in 1..n /\ (i - 1) - 1 = k
      BY <1>1, <2>2
    <3> HIDE DEF k
    <3>2. h[k + 1] = h[k] \o seqs[i]
      BY <1>7, <3>1
    <3>3. g[i - 1] = h[k] /\ g[i] = h[k + 1]
      BY <3>1
    <3> HIDE DEF g
    <3> QED BY <2>2, <3>2, <3>3
  <2> QED BY <2>1, <2>2
<1>9. eq(g)
  <2>1. g = [i \in 1..n |-> g[i]]
    OBVIOUS
  <2> HIDE DEF g
  <2> QED BY <1>8, <2>1
<1>10. eq(flatten)
  <2> HIDE DEF eq
  <2> QED BY <1>9
<1> HIDE DEF flatten, g
<1>11. flatten[1] = seqs[1]
  BY <1>1, <1>10
<1>12. ASSUME NEW i \in 1..n - 1 PROVE flatten[i + 1] = flatten[i] \o seqs[i + 1]
  <2>1. i + 1 \in 1..n /\ i + 1 # 1 /\ (i + 1) - 1 = i
    BY <1>1
  <2> QED BY <1>10, <2>1
<1> HIDE DEF eq
<1>13. ASSUME NEW i \in 1..n PROVE flatten[i] \in R
  <2> DEFINE T == {m \in Nat : m + 1 <= n => flatten[m + 1] \in R}
  <2>1. 0 \in T
    BY <1>5, <1>11
  <2>2. ASSUME NEW m \in Nat, m \in T PROVE m + 1 \in T
    <3>1. CASE (m + 1) + 1 <= n
      <4>1. m + 1 \in 1..n - 1 /\ (m + 1) + 1 \in 1..n /\ m + 1 <= n
        BY <1>1, <3>1
      <4>2. flatten[m + 1] \in R /\ seqs[(m + 1) + 1] \in R
        BY <1>1, <2>2, <4>1
      <4>3. flatten[(m + 1) + 1] = flatten[m + 1] \o seqs[(m + 1) + 1]
        BY <1>12, <4>1
      <4>4. flatten[(m + 1) + 1] \in R
        BY <4>2, <4>3 DEF R
      <4> QED BY <4>4
    <3>2. CASE ~((m + 1) + 1 <= n)
      BY <3>2
    <3> QED BY <3>1, <3>2
  <2> HIDE DEF T
  <2>3. Nat \subseteq T
    BY <2>1, <2>2, SetInduction
  <2>4. i - 1 \in Nat /\ (i - 1) + 1 = i /\ i <= n
    BY <1>1
  <2>5. i - 1 \in T
    BY <2>3, <2>4
  <2>6. (i - 1) + 1 <= n => flatten[(i - 1) + 1] \in R
    BY <2>5 DEF T
  <2> QED BY <2>4, <2>6
<1>14. DOMAIN flatten = 1..n /\ flatten = [i \in 1..n |-> flatten[i]]
  BY <1>10 DEF eq
<1>15. flatten \in [1..n -> R]
  BY <1>13, <1>14
<1> QED BY <1>2, <1>11, <1>12, <1>15 DEF Flattens, n, R

Associative(a, b, c, d) == (a \o (b \o c)) \o d = a \o (b \o (c \o d))

\* Four sequences are put together from the left or from the right.
LEMMA ConcatFour ==
  ASSUME NEW E, NEW a \in Seq(E), NEW b \in Seq(E), NEW c \in Seq(E), NEW d \in Seq(E)
  PROVE  Associative(a, b, c, d)
BY SMT DEF Associative

\* The elements of a concatenation.
LEMMA ConcatElements ==
  ASSUME NEW E, NEW s \in Seq(E), NEW t \in Seq(E), NEW x
  PROVE  x \in ToSet(s \o t) <=> x \in ToSet(s) \/ x \in ToSet(t)
<1>1. /\ Len(s) \in Nat /\ Len(t) \in Nat /\ DOMAIN s = 1..Len(s) /\ DOMAIN t = 1..Len(t)
      /\ DOMAIN (s \o t) = 1..Len(s) + Len(t)
      /\ \A p \in 1..Len(s) : (s \o t)[p] = s[p]
      /\ \A p \in 1..Len(t) : (s \o t)[Len(s) + p] = t[p]
  OBVIOUS
<1> DEFINE st == s \o t
<1> HIDE DEF st
<1>2. ASSUME NEW p \in DOMAIN st PROVE st[p] \in ToSet(s) \/ st[p] \in ToSet(t)
  <2>1. CASE p <= Len(s)
    <3>1. p \in DOMAIN s /\ st[p] = s[p]
      BY <1>1, <2>1 DEF st
    <3> QED BY <3>1 DEF ToSet
  <2>2. CASE ~(p <= Len(s))
    <3> DEFINE q == p - Len(s)
    <3>1. q \in 1..Len(t) /\ Len(s) + q = p
      BY <1>1, <2>2 DEF st
    <3> HIDE DEF q
    <3>2. q \in DOMAIN t /\ st[p] = t[q]
      BY <1>1, <3>1 DEF st
    <3> QED BY <3>2 DEF ToSet
  <2> QED BY <2>1, <2>2
<1>3. ASSUME NEW p \in DOMAIN s PROVE s[p] \in ToSet(st)
  <2>1. p \in DOMAIN st /\ st[p] = s[p]
    BY <1>1 DEF st
  <2> QED BY <2>1 DEF ToSet
<1>4. ASSUME NEW p \in DOMAIN t PROVE t[p] \in ToSet(st)
  <2>1. Len(s) + p \in DOMAIN st /\ st[Len(s) + p] = t[p]
    BY <1>1 DEF st
  <2> QED BY <2>1 DEF ToSet
<1>5. x \in ToSet(st) <=> x \in ToSet(s) \/ x \in ToSet(t)
  BY <1>2, <1>3, <1>4 DEF ToSet
<1> QED BY <1>5 DEF st

\* The elements of the first concatenations are elements of the sequences.
LEMMA FlattenElements ==
  ASSUME NEW E, NEW seqs \in Seq(Seq(E)), NEW f, Flattens(f, E, seqs),
         NEW m \in 1..Len(seqs), NEW e \in ToSet(f[m])
  PROVE  \E k \in 1..m : e \in ToSet(seqs[k])
<1> DEFINE n == Len(seqs)
           T == {i \in Nat : i + 1 <= n =>
                   \A x \in ToSet(f[i + 1]) : \E k \in 1..i+1 : x \in ToSet(seqs[k])}
<1>1. n \in Nat /\ \A i \in 1..n : seqs[i] \in Seq(E) /\ f[i] \in Seq(E)
  <2>1. f \in [1..n -> Seq(E)]
    BY DEF Flattens
  <2>2. n \in Nat /\ \A i \in 1..n : seqs[i] \in Seq(E)
    OBVIOUS
  <2> HIDE DEF n
  <2> QED BY <2>1, <2>2
<1>2. f[1] = seqs[1] /\ \A i \in 1..n - 1 : f[i + 1] = f[i] \o seqs[i + 1]
  BY DEF Flattens
<1> HIDE DEF n
<1>3. 0 \in T
  BY <1>2
<1>4. ASSUME NEW i \in Nat, i \in T PROVE i + 1 \in T
  <2> SUFFICES ASSUME (i + 1) + 1 <= n, NEW x \in ToSet(f[(i + 1) + 1])
               PROVE  \E k \in 1..(i + 1) + 1 : x \in ToSet(seqs[k])
    OBVIOUS
  <2>1. i + 1 \in 1..n - 1 /\ i + 1 \in 1..n /\ (i + 1) + 1 \in 1..n /\ i + 1 <= n
    BY <1>1
  <2> DEFINE s == f[i + 1]
             t == seqs[(i + 1) + 1]
  <2>2. s \in Seq(E) /\ t \in Seq(E) /\ f[(i + 1) + 1] = s \o t
    BY <1>1, <1>2, <2>1
  <2>3. \A y \in ToSet(s) : \E k \in 1..i+1 : y \in ToSet(seqs[k])
    BY <1>4, <2>1
  <2> HIDE DEF s
  <2>4. x \in ToSet(s) \/ x \in ToSet(t)
    BY <2>2, ConcatElements
  <2>5. CASE x \in ToSet(s)
    <3>1. PICK k \in 1..i+1 : x \in ToSet(seqs[k])
      BY <2>3, <2>5
    <3>2. k \in 1..(i + 1) + 1
      OBVIOUS
    <3> QED BY <3>1, <3>2
  <2>6. CASE x \in ToSet(t)
    <3>1. (i + 1) + 1 \in 1..(i + 1) + 1
      OBVIOUS
    <3> QED BY <2>6, <3>1
  <2> QED BY <2>4, <2>5, <2>6
<1> HIDE DEF T
<1>5. Nat \subseteq T
  BY <1>3, <1>4, SetInduction
<1>6. m - 1 \in Nat /\ (m - 1) + 1 = m /\ m <= n
  BY <1>1 DEF n
<1>7. m - 1 \in T
  BY <1>5, <1>6
<1>8. \A x \in ToSet(f[(m - 1) + 1]) : \E k \in 1..(m - 1) + 1 : x \in ToSet(seqs[k])
  BY <1>6, <1>7 DEF T
<1> QED BY <1>6, <1>8

\* Sequences that differ in one place at most.
SameBut(j, s, t) == Len(s) = Len(t) /\ \A k \in 1..Len(s) : k # j => s[k] = t[k]

\* Up to a place where sequences differ their concatenations are the same.
LEMMA FlattenBefore ==
  ASSUME NEW E, NEW seqs \in Seq(Seq(E)), NEW other \in Seq(Seq(E)),
         NEW j \in 1..Len(seqs), SameBut(j, seqs, other),
         NEW f, Flattens(f, E, seqs), NEW g, Flattens(g, E, other)
  PROVE  \A m \in 1..j-1 : g[m] = f[m]
<1> DEFINE n == Len(seqs)
           T == {i \in Nat : i + 1 <= j - 1 => g[i + 1] = f[i + 1]}
<1>1. n \in Nat /\ Len(other) = n /\ \A k \in 1..n : k # j => seqs[k] = other[k]
  BY DEF SameBut
<1>2. f[1] = seqs[1] /\ \A i \in 1..n - 1 : f[i + 1] = f[i] \o seqs[i + 1]
  BY DEF Flattens
<1>3. g[1] = other[1] /\ \A i \in 1..n - 1 : g[i + 1] = g[i] \o other[i + 1]
  BY <1>1 DEF Flattens
<1>4. j \in 1..n
  OBVIOUS
<1> HIDE DEF n
<1>5. 0 \in T
  BY <1>1, <1>2, <1>3, <1>4
<1>6. ASSUME NEW i \in Nat, i \in T PROVE i + 1 \in T
  <2> SUFFICES ASSUME (i + 1) + 1 <= j - 1 PROVE g[(i + 1) + 1] = f[(i + 1) + 1]
    OBVIOUS
  <2>1. i + 1 \in 1..n - 1 /\ (i + 1) + 1 \in 1..n /\ (i + 1) + 1 # j /\ i + 1 <= j - 1
    BY <1>1, <1>4
  <2>2. g[i + 1] = f[i + 1] /\ seqs[(i + 1) + 1] = other[(i + 1) + 1]
    BY <1>1, <1>6, <2>1
  <2> QED BY <1>2, <1>3, <2>1, <2>2
<1> HIDE DEF T
<1>7. Nat \subseteq T
  BY <1>5, <1>6, SetInduction
<1>8. ASSUME NEW m \in 1..j-1 PROVE g[m] = f[m]
  <2>1. m - 1 \in Nat /\ (m - 1) + 1 = m /\ m <= j - 1
    BY <1>4
  <2>2. m - 1 \in T
    BY <1>7, <2>1
  <2> QED BY <2>1, <2>2 DEF T
<1> QED BY <1>8

\* A sequence of sequences around place j: what comes before and after it is the same
\* whatever stands there, and comes from the other places.
LEMMA FlattenSplit ==
  ASSUME NEW E, NEW seqs \in Seq(Seq(E)), NEW j \in 1..Len(seqs)
  PROVE  \E pre \in Seq(E), post \in Seq(E) :
           /\ \A other \in Seq(Seq(E)) : SameBut(j, seqs, other) =>
                FlattenSeq(other) = pre \o (other[j] \o post)
           /\ \A e \in ToSet(pre) \cup ToSet(post) :
                \E k \in (1..Len(seqs)) \ {j} : e \in ToSet(seqs[k])
<1> DEFINE n == Len(seqs)
           elsewhere(s) == \A e \in ToSet(s) : \E k \in (1..n) \ {j} : e \in ToSet(seqs[k])
<1>1. n \in Nat /\ n # 0 /\ j \in 1..n /\ \A i \in 1..n : seqs[i] \in Seq(E)
  OBVIOUS
<1>2. PICK f : Flattens(f, E, seqs)
  BY <1>1, FlattenIs
<1>3. f \in [1..n -> Seq(E)]
  BY <1>2 DEF Flattens
<1> DEFINE before == IF j = 1 THEN << >> ELSE f[j - 1]
<1>4. before \in Seq(E) /\ elsewhere(before)
  <2>1. CASE j = 1
    BY <2>1 DEF ToSet
  <2>2. CASE j # 1
    <3>1. j - 1 \in 1..n /\ \A k \in 1..j-1 : k \in (1..n) \ {j}
      BY <1>1, <2>2
    <3>2. \A e \in ToSet(f[j - 1]) : \E k \in 1..j-1 : e \in ToSet(seqs[k])
      BY <1>2, <3>1, FlattenElements
    <3> HIDE DEF n
    <3>3. before = f[j - 1] /\ f[j - 1] \in Seq(E)
      BY <1>3, <2>2, <3>1
    <3> HIDE DEF before
    <3> QED BY <3>1, <3>2, <3>3
  <2> QED BY <2>1, <2>2
<1> HIDE DEF n
<1> DEFINE Others ==  {other \in Seq(Seq(E)) : SameBut(j, seqs, other)}
<1>5. ASSUME NEW other \in Others
      PROVE  /\ Len(other) = n /\ other \in Seq(Seq(E)) /\ \A i \in 1..n : other[i] \in Seq(E)
             /\ \A k \in 1..n : k # j => other[k] = seqs[k]
  BY DEF SameBut, n
<1>6. ASSUME NEW other \in Others, NEW g, Flattens(g, E, other)
      PROVE  /\ g[1] = other[1] /\ \A i \in 1..n - 1 : g[i + 1] = g[i] \o other[i + 1]
             /\ g[j] = before \o other[j]
  <2>1. g[1] = other[1] /\ \A i \in 1..n - 1 : g[i + 1] = g[i] \o other[i + 1]
    BY <1>5, <1>6 DEF Flattens
  <2>2. other[j] \in Seq(E)
    BY <1>1, <1>5
  <2>3. ASSUME j = 1 PROVE g[j] = before \o other[j]
    <3>1. before = << >> /\ g[j] = other[j]
      BY <2>1, <2>3
    <3> HIDE DEF before
    <3> QED BY <2>2, <3>1, ConcatEmptySeq
  <2>4. ASSUME j # 1 PROVE g[j] = before \o other[j]
    <3>1. j - 1 \in 1..n - 1 /\ (j - 1) + 1 = j /\ j - 1 \in 1..j-1
      BY <1>1, <2>4
    <3>2. g[j - 1] = f[j - 1]
      BY <1>2, <1>6, <3>1, FlattenBefore
    <3>3. g[j] = g[j - 1] \o other[j]
      BY <2>1, <3>1
    <3> QED BY <2>4, <3>2, <3>3
  <2> QED BY <2>1, <2>3, <2>4
<1> HIDE DEF before, Others
<1>13. PICK pre \in Seq(E) : pre = before
  BY <1>4
<1> DEFINE fits(m, post) == \A other \in Others : \A g :
                              Flattens(g, E, other) => g[m] = pre \o (other[j] \o post)
<1> DEFINE T == {i \in Nat : j + i <= n =>
                   \E post \in Seq(E) : fits(j + i, post) /\ elsewhere(post)}
<1>7. 0 \in T
  <2>1. j + 0 = j /\ << >> \in Seq(E) /\ elsewhere(<< >>)
    BY <1>1 DEF ToSet
  <2>2. fits(j, << >>)
    <3> SUFFICES ASSUME NEW other \in Others, NEW g, Flattens(g, E, other)
                 PROVE  g[j] = pre \o (other[j] \o << >>)
      OBVIOUS
    <3>1. other[j] \in Seq(E)
      BY <1>1, <1>5
    <3>2. other[j] \o << >> = other[j]
      BY <3>1, ConcatEmptySeq
    <3> QED BY <1>6, <1>13, <3>2
  <2> HIDE DEF fits, elsewhere
  <2> QED BY <2>1, <2>2
<1>8. ASSUME NEW i \in Nat, i \in T PROVE i + 1 \in T
  <2> SUFFICES ASSUME j + (i + 1) <= n
               PROVE  \E post \in Seq(E) : fits(j + (i + 1), post) /\ elsewhere(post)
    <3> HIDE DEF fits, elsewhere
    <3> QED OBVIOUS
  <2> DEFINE m == j + i
  <2>1. m \in 1..n - 1 /\ m + 1 = j + (i + 1) /\ m <= n /\ m + 1 \in 1..n /\ m + 1 # j
    BY <1>1
  <2>2. PICK post \in Seq(E) : fits(m, post) /\ elsewhere(post)
    BY <1>8, <2>1
  <2> HIDE DEF m
  <2> DEFINE s == seqs[m + 1]
             all == post \o s
  <2>3. s \in Seq(E) /\ all \in Seq(E)
    BY <1>1, <2>1
  <2> HIDE DEF s
  <2>4. fits(m + 1, all)
    <3> SUFFICES ASSUME NEW other \in Others, NEW g, Flattens(g, E, other)
                 PROVE  g[m + 1] = pre \o (other[j] \o all)
      OBVIOUS
    <3>1. other[j] \in Seq(E) /\ other[m + 1] = s
      BY <1>1, <1>5, <2>1 DEF s
    <3>2. g[m] = pre \o (other[j] \o post)
      BY <2>2
    <3>3. g[m + 1] = (pre \o (other[j] \o post)) \o s
      BY <1>6, <2>1, <3>1, <3>2
    <3> DEFINE x == other[j]
    <3> HIDE DEF x
    <3>4. x \in Seq(E)
      BY <3>1 DEF x
    <3>5. Associative(pre, x, post, s)
      BY <2>3, <3>4, ConcatFour
    <3> QED BY <3>3, <3>5 DEF x, Associative
  <2>5. elsewhere(all)
    <3> SUFFICES ASSUME NEW e \in ToSet(all) PROVE \E k \in (1..n) \ {j} : e \in ToSet(seqs[k])
      OBVIOUS
    <3>1. e \in ToSet(post) \/ e \in ToSet(s)
      BY <2>3, ConcatElements
    <3>2. m + 1 \in (1..n) \ {j}
      BY <2>1
    <3> QED BY <2>2, <3>1, <3>2 DEF s
  <2> HIDE DEF fits, elsewhere, all
  <2> QED BY <2>1, <2>3, <2>4, <2>5
<1>9. \E post \in Seq(E) : fits(n, post) /\ elsewhere(post)
  <2> HIDE DEF fits, elsewhere, T
  <2>1. Nat \subseteq T
    BY <1>7, <1>8, SetInduction
  <2>2. n - j \in Nat /\ j + (n - j) = n /\ n <= n
    BY <1>1
  <2>3. n - j \in T
    BY <2>1, <2>2
  <2>4. j + (n - j) <= n => \E post \in Seq(E) : fits(j + (n - j), post) /\ elsewhere(post)
    BY <2>3 DEF T
  <2> QED BY <2>2, <2>4
<1>10. PICK post \in Seq(E) : fits(n, post) /\ elsewhere(post)
  BY <1>9
<1>11. ASSUME NEW other \in Seq(Seq(E)), SameBut(j, seqs, other)
       PROVE  FlattenSeq(other) = pre \o (other[j] \o post)
  <2>1. other \in Others
    BY <1>11 DEF Others
  <2>2. Len(other) = n
    BY <1>5, <2>1
  <2>3. PICK g : Flattens(g, E, other) /\ FlattenSeq(other) = g[Len(other)]
    BY <1>1, <2>2, FlattenIs
  <2> QED BY <1>10, <2>1, <2>2, <2>3
<1>12. \A e \in ToSet(pre) \cup ToSet(post) : \E k \in (1..n) \ {j} : e \in ToSet(seqs[k])
  BY <1>4, <1>10, <1>13
<1> QED BY <1>10, <1>11, <1>12 DEF n

-----------------------------------------------------------------------------
(* One substitution after the other.                                       *)

\* The scanner ends in one of its states.
LEMMA ScanEnds ==
  ASSUME NEW E, NEW seq \in Seq(E), NEW base \in ScanState
  PROVE  FoldLeft(ScanBody, base, seq) \in ScanState
<1> DEFINE n == Len(seq)
<1>1. n \in Nat
  OBVIOUS
<1>2. PICK f : /\ f[0] = base
               /\ \A i \in 0..n - 1 : f[i + 1] = ScanBody(f[i], seq[i + 1])
               /\ FoldLeft(ScanBody, base, seq) = f[n]
  BY ScanFold
<1> DEFINE T == {i \in Nat : i <= n => f[i] \in ScanState}
<1> HIDE DEF n
<1>3. 0 \in T
  BY <1>2
<1>4. ASSUME NEW i \in Nat, i \in T PROVE i + 1 \in T
  <2> SUFFICES ASSUME i + 1 <= n PROVE f[i + 1] \in ScanState
    OBVIOUS
  <2>1. i \in 0..n - 1 /\ i <= n
    BY <1>1
  <2>2. f[i] \in ScanState
    BY <1>4, <2>1
  <2>3. ScanBody(f[i], seq[i + 1]) \in ScanState
    BY <2>2, ScanType
  <2> QED BY <1>2, <2>1, <2>3
<1> HIDE DEF T
<1>5. Nat \subseteq T
  BY <1>3, <1>4, SetInduction
<1>6. n <= n => f[n] \in ScanState
  BY <1>1, <1>5 DEF T
<1>7. f[n] \in ScanState
  BY <1>1, <1>6
<1> QED BY <1>2, <1>7

\* A substitution makes a text of a text, or fails.
LEMMA ReplaceType ==
  ASSUME NEW E, NEW text \in Seq(E), NEW name, NEW replacement \in E
  PROVE  ReplaceNamedCaptureBody(text, name, replacement) \in Seq(E) \cup {None}
<1> DEFINE found == {i \in DOMAIN text : text[i] = <<"(?P<", name>>}
           at == CHOOSE i \in found : \A j \in found : i <= j
           rest == SubSeq(text, at + 1, Len(text))
           start == [length |-> 0, escaped |-> FALSE, inClass |-> FALSE, depth |-> 1]
           end == FoldLeft(ScanBody, start, rest)
           result == SubSeq(text, 1, at) \o <<replacement>> \o SubSeq(rest, end.length + 1, Len(rest))
<1>1. ReplaceNamedCaptureBody(text, name, replacement)
        = IF found = {} \/ end.depth # 0 THEN None ELSE result
  BY DEF ReplaceNamedCaptureBody
<1>2. ASSUME found # {} PROVE result \in Seq(E)
  <2>1. found \subseteq Nat /\ DOMAIN text = 1..Len(text) /\ Len(text) \in Nat
    OBVIOUS
  <2>2. \E i \in found : \A j \in found : i <= j
    BY <1>2, <2>1, LeastNumber, Zenon
  <2>3. at \in found
    BY <2>2
  <2> HIDE DEF at
  <2>4. at \in 1..Len(text)
    BY <2>1, <2>3
  <2> HIDE DEF found
  <2>5. SubSeq(text, 1, at) \in Seq(E) /\ rest \in Seq(E)
    BY <2>1, <2>4
  <2>6. start \in ScanState
    BY DEF ScanState
  <2>7. end \in ScanState
    <3> HIDE DEF start, rest
    <3> QED BY <2>5, <2>6, ScanEnds
  <2> HIDE DEF end, rest
  <2>8. end.length \in Nat
    BY <2>7 DEF ScanState
  <2>9. SubSeq(rest, end.length + 1, Len(rest)) \in Seq(E)
    <3> DEFINE l == end.length
    <3> HIDE DEF l
    <3>1. l \in Nat
      BY <2>8 DEF l
    <3>2. SubSeq(rest, l + 1, Len(rest)) \in Seq(E)
      BY <2>5, <3>1
    <3> QED BY <3>2 DEF l
  <2>10. \A a, b \in Seq(E) : a \o <<replacement>> \o b \in Seq(E)
    OBVIOUS
  <2> QED BY <2>5, <2>9, <2>10
<1> HIDE DEF found, end, result
<1> QED BY <1>1, <1>2

\* Likewise a round of the loop.
LEMMA SubstituteType ==
  ASSUME NEW E, NEW text \in Seq(E) \cup {None}, NEW selector, Body(SelectorRegexBody(selector)) \in E
  PROVE  Substitute(text, selector) \in Seq(E) \cup {None}
BY ReplaceType DEF Substitute

\* f has the texts after each of the substitutions.
Rounds(f, base, seq) ==
  /\ f[0] = base
  /\ \A i \in 0..Len(seq) - 1 : f[i + 1] = Substitute(f[i], seq[i + 1])
  /\ FoldLeft(Substitute, base, seq) = f[Len(seq)]

\* The fold is the last of them.
LEMMA SubstituteFold ==
  ASSUME NEW E, NEW base \in Seq(E) \cup {None}, NEW S, NEW seq \in Seq(S),
         \A selector \in S : Body(SelectorRegexBody(selector)) \in E
  PROVE  \E f : Rounds(f, base, seq)
<1> DEFINE n == Len(seq)
           V == Seq(E) \cup {None}
           P == SUBSET (1..n)
           op == [x \in V \X S |-> Substitute(x[1], x[2])]
           eq(f) == f = [s \in P |-> IF s = {} THEN base ELSE Substitute(f[s \ {Max(s)}], seq[Max(s)])]
           iter == CHOOSE f : eq(f)
<1>1. DOMAIN seq = 1..n /\ n \in Nat /\ \A i \in 1..n : seq[i] \in S
  OBVIOUS
<1>2. op \in [V \X S -> V]
  BY SubstituteType
<1> HIDE DEF V
<1>3. \A x \in V, e \in S : op[<<x, e>>] = Substitute(x, e)
  OBVIOUS
<1>4. \E f : eq(f)
  <2> HIDE DEF op, eq
  <2>0. base \in V
    BY DEF V
  <2>1. PICK f : Folds(f, V, base, op, seq)
    BY <1>2, <2>0, FoldExists
  <2> HIDE DEF n
  <2>2. ASSUME NEW s \in P, s # {}
        PROVE  FoldBody(f, base, op, seq, s) = Substitute(f[s \ {Max(s)}], seq[Max(s)])
    <3>1. Max(s) \in s
      BY <1>1, <2>2, MaxPosition
    <3>2. seq[Max(s)] \in S /\ s \ {Max(s)} \in P
      BY <1>1, <3>1
    <3>3. f[s \ {Max(s)}] \in V
      BY <2>1, <3>2 DEF n, Folds
    <3> QED BY <1>3, <2>2, <3>2, <3>3 DEF FoldBody
  <2>3. \A s \in P : f[s] = IF s = {} THEN base ELSE Substitute(f[s \ {Max(s)}], seq[Max(s)])
    <3>1. \A s \in P : f[s] = FoldBody(f, base, op, seq, s)
      BY <2>1 DEF n, Folds
    <3> QED BY <2>2, <3>1 DEF FoldBody
  <2>4. f = [s \in P |-> f[s]]
    BY <2>1 DEF n, Folds
  <2> HIDE DEF P
  <2>5. eq(f)
    BY <2>3, <2>4 DEF eq
  <2> QED BY <2>5
<1>5. eq(iter)
  <2> HIDE DEF eq
  <2> QED BY <1>4
<1>6. FoldLeft(Substitute, base, seq) = iter[1..n]
  BY <1>1 DEF FoldLeft, MapThenFoldSet
<1> HIDE DEF iter, n
<1>7. \A s \in P : iter[s] = IF s = {} THEN base ELSE Substitute(iter[s \ {Max(s)}], seq[Max(s)])
  BY <1>5
<1> DEFINE f == [m \in 0..n |-> iter[1..m]]
<1>8. f[0] = base
  <2>1. {} \in P /\ 1..0 = {} /\ 0 \in 0..n
    BY <1>1
  <2> QED BY <1>7, <2>1
<1>9. ASSUME NEW i \in 0..n - 1 PROVE f[i + 1] = Substitute(f[i], seq[i + 1])
  <2>1. i \in Nat /\ 1..i+1 \in P /\ i \in 0..n /\ i + 1 \in 0..n
    BY <1>1
  <2>2. Max(1..i+1) = i + 1 /\ (1..i+1) \ {i + 1} = 1..i /\ 1..i+1 # {}
    BY <2>1, MaxFirst
  <2>3. iter[1..i+1] = Substitute(iter[1..i], seq[i + 1])
    BY <1>7, <2>1, <2>2
  <2> QED BY <2>1, <2>3
<1>10. f[n] = iter[1..n]
  BY <1>1
<1> HIDE DEF f
<1> QED BY <1>6, <1>8, <1>9, <1>10 DEF n, Rounds

\* The names and the characters of a path regex, and all that its texts are made of.
Names(regex) == {part.capture : part \in Captures(regex)}
Tokens(regex) == UNION {ToSet(part.text) : part \in ToSet(regex)}
Bodies(selectors) == {Body(SelectorRegexBody(s)) : s \in selectors}
Alphabet(regex, selectors) ==
  Tokens(regex) \cup {<<"(?P<", n>> : n \in Names(regex)} \cup {<<"(?<", n>> : n \in Names(regex)}
  \cup {Char(")")} \cup Bodies(selectors)

\* A capture with a selector's body.
Capture(part, body) == <<OpenCapture(part)>> \o <<body>> \o <<Char(")")>>

\* The texts of the parts when the first k selectors have their bodies in them.
Filled(seqs, regex, paths, k) ==
  /\ Len(seqs) = Len(regex)
  /\ \A i \in 1..Len(regex) :
       /\ (\A m \in 1..k : paths[m].source.name # regex[i].capture) => seqs[i] = PartText(regex[i])
       /\ \A m \in 1..k : paths[m].source.name = regex[i].capture =>
            seqs[i] = Capture(regex[i], Body(SelectorRegexBody(paths[m])))

ThreeAssociate(a, b, c) == (a \o b) \o c = a \o (b \o c)

\* Three sequences.
LEMMA ConcatThree ==
  ASSUME NEW E, NEW a \in Seq(E), NEW b \in Seq(E), NEW c \in Seq(E)
  PROVE  ThreeAssociate(a, b, c)
BY SMT DEF ThreeAssociate

LeftToRight(o, b, c, d) == ((o \o b) \o c) \o d = o \o (b \o (c \o d))

\* Four sequences once more.
LEMMA ConcatLeft ==
  ASSUME NEW E, NEW o \in Seq(E), NEW b \in Seq(E), NEW c \in Seq(E), NEW d \in Seq(E)
  PROVE  LeftToRight(o, b, c, d)
<1> DEFINE ob == o \o b
           cd == c \o d
<1>1. ob \in Seq(E) /\ cd \in Seq(E)
  OBVIOUS
<1> HIDE DEF ob, cd
<1>2. ThreeAssociate(ob, c, d) /\ ThreeAssociate(o, b, cd)
  BY <1>1, ConcatThree
<1> QED BY <1>2 DEF LeftToRight, ThreeAssociate, ob, cd

\* What is assumed of a path regex.
WellNamed(regex) == RegexpCompiles(regex) /\ NamesOnce(regex)

\* A regex is a sequence of parts.
LEMMA RegexLength ==
  ASSUME NEW regex, WellNamed(regex)
  PROVE  DOMAIN regex = 1..Len(regex) /\ Len(regex) \in Nat
BY DEF WellNamed, RegexpCompiles

\* Captures have names.
LEMMA NamesOfCaptures ==
  ASSUME NEW regex
  PROVE  None \notin Names(regex)
BY DEF Names, Captures

\* The parts of a regex, and their texts.
LEMMA PartOf ==
  ASSUME NEW regex, WellNamed(regex), NEW selectors, NEW i \in 1..Len(regex)
  PROVE  /\ regex[i].text \in Seq(Tokens(regex))
         /\ \/ regex[i].capture = None
            \/ /\ regex[i].capture # None /\ regex[i].capture \in Names(regex)
               /\ regex[i].spelledP \in BOOLEAN /\ regex[i] \in Captures(regex)
               /\ Balanced(regex[i].text)
         /\ PartText(regex[i]) \in Seq(Alphabet(regex, selectors))
<1> DEFINE E == Alphabet(regex, selectors)
           T == Tokens(regex)
           part == regex[i]
<1>1. regex \in Seq(PathPart(Names(regex), T))
  BY DEF WellNamed, RegexpCompiles, Names, Tokens
<1>2. DOMAIN regex = 1..Len(regex) /\ part \in PathPart(Names(regex), T)
  BY <1>1
<1>3. part \in ToSet(regex)
  BY <1>2 DEF ToSet
<1>4. part.text \in Seq(T) /\ (part.capture = None \/ (part.capture \in Names(regex) /\ part.spelledP \in BOOLEAN))
  BY <1>2 DEF PathPart
<1>5. ASSUME part.capture # None
      PROVE  part \in Captures(regex) /\ Balanced(part.text)
  BY <1>3, <1>5 DEF Captures, WellNamed, RegexpCompiles
<1>6. T \subseteq E /\ Char(")") \in E
  BY DEF Alphabet
<1>7. part.text \in Seq(E)
  <2> HIDE DEF E, T, part
  <2> QED BY <1>4, <1>6
<1>8. ASSUME part.capture # None PROVE OpenCapture(part) \in E
  BY <1>4, <1>8 DEF Alphabet, OpenCapture
<1>9. PartText(part) \in Seq(E)
  <2>1. CASE part.capture = None
    BY <1>7, <2>1 DEF PartText
  <2>2. CASE part.capture # None
    <3>1. OpenCapture(part) \in E
      BY <1>8, <2>2
    <3>2. PartText(part) = <<OpenCapture(part)>> \o part.text \o <<Char(")")>>
      BY <2>2 DEF PartText
    <3>3. \A o, c \in E, s \in Seq(E) : <<o>> \o s \o <<c>> \in Seq(E)
      OBVIOUS
    <3> HIDE DEF E, part
    <3> QED BY <1>6, <1>7, <3>1, <3>2, <3>3
  <2> QED BY <2>1, <2>2
<1> QED BY <1>4, <1>5, <1>9

\* The elements of three sequences.
LEMMA ThreeElements ==
  ASSUME NEW E, NEW o \in E, NEW s \in Seq(E), NEW c \in E, NEW x \in ToSet(<<o>> \o s \o <<c>>)
  PROVE  x = o \/ x \in ToSet(s) \/ x = c
<1> DEFINE os == <<o>> \o s
<1>1. os \in Seq(E) /\ <<o>> \in Seq(E) /\ <<c>> \in Seq(E)
  OBVIOUS
<1>2. ToSet(<<o>>) = {o} /\ ToSet(<<c>>) = {c}
  BY DEF ToSet
<1>3. x \in ToSet(os) <=> x \in ToSet(<<o>>) \/ x \in ToSet(s)
  BY <1>1, ConcatElements
<1> HIDE DEF os
<1>4. \A t : t = os \o <<c>> => (x \in ToSet(t) <=> x \in ToSet(os) \/ x \in ToSet(<<c>>))
  BY <1>1, ConcatElements
<1>5. x \in ToSet(os \o <<c>>)
  BY DEF os
<1> QED BY <1>2, <1>3, <1>4, <1>5

\* "(?P<name>" stands nowhere but at the capture of that name.
LEMMA OpensOnce ==
  ASSUME NEW regex, WellNamed(regex), NEW S, NEW paths \in Seq(S),
         NEW k \in 0..Len(paths), NEW seqs, Filled(seqs, regex, paths, k),
         NEW i \in 1..Len(regex), NEW n \in Names(regex), NEW p \in BOOLEAN,
         <<IF p THEN "(?P<" ELSE "(?<", n>> \in ToSet(seqs[i])
  PROVE  regex[i].capture = n /\ regex[i].spelledP = p
<1> DEFINE part == regex[i]
           E == Alphabet(regex, S)
           T == Tokens(regex)
           e == <<IF p THEN "(?P<" ELSE "(?<", n>>
<1>1. /\ part.text \in Seq(T)
      /\ \/ part.capture = None
         \/ part.capture # None /\ part.capture \in Names(regex) /\ part.spelledP \in BOOLEAN
  BY PartOf
<1>2. e \notin T
  BY DEF WellNamed, NamesOnce, Names, Tokens
<1>3. e \notin ToSet(part.text)
  <2>1. ToSet(part.text) \subseteq T
    BY <1>1 DEF ToSet
  <2> QED BY <1>2, <2>1
<1>4. e # Char(")") /\ e[1] # "="
  BY DEF Char
<1>5. T \subseteq E /\ Char(")") \in E /\ Bodies(S) \subseteq E
  BY DEF Alphabet
<1>6. part.text \in Seq(E)
  <2> HIDE DEF E, T, part
  <2> QED BY <1>1, <1>5
<1>7. ASSUME part.capture # None, e = OpenCapture(part)
      PROVE  part.capture = n /\ part.spelledP = p
  BY <1>1, <1>7 DEF OpenCapture
<1>8. ASSUME part.capture # None PROVE OpenCapture(part) \in E
  BY <1>1, <1>8 DEF Alphabet, OpenCapture
<1>9. e \in ToSet(seqs[i])
  OBVIOUS
<1>10. CASE \A m \in 1..k : paths[m].source.name # part.capture
  <2>1. seqs[i] = PartText(part)
    BY <1>10 DEF Filled
  <2>2. CASE part.capture = None
    BY <1>3, <1>9, <2>1, <2>2 DEF PartText
  <2>3. CASE part.capture # None
    <3>1. seqs[i] = <<OpenCapture(part)>> \o part.text \o <<Char(")")>>
      BY <2>1, <2>3 DEF PartText
    <3>2. OpenCapture(part) \in E
      BY <1>8, <2>3
    <3> HIDE DEF E, e, part
    <3>3. \A x \in ToSet(seqs[i]) : x = OpenCapture(part) \/ x \in ToSet(part.text) \/ x = Char(")")
      BY <1>5, <1>6, <3>1, <3>2, ThreeElements
    <3>4. e = OpenCapture(part)
      BY <1>3, <1>4, <1>9, <3>3
    <3> QED BY <1>7, <2>3, <3>4 DEF part
  <2> QED BY <2>2, <2>3
<1>11. ASSUME NEW m \in 1..k, paths[m].source.name = part.capture
       PROVE  part.capture = n /\ part.spelledP = p
  <2> DEFINE body == Body(SelectorRegexBody(paths[m]))
  <2>1. seqs[i] = Capture(part, body)
    BY <1>11 DEF Filled
  <2>2. m \in 1..Len(paths) /\ paths[m] \in S
    OBVIOUS
  <2>3. body \in E /\ body[1] = "="
    BY <1>5, <2>2 DEF Bodies, Body
  <2>4. e \in ToSet(<<OpenCapture(part)>> \o <<body>> \o <<Char(")")>>)
    BY <1>9, <2>1 DEF Capture
  <2>5. CASE part.capture = None
    <3> DEFINE o == OpenCapture(part)
               F == E \cup {o}
    <3>1. o \in F /\ <<body>> \in Seq(F) /\ Char(")") \in F
      BY <1>5, <2>3
    <3> HIDE DEF F, E, e, body, part, o
    <3>2. e = o \/ e \in ToSet(<<body>>) \/ e = Char(")")
      BY <2>4, <3>1, ThreeElements DEF o
    <3>3. e # o
      BY <2>5 DEF o, e, OpenCapture, Names, Captures
    <3> QED BY <1>4, <2>3, <3>2, <3>3 DEF ToSet
  <2>6. CASE part.capture # None
    <3>1. OpenCapture(part) \in E /\ <<body>> \in Seq(E)
      BY <1>8, <2>3, <2>6
    <3> HIDE DEF E, e, body, part
    <3>2. e = OpenCapture(part) \/ e \in ToSet(<<body>>) \/ e = Char(")")
      BY <1>5, <2>4, <3>1, ThreeElements
    <3>3. e = OpenCapture(part)
      BY <1>4, <2>3, <3>2 DEF ToSet
    <3> QED BY <1>7, <2>6, <3>3 DEF part
  <2> QED BY <2>5, <2>6
<1> QED BY <1>10, <1>11

\* Selectors of different captures of a regex.
PathsOf(regex, S, paths) ==
  /\ paths \in Seq(S)
  /\ \A i \in 1..Len(paths) : paths[i].source.name \in Names(regex)
  /\ \A i, j \in 1..Len(paths) : paths[i].source.name = paths[j].source.name => i = j

\* The text is that of the regex with the bodies of the first k selectors in it.
Compiled(text, regex, S, paths, k) ==
  \E seqs \in Seq(Seq(Alphabet(regex, S))) :
    Filled(seqs, regex, paths, k) /\ text = FlattenSeq(seqs)

\* At the start it is the text of the regex.
LEMMA CompiledStart ==
  ASSUME NEW regex, WellNamed(regex), NEW S, NEW paths
  PROVE  Compiled(RegexText(regex), regex, S, paths, 0)
<1> DEFINE E == Alphabet(regex, S)
           seqs == [i \in 1..Len(regex) |-> PartText(regex[i])]
<1>1. Len(regex) \in Nat /\ DOMAIN regex = 1..Len(regex)
  BY DEF WellNamed, RegexpCompiles
<1>2. \A i \in 1..Len(regex) : PartText(regex[i]) \in Seq(E)
  BY PartOf
<1>3. seqs \in Seq(Seq(E)) /\ Len(seqs) = Len(regex)
  <2> HIDE DEF E
  <2> QED BY <1>1, <1>2
<1>4. Filled(seqs, regex, paths, 0)
  BY <1>1, <1>3 DEF Filled
<1>5. RegexText(regex) = FlattenSeq(seqs)
  BY <1>1 DEF RegexText
<1> HIDE DEF seqs
<1> QED BY <1>3, <1>4, <1>5 DEF Compiled

\* A round that succeeds puts the next body where its capture is.
LEMMA CompiledRound ==
  ASSUME NEW regex, WellNamed(regex), NEW S, NEW paths, PathsOf(regex, S, paths),
         NEW k \in 0..Len(paths) - 1, NEW text, Compiled(text, regex, S, paths, k),
         Substitute(text, paths[k + 1]) # None
  PROVE  Compiled(Substitute(text, paths[k + 1]), regex, S, paths, k + 1)
<1> DEFINE E == Alphabet(regex, S)
           selector == paths[k + 1]
           name == selector.source.name
           body == Body(SelectorRegexBody(selector))
<1>1. /\ Len(paths) \in Nat /\ k \in Nat /\ k + 1 \in 1..Len(paths) /\ k \in 0..Len(paths)
      /\ paths \in Seq(S) /\ selector \in S /\ name \in Names(regex)
  BY DEF PathsOf
<1>2. PICK seqs \in Seq(Seq(E)) : Filled(seqs, regex, paths, k) /\ text = FlattenSeq(seqs)
  BY DEF Compiled
<1>3. Len(regex) \in Nat /\ DOMAIN regex = 1..Len(regex)
  BY DEF WellNamed, RegexpCompiles
<1>4. PICK j \in 1..Len(regex) : regex[j].capture = name
  BY <1>1, <1>3 DEF Names, Captures, ToSet
<1> DEFINE part == regex[j]
           open == OpenCapture(part)
           close == Char(")")
<1>5. part.capture # None
  BY <1>1, <1>4 DEF Names, Captures
<1>6. /\ part.text \in Seq(Tokens(regex)) /\ part.spelledP \in BOOLEAN /\ Balanced(part.text)
      /\ name # None
  BY <1>4, <1>5, PartOf
<1>7. \A i \in 1..Len(regex) : regex[i].capture = name => i = j
  BY <1>3, <1>4, <1>5 DEF WellNamed, RegexpCompiles
<1>8. seqs[j] = <<open>> \o part.text \o <<close>>
  <2>1. \A m \in 1..k : paths[m].source.name # name
    <3> SUFFICES ASSUME NEW m \in 1..k, paths[m].source.name = name PROVE FALSE
      OBVIOUS
    <3>1. m \in 1..Len(paths) /\ m # k + 1
      BY <1>1
    <3> QED BY <1>1, <3>1 DEF PathsOf
  <2>2. seqs[j] = PartText(part)
    BY <1>2, <1>4, <2>1 DEF Filled
  <2> QED BY <1>5, <2>2 DEF PartText
<1>9. Tokens(regex) \subseteq E /\ open \in E /\ close \in E /\ body \in E /\ close[1] = ")"
  BY <1>1, <1>4, <1>6 DEF Alphabet, Bodies, OpenCapture, Char
<1>10. part.text \in Seq(E)
  <2> HIDE DEF E, part
  <2> QED BY <1>6, <1>9
<1>11. Len(seqs) = Len(regex) /\ j \in 1..Len(seqs)
  BY <1>2 DEF Filled
<1>12. PICK pre \in Seq(E), post \in Seq(E) :
         /\ \A other \in Seq(Seq(E)) : SameBut(j, seqs, other) =>
              FlattenSeq(other) = pre \o (other[j] \o post)
         /\ \A e \in ToSet(pre) \cup ToSet(post) :
              \E i \in (1..Len(seqs)) \ {j} : e \in ToSet(seqs[i])
  <2> HIDE DEF E
  <2> QED BY <1>11, FlattenSplit
<1>13. text = pre \o (<<open>> \o (part.text \o (<<close>> \o post)))
  <2>1. SameBut(j, seqs, seqs)
    BY DEF SameBut
  <2>2. text = pre \o (seqs[j] \o post)
    BY <1>2, <1>12, <2>1
  <2> HIDE DEF E, open, close, part
  <2>3. <<open>> \in Seq(E) /\ <<close>> \in Seq(E)
    BY <1>9
  <2>4. LeftToRight(<<open>>, part.text, <<close>>, post)
    BY <1>10, <2>3, ConcatLeft
  <2> QED BY <1>8, <2>2, <2>4 DEF LeftToRight
<1> DEFINE new == [i \in 1..Len(regex) |-> IF i = j THEN Capture(part, body) ELSE seqs[i]]
<1>14. new \in Seq(Seq(E)) /\ Len(new) = Len(regex) /\ SameBut(j, seqs, new) /\ new[j] = Capture(part, body)
  <2>1. Capture(part, body) \in Seq(E)
    <3>1. \A o, b, c \in E : <<o>> \o <<b>> \o <<c>> \in Seq(E)
      OBVIOUS
    <3> HIDE DEF E, body
    <3> QED BY <1>9, <3>1 DEF Capture
  <2>2. \A i \in 1..Len(regex) : seqs[i] \in Seq(E)
    BY <1>11
  <2> DEFINE capture == Capture(part, body)
  <2> HIDE DEF E, capture, part
  <2>3. new \in [1..Len(regex) -> Seq(E)]
    BY <2>1, <2>2 DEF capture
  <2>4. new \in Seq(Seq(E)) /\ Len(new) = Len(regex)
    BY <1>3, <2>3
  <2>5. SameBut(j, seqs, new)
    BY <1>11, <2>4 DEF SameBut
  <2> QED BY <2>4, <2>5 DEF capture, part
<1>15. Filled(new, regex, paths, k + 1)
  <2>1. ASSUME NEW i \in 1..Len(regex), \A m \in 1..k+1 : paths[m].source.name # regex[i].capture
        PROVE  new[i] = PartText(regex[i])
    <3>1. i # j
      BY <1>1, <1>4, <2>1
    <3>2. \A m \in 1..k : m \in 1..k+1
      BY <1>1
    <3>3. seqs[i] = PartText(regex[i])
      BY <1>2, <2>1, <3>2 DEF Filled
    <3> QED BY <3>1, <3>3
  <2>2. ASSUME NEW i \in 1..Len(regex), NEW m \in 1..k+1, paths[m].source.name = regex[i].capture
        PROVE  new[i] = Capture(regex[i], Body(SelectorRegexBody(paths[m])))
    <3>1. m \in 1..k \/ m = k + 1
      BY <1>1
    <3>2. CASE m = k + 1
      <4>1. i = j
        BY <1>7, <2>2, <3>2
      <4> QED BY <3>2, <4>1
    <3>3. CASE m \in 1..k
      <4>1. i # j
        <5>1. m \in 1..Len(paths) /\ m # k + 1
          BY <1>1, <3>3
        <5>2. paths[m].source.name # name
          BY <1>1, <5>1 DEF PathsOf
        <5> QED BY <1>4, <2>2, <5>2
      <4>2. seqs[i] = Capture(regex[i], Body(SelectorRegexBody(paths[m])))
        BY <1>2, <2>2, <3>3 DEF Filled
      <4> QED BY <4>1, <4>2
    <3> QED BY <3>1, <3>2, <3>3
  <2> HIDE DEF new
  <2> QED BY <1>14, <2>1, <2>2 DEF Filled
<1>16. FlattenSeq(new) = pre \o (<<open>> \o (<<body>> \o (<<close>> \o post)))
  <2> HIDE DEF E, open, close, part, new, body
  <2>1. FlattenSeq(new) = pre \o (Capture(part, body) \o post)
    BY <1>12, <1>14
  <2>2. <<open>> \in Seq(E) /\ <<close>> \in Seq(E) /\ <<body>> \in Seq(E)
    BY <1>9
  <2>3. LeftToRight(<<open>>, <<body>>, <<close>>, post)
    BY <2>2, ConcatLeft
  <2> QED BY <2>1, <2>3 DEF LeftToRight, Capture, open, close
<1>17. part.spelledP /\ text # None
  <2>1. text # None
    BY DEF Substitute
  <2>2. ReplaceNamedCaptureBody(text, name, body) # None
    BY <2>1 DEF Substitute
  <2>3. <<"(?P<", name>> \in ToSet(text)
    <3> HIDE DEF name, body
    <3> QED BY <2>2, NotFound
  <2> DEFINE e == <<"(?P<", name>>
             mid == <<open>> \o part.text \o <<close>>
             rest == mid \o post
  <2>4. mid \in Seq(E) /\ rest \in Seq(E) /\ mid = seqs[j]
    <3>1. \A o, c \in E, s \in Seq(E) : <<o>> \o s \o <<c>> \in Seq(E)
      OBVIOUS
    <3>2. \A s \in Seq(E) : s \o post \in Seq(E)
      OBVIOUS
    <3> HIDE DEF E, part, open, close
    <3> QED BY <1>8, <1>9, <1>10, <3>1, <3>2
  <2> HIDE DEF E, mid, name, body, part, open
  <2>5. text = pre \o rest
    <3>1. SameBut(j, seqs, seqs)
      BY DEF SameBut
    <3> QED BY <1>2, <1>12, <2>4, <3>1
  <2> HIDE DEF rest
  <2>6. e \in ToSet(pre) \/ e \in ToSet(rest)
    BY <2>3, <2>4, <2>5, ConcatElements
  <2>7. e \in ToSet(rest) => e \in ToSet(mid) \/ e \in ToSet(post)
    BY <2>4, ConcatElements DEF rest
  <2>8. \E i \in 1..Len(regex) : e \in ToSet(seqs[i])
    BY <1>11, <1>12, <2>4, <2>6, <2>7
  <2>9. PICK i \in 1..Len(regex) : e \in ToSet(seqs[i])
    BY <2>8
  <2>10. \A p \in BOOLEAN : p = TRUE =>
           (<<IF p THEN "(?P<" ELSE "(?<", name>> \in ToSet(seqs[i]) =>
              regex[i].capture = name /\ regex[i].spelledP = p)
    BY <1>1, <1>2, OpensOnce
  <2>11. regex[i].capture = name /\ regex[i].spelledP = TRUE
    BY <2>9, <2>10
  <2> QED BY <1>7, <2>1, <2>11 DEF part
<1>18. open = <<"(?P<", name>>
  BY <1>4, <1>17 DEF OpenCapture
<1>19. open \notin ToSet(pre)
  <2> SUFFICES ASSUME open \in ToSet(pre) PROVE FALSE
    OBVIOUS
  <2>1. PICK i \in (1..Len(seqs)) \ {j} : open \in ToSet(seqs[i])
    BY <1>12
  <2>2. i \in 1..Len(regex)
    BY <1>11
  <2> HIDE DEF E, name, body, part, open
  <2>3. \A p \in BOOLEAN : p = TRUE =>
          (<<IF p THEN "(?P<" ELSE "(?<", name>> \in ToSet(seqs[i]) =>
             regex[i].capture = name /\ regex[i].spelledP = p)
    BY <1>1, <1>2, <2>2, OpensOnce
  <2>4. regex[i].capture = name
    BY <1>18, <2>1, <2>3
  <2> QED BY <1>7, <2>1, <2>2, <2>4
<1>20. ReplaceNamedCaptureBody(text, name, body)
         = pre \o (<<open>> \o (<<body>> \o (<<close>> \o post)))
  <2> DEFINE t == part.text
  <2>1. t \in Seq(E) /\ Balanced(t) /\ text = Around(pre, open, t, close, post)
    BY <1>6, <1>10, <1>13 DEF Around
  <2> HIDE DEF E, name, body, part, open, close, t
  <2>2. ReplaceNamedCaptureBody(text, name, body) = Around(pre, open, <<body>>, close, post)
    BY <1>9, <1>18, <1>19, <2>1, BodyReplaced
  <2> QED BY <2>2 DEF Around
<1>21. Substitute(text, selector) = FlattenSeq(new)
  <2> HIDE DEF E, part, open, close, new
  <2> QED BY <1>16, <1>17, <1>20 DEF Substitute
<1> HIDE DEF new
<1> QED BY <1>14, <1>15, <1>21 DEF Compiled

\* The path selectors among the first i.
PathsAmong(s, i) == {s[k] : k \in {l \in 1..i : s[l].source.type = "PathCapture"}}

\* Path selectors are collected in their order, none of them twice.
CollectsPaths(paths, S, s, i) ==
  /\ paths \in Seq(S) /\ ToSet(paths) = PathsAmong(s, i)
  /\ \A a, b \in 1..Len(paths) : paths[a] = paths[b] => a = b

\* The fold that collects them is the sequence of what was collected.
LEMMA AppendFold ==
  ASSUME NEW S, NEW seq \in Seq(S)
  PROVE  \E f : /\ f[0] = << >>
                /\ \A i \in 0..Len(seq) - 1 : f[i + 1] = AppendPath(f[i], seq[i + 1])
                /\ FoldLeft(AppendPath, << >>, seq) = f[Len(seq)]
<1> DEFINE n == Len(seq)
           V == Seq(S)
           base == << >>
           P == SUBSET (1..n)
           op == [x \in V \X S |-> AppendPath(x[1], x[2])]
           eq(f) == f = [s \in P |-> IF s = {} THEN base ELSE AppendPath(f[s \ {Max(s)}], seq[Max(s)])]
           iter == CHOOSE f : eq(f)
<1>1. DOMAIN seq = 1..n /\ n \in Nat /\ \A i \in 1..n : seq[i] \in S
  OBVIOUS
<1>2. op \in [V \X S -> V]
  <2>1. \A x \in V, e \in S : Append(x, e) \in V
    OBVIOUS
  <2> HIDE DEF V
  <2> QED BY <2>1 DEF AppendPath
<1>0. base \in V
  OBVIOUS
<1> HIDE DEF V, base
<1>3. \A x \in V, e \in S : op[<<x, e>>] = AppendPath(x, e)
  OBVIOUS
<1>4. \E f : eq(f)
  <2> HIDE DEF op, eq
  <2>1. PICK f : Folds(f, V, base, op, seq)
    BY <1>0, <1>2, FoldExists
  <2> HIDE DEF n
  <2>2. ASSUME NEW s \in P, s # {}
        PROVE  FoldBody(f, base, op, seq, s) = AppendPath(f[s \ {Max(s)}], seq[Max(s)])
    <3>1. Max(s) \in s
      BY <1>1, <2>2, MaxPosition
    <3>2. seq[Max(s)] \in S /\ s \ {Max(s)} \in P
      BY <1>1, <3>1
    <3>3. f[s \ {Max(s)}] \in V
      BY <2>1, <3>2 DEF n, Folds
    <3> QED BY <1>3, <2>2, <3>2, <3>3 DEF FoldBody
  <2>3. \A s \in P : f[s] = IF s = {} THEN base ELSE AppendPath(f[s \ {Max(s)}], seq[Max(s)])
    <3>1. \A s \in P : f[s] = FoldBody(f, base, op, seq, s)
      BY <2>1 DEF n, Folds
    <3> QED BY <2>2, <3>1 DEF FoldBody
  <2>4. f = [s \in P |-> f[s]]
    BY <2>1 DEF n, Folds
  <2> HIDE DEF P
  <2>5. eq(f)
    BY <2>3, <2>4 DEF eq
  <2> QED BY <2>5
<1>5. eq(iter)
  <2> HIDE DEF eq
  <2> QED BY <1>4
<1>6. FoldLeft(AppendPath, << >>, seq) = iter[1..n]
  BY <1>1 DEF FoldLeft, MapThenFoldSet, base
<1> HIDE DEF iter, n
<1>7. \A s \in P : iter[s] = IF s = {} THEN base ELSE AppendPath(iter[s \ {Max(s)}], seq[Max(s)])
  BY <1>5
<1> DEFINE f == [m \in 0..n |-> iter[1..m]]
<1>8. f[0] = << >>
  <2>1. {} \in P /\ 1..0 = {} /\ 0 \in 0..n
    BY <1>1
  <2> QED BY <1>7, <2>1 DEF base
<1>9. ASSUME NEW i \in 0..n - 1 PROVE f[i + 1] = AppendPath(f[i], seq[i + 1])
  <2>1. i \in Nat /\ 1..i+1 \in P /\ i \in 0..n /\ i + 1 \in 0..n
    BY <1>1
  <2>2. Max(1..i+1) = i + 1 /\ (1..i+1) \ {i + 1} = 1..i /\ 1..i+1 # {}
    BY <2>1, MaxFirst
  <2>3. iter[1..i+1] = AppendPath(iter[1..i], seq[i + 1])
    BY <1>7, <2>1, <2>2
  <2> QED BY <2>1, <2>3
<1>10. f[n] = iter[1..n]
  BY <1>1
<1> HIDE DEF f
<1> QED BY <1>6, <1>8, <1>9, <1>10 DEF n

\* The path selectors of a list without repetitions.
LEMMA PathSelectorsAre ==
  ASSUME NEW S, NEW s \in Seq(S), \A k, l \in 1..Len(s) : s[k] = s[l] => k = l
  PROVE  CollectsPaths(PathSelectors(s), S, s, Len(s))
<1> DEFINE n == Len(s)
<1>1. n \in Nat /\ \A k \in 1..n : s[k] \in S
  OBVIOUS
<1>2. PICK f : /\ f[0] = << >>
               /\ \A i \in 0..n - 1 : f[i + 1] = AppendPath(f[i], s[i + 1])
               /\ FoldLeft(AppendPath, << >>, s) = f[n]
  BY AppendFold
<1>3. \A k, l \in 1..n : s[k] = s[l] => k = l
  OBVIOUS
<1> HIDE DEF n
<1> DEFINE T == {i \in Nat : i <= n => CollectsPaths(f[i], S, s, i)}
<1>4. 0 \in T
  <2>1. CollectsPaths(<< >>, S, s, 0)
    BY DEF CollectsPaths, PathsAmong, ToSet
  <2> QED BY <1>2, <2>1
<1>5. ASSUME NEW i \in Nat, i \in T PROVE i + 1 \in T
  <2> SUFFICES ASSUME i + 1 <= n PROVE CollectsPaths(f[i + 1], S, s, i + 1)
    OBVIOUS
  <2> DEFINE e == s[i + 1]
             old == f[i]
  <2>1. i \in 0..n - 1 /\ i <= n /\ i + 1 \in 1..n /\ e \in S
    BY <1>1
  <2>2. CollectsPaths(old, S, s, i)
    BY <1>5, <2>1
  <2>3. f[i + 1] = AppendPath(old, e)
    BY <1>2, <2>1
  <2>4. \A l \in 1..i+1 : l \in 1..i \/ l = i + 1
    OBVIOUS
  <2>5. CASE e.source.type # "PathCapture"
    <3>1. f[i + 1] = old
      BY <2>3, <2>5 DEF AppendPath
    <3>2. PathsAmong(s, i + 1) = PathsAmong(s, i)
      BY <2>5 DEF PathsAmong
    <3> QED BY <2>2, <3>1, <3>2 DEF CollectsPaths
  <2>6. CASE e.source.type = "PathCapture"
    <3>1. f[i + 1] = Append(old, e)
      BY <2>3, <2>6 DEF AppendPath
    <3>2. PathsAmong(s, i + 1) = PathsAmong(s, i) \cup {e}
      BY <2>6 DEF PathsAmong
    <3>3. old \in Seq(S) /\ ToSet(old) = PathsAmong(s, i)
          /\ \A a, b \in 1..Len(old) : old[a] = old[b] => a = b
      BY <2>2 DEF CollectsPaths
    <3> HIDE DEF old
    <3>4. e \notin ToSet(old)
      <4> SUFFICES ASSUME e \in ToSet(old) PROVE FALSE
        OBVIOUS
      <4>1. PICK k \in 1..i : e = s[k]
        BY <3>3 DEF PathsAmong
      <4>2. k \in 1..n /\ k # i + 1
        BY <1>1, <2>1
      <4> QED BY <1>3, <2>1, <4>1, <4>2
    <3> HIDE DEF e
    <3> DEFINE new == Append(old, e)
               m == Len(old)
    <3>5. /\ new \in Seq(S) /\ m \in Nat /\ Len(new) = m + 1 /\ new[m + 1] = e
          /\ \A a \in 1..m : new[a] = old[a]
          /\ DOMAIN old = 1..m /\ DOMAIN new = 1..m+1
      BY <2>1, <3>3
    <3> HIDE DEF new, m
    <3>6. ToSet(new) = ToSet(old) \cup {e}
      <4>1. \A a \in 1..m+1 : a \in 1..m \/ a = m + 1
        BY <3>5
      <4>2. m + 1 \in 1..m+1 /\ \A a \in 1..m : a \in 1..m+1
        BY <3>5
      <4> QED BY <3>5, <4>1, <4>2 DEF ToSet
    <3>7. ASSUME NEW a \in 1..m+1, NEW b \in 1..m+1, new[a] = new[b] PROVE a = b
      <4>1. \A c \in 1..m : new[c] # e
        BY <3>4, <3>5 DEF ToSet
      <4>2. (a \in 1..m \/ a = m + 1) /\ (b \in 1..m \/ b = m + 1)
        BY <3>5
      <4>3. \A c, d \in 1..m : new[c] = new[d] => c = d
        BY <3>3, <3>5 DEF m
      <4> QED BY <3>5, <3>7, <4>1, <4>2, <4>3
    <3>8. f[i + 1] = new
      BY <3>1 DEF new
    <3> QED BY <3>2, <3>3, <3>5, <3>6, <3>7, <3>8 DEF CollectsPaths
  <2> QED BY <2>5, <2>6
<1> HIDE DEF T
<1>6. Nat \subseteq T
  BY <1>4, <1>5, SetInduction
<1>7. n <= n => CollectsPaths(f[n], S, s, n)
  BY <1>1, <1>6 DEF T
<1>8. PathSelectors(s) = f[n]
  BY <1>2 DEF PathSelectors
<1> QED BY <1>1, <1>7, <1>8 DEF n

\* The path selectors of a valid placement, none of them twice.
LEMMA PathsOfPlacement ==
  ASSUME NEW list \in PlacementLists, NEW i \in DOMAIN list, Validate(list[i]),
         NEW paths, paths = PathSelectors(list[i].selectors)
  PROVE  /\ paths \in Seq(AllSelectors)
         /\ \A a, b \in 1..Len(paths) : paths[a] = paths[b] => a = b
         /\ ToSet(paths) = {s \in ToSet(list[i].selectors) : IsPath(s)}
<1> DEFINE sels == list[i].selectors
           S == AllSelectors
<1>1. /\ list[i] \in AllPlacements
      /\ \A s \in ToSet(sels) : Admitted(s) /\ SelectorValid(s) /\ s \in S
      /\ \A k, l \in DOMAIN sels : k # l => SourceKey(sels[k]) # SourceKey(sels[l])
  BY ValidatedSelectors
<1>2. sels \in Seq(S)
  <2>1. list[i] \in ToSet(list)
    BY DEF ToSet
  <2>2. sels \in Seq(ToSet(sels))
    BY <2>1, AdmittedAssumption
  <2>3. ToSet(sels) \subseteq S
    BY <1>1
  <2> HIDE DEF S, sels
  <2> QED BY <2>2, <2>3
<1>3. DOMAIN sels = 1..Len(sels) /\ Len(sels) \in Nat
  BY <1>2
<1>4. \A k, l \in 1..Len(sels) : sels[k] = sels[l] => k = l
  BY <1>1, <1>3
<1>5. CollectsPaths(paths, S, sels, Len(sels))
  <2> HIDE DEF S, sels
  <2>1. CollectsPaths(PathSelectors(sels), S, sels, Len(sels))
    BY <1>2, <1>4, PathSelectorsAre
  <2> QED BY <2>1 DEF sels
<1>6. paths \in Seq(S) /\ \A a, b \in 1..Len(paths) : paths[a] = paths[b] => a = b
  BY <1>5 DEF CollectsPaths
<1>7. ToSet(paths) = {s \in ToSet(sels) : IsPath(s)}
  <2>1. ToSet(paths) = PathsAmong(sels, Len(sels))
    BY <1>5 DEF CollectsPaths
  <2>2. PathsAmong(sels, Len(sels)) = {s \in {sels[k] : k \in 1..Len(sels)} : IsPath(s)}
    BY DEF PathsAmong, IsPath
  <2>3. ToSet(sels) = {sels[k] : k \in 1..Len(sels)}
    BY <1>3 DEF ToSet
  <2> QED BY <2>1, <2>2, <2>3
<1> QED BY <1>6, <1>7

\* The path selectors of a valid placement are selectors of different captures of one
\* path regex that compiles.
LEMMA ValidatedPaths ==
  ASSUME NEW list \in PlacementLists, NEW i \in DOMAIN list, Validate(list[i]),
         NEW paths, paths = PathSelectors(list[i].selectors), paths # << >>
  PROVE  /\ PathsOf(paths[1].source.pathRegex, AllSelectors, paths)
         /\ WellNamed(paths[1].source.pathRegex) /\ Len(paths) \in Nat \ {0}
         /\ \A k \in 1..Len(paths) : paths[k].source.pathRegex = paths[1].source.pathRegex
         /\ ToSet(paths) = {s \in ToSet(list[i].selectors) : IsPath(s)}
<1> DEFINE sels == list[i].selectors
           S == AllSelectors
           regex == paths[1].source.pathRegex
<1>1. /\ \A s \in ToSet(sels) : SelectorValid(s) /\ s \in S
      /\ \A k, l \in DOMAIN sels : k # l => SourceKey(sels[k]) # SourceKey(sels[l])
  BY ValidatedSelectors
<1>6. paths \in Seq(S) /\ \A a, b \in 1..Len(paths) : paths[a] = paths[b] => a = b
  BY PathsOfPlacement
<1>7. ToSet(paths) = {s \in ToSet(sels) : IsPath(s)}
  BY PathsOfPlacement
<1> HIDE DEF S
<1>8. Len(paths) \in Nat \ {0} /\ DOMAIN paths = 1..Len(paths) /\ 1 \in 1..Len(paths)
  BY <1>6
<1>9. ASSUME NEW k \in 1..Len(paths)
      PROVE  /\ paths[k] \in ToSet(sels) /\ paths[k].source.type = "PathCapture"
             /\ paths[k] \in S /\ SourceValid(paths[k].source)
  <2>1. paths[k] \in ToSet(paths)
    BY <1>8 DEF ToSet
  <2>2. paths[k] \in ToSet(sels) /\ paths[k].source.type = "PathCapture"
    BY <1>7, <2>1 DEF IsPath
  <2> QED BY <1>1, <2>2 DEF SelectorValid
<1>10. \A k \in 1..Len(paths) : paths[k].source.pathRegex = regex
  BY <1>8 DEF Validate
<1>11. WellNamed(regex)
  BY <1>8, <1>9, PathRegexAssumption DEF S, WellNamed
<1>12. \A k \in 1..Len(paths) : paths[k].source.name \in Names(regex)
  BY <1>9, <1>10 DEF SourceValid, Names
<1>13. ASSUME NEW a \in 1..Len(paths), NEW b \in 1..Len(paths),
              paths[a].source.name = paths[b].source.name
       PROVE  a = b
  <2>1. SourceKey(paths[a]) = SourceKey(paths[b])
    BY <1>9, <1>10, <1>13 DEF SourceKey
  <2>2. PICK k \in DOMAIN sels : paths[a] = sels[k]
    BY <1>9 DEF ToSet
  <2>3. PICK l \in DOMAIN sels : paths[b] = sels[l]
    BY <1>9 DEF ToSet
  <2>4. paths[a] = paths[b]
    BY <1>1, <2>1, <2>2, <2>3
  <2> QED BY <1>6, <2>4
<1> QED BY <1>6, <1>7, <1>8, <1>10, <1>11, <1>12, <1>13 DEF PathsOf, S

\* The path that a valid placement compiles to.
LEMMA PathCompiled ==
  ASSUME NEW list \in PlacementLists, NEW i \in DOMAIN list, Validate(list[i]),
         CompilesPath(list[i]),
         NEW paths, paths = PathSelectors(list[i].selectors), paths # << >>
  PROVE  Compiled(CompilePathRegex(list[i]), paths[1].source.pathRegex, AllSelectors, paths, Len(paths))
<1> DEFINE S == AllSelectors
           regex == paths[1].source.pathRegex
           E == Alphabet(regex, S)
           n == Len(paths)
           base == RegexText(regex)
<1>1. PathsOf(regex, S, paths) /\ WellNamed(regex) /\ n \in Nat \ {0}
  BY ValidatedPaths
<1>2. Compiled(base, regex, S, paths, 0)
  BY <1>1, CompiledStart
<1>3. base \in Seq(E)
  <2>1. PICK seqs \in Seq(Seq(E)) : base = FlattenSeq(seqs)
    BY <1>2 DEF Compiled
  <2> HIDE DEF E
  <2>2. CASE Len(seqs) # 0
    <3>1. PICK f : Flattens(f, E, seqs) /\ FlattenSeq(seqs) = f[Len(seqs)]
      BY <2>2, FlattenIs
    <3>2. f \in [1..Len(seqs) -> Seq(E)] /\ Len(seqs) \in 1..Len(seqs)
      BY <2>2, <3>1 DEF Flattens
    <3>3. f[Len(seqs)] \in Seq(E)
      BY <3>2
    <3> QED BY <2>1, <3>1, <3>3
  <2>3. CASE Len(seqs) = 0
    <3>1. seqs = << >>
      BY <2>3
    <3>2. FlattenSeq(seqs) = << >>
      BY <3>1 DEF FlattenSeq
    <3> QED BY <2>1, <3>2
  <2> QED BY <2>2, <2>3
<1>4. \A s \in S : Body(SelectorRegexBody(s)) \in E
  BY DEF Alphabet, Bodies
<1>5. PICK f : /\ f[0] = base
               /\ \A k \in 0..n - 1 : f[k + 1] = Substitute(f[k], paths[k + 1])
               /\ FoldLeft(Substitute, base, paths) = f[n]
  <2>1. paths \in Seq(S) /\ base \in Seq(E) \cup {None}
    BY <1>1, <1>3 DEF PathsOf
  <2> HIDE DEF S, E, base
  <2>2. PICK f : Rounds(f, base, paths)
    BY <1>4, <2>1, SubstituteFold
  <2> QED BY <2>2 DEF Rounds
<1>6. CompilePathRegex(list[i]) = f[n]
  BY <1>5 DEF CompilePathRegex
<1>7. f[n] # None
  BY <1>6 DEF CompilesPath
<1> HIDE DEF n, S, base, regex
<1> DEFINE T == {k \in Nat : k <= n => f[k] = None \/ Compiled(f[k], regex, S, paths, k)}
<1>8. 0 \in T
  BY <1>2, <1>5
<1>9. ASSUME NEW k \in Nat, k \in T PROVE k + 1 \in T
  <2> SUFFICES ASSUME k + 1 <= n, f[k + 1] # None PROVE Compiled(f[k + 1], regex, S, paths, k + 1)
    OBVIOUS
  <2>1. k \in 0..n - 1 /\ k <= n
    BY <1>1
  <2>2. f[k + 1] = Substitute(f[k], paths[k + 1])
    BY <1>5, <2>1
  <2>3. f[k] # None
    BY <2>2 DEF Substitute
  <2>4. Compiled(f[k], regex, S, paths, k)
    BY <1>9, <2>1, <2>3
  <2>5. Compiled(Substitute(f[k], paths[k + 1]), regex, S, paths, k + 1)
    BY <1>1, <2>1, <2>2, <2>4, CompiledRound DEF n
  <2> QED BY <2>2, <2>5
<1> HIDE DEF T
<1>10. Nat \subseteq T
  BY <1>8, <1>9, SetInduction
<1>11. n \in T /\ n <= n
  BY <1>1, <1>10
<1>12. Compiled(f[n], regex, S, paths, n)
  BY <1>7, <1>11 DEF T
<1> QED BY <1>6, <1>12 DEF n, S, regex

\* The sequence of a set with one element.
LEMMA SingletonSeq ==
  ASSUME NEW x
  PROVE  SetToSeq({x}) = <<x>>
<1>1. Cardinality({x}) = 1
  BY FS_Singleton
<1>2. SetToSeq({x}) = CHOOSE f \in [1..1 -> {x}] : IsInjective(f)
  BY <1>1 DEF SetToSeq
<1>3. <<x>> \in [1..1 -> {x}] /\ IsInjective(<<x>>)
  BY DEF IsInjective
<1>4. \A f \in [1..1 -> {x}] : f = <<x>>
  OBVIOUS
<1> DEFINE c == CHOOSE f \in [1..1 -> {x}] : IsInjective(f)
<1>5. c \in [1..1 -> {x}]
  BY <1>3
<1> HIDE DEF c
<1>6. c = <<x>>
  BY <1>4, <1>5
<1> QED BY <1>2, <1>6 DEF c

\* A capture with its text replaced.
LEMMA CaptureReplaced ==
  ASSUME NEW regex, WellNamed(regex), NEW i \in 1..Len(regex), regex[i].capture # None, NEW x
  PROVE  PartText([regex[i] EXCEPT !.text = <<x>>]) = Capture(regex[i], x)
<1> DEFINE part == regex[i]
           N == Names(regex)
           T == Tokens(regex)
           new == [part EXCEPT !.text = <<x>>]
<1>1. regex \in Seq(PathPart(N, T))
  BY DEF WellNamed, RegexpCompiles, Names, Tokens
<1>2. part \in PathPart(N, T)
  BY <1>1
<1>3. part \in [capture : N, spelledP : BOOLEAN, text : Seq(T)]
  BY <1>2 DEF PathPart
<1> HIDE DEF part
<1>4. new.capture = part.capture /\ new.spelledP = part.spelledP /\ new.text = <<x>>
  BY <1>3
<1> HIDE DEF new
<1>5. PartText(new) = <<OpenCapture(new)>> \o <<x>> \o <<Char(")")>>
  BY <1>4 DEF PartText, part
<1>6. OpenCapture(new) = OpenCapture(part)
  BY <1>4 DEF OpenCapture
<1> QED BY <1>5, <1>6 DEF Capture, new, part

\* What stands after an element.
Following(text, e) == text[1 + CHOOSE i \in DOMAIN text : text[i] = e]

\* What stands after the only place of an element.
LEMMA AfterOnly ==
  ASSUME NEW E, NEW pre \in Seq(E), NEW mid \in Seq(E), NEW post \in Seq(E), NEW e,
         Len(mid) >= 2, mid[1] = e, \A k \in 2..Len(mid) : mid[k] # e,
         e \notin ToSet(pre), e \notin ToSet(post),
         NEW text, text = Joined(pre, mid, post)
  PROVE  Following(text, e) = mid[2]
<1> DEFINE a == Len(pre)
           m == Len(mid)
           b == Len(post)
<1>1. a \in Nat /\ m \in Nat /\ b \in Nat /\ m >= 2
  OBVIOUS
<1>2. /\ DOMAIN text = 1..(a + m + b)
      /\ \A i \in 1..a : text[i] = pre[i]
      /\ \A i \in 1..m : text[a + i] = mid[i]
      /\ \A i \in 1..b : text[a + m + i] = post[i]
  BY DEF Joined
<1>3. (\A i \in 1..a : pre[i] # e) /\ (\A i \in 1..b : post[i] # e)
  BY DEF ToSet
<1> HIDE DEF a, m, b
<1>4. a + 1 \in DOMAIN text /\ text[a + 1] = e /\ text[a + 2] = mid[2]
  <2>1. 1 \in 1..m /\ 2 \in 1..m /\ a + 1 \in 1..(a + m + b)
    BY <1>1
  <2> QED BY <1>2, <2>1
<1>5. ASSUME NEW i \in DOMAIN text, text[i] = e PROVE i = a + 1
  <2>1. CASE i \in 1..a
    BY <1>2, <1>3, <1>5, <2>1
  <2>2. CASE i > a /\ i <= a + m
    <3> DEFINE k == i - a
    <3>1. k \in 1..m /\ a + k = i
      BY <1>1, <1>2, <2>2
    <3> HIDE DEF k
    <3>2. mid[k] = e
      BY <1>2, <1>5, <3>1
    <3>3. k \notin 2..m
      BY <3>2 DEF m
    <3>4. k = 1
      BY <1>1, <3>1, <3>3
    <3> QED BY <3>1, <3>4
  <2>3. CASE i > a + m
    <3> DEFINE k == i - (a + m)
    <3>1. k \in 1..b /\ a + m + k = i
      BY <1>1, <1>2, <2>3
    <3> HIDE DEF k
    <3> QED BY <1>2, <1>3, <1>5, <3>1
  <2> QED BY <1>1, <1>2, <2>1, <2>2, <2>3
<1> DEFINE c == CHOOSE i \in DOMAIN text : text[i] = e
<1>6. c = a + 1
  <2>1. c \in DOMAIN text /\ text[c] = e
    BY <1>4
  <2> HIDE DEF c
  <2> QED BY <1>5, <2>1
<1> HIDE DEF c
<1>7. 1 + c = a + 2
  BY <1>1, <1>6
<1> QED BY <1>4, <1>7 DEF c, Following

\* What a compiled path asks at a capture.
LEMMA CaptureAsks ==
  ASSUME NEW regex, WellNamed(regex), NEW S, NEW paths, PathsOf(regex, S, paths),
         NEW text, Compiled(text, regex, S, paths, Len(paths)),
         NEW part \in Captures(regex), NEW value
  PROVE  \A m \in 1..Len(paths) : paths[m].source.name = part.capture =>
           (CaptureMatches(text, part, value) <=> RegexMatches(SelectorRegexBody(paths[m]), value))
<1> DEFINE E == Alphabet(regex, S)
           open == OpenCapture(part)
           close == Char(")")
           n == Len(paths)
           name == part.capture
           next == Following(text, open)
<1>1. n \in Nat /\ paths \in Seq(S) /\ n \in 0..n
  BY DEF PathsOf
<1>2. PICK seqs \in Seq(Seq(E)) : Filled(seqs, regex, paths, n) /\ text = FlattenSeq(seqs)
  BY DEF Compiled
<1>3. Len(regex) \in Nat /\ DOMAIN regex = 1..Len(regex)
  BY DEF WellNamed, RegexpCompiles
<1>4. PICK j \in 1..Len(regex) : regex[j] = part
  BY <1>3 DEF Captures, ToSet
<1>5. name # None /\ name \in Names(regex)
  BY DEF Names, Captures
<1>6. part.text \in Seq(Tokens(regex)) /\ part.spelledP \in BOOLEAN
  BY <1>4, <1>5, PartOf
<1>7. \A i \in 1..Len(regex) : regex[i].capture = name => i = j
  BY <1>3, <1>4, <1>5 DEF WellNamed, RegexpCompiles
<1>8. Len(seqs) = Len(regex) /\ j \in 1..Len(seqs)
  BY <1>2 DEF Filled
<1>9. PICK pre \in Seq(E), post \in Seq(E) :
         /\ \A other \in Seq(Seq(E)) : SameBut(j, seqs, other) =>
              FlattenSeq(other) = pre \o (other[j] \o post)
         /\ \A e \in ToSet(pre) \cup ToSet(post) :
              \E i \in (1..Len(seqs)) \ {j} : e \in ToSet(seqs[i])
  <2> HIDE DEF E
  <2> QED BY <1>8, FlattenSplit
<1>10. text = pre \o (seqs[j] \o post) /\ seqs[j] \in Seq(E)
  <2>1. SameBut(j, seqs, seqs)
    BY DEF SameBut
  <2>2. seqs[j] \in Seq(E)
    <3> HIDE DEF E
    <3> QED BY <1>8
  <2> HIDE DEF E
  <2> QED BY <1>2, <1>9, <2>1, <2>2
<1>11. open \notin ToSet(pre) /\ open \notin ToSet(post)
  <2> SUFFICES ASSUME open \in ToSet(pre) \cup ToSet(post) PROVE FALSE
    OBVIOUS
  <2>1. PICK i \in (1..Len(seqs)) \ {j} : open \in ToSet(seqs[i])
    BY <1>9
  <2>2. i \in 1..Len(regex)
    BY <1>8
  <2>3. \A p \in BOOLEAN : <<IF p THEN "(?P<" ELSE "(?<", name>> \in ToSet(seqs[i]) =>
          regex[i].capture = name /\ regex[i].spelledP = p
    <3> HIDE DEF E, name
    <3> QED BY <1>1, <1>2, <1>5, <2>2, OpensOnce
  <2>4. regex[i].capture = name
    BY <1>6, <2>1, <2>3 DEF OpenCapture
  <2> QED BY <1>7, <2>1, <2>2, <2>4
<1>12. close # open /\ open[1] # "="
  BY <1>5 DEF Char, OpenCapture
<1>13. CaptureMatches(text, part, value) <=> next[1] = "=" /\ RegexMatches(next[2], value)
  BY DEF CaptureMatches, Following
<1>14. ASSUME Len(seqs[j]) >= 2, seqs[j][1] = open, \A k \in 2..Len(seqs[j]) : seqs[j][k] # open
       PROVE  next = seqs[j][2]
  <2> DEFINE mid == seqs[j]
  <2>1. mid \in Seq(E) /\ Len(mid) >= 2 /\ mid[1] = open /\ (\A k \in 2..Len(mid) : mid[k] # open)
        /\ text = Joined(pre, mid, post)
    BY <1>10, <1>14 DEF Joined
  <2> HIDE DEF E, open, mid
  <2>2. Following(text, open) = mid[2]
    BY <1>11, <2>1, AfterOnly
  <2> QED BY <2>2 DEF mid
<1>15. ASSUME NEW m \in 1..n, paths[m].source.name = name
       PROVE  CaptureMatches(text, part, value) <=> RegexMatches(SelectorRegexBody(paths[m]), value)
  <2> DEFINE regexBody == SelectorRegexBody(paths[m])
             body == Body(regexBody)
             mid == <<open>> \o <<body>> \o <<close>>
  <2>1. seqs[j] = mid
    BY <1>2, <1>4, <1>15 DEF Filled, Capture
  <2>2. body[1] = "=" /\ body[2] = regexBody
    BY DEF Body
  <2> HIDE DEF body, open, close, regexBody
  <2>3. Len(mid) = 3 /\ mid[1] = open /\ mid[2] = body /\ mid[3] = close
    OBVIOUS
  <2> HIDE DEF mid
  <2>4. \A k \in 2..3 : k = 2 \/ k = 3
    OBVIOUS
  <2>5. body # open
    BY <1>12, <2>2
  <2>6. \A k \in 2..Len(mid) : mid[k] # open
    BY <1>12, <2>3, <2>4, <2>5
  <2> HIDE DEF next
  <2>7. next = body
    BY <1>14, <2>1, <2>3, <2>6
  <2> QED BY <1>13, <2>2, <2>7 DEF regexBody
<1> QED BY <1>15

\* What the invariant says of the path of a placement that became a route.
LEMMA PlannedPath ==
  ASSUME PlansInv, NEW i \in DOMAIN placements, Planned(placements[i])
  PROVE  /\ placements \in PlacementLists
         /\ Validate(placements[i]) /\ CompilesPath(placements[i])
         /\ plans[placements[i].name].path = CompilePathRegex(placements[i])
<1>1. placements \in PlacementLists /\ PlannedRight(i)
  BY DEF PlansInv
<1>2. plans[placements[i].name] = RouteSpecFromPlacement(placements[i])
  BY <1>1 DEF PlannedRight
<1>3. RouteSpecFromPlacement(placements[i]).path = CompilePathRegex(placements[i])
  BY DEF RouteSpecFromPlacement
<1> QED BY <1>1, <1>2, <1>3 DEF PlannedRight

\* The compiled path of a valid placement.
LEMMA CompiledIsReplaced ==
  ASSUME NEW list \in PlacementLists, NEW i \in DOMAIN list, Validate(list[i]),
         CompilesPath(list[i]),
         NEW paths, paths = PathSelectors(list[i].selectors), paths # << >>
  PROVE  CompilePathRegex(list[i]) = PathReplaced(paths)
<1> DEFINE regex == paths[1].source.pathRegex
           n == Len(paths)
           S == AllSelectors
           path == CompilePathRegex(list[i])
           replaced == [j \in 1..Len(regex) |-> PartReplaced(paths, regex[j])]
<1>1. PathsOf(regex, S, paths) /\ WellNamed(regex) /\ n \in Nat \ {0}
  BY ValidatedPaths
<1>2. Compiled(path, regex, S, paths, n)
  BY PathCompiled
<1> HIDE DEF path
<1>3. PICK seqs \in Seq(Seq(Alphabet(regex, S))) :
        Filled(seqs, regex, paths, n) /\ path = FlattenSeq(seqs)
  BY <1>2 DEF Compiled
<1>4. DOMAIN regex = 1..Len(regex) /\ Len(regex) \in Nat /\ Len(seqs) = Len(regex)
  <2> HIDE DEF regex
  <2>1. DOMAIN regex = 1..Len(regex) /\ Len(regex) \in Nat
    BY <1>1, RegexLength
  <2> QED BY <1>3, <2>1 DEF Filled
<1>5. ToSet(paths) = {paths[m] : m \in 1..n}
  BY <1>1 DEF PathsOf, ToSet
<1>6. ASSUME NEW j \in 1..Len(regex) PROVE seqs[j] = PartText(PartReplaced(paths, regex[j]))
  <2> DEFINE part == regex[j]
             name == part.capture
  <2>1. ASSUME \A m \in 1..n : paths[m].source.name # name
        PROVE  seqs[j] = PartText(PartReplaced(paths, part))
    <3>1. seqs[j] = PartText(part)
      BY <1>3, <2>1 DEF Filled
    <3>2. SelectedBodies(paths, name) = {}
      BY <1>5, <2>1 DEF SelectedBodies
    <3>3. PartReplaced(paths, part) = part
      BY <3>2 DEF PartReplaced
    <3> QED BY <3>1, <3>3
  <2>2. ASSUME NEW m \in 1..n, paths[m].source.name = name
        PROVE  seqs[j] = PartText(PartReplaced(paths, part))
    <3> DEFINE body == Body(SelectorRegexBody(paths[m]))
    <3>1. seqs[j] = Capture(part, body)
      BY <1>3, <2>2 DEF Filled
    <3>2. name # None
      <4> HIDE DEF regex, part
      <4>1. name \in Names(regex)
        BY <1>1, <2>2 DEF PathsOf
      <4> QED BY <4>1, NamesOfCaptures
    <3>3. {selector \in ToSet(paths) : selector.source.name = name} = {paths[m]}
      <4> HIDE DEF regex, part, name
      <4>1. \A k \in 1..n : paths[k].source.name = name => k = m
        BY <1>1, <2>2 DEF PathsOf
      <4> QED BY <1>5, <2>2, <4>1
    <3>4. SelectedBodies(paths, name) = {body}
      BY <3>3 DEF SelectedBodies
    <3>5. SetToSeq(SelectedBodies(paths, name)) = <<body>>
      BY <3>4, SingletonSeq
    <3>6. PartText([part EXCEPT !.text = <<body>>]) = Capture(part, body)
      BY <1>1, <3>2, CaptureReplaced
    <3> HIDE DEF body
    <3>7. PartReplaced(paths, part) = [part EXCEPT !.text = <<body>>]
      BY <3>2, <3>4, <3>5 DEF PartReplaced
    <3> QED BY <3>1, <3>6, <3>7
  <2> QED BY <2>1, <2>2
<1>7. seqs = [j \in 1..Len(regex) |-> PartText(PartReplaced(paths, regex[j]))]
  <2> HIDE DEF regex
  <2>1. seqs = [j \in 1..Len(regex) |-> seqs[j]]
    BY <1>4
  <2> QED BY <1>6, <2>1
<1>8. PathReplaced(paths) = RegexText(replaced)
  BY <1>4 DEF PathReplaced
<1>9. RegexText(replaced) = FlattenSeq([j \in 1..Len(regex) |-> PartText(PartReplaced(paths, regex[j]))])
  <2>1. DOMAIN replaced = 1..Len(regex) /\ \A j \in 1..Len(regex) : replaced[j] = PartReplaced(paths, regex[j])
    OBVIOUS
  <2> HIDE DEF replaced, regex
  <2>2. [j \in DOMAIN replaced |-> PartText(replaced[j])]
          = [j \in 1..Len(regex) |-> PartText(PartReplaced(paths, regex[j]))]
    BY <2>1
  <2> QED BY <2>2 DEF RegexText
<1>10. path = PathReplaced(paths)
  <2> HIDE DEF replaced, regex
  <2> QED BY <1>3, <1>7, <1>8, <1>9
<1> QED BY <1>10 DEF path

\* The compiled path of every route is its path regex with the bodies of the selected
\* captures replaced and nothing else, whatever groups, classes and escapes they hold.
THEOREM CapturesCompiled == Spec => []CapturesReplaced
<1>1. PlansInv => CapturesReplaced
  <2> SUFFICES ASSUME PlansInv, NEW i \in DOMAIN placements, Planned(placements[i]),
                      PathSelectors(placements[i].selectors) # << >>
               PROVE  plans[placements[i].name].path
                        = PathReplaced(PathSelectors(placements[i].selectors))
    BY DEF CapturesReplaced, ToSet
  <2> QED BY PlannedPath, CompiledIsReplaced
<1> QED BY <1>1, PlansRight, PTL

\* At every capture that a selector is about, the compiled path of every route asks for
\* exactly the values the selector selects, for every operator, every body that was
\* there before, and any number of other captures put in before and after.
THEOREM CapturesCompiledExactly == Spec => []CapturesExactly
<1>1. PlansInv => CapturesExactly
  <2> SUFFICES ASSUME PlansInv, NEW i \in DOMAIN placements, Planned(placements[i]),
                      NEW s \in ToSet(placements[i].selectors), IsPath(s),
                      NEW part \in CaptureOf(s), NEW value \in ValuesAt(part)
               PROVE  CaptureMatches(plans[placements[i].name].path, part, value)
                        <=> Selects(s, value)
    BY DEF CapturesExactly, ToSet
  <2> DEFINE p == placements[i]
             paths == PathSelectors(p.selectors)
             regex == paths[1].source.pathRegex
             path == plans[p.name].path
  <2>1. placements \in PlacementLists /\ Validate(p) /\ CompilesPath(p) /\ path = CompilePathRegex(p)
    BY PlannedPath
  <2>2. s \in ToSet(paths)
    <3>1. ToSet(paths) = {t \in ToSet(p.selectors) : IsPath(t)}
      BY <2>1, PathsOfPlacement
    <3> QED BY <3>1
  <2>3. paths # << >>
    BY <2>2 DEF ToSet
  <2>4. /\ PathsOf(regex, AllSelectors, paths) /\ WellNamed(regex) /\ Len(paths) \in Nat \ {0}
        /\ \A k \in 1..Len(paths) : paths[k].source.pathRegex = regex
    BY <2>1, <2>3, ValidatedPaths
  <2>5. Compiled(path, regex, AllSelectors, paths, Len(paths))
    BY <2>1, <2>3, PathCompiled
  <2>6. PICK m \in 1..Len(paths) : paths[m] = s
    BY <2>2, <2>4 DEF PathsOf, ToSet
  <2>7. part \in Captures(regex) /\ paths[m].source.name = part.capture
    BY <2>4, <2>6 DEF CaptureOf
  <2>8. CaptureMatches(path, part, value) <=> RegexMatches(SelectorRegexBody(s), value)
    <3> HIDE DEF path, regex, paths
    <3> QED BY <2>4, <2>5, <2>6, <2>7, CaptureAsks
  <2>9. Admitted(s) /\ SelectorValid(s) /\ s \in AllSelectors
    BY <2>1, ValidatedSelectors
  <2>10. value \in Seq(Nat)
    <3>1. PICK r \in Requests : value = r[<<"PathCapture", part.capture>>] /\ value # None
      BY DEF ValuesAt
    <3>2. s.source.type = "PathCapture" /\ s.source.name = part.capture
      BY <2>6, <2>7 DEF IsPath
    <3> QED BY <2>9, <3>1, <3>2, RequestTexts
  <2>11. RegexMatches(SelectorRegexBody(s), value) <=> Selects(s, value)
    BY <2>9, <2>10, SelectorExact
  <2> QED BY <2>8, <2>11
<1> QED BY <1>1, PlansRight, PTL
=============================================================================
