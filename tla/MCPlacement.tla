----------------------------- MODULE MCPlacement -----------------------------
(* Ranges around every change of length and leading digit, and pairs of    *)
(* placements that may overlap.                                            *)
EXTENDS Placement

RECURSIVE Decimal(_)
Decimal(n) == IF n < 10 THEN <<n>> ELSE Append(Decimal(n \div 10), n % 10)

Shard == [type |-> "Header", name |-> "shard", pathRegex |-> NoPathRegex]
Tenant == [type |-> "QueryParam", name |-> "tenant", pathRegex |-> NoPathRegex]

\* Text around captures: one whose body is a class, one whose body holds a group, a
\* class with parentheses and an escaped one, and one that the compiler cannot find.
\* "x" is any other text.
Chars(characters) == [i \in DOMAIN characters |-> Char(characters[i])]
Text(characters) == [capture |-> None, text |-> Chars(characters)]
CaptureWith(name, spelledP, characters) ==
  [capture |-> name, spelledP |-> spelledP, text |-> Chars(characters)]
MCPathRegex ==
  <<Text(<<"x">>), CaptureWith("zone", TRUE, <<"[", "x", "]", "x">>),
    Text(<<"x", "(", "x", ")">>),
    CaptureWith("unit", TRUE, <<"(", "x", "[", ")", "]", "\\", ")", ")", "x">>),
    CaptureWith("odd", FALSE, <<"x">>)>>
Capture(name) == [type |-> "PathCapture", name |-> name, pathRegex |-> MCPathRegex]

RangeOn(source, first, last) ==
  [source |-> source, operator |-> "Range", value |-> <<>>,
   range |-> [start |-> Decimal(first), end |-> Decimal(last)]]
ValueOn(source, operator, n) ==
  [source |-> source, operator |-> operator, value |-> Decimal(n), range |-> None]

Named(name, hostnames, selectors) ==
  [name |-> name, listenerNames |-> <<>>, hostnames |-> hostnames, selectors |-> selectors]

Bounds == {0, 1, 8, 9, 10, 11, 19, 42, 89, 90, 98, 99, 100, 101, 109, 190, 199, 200,
           899, 989, 998, 999, 1000, 1010, 1099}
OneRange == {<<Named("a", <<>>, <<RangeOn(Shard, first, last)>>)>> :
               first \in Bounds, last \in Bounds}

Operators == {"Exact", "Prefix", "Suffix"}
Sources == {Shard, Tenant, Capture("zone"), Capture("unit"), Capture("odd")}
OneValue == {<<Named("a", <<>>, <<ValueOn(source, operator, n), ValueOn(Capture("unit"), "Exact", 1)>>)>> :
               source \in Sources, operator \in Operators, n \in {1, 12}}
TwoCaptures == {<<Named("a", <<>>, <<RangeOn(Capture("unit"), 1, last), ValueOn(Capture("zone"), operator, n)>>)>> :
                  last \in {1, 2}, operator \in Operators, n \in {1, 12}}

\* 2001 does not fit the model's MaxUint64.
SmallRanges == {<<1, 5>>, <<5, 9>>, <<6, 8>>, <<9, 3>>, <<3, 2001>>}
SelectorLists ==
  {<<RangeOn(Shard, r[1], r[2])>> : r \in SmallRanges}
  \cup {<<RangeOn(Shard, r[1], r[2]), ValueOn(Tenant, "Exact", n)>> : r \in SmallRanges, n \in {1, 2}}
  \cup {<<RangeOn(Tenant, q[1], q[2]), RangeOn(Shard, r[1], r[2])>> :
          q \in {<<1, 5>>, <<6, 8>>}, r \in SmallRanges}
Pairs(lists) ==
  {<<Named("a", <<>>, left), Named("b", hostnames, right)>> :
     left \in lists, right \in lists, hostnames \in {<<>>, <<"shop">>}}
Conflicts == {<<Named("web", <<>>, selectors)>> : selectors \in SelectorLists}

MCPlacementLists == OneRange \cup OneValue \cup TwoCaptures \cup Pairs(SelectorLists) \cup Conflicts

\* A capture with the body \d+ or \d\d, and one selector on it.
Number1 == <<"\\", "d", "+">>
Number2 == <<"\\", "d", "\\", "d">>
MCInBody(text, value) ==
  /\ ToSet(value) \subseteq Digits
  /\ CASE text = Chars(Number1) -> value # <<>>
       [] text = Chars(Number2) -> Len(value) = 2
Segment(body) ==
  [type |-> "PathCapture", name |-> "zone", pathRegex |-> <<CaptureWith("zone", TRUE, body)>>]
MCBodyLists ==
  {<<Named("a", <<>>, <<ValueOn(Segment(body), operator, n)>>)>> :
     body \in {Number1, Number2}, operator \in Operators, n \in 1..15}
  \cup {<<Named("a", <<>>, <<RangeOn(Segment(body), first, 15)>>)>> :
     body \in {Number1, Number2}, first \in 1..15}

Request(shard, tenant, zone, unit) ==
  [source \in {<<"Header", "shard">>, <<"QueryParam", "tenant">>} \cup
             {<<"PathCapture", name>> : name \in {"zone", "unit", "odd"}} |->
     CASE source[2] = "shard" -> shard
       [] source[2] = "tenant" -> tenant
       [] source[2] = "zone" -> zone
       [] source[2] = "unit" -> unit
       [] source[2] = "odd" -> unit]
Values == {Decimal(n) : n \in 0..12 \cup {21, 112, 121}} \cup {<<0, 1>>, <<0, 0, 9>>}
MCRequests ==
  {Request(Decimal(n), None, None, None) : n \in 0..1101}
  \cup {Request(v, w, None, None) : v \in Values, w \in {Decimal(n) : n \in 0..9} \cup {None}}
  \cup {Request(None, v, w, <<1>>) : v \in Values \cup {None}, w \in {<<1>>, <<2>>, <<1, 2>>, <<1, 10>>}}
  \cup {Request(v, None, None, <<1>>) : v \in Values}
=============================================================================
