-------------------------- MODULE AttributionProofs -------------------------
(***************************************************************************)
(* Attribution for queries of any length, any limit and any suffix list.   *)
(***************************************************************************)
EXTENDS Attribution, TLAPS

\* A page is a sequence of pairs of texts.
LEMMA PageFacts ==
  ASSUME page \in Pages
  PROVE  /\ page \in Seq(Texts \X Texts)
         /\ Len(page) \in Nat
         /\ \A j \in 1 .. Len(page) : page[j][1] \in Texts /\ page[j][2] \in Texts
BY AttributionAssumption

\* The tables of hosts: search engines and social networks.
LEMMA TableFacts == DOMAIN TABLE = {"search", "social"}
BY DEF TABLE

\* Every click id credits a source, always as paid clicks.
LEMMA ClickFacts ==
  ASSUME NEW k \in ClickIds
  PROVE  /\ Clicks[k] \in SourceNames \X Mediums
         /\ Clicks[k][2] = "cpc"
         /\ Clicks[k] # None
<1> DEFINE c == Clicks[k]
<1>1. c = <<"google", "cpc">> \/ c = <<"bing", "cpc">>
  BY DEF ClickIds, Clicks, Google
<1>2. {"google", "bing"} \subseteq SourceNames
  BY DEF SourceNames, LABEL_TABLE
<1>3. c \in SourceNames \X Mediums /\ c[2] = "cpc"
  <2> HIDE DEF c
  <2> QED  BY <1>1, <1>2 DEF Mediums
<1> QED  BY <1>3, AttributionAssumption

\* What the tables say of a domain: nothing, or a category and a name.
LEMMA KnownIs ==
  ASSUME NEW d
  PROVE  Known(d) # None =>
           d # None /\ Known(d) \in {"search", "social"} \X SourceNames
<1>1. \A row \in Listed(d) : row \in {"search", "social"} \X SourceNames
  BY TableFacts DEF Listed, SourceNames
<1>2. CASE d # None /\ Listed(d) # {}
  <2>1. Known(d) \in Listed(d)
    BY <1>2 DEF Known
  <2> QED  BY <1>1, <1>2, <2>1
<1>3. CASE d # None /\ Listed(d) = {}
  BY <1>3 DEF Known, SourceNames
<1>4. CASE d = None
  BY <1>4 DEF Known
<1> QED  BY <1>2, <1>3, <1>4

\* The registrable domain of a referrer is a text, or missing.
LEMMA DomainIs ==
  ASSUME referrer \in Referrers
  PROVE  registrable_domain(referrer) \in Option(Texts)
BY AttributionAssumption DEF registrable_domain, Option

\* The category tells whether a site referred the visit.
LEMMA CategoryIs ==
  ASSUME NEW d
  PROVE  /\ Category(d) \in {"direct", "search", "social", "referral"}
         /\ Category(d) = "direct" <=> d = None
BY KnownIs DEF Category

\* The referrer gives a source and a medium, or there is none and it gives
\* neither.
LEMMA ReferrerGives ==
  ASSUME NEW d \in Option(Texts)
  PROVE  /\ ReferrerSource(d) \in Option(Texts \union SourceNames)
         /\ ReferrerMedium(Category(d)) \in Option(Mediums)
         /\ d # None => ReferrerSource(d) # None /\ ReferrerMedium(Category(d)) # None
         /\ d = None => ReferrerSource(d) = None /\ ReferrerMedium(Category(d)) = None
<1>1. /\ ReferrerSource(d) \in Option(Texts \union SourceNames)
      /\ d # None => ReferrerSource(d) # None
      /\ d = None => ReferrerSource(d) = None
  BY KnownIs, AttributionAssumption DEF ReferrerSource, Option
<1>2. /\ ReferrerMedium(Category(d)) \in Option(Mediums)
      /\ d # None => ReferrerMedium(Category(d)) # None
      /\ d = None => ReferrerMedium(Category(d)) = None
  BY CategoryIs, AttributionAssumption DEF ReferrerMedium, Option, Mediums
<1> QED  BY <1>1, <1>2

\* What paid_click found gives both source and medium, or neither.
LEMMA PaidGives ==
  ASSUME paid \in Option({Clicks[k] : k \in ClickIds})
  PROVE  /\ PaidSource \in Option(SourceNames) /\ PaidMedium \in Option(Mediums)
         /\ paid # None => PaidSource # None /\ PaidMedium # None /\ paid = <<PaidSource, PaidMedium>>
         /\ paid = None => PaidSource = None /\ PaidMedium = None
<1>1. CASE paid = None
  BY <1>1 DEF PaidSource, PaidMedium, Option
<1>2. CASE paid # None
  <2>1. paid \in SourceNames \X Mediums
    BY <1>2, ClickFacts DEF Option
  <2> QED  BY <1>2, <2>1, AttributionAssumption DEF PaidSource, PaidMedium, Option
<1> QED  BY <1>1, <1>2

\* The types of src/referrer.rs and src/classify.rs: an event that is not
\* refused is classified, and into a TrafficSource.
THEOREM TypeCorrect == Spec => []TypeOK
<1>1. Init => TypeOK
  <2> SUFFICES ASSUME Init PROVE TypeOK
    OBVIOUS
  <2>1. i \in 1 .. Len(page) + 1
    BY PageFacts DEF Init
  <2> QED  BY <2>1 DEF Init, TypeOK, Option
<1>2. TypeOK /\ [Next]_vars => TypeOK'
  <2> SUFFICES ASSUME TypeOK, [Next]_vars PROVE TypeOK'
    OBVIOUS
  <2> USE PageFacts DEF TypeOK, inputs
  <2>1. CASE ExtractPair
    <3>1. utm' \in [Utm -> Option(Texts)]
      BY <2>1 DEF ExtractPair, Fill, Option
    <3> QED  BY <2>1, <3>1 DEF ExtractPair
  <2>2. CASE Extracted
    BY <2>2 DEF Extracted
  <2>3. CASE Validate
    BY <2>3 DEF Validate
  <2>4. CASE ClickPair
    <3>1. paid' \in Option({Clicks[k] : k \in ClickIds})
      BY <2>4 DEF ClickPair, Option
    <3> QED  BY <2>4, <3>1 DEF ClickPair
  <2>5. CASE NoClick
    BY <2>5 DEF NoClick
  <2>6. CASE Classify
    <3> DEFINE d == registrable_domain(referrer)
    <3>1. d \in Option(Texts)
      BY DomainIs
    <3> HIDE DEF d
    <3>2. Or(utm.source, Or(PaidSource, ReferrerSource(d))) \in Option(Texts \union SourceNames)
      BY <3>1, ReferrerGives, PaidGives DEF Or, Option, Utm, Keys
    <3>3. Or(utm.medium, Or(PaidMedium, ReferrerMedium(Category(d)))) \in Option(Texts \union Mediums)
      BY <3>1, ReferrerGives, PaidGives DEF Or, Option, Utm, Keys
    <3>4. Category(d) \in {"direct", "search", "social", "referral"}
      BY CategoryIs
    <3>5. classify(d) \in TrafficSource
      BY <3>2, <3>3, <3>4 DEF classify, TrafficSource
    <3>6. traffic_source' = classify(d)
      BY <2>6 DEF Classify, d
    <3>7. traffic_source' \in Option(TrafficSource) /\ traffic_source' # None
      BY <3>5, <3>6, AttributionAssumption DEF Option
    <3> QED  BY <2>6, <3>7 DEF Classify
  <2>7. CASE UNCHANGED vars
    BY <2>7 DEF vars
  <2> QED  BY <2>1, <2>2, <2>3, <2>4, <2>5, <2>6, <2>7 DEF Next
<1> QED  BY <1>1, <1>2, PTL DEF Spec

-----------------------------------------------------------------------------
\* Pair j is the first whose key is one of keys.
IsFirst(keys, j) == page[j][1] \in keys /\ \A k \in 1 .. j - 1 : page[k][1] \notin keys

\* FirstOf finds the first pair whose name is among keys ...
LEMMA FirstOfIs ==
  ASSUME Len(page) \in Nat, NEW keys, NEW j \in 1 .. Len(page), IsFirst(keys, j)
  PROVE  FirstOf(keys) = j
<1> DEFINE P(n) == page[n][1] \in keys /\ \A k \in 1 .. n - 1 : page[k][1] \notin keys
<1>1. P(j)
  BY DEF IsFirst
<1>2. FirstOf(keys) = CHOOSE n \in 1 .. Len(page) : P(n)
  BY <1>1 DEF FirstOf
<1>3. ASSUME NEW n \in 1 .. Len(page), P(n) PROVE n = j
  BY <1>1, <1>3
<1> HIDE DEF P
<1>4. (CHOOSE n \in 1 .. Len(page) : P(n)) \in 1 .. Len(page)
      /\ P(CHOOSE n \in 1 .. Len(page) : P(n))
  BY <1>1
<1> QED  BY <1>2, <1>3, <1>4

\* ... and returns 0 when no pair has such a name.
LEMMA FirstOfNone ==
  ASSUME NEW keys, \A j \in 1 .. Len(page) : page[j][1] \notin keys
  PROVE  FirstOf(keys) = 0
BY DEF FirstOf

\* Field f holds what the first n pairs say of it.
SaidBy(n, f) ==
  \/ utm[f] = None /\ \A j \in 1 .. n : page[j][1] \notin Keys[f]
  \/ \E j \in 1 .. n : IsFirst(Keys[f], j) /\ utm[f] = page[j][2]

\* The loop of extract_utm has read i - 1 pairs; later utm stays as it is.
UtmInv ==
  /\ ~extracts => pc # "extract" /\ \A f \in Utm : utm[f] = None
  /\ extracts => \A f \in Utm : SaidBy(IF pc = "extract" THEN i - 1 ELSE Len(page), f)

\* After each pair, extract_utm holds the first of the aliases read so far.
LEMMA UtmInvHolds == Spec => []UtmInv
<1>1. Init => UtmInv
  BY DEF Init, UtmInv, SaidBy
<1>2. TypeOK /\ UtmInv /\ [Next]_vars => UtmInv'
  <2> SUFFICES ASSUME TypeOK, UtmInv, [Next]_vars PROVE UtmInv'
    OBVIOUS
  <2>0. page \in Pages /\ Len(page) \in Nat /\ i \in 1 .. Len(page) + 1
    BY PageFacts DEF TypeOK
  <2>1. CASE ExtractPair
    <3>1. extracts /\ pc = "extract" /\ pc' = pc /\ i' = i + 1 /\ page' = page
          /\ extracts' = extracts /\ i \in 1 .. Len(page) /\ i' - 1 = i
      BY <2>0, <2>1 DEF ExtractPair, inputs, UtmInv
    <3>2. ASSUME NEW f \in Utm PROVE SaidBy(i - 1, f)'
      <4> DEFINE key == page[i][1]
                 value == page[i][2]
      <4>1. SaidBy(i - 1, f)
        BY <3>1, <3>2 DEF UtmInv
      <4>2. utm'[f] = IF key \in Keys[f] /\ utm[f] = None THEN value ELSE utm[f]
        BY <2>1, <3>2 DEF ExtractPair, Fill
      <4>3. CASE \E j \in 1 .. i - 1 : IsFirst(Keys[f], j) /\ utm[f] = page[j][2]
        <5>1. utm[f] # None
          BY <2>0, <4>3, PageFacts, AttributionAssumption
        <5> QED  BY <2>0, <3>1, <4>2, <4>3, <5>1 DEF SaidBy, IsFirst
      <4>4. CASE utm[f] = None /\ \A j \in 1 .. i - 1 : page[j][1] \notin Keys[f]
        <5>1. CASE key \in Keys[f]
          BY <2>0, <3>1, <4>2, <4>4, <5>1 DEF SaidBy, IsFirst
        <5>2. CASE key \notin Keys[f]
          BY <2>0, <3>1, <4>2, <4>4, <5>2 DEF SaidBy
        <5> QED  BY <5>1, <5>2
      <4> QED  BY <4>1, <4>3, <4>4 DEF SaidBy
    <3> QED  BY <3>1, <3>2 DEF UtmInv, SaidBy
  <2>2. CASE Extracted
    <3>1. i - 1 = Len(page)
      BY <2>0, <2>2 DEF Extracted
    <3> QED  BY <2>2, <3>1 DEF Extracted, inputs, UtmInv, SaidBy, IsFirst
  <2>3. CASE Validate
    BY <2>3 DEF Validate, inputs, UtmInv, SaidBy, IsFirst
  <2>4. CASE ClickPair
    BY <2>4 DEF ClickPair, inputs, UtmInv, SaidBy, IsFirst
  <2>5. CASE NoClick
    BY <2>5 DEF NoClick, inputs, UtmInv, SaidBy, IsFirst
  <2>6. CASE Classify
    BY <2>6 DEF Classify, inputs, UtmInv, SaidBy, IsFirst
  <2>7. CASE UNCHANGED vars
    BY <2>7 DEF vars, inputs, UtmInv, SaidBy, IsFirst
  <2> QED  BY <2>1, <2>2, <2>3, <2>4, <2>5, <2>6, <2>7 DEF Next
<1> QED  BY <1>1, <1>2, TypeCorrect, PTL DEF Spec

\* Where extract_utm has read the whole query, a field is what it says of it.
LEMMA UtmIsSaid ==
  ASSUME TypeOK, UtmInv, extracts, pc # "extract", NEW f \in Utm
  PROVE  utm[f] = Said(f)
<1>1. SaidBy(Len(page), f) /\ Len(page) \in Nat
  BY PageFacts DEF UtmInv, TypeOK
<1>2. CASE \E j \in 1 .. Len(page) : IsFirst(Keys[f], j) /\ utm[f] = page[j][2]
  <2>1. PICK j \in 1 .. Len(page) : IsFirst(Keys[f], j) /\ utm[f] = page[j][2]
    BY <1>2
  <2>2. FirstOf(Keys[f]) = j /\ j # 0
    BY <1>1, <2>1, FirstOfIs
  <2> QED  BY <2>1, <2>2 DEF Said
<1>3. CASE utm[f] = None /\ \A j \in 1 .. Len(page) : page[j][1] \notin Keys[f]
  BY <1>3, FirstOfNone DEF Said
<1> QED  BY <1>1, <1>2, <1>3 DEF SaidBy

\* Of the aliases of a parameter the first in the URL counts.
THEOREM FirstOfTheAliases == Spec => []FirstAliasWins
<1>1. TypeOK /\ UtmInv => FirstAliasWins
  BY UtmIsSaid DEF FirstAliasWins
<1> QED  BY <1>1, TypeCorrect, UtmInvHolds, PTL

\* Past validate there is no event with a long parameter, and no other has
\* been refused.
LongInv ==
  /\ pc = "refused" => TooLong
  /\ pc \in {"paid", "classify", "done"} => ~TooLong

\* A page view is refused, or goes on, by the length of its UTM fields alone.
LEMMA LongInvHolds == Spec => []LongInv
<1>1. Init => LongInv
  BY DEF Init, LongInv
<1>2. LongInv /\ [Next]_vars => LongInv'
  <2> SUFFICES ASSUME LongInv, [Next]_vars PROVE LongInv'
    OBVIOUS
  <2> USE DEF LongInv, TooLong
  <2>1. CASE ExtractPair
    BY <2>1 DEF ExtractPair
  <2>2. CASE Extracted
    BY <2>2 DEF Extracted
  <2>3. CASE Validate
    BY <2>3 DEF Validate
  <2>4. CASE ClickPair
    BY <2>4 DEF ClickPair
  <2>5. CASE NoClick
    BY <2>5 DEF NoClick
  <2>6. CASE Classify
    BY <2>6 DEF Classify
  <2>7. CASE UNCHANGED vars
    BY <2>7 DEF vars
  <2> QED  BY <2>1, <2>2, <2>3, <2>4, <2>5, <2>6, <2>7 DEF Next
<1> QED  BY <1>1, <1>2, PTL DEF Spec

\* An event is refused for a long value exactly where that value counts.
THEOREM RefusedOnlyForWhatCounts == Spec => []RefusedForWhatCounts
<1>1. TypeOK /\ UtmInv /\ LongInv => RefusedForWhatCounts
  <2> SUFFICES ASSUME TypeOK, UtmInv, LongInv, pc \in {"refused", "done"}
               PROVE  TooLong <=> extracts /\ \E f \in Utm : Said(f) # None /\ Size[Said(f)] > MAX_UTM
    BY DEF LongInv, RefusedForWhatCounts
  <2>1. CASE extracts
    BY <2>1, UtmIsSaid DEF TooLong
  <2>2. CASE ~extracts
    BY <2>2 DEF TooLong, UtmInv
  <2> QED  BY <2>1, <2>2
<1> QED  BY <1>1, TypeCorrect, UtmInvHolds, LongInvHolds, PTL

-----------------------------------------------------------------------------
\* The loop of paid_click has found no click id in the pairs it has left
\* behind, and stops at the first.
PaidInv ==
  /\ pc \in {"extract", "raw", "paid"} => paid = None
  /\ pc = "raw" => i = 1
  /\ pc = "paid" => \A j \in 1 .. i - 1 : page[j][1] \notin ClickIds
  /\ pc \in {"classify", "done"} =>
       \/ paid = None /\ \A j \in 1 .. Len(page) : page[j][1] \notin ClickIds
       \/ i <= Len(page) /\ IsFirst(ClickIds, i) /\ paid = Clicks[page[i][1]]

\* After each pair, paid_click holds the first click id read so far.
LEMMA PaidInvHolds == Spec => []PaidInv
<1>1. Init => PaidInv
  BY DEF Init, PaidInv
<1>2. TypeOK /\ PaidInv /\ [Next]_vars => PaidInv'
  <2> SUFFICES ASSUME TypeOK, PaidInv, [Next]_vars PROVE PaidInv'
    OBVIOUS
  <2>0. Len(page) \in Nat /\ i \in 1 .. Len(page) + 1
    BY PageFacts DEF TypeOK
  <2> USE DEF PaidInv, inputs, IsFirst
  <2>1. CASE ExtractPair
    BY <2>1 DEF ExtractPair
  <2>2. CASE Extracted
    BY <2>2 DEF Extracted
  <2>3. CASE Validate
    BY <2>3 DEF Validate
  <2>4. CASE ClickPair
    <3>1. CASE page[i][1] \in ClickIds
      BY <2>0, <2>4, <3>1 DEF ClickPair
    <3>2. CASE page[i][1] \notin ClickIds
      BY <2>0, <2>4, <3>2 DEF ClickPair
    <3> QED  BY <3>1, <3>2
  <2>5. CASE NoClick
    BY <2>0, <2>5 DEF NoClick
  <2>6. CASE Classify
    BY <2>6 DEF Classify
  <2>7. CASE UNCHANGED vars
    BY <2>7 DEF vars
  <2> QED  BY <2>1, <2>2, <2>3, <2>4, <2>5, <2>6, <2>7 DEF Next
<1> QED  BY <1>1, <1>2, TypeCorrect, PTL DEF Spec

\* paid is the network of the first click id, None if there is none.
LEMMA PaidIsFirst ==
  ASSUME TypeOK, PaidInv, pc \in {"classify", "done"}
  PROVE  /\ FirstOf(ClickIds) = 0 => paid = None
         /\ FirstOf(ClickIds) # 0 =>
              /\ paid = Clicks[page[FirstOf(ClickIds)][1]]
              /\ page[FirstOf(ClickIds)][1] \in ClickIds
<1>1. Len(page) \in Nat /\ i \in 1 .. Len(page) + 1
  BY PageFacts DEF TypeOK
<1>2. CASE paid = None /\ \A j \in 1 .. Len(page) : page[j][1] \notin ClickIds
  BY <1>2, FirstOfNone
<1>3. CASE i <= Len(page) /\ IsFirst(ClickIds, i) /\ paid = Clicks[page[i][1]]
  <2>1. FirstOf(ClickIds) = i /\ i # 0
    BY <1>1, <1>3, FirstOfIs
  <2> QED  BY <1>3, <2>1 DEF IsFirst
<1> QED  BY <1>2, <1>3 DEF PaidInv

\* The result is what classify makes of the fields as they are.
ResultInv == pc = "done" => traffic_source = classify(registrable_domain(referrer))

\* The emitted traffic source is what classify makes of the referrer.
LEMMA ResultInvHolds == Spec => []ResultInv
<1>1. Init => ResultInv
  BY DEF Init, ResultInv
<1>2. ResultInv /\ [Next]_vars => ResultInv'
  <2> SUFFICES ASSUME ResultInv, [Next]_vars PROVE ResultInv'
    OBVIOUS
  <2> USE DEF ResultInv, inputs
  <2>1. CASE Classify
    BY <2>1 DEF Classify, classify, PaidSource, PaidMedium
  <2>2. CASE UNCHANGED vars
    BY <2>2 DEF vars, classify, PaidSource, PaidMedium
  <2>3. CASE ExtractPair \/ Extracted \/ Validate \/ ClickPair \/ NoClick
    BY <2>3 DEF ExtractPair, Extracted, Validate, ClickPair, NoClick
  <2> QED  BY <2>1, <2>2, <2>3 DEF Next
<1> QED  BY <1>1, <1>2, PTL DEF Spec

\* The fields of that source: UTM before paid click before referrer.
LEMMA ResultIs ==
  ASSUME ResultInv, pc = "done", NEW d, d = registrable_domain(referrer)
  PROVE  /\ category = Category(d)
         /\ source_name = Or(utm.source, Or(PaidSource, ReferrerSource(d)))
         /\ medium = Or(utm.medium, Or(PaidMedium, ReferrerMedium(Category(d))))
BY DEF ResultInv, classify, category, source_name, medium

\* A visit with a click id is credited to the network of the first.
THEOREM FirstClickIsCredited == Spec => []FirstClickPays
<1>1. TypeOK /\ PaidInv /\ ResultInv => FirstClickPays
  <2> SUFFICES ASSUME TypeOK, PaidInv, ResultInv, pc = "done", FirstOf(ClickIds) # 0
               PROVE  /\ utm.source = None =>
                           source_name = Clicks[page[FirstOf(ClickIds)][1]][1]
                      /\ utm.medium = None => medium = "cpc"
    BY DEF FirstClickPays
  <2> DEFINE k == page[FirstOf(ClickIds)][1]
  <2>1. k \in ClickIds /\ paid = Clicks[k]
    BY PaidIsFirst
  <2> HIDE DEF k
  <2>2. paid # None /\ PaidSource = Clicks[k][1] /\ PaidMedium = "cpc"
    BY <2>1, ClickFacts DEF PaidSource, PaidMedium
  <2>3. PaidSource # None /\ PaidMedium # None
    BY <2>2, PaidGives DEF TypeOK
  <2> QED  BY <2>2, <2>3, ResultIs DEF Or, k
<1> QED  BY <1>1, TypeCorrect, PaidInvHolds, ResultInvHolds, PTL

\* What the campaign leaves open of source and medium has one origin.
THEOREM CreditIsNotMixed == Spec => []NoMixedCredit
<1>1. TypeOK /\ ResultInv => NoMixedCredit
  <2> SUFFICES ASSUME TypeOK, ResultInv, pc = "done",
                      NEW d, d = registrable_domain(referrer),
                      NEW other, other = Or(paid, <<ReferrerSource(d), ReferrerMedium(Category(d))>>)
               PROVE  source_name = Or(utm.source, other[1]) /\ medium = Or(utm.medium, other[2])
    BY DEF NoMixedCredit
  <2>1. paid \in Option({Clicks[k] : k \in ClickIds})
    BY DEF TypeOK
  <2>2. other[1] = Or(PaidSource, ReferrerSource(d))
        /\ other[2] = Or(PaidMedium, ReferrerMedium(Category(d)))
    BY <2>1, PaidGives DEF Or
  <2> QED  BY <2>2, ResultIs DEF Or
<1> QED  BY <1>1, TypeCorrect, ResultInvHolds, PTL

\* A visit is direct where no site referred it; any other has a source and a
\* medium.
THEOREM OnlyDirectLacksCredit == Spec => []CreditUnlessDirect
<1>1. TypeOK /\ PaidInv /\ ResultInv => CreditUnlessDirect
  <2> SUFFICES ASSUME TypeOK, PaidInv, ResultInv, pc = "done",
                      NEW d, d = registrable_domain(referrer)
               PROVE  /\ category = "direct" <=> d = None
                      /\ category # "direct" => source_name # None /\ medium # None
                      /\ category = "direct" /\ FirstOf(ClickIds) = 0 =>
                           source_name = utm.source /\ medium = utm.medium
    BY DEF CreditUnlessDirect
  <2>1. d \in Option(Texts)
    BY DomainIs DEF TypeOK
  <2>2. category = "direct" <=> d = None
    BY CategoryIs, ResultIs
  <2>3. category # "direct" => source_name # None /\ medium # None
    BY <2>1, <2>2, ReferrerGives, ResultIs DEF Or
  <2>4. ASSUME category = "direct", FirstOf(ClickIds) = 0
        PROVE  source_name = utm.source /\ medium = utm.medium
    <3>1. PaidSource = None /\ PaidMedium = None
      BY <2>4, PaidIsFirst DEF PaidSource, PaidMedium
    <3> QED  BY <2>1, <2>2, <2>4, <3>1, ReferrerGives, ResultIs DEF Or
  <2> QED  BY <2>2, <2>3, <2>4
<1> QED  BY <1>1, TypeCorrect, PaidInvHolds, ResultInvHolds, PTL
=============================================================================
