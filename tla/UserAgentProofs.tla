--------------------------- MODULE UserAgentProofs --------------------------
(***************************************************************************)
(* The bucket of any user agent, whatever the extractor finds in it and    *)
(* whatever words its texts make where they are joined.                    *)
(***************************************************************************)
EXTENDS UserAgent, TLAPS

\* The texts that derive_device_type joins.
Parts(a, b, c, d) == <<a>> \o Opt(b) \o Opt(c) \o <<d>>
Joined == Parts(Device.family, Device.brand, Device.model, Os.family)

\* An optional text that is there stays.
LEMMA PartsStay ==
  ASSUME NEW a, NEW b, NEW c, NEW d, NEW t \in {a, b, c, d}, t # None
  PROVE  \E k \in 1 .. Len(Parts(a, b, c, d)) : Parts(a, b, c, d)[k] = t
  BY DEF Parts, Opt

\* A word in a text that is there is found in the concatenation.
LEMMA WordsAreFound ==
  ASSUME NEW words, NEW t \in {Device.family, Device.brand, Device.model, Os.family},
         t # None, Words[t] \intersect words # {}
  PROVE  Mentions(words)
<1>1. PICK k \in 1 .. Len(Joined) : Joined[k] = t
  BY PartsStay DEF Joined
<1>2. Words[t] \subseteq Haystack(Joined)
  BY <1>1 DEF Haystack
<1> QED  BY <1>2 DEF Mentions, Joined, Parts

\* Every text of the concatenation is one that is there.
LEMMA PartsAre ==
  ASSUME NEW a, NEW b, NEW c, NEW d, a # None, d # None,
         NEW k \in 1 .. Len(Parts(a, b, c, d))
  PROVE  Parts(a, b, c, d)[k] \in {a, b, c, d} \ {None}
  BY DEF Parts, Opt

\* A word that is found is in a text or arises where texts are joined.
LEMMA FoundIsThere ==
  ASSUME NEW words, Mentions(words), Device.family # None, Os.family # None
  PROVE  \/ Spanning(Joined) \intersect words # {}
         \/ \E t \in {Device.family, Device.brand, Device.model, Os.family} \ {None} :
              Words[t] \intersect words # {}
<1>1. Haystack(Joined) \intersect words # {}
  BY DEF Mentions, Joined, Parts
<1>2. CASE \E k \in 1 .. Len(Joined) : Words[Joined[k]] \intersect words # {}
  BY <1>2, PartsAre DEF Joined
<1> QED  BY <1>1, <1>2 DEF Haystack

\* The result is what derive_device_type says of the argument.
ParsedInv ==
  parsed # None =>
    /\ parsed.is_bot = IsBot
    /\ parsed.os = Os /\ parsed.device = Device
    /\ parsed.device_type = derive_device_type(IsBot)

\* Agents are a set of inputs, buckets one of four or none.
THEOREM TypeCorrect == Spec => []TypeOK
<1>1. Init => TypeOK
  BY DEF Init, TypeOK
<1>2. TypeOK /\ [parse]_vars => TypeOK'
  <2> SUFFICES ASSUME TypeOK, [parse]_vars PROVE TypeOK'
    OBVIOUS
  <2>1. CASE parse
    <3>1. parsed'.device_type \in Buckets \union {None}
      BY <2>1 DEF parse, derive_device_type, Buckets
    <3>2. parsed'.browser.version = join_version(Browser.version)
      BY <2>1 DEF parse
    <3>3. parsed'.browser.version # None => parsed'.browser.version # <<>>
      BY <3>2 DEF join_version
    <3> QED  BY <2>1, <3>1, <3>3 DEF parse, TypeOK
  <2>2. CASE UNCHANGED vars
    BY <2>2 DEF vars, TypeOK
  <2> QED  BY <2>1, <2>2
<1> QED  BY <1>1, <1>2, PTL DEF Spec

\* A parse leaves its buckets as parse computes them.
LEMMA ParsedInvHolds == Spec => []ParsedInv
<1>1. Init => ParsedInv
  BY DEF Init, ParsedInv
<1>2. ParsedInv /\ [parse]_vars => ParsedInv'
  <2> SUFFICES ASSUME ParsedInv, [parse]_vars PROVE ParsedInv'
    OBVIOUS
  <2>1. ua' = ua
    BY DEF parse, vars
  <2>2. IsBot' = IsBot /\ Os' = Os /\ Device' = Device
    BY <2>1 DEF IsBot, Os, Device, Browser, is_self_identifying_bot
  <2>3. derive_device_type(IsBot)' = derive_device_type(IsBot)
    BY <2>2 DEF derive_device_type, Mentions
  <2>4. CASE parse
    BY <2>2, <2>3, <2>4 DEF parse, ParsedInv
  <2>5. CASE UNCHANGED vars
    BY <2>2, <2>3, <2>5 DEF vars, ParsedInv
  <2> QED  BY <2>4, <2>5
<1> QED  BY <1>1, <1>2, PTL DEF Spec

\* Bots are flagged as such, tablets and phones are what a text calls them, and
\* desktops run a desktop system.
THEOREM BucketsAlwaysAgree == Spec => []BucketsAgree
<1>1. TypeOK /\ ParsedInv => BucketsAgree
  <2> SUFFICES ASSUME TypeOK, ParsedInv, parsed # None PROVE BucketsAgree
    BY DEF BucketsAgree
  <2> USE DEF ParsedInv
  <2>1. parsed.is_bot <=> parsed.device_type = "bot"
    BY UserAgentAssumption DEF derive_device_type, Buckets
  <2>2. ASSUME NEW words, Says(words) PROVE Mentions(words)
    <3>1. PICK t \in {Device.family, Device.brand, Device.model, Os.family} \ {None} :
                 Words[t] \intersect words # {}
      BY <2>2 DEF Says
    <3> QED  BY <3>1, WordsAreFound
  <2>3. ~parsed.is_bot /\ Mentions(TABLET) => parsed.device_type = "tablet"
    BY DEF derive_device_type
  <2>4. ~parsed.is_bot /\ (parsed.os.family \in {"iOS", "Android"} \/ Mentions(MOBILE)) =>
          parsed.device_type \in {"tablet", "mobile"}
    BY DEF derive_device_type
  <2>5. parsed.device_type = "tablet" => Mentions(TABLET)
    BY UserAgentAssumption DEF derive_device_type, Buckets
  <2>6. Mentions(TABLET) => Says(TABLET) \/ Accident(TABLET)
    <3>1. Device.family # None /\ Os.family # None
      BY UserAgentAssumption DEF TypeOK, Device, Os, Or
    <3>2. /\ parsed.device.family = Device.family /\ parsed.device.brand = Device.brand
          /\ parsed.device.model = Device.model /\ parsed.os.family = Os.family
      OBVIOUS
    <3> QED  BY <3>1, <3>2, FoundIsThere DEF Says, Accident, Joined, Parts
  <2>7. parsed.device_type = "desktop" => parsed.os.family \in DESKTOP
    BY UserAgentAssumption DEF derive_device_type, Buckets
  <2> QED  BY <2>1, <2>2, <2>3, <2>4, <2>5, <2>6, <2>7 DEF BucketsAgree
<1> QED  BY <1>1, TypeCorrect, ParsedInvHolds, PTL
=============================================================================
