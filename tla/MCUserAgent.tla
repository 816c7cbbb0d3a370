----------------------------- MODULE MCUserAgent ----------------------------
(***************************************************************************)
(* UserAgent with devices, brands, models and systems of every bucket, and *)
(* one brand whose last letter makes "ipad" with a model.                  *)
(***************************************************************************)
EXTENDS UserAgent, TLC

WordsIn == [iPad |-> {"ipad"}, iPhone |-> {"phone", "iphone"}, MyPhone |-> {"phone"}]
             @@ ("Windows Phone" :> {"phone"}) @@ ("Generic Tablet" :> {"tablet"})

Devices == {"iPad", "iPhone", "Generic Tablet", "Mac", "Other", "Spider"}
Brands == {"XiaoMi", "MyPhone", "Apple", None}
Models == {"Pad 5", "iPhone", None}
Systems == {"iOS", "Android", "Windows Phone", "Linux", "Mac OS X", "BSD"}

Texts == (Devices \union Brands \union Models \union Systems \union {""}) \ {None}
WordsOf == [t \in Texts |-> IF t \in DOMAIN WordsIn THEN WordsIn[t] ELSE {}]
SpanningOf(parts) ==
  IF \E k \in 1 .. Len(parts) - 1 : <<parts[k], parts[k + 1]>> = <<"XiaoMi", "Pad 5">>
  THEN {"ipad"} ELSE {}

Versions == {<<"17", "0", None>>, <<"17", None, None>>, <<None, None, None>>}

SomeAgents ==
  [words : {{}, {"curl/"}, {"mobile"}},
   browser : {None} \union [name : {"Chrome", "HeadlessChrome"}, version : Versions],
   os : {None} \union [family : Systems, version : {<<"17", "0", None>>}],
   device : {None} \union [family : Devices, brand : Brands, model : Models]]
=============================================================================
