------------------------------ MODULE UserAgent -----------------------------
(***************************************************************************)
(* src/useragent.rs: what UaParserBuiltin::parse makes of a user agent and *)
(* of what the extractor found in it.  The extractor and its regexes are   *)
(* external (module Processor models how it is built and shared).          *)
(*                                                                         *)
(* A text stands for the words of interest in it, in any case of letters.  *)
(* Where texts are joined, a word may begin in one and end in another.     *)
(***************************************************************************)
EXTENDS Integers, Sequences

CONSTANTS
  None,
  Agents,    \* [words, browser, os, device]: a user agent and what is found in it
  Words,     \* Words[t]: the words in an extracted text t
  Spanning(_)  \* words that arise where a sequence of texts is joined

MARKERS ==
  {"gptbot", "claudebot", "claude-web", "anthropic-ai", "perplexitybot", "bytespider",
   "amazonbot", "ccbot", "google-extended", "applebot", "bingbot", "yandexbot",
   "duckduckbot", "baiduspider", "curl/", "wget/", "python-requests", "go-http-client",
   "node-fetch", "axios/", "okhttp", "libwww-perl", "scrapy"}
TABLET == {"ipad", "tablet", "kindle"}
MOBILE == {"mobile", "phone", "iphone"}
DESKTOP == {"Windows", "Mac OS X", "Linux", "Chrome OS", "Ubuntu", "Fedora", "Debian",
            "Chromium OS"}

Buckets == {"bot", "tablet", "mobile", "desktop"}

\* What the extractor finds has a family; brand and model are optional.
ASSUME UserAgentAssumption ==
  /\ None \notin Buckets \union {"", "Other"}
  /\ \A a \in Agents : /\ a.os # None => a.os.family # None
                       /\ a.device # None => a.device.family # None

VARIABLES
  ua,      \* the argument of parse, with what the extractor finds
  parsed   \* the ParsedUa, None before

vars == <<ua, parsed>>

Init == ua \in Agents /\ parsed = None

-----------------------------------------------------------------------------
(* Operators named Mutant... are plausible bugs; no action uses them.      *)

\* unwrap_or_default and unwrap_or_else, where the extractor found nothing.
Or(found, default) == IF found = None THEN default ELSE found
NoVersion == <<None, None, None>>
Browser == Or(ua.browser, [name |-> "", version |-> NoVersion])
Os == Or(ua.os, [family |-> "", version |-> NoVersion])
Device == Or(ua.device, [family |-> "Other", brand |-> None, model |-> None])

\* An optional text as a sequence.
Opt(t) == IF t = None THEN <<>> ELSE <<t>>

Flatten(v) == Opt(v[1]) \o Opt(v[2]) \o Opt(v[3])

\* No parts make an empty text.
MutantJoinVersion(v) == Flatten(v)

\* Major, minor and patch, those that are there; the dots are left out.
join_version(v) == IF Flatten(v) = <<>> THEN None ELSE Flatten(v)

is_self_identifying_bot == ua.words \intersect MARKERS # {}

\* The words in the concatenation.
Haystack(parts) ==
  Spanning(parts) \union UNION {Words[parts[k]] : k \in 1 .. Len(parts)}

Mentions(words) ==
  Haystack(<<Device.family>> \o Opt(Device.brand) \o Opt(Device.model) \o <<Os.family>>)
    \intersect words # {}

\* The desktop systems first.
MutantDeviceType(is_bot) ==
  IF is_bot THEN "bot"
  ELSE IF Os.family \in DESKTOP THEN "desktop"
  ELSE IF Mentions(TABLET) THEN "tablet"
  ELSE IF Os.family \in {"iOS", "Android"} \/ Mentions(MOBILE) THEN "mobile"
  ELSE None

derive_device_type(is_bot) ==
  IF is_bot THEN "bot"
  ELSE IF Mentions(TABLET) THEN "tablet"
  ELSE IF Os.family \in {"iOS", "Android"} \/ Mentions(MOBILE) THEN "mobile"
  ELSE IF Os.family \in DESKTOP THEN "desktop"
  ELSE None

IsBot ==
  \/ Device.family = "Spider"
  \/ Browser.name = "HeadlessChrome"
  \/ is_self_identifying_bot

parse ==
  /\ parsed = None
  /\ parsed' = [is_bot |-> IsBot,
                browser |-> [name |-> Browser.name, version |-> join_version(Browser.version)],
                os |-> Os, device |-> Device,
                device_type |-> derive_device_type(IsBot)]
  /\ UNCHANGED ua

Spec == Init /\ [][parse]_vars

-----------------------------------------------------------------------------
(* Properties.                                                             *)

TypeOK ==
  /\ ua \in Agents
  /\ parsed # None =>
       /\ parsed.device_type \in Buckets \union {None}
       /\ parsed.browser.version # None => parsed.browser.version # <<>>

\* Whether one of the extracted texts has one of these words, and whether one
\* only arises where two of them meet: a brand XiaoMi of a model Pad 5.
Says(words) ==
  \E t \in {parsed.device.family, parsed.device.brand, parsed.device.model,
           parsed.os.family} \ {None} : Words[t] \intersect words # {}
Accident(words) ==
  Spanning(<<parsed.device.family>> \o Opt(parsed.device.brand) \o Opt(parsed.device.model)
             \o <<parsed.os.family>>) \intersect words # {}

\* README.md, useragent: the bucket is mobile, tablet, desktop or bot.  It
\* agrees with is_bot, also for a spider that poses as a phone.  What a text
\* calls a tablet is one, also on Android or with a phone's word beside it; what
\* a text calls a phone, and any other iOS or Android device, is never counted
\* as a desktop or not at all, whatever system it names.  Without such a text a
\* tablet is one only by accident of joining, and a desktop runs a desktop system.
BucketsAgree ==
  parsed # None =>
    /\ parsed.is_bot <=> parsed.device_type = "bot"
    /\ ~parsed.is_bot /\ Says(TABLET) => parsed.device_type = "tablet"
    /\ ~parsed.is_bot /\ (parsed.os.family \in {"iOS", "Android"} \/ Says(MOBILE)) =>
         parsed.device_type \in {"tablet", "mobile"}
    /\ parsed.device_type = "tablet" => Says(TABLET) \/ Accident(TABLET)
    /\ parsed.device_type = "desktop" => parsed.os.family \in DESKTOP
=============================================================================
