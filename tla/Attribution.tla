----------------------------- MODULE Attribution ----------------------------
(***************************************************************************)
(* src/referrer.rs and src/classify.rs: where a page view came from.  The  *)
(* consumer may take the UTM parameters out of the page's URL with         *)
(* extract_utm; process validates them, looks for a click id in the same   *)
(* URL, and classifies the referrer.                                       *)
(*                                                                         *)
(* The loops over the query take a pair per step.  A page is the sequence  *)
(* of pairs in its query, empty also where the URL does not parse.  URL    *)
(* parsing and the public suffix list are external.                        *)
(***************************************************************************)
EXTENDS Integers, Sequences

CONSTANTS
  None,
  Texts,       \* keys and values of queries, and domains
  Pages,       \* sequences of <<key, value>>
  Referrers,   \* None or [scheme, host]; host None where there is none
  Canonical,   \* Canonical[h]: host h in lower case, without trailing dots
  Addresses,   \* the hosts that are addresses
  DomainStr,   \* psl::domain_str of a canonical host, None if it has none
  Label,       \* Label[d]: what precedes the public suffix of domain d, or None
  Size, MAX_UTM

\* extract_utm: the keys that fill each field.
Keys ==
  [source   |-> {"utm_source", "source", "ref"},
   medium   |-> {"utm_medium", "medium"},
   campaign |-> {"utm_campaign", "campaign"},
   content  |-> {"utm_content", "content"},
   term     |-> {"utm_term", "term"}]
Utm == DOMAIN Keys

\* paid_click: source name and medium of each click id.
Google == <<"google", "cpc">>
Clicks == [gclid |-> Google, gbraid |-> Google, wbraid |-> Google,
           msclkid |-> <<"bing", "cpc">>]
ClickIds == DOMAIN Clicks

\* Domains by category and source name; no domain occurs twice.
TABLE ==
  [search |->
    [duckduckgo |-> {"duckduckgo.com"}, brave |-> {"brave.com"},
     naver |-> {"naver.com"}, sogou |-> {"sogou.com"}, seznam |-> {"seznam.cz"},
     ask |-> {"ask.com"}, aol |-> {"aol.com"}, kagi |-> {"kagi.com"}, yandex |-> {"ya.ru"}],
   social |->
    [facebook |-> {"facebook.com", "fb.com"}, youtube |-> {"youtube.com", "youtu.be"},
     instagram |-> {"instagram.com"}, tiktok |-> {"tiktok.com"},
     twitter |-> {"twitter.com", "x.com", "t.co"}, linkedin |-> {"linkedin.com", "lnkd.in"},
     reddit |-> {"reddit.com"}, pinterest |-> {"pinterest.com"},
     telegram |-> {"t.me", "telegram.org"}, bluesky |-> {"bsky.app"},
     snapchat |-> {"snapchat.com"}, threads |-> {"threads.net", "threads.com"},
     whatsapp |-> {"whatsapp.com", "wa.me"}, discord |-> {"discord.com", "discord.gg"},
     tumblr |-> {"tumblr.com"}, vk |-> {"vk.com"}, weibo |-> {"weibo.com"},
     quora |-> {"quora.com"}, medium |-> {"medium.com"}, twitch |-> {"twitch.tv"},
     substack |-> {"substack.com"}, hackernews |-> {"ycombinator.com"},
     line |-> {"line.me"}, xing |-> {"xing.com"}, flipboard |-> {"flipboard.com"},
     mastodon |-> {"mastodon.social"}]]

\* Search engines with many suffixes, named for their label.
LABEL_TABLE ==
  {"google", "bing", "yahoo", "yandex", "baidu", "ecosia", "qwant", "startpage"}

Option(S) == S \union {None}
SourceNames == LABEL_TABLE \union UNION {DOMAIN TABLE[c] : c \in DOMAIN TABLE}
Mediums == {"cpc", "organic", "social", "referral"}
TrafficSource ==
  {"direct", "search", "social", "referral"}
    \X Option(Texts \union SourceNames) \X Option(Texts \union Mediums)

ASSUME AttributionAssumption ==
  /\ Pages \subseteq Seq(Texts \X Texts)
  /\ \A h \in DOMAIN DomainStr : DomainStr[h] \in Option(Texts)
  /\ \A r \in Referrers :
       r # None /\ r.host \notin Addresses \union {None} => Canonical[r.host] \in DOMAIN DomainStr
  /\ None \notin Texts \union SourceNames \union Mediums
  /\ None \notin SourceNames \X Mediums /\ None \notin TrafficSource
  /\ None \notin {"search", "social"} \X SourceNames

VARIABLES
  page, referrer,
  extracts,        \* whether the consumer calls extract_utm
  pc,              \* "extract", "raw", "paid", "classify"; "refused" or "done" at the end
  i,               \* the next pair of the loop
  utm,             \* context.utm
  paid,            \* what paid_click returns
  traffic_source   \* <<category, source_name, medium>>

inputs == <<page, referrer, extracts>>
vars == <<inputs, pc, i, utm, paid, traffic_source>>

Init ==
  /\ page \in Pages /\ referrer \in Referrers /\ extracts \in BOOLEAN
  /\ pc = IF extracts THEN "extract" ELSE "raw"
  /\ i = 1
  /\ utm = [f \in Utm |-> None]
  /\ paid = None /\ traffic_source = None

-----------------------------------------------------------------------------
(* Operators named Mutant... are plausible bugs; no action uses them.      *)

\* insert in place of get_or_insert.
MutantFill(u, key, value) == [f \in Utm |-> IF key \in Keys[f] THEN value ELSE u[f]]

\* get_or_insert.
Fill(u, key, value) ==
  [f \in Utm |-> IF key \in Keys[f] /\ u[f] = None THEN value ELSE u[f]]

ExtractPair ==
  /\ pc = "extract" /\ i <= Len(page)
  /\ utm' = Fill(utm, page[i][1], page[i][2])
  /\ i' = i + 1
  /\ UNCHANGED <<inputs, pc, paid, traffic_source>>

Extracted ==
  /\ pc = "extract" /\ i > Len(page)
  /\ pc' = "raw" /\ i' = 1
  /\ UNCHANGED <<inputs, utm, paid, traffic_source>>

\* A value of the length of the limit is refused.
MutantTooLong == \E f \in Utm : utm[f] # None /\ Size[utm[f]] >= MAX_UTM

\* validate, as far as UTM parameters go.
TooLong == \E f \in Utm : utm[f] # None /\ Size[utm[f]] > MAX_UTM

Validate ==
  /\ pc = "raw"
  /\ pc' = IF TooLong THEN "refused" ELSE "paid"
  /\ UNCHANGED <<inputs, i, utm, paid, traffic_source>>

\* The loop goes on after a match.
MutantLastClick ==
  /\ pc = "paid" /\ i <= Len(page)
  /\ paid' = IF page[i][1] \in ClickIds THEN Clicks[page[i][1]] ELSE paid
  /\ i' = i + 1
  /\ UNCHANGED <<inputs, pc, utm, traffic_source>>

\* A pair in the loop of paid_click, which returns at the first click id.
ClickPair ==
  /\ pc = "paid" /\ i <= Len(page)
  /\ IF page[i][1] \in ClickIds
     THEN paid' = Clicks[page[i][1]] /\ pc' = "classify" /\ UNCHANGED i
     ELSE i' = i + 1 /\ UNCHANGED <<pc, paid>>
  /\ UNCHANGED <<inputs, utm, traffic_source>>

NoClick ==
  /\ pc = "paid" /\ i > Len(page)
  /\ pc' = "classify"
  /\ UNCHANGED <<inputs, i, utm, paid, traffic_source>>

-----------------------------------------------------------------------------
registrable_domain(r) ==
  IF r = None \/ r.scheme \notin {"http", "https"} \/ r.host \in Addresses \union {None}
  THEN None ELSE DomainStr[Canonical[r.host]]

sld_label(d) == Label[d]

\* TABLE first, then LABEL_TABLE: <<category, source name>> or None.
Listed(d) ==
  UNION {{<<c, n>> : n \in {m \in DOMAIN TABLE[c] : d \in TABLE[c][m]}} : c \in DOMAIN TABLE}
Known(d) ==
  IF d = None THEN None
  ELSE IF Listed(d) # {} THEN CHOOSE row \in Listed(d) : TRUE
  ELSE IF sld_label(d) \in LABEL_TABLE THEN <<"search", sld_label(d)>>
  ELSE None

Category(d) ==
  IF d = None THEN "direct" ELSE IF Known(d) # None THEN Known(d)[1] ELSE "referral"

\* or_else.
Or(a, b) == IF a # None THEN a ELSE b

\* What the referrer alone says.
ReferrerSource(d) == IF Known(d) # None THEN Known(d)[2] ELSE d

\* An unknown site has no medium.
MutantReferrerMedium(c) ==
  IF c = "search" THEN "organic" ELSE IF c = "social" THEN c ELSE None

ReferrerMedium(c) ==
  IF c = "search" THEN "organic" ELSE IF c \in {"social", "referral"} THEN c ELSE None

PaidSource == IF paid = None THEN None ELSE paid[1]
PaidMedium == IF paid = None THEN None ELSE paid[2]

\* The medium of the referrer's category before the click's.
MutantClassify(d) ==
  <<Category(d),
    Or(utm.source, Or(PaidSource, ReferrerSource(d))),
    Or(utm.medium, Or(ReferrerMedium(Category(d)), PaidMedium))>>

classify(d) ==
  <<Category(d),
    Or(utm.source, Or(PaidSource, ReferrerSource(d))),
    Or(utm.medium, Or(PaidMedium, ReferrerMedium(Category(d))))>>

\* A direct visit is not classified.
MutantUnanswered ==
  /\ pc = "classify"
  /\ traffic_source' = IF registrable_domain(referrer) = None THEN None
                       ELSE classify(registrable_domain(referrer))
  /\ pc' = "done"
  /\ UNCHANGED <<inputs, i, utm, paid>>

Classify ==
  /\ pc = "classify"
  /\ traffic_source' = classify(registrable_domain(referrer))
  /\ pc' = "done"
  /\ UNCHANGED <<inputs, i, utm, paid>>

Next ==
  \/ ExtractPair \/ Extracted
  \/ Validate
  \/ ClickPair \/ NoClick
  \/ Classify

Spec == Init /\ [][Next]_vars

-----------------------------------------------------------------------------
(* Properties.                                                             *)

TypeOK ==
  /\ page \in Pages /\ referrer \in Referrers /\ extracts \in BOOLEAN
  /\ pc \in {"extract", "raw", "refused", "paid", "classify", "done"}
  /\ i \in 1 .. Len(page) + 1
  /\ utm \in [Utm -> Option(Texts)]
  /\ paid \in Option({Clicks[k] : k \in ClickIds})
  /\ traffic_source \in Option(TrafficSource)
  /\ traffic_source # None <=> pc = "done"

\* The first pair of the query whose key is one of keys, 0 if there is none.
FirstOf(keys) ==
  IF \A j \in 1 .. Len(page) : page[j][1] \notin keys THEN 0
  ELSE CHOOSE j \in 1 .. Len(page) :
         page[j][1] \in keys /\ \A k \in 1 .. j - 1 : page[k][1] \notin keys

\* What the page's URL says of a UTM field.
Said(f) == IF FirstOf(Keys[f]) = 0 THEN None ELSE page[FirstOf(Keys[f])][2]

\* src/referrer.rs, extract_utm: of the aliases of a parameter the first in the
\* URL counts, an empty one too, whatever repeats or other aliases follow.
FirstAliasWins ==
  extracts /\ pc # "extract" => \A f \in Utm : utm[f] = Said(f)

\* process refuses an event for its URL's campaign exactly where a value that
\* counts is too long; a long repeat costs nobody the event.
RefusedForWhatCounts ==
  LET long == extracts /\ \E f \in Utm : Said(f) # None /\ Size[Said(f)] > MAX_UTM
  IN  (pc = "refused" => long) /\ (pc = "done" => ~long)

category == traffic_source[1]
source_name == traffic_source[2]
medium == traffic_source[3]

\* A click id in the URL makes the visit a paid one of the first click's
\* network, whatever the referrer: only the campaign's own words override it.
FirstClickPays ==
  pc = "done" /\ FirstOf(ClickIds) # 0 =>
    /\ utm.source = None => source_name = Clicks[page[FirstOf(ClickIds)][1]][1]
    /\ utm.medium = None => medium = "cpc"

\* Source and medium are found separately but belong together: what the campaign
\* leaves open comes from one other origin, the click if there is one and the
\* referrer otherwise.  So a campaign that gives only one of them is completed by
\* the click where there is one, whatever site referred the visit.
NoMixedCredit ==
  pc = "done" =>
    LET d == registrable_domain(referrer)
        other == Or(paid, <<ReferrerSource(d), ReferrerMedium(Category(d))>>)
    IN  source_name = Or(utm.source, other[1]) /\ medium = Or(utm.medium, other[2])

\* Tests of src/classify.rs, taken together: a visit is direct exactly where no
\* site referred it, campaign or not; any other has a source and a medium; and
\* a direct one has none that the URL does not give it.
CreditUnlessDirect ==
  pc = "done" =>
    /\ category = "direct" <=> registrable_domain(referrer) = None
    /\ category # "direct" => source_name # None /\ medium # None
    /\ category = "direct" /\ FirstOf(ClickIds) = 0 =>
         source_name = utm.source /\ medium = utm.medium
=============================================================================
