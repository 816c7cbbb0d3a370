----------------------------- MODULE MCProcessor ----------------------------
(***************************************************************************)
(* Processor with texts of three lengths: one every field takes, one only  *)
(* a URL or a user agent may have, one only a user agent.  Two databases   *)
(* place the same address differently and the second may replace the first.*)
(***************************************************************************)
EXTENDS Processor, TLC

Everything == [strategy |-> TRUE, geoip |-> TRUE, ua |-> TRUE,
               classifier |-> TRUE, keep_raw_referrer |-> TRUE]
Bare == [f \in DOMAIN Everything |-> FALSE]
SomeProcessors == {Everything, Bare}
FullProcessors == {Everything}

SomeStrings == {"short", "medium", "long"}
SizeOf == [short |-> 1, medium |-> 2, long |-> 3]
DomainOf == [s \in SomeStrings \union {None} |-> IF s = "medium" THEN "site" ELSE None]

SomeSalts == {<<1, 1>>, <<2, 2>>}
OneSalt == {<<1, 1>>}
SomeIps == {"x"}
SomeDbs == {[reader |-> "a", build_epoch |-> 1, len |-> 100],
            [reader |-> "b", build_epoch |-> 2, len |-> 80]}
OneDb == {d \in SomeDbs : d.reader = "a"}
LocateOf == [a |-> [x |-> "in_a"], b |-> [x |-> "in_b"]]

Plain == [f \in TextFields |-> IF f = "page_url" THEN "short" ELSE None]

\* A page view from a browser, one whose id and user agent were resolved
\* upstream, with long texts that nobody measures, one without an address, and
\* four that validate refuses.
View == [kind |-> "page_view", ip |-> "x", visitor_id |-> None, parsed_ua |-> None,
         text |-> [Plain EXCEPT !["user_agent"] = "long", !["referrer"] = "medium"]]
Resolved == [View EXCEPT !.visitor_id = <<"given">>, !.text["screen_width"] = "long",
                         !.parsed_ua = [f \in UaFields |-> "long"]]
Anonymous == [View EXCEPT !.ip = None, !.text["user_agent"] = None,
                          !.text["utm_source"] = "short",
                          !.text["orientation"] = "short"]
Refused == {[View EXCEPT !.kind = ""],
            [View EXCEPT !.text["page_url"] = "long"],
            [View EXCEPT !.text["entity_id"] = "medium", !.text["session_id"] = "medium"],
            [View EXCEPT !.text["utm_term"] = "medium"]}

SomeRawEvents == {View, Resolved, Anonymous} \union Refused
LiveRawEvents == {View, Resolved, Anonymous}

WorkerSymmetry == Permutations(Workers)
=============================================================================
