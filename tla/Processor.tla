------------------------------ MODULE Processor -----------------------------
(***************************************************************************)
(* src/processor.rs: one Processor behind an Arc, whose process is called  *)
(* by many threads while the salt of its visitor id strategy is rotated    *)
(* and its GeoIP database reloaded.  Composes the salt cell (module Salt), *)
(* the database as the atomic object that one reloading thread makes of it *)
(* (module GeoIpPromise) and the lazily built extractor of the user agent  *)
(* parser (src/useragent.rs).                                              *)
(*                                                                         *)
(* process reads shared state three times: the salt, the database, the     *)
(* extractor.  Each read is an action, and the computation between two of  *)
(* them belongs to the earlier one.  A pure function whose value matters   *)
(* only for being the same again stands for its argument: the strategy's   *)
(* hash, UaParser::parse and Classifier::classify return their arguments.  *)
(***************************************************************************)
EXTENDS Salt

CONSTANTS
  Workers,     \* threads that call process
  Processors,  \* what ProcessorBuilder::build may return
  RawEvents,   \* arguments of process
  Strings,     \* texts in them
  Size,        \* Size[s]: the length of a text in bytes
  Domain,      \* Domain[s]: registrable_domain, None where there is none
  BadKinds,    \* kinds that validate_custom_kind refuses
  MAX_URL, MAX_ID, MAX_UTM, MAX_UA,
  Ips, Dbs, Locate

\* The components of a Processor: present or not, and the referrer flag.
Built == [strategy : BOOLEAN, geoip : BOOLEAN, ua : BOOLEAN,
          classifier : BOOLEAN, keep_raw_referrer : BOOLEAN]

UtmFields == {"utm_source", "utm_medium", "utm_campaign", "utm_content", "utm_term"}
ContextFields == UtmFields \union {"screen_width", "orientation"}
TextFields == {"page_url", "referrer", "user_agent", "entity_id", "session_id"}
                \union ContextFields
\* Those process hands on.
KeptFields == {"page_url", "entity_id", "session_id"} \union ContextFields

\* The parts of a ParsedUa, each for the longest of its texts.
UaFields == {"device", "browser", "os"}

ASSUME ProcessorAssumption ==
  /\ Processors \subseteq Built
  /\ Size \in [Strings -> Nat]
  /\ None \in DOMAIN Domain /\ Domain[None] = None
  /\ \A r \in RawEvents :
       /\ r.text \in [TextFields -> Strings \union {None}]
       /\ r.parsed_ua \in [UaFields -> Strings] \union {None}
       /\ r.ip \in Ips \union {None}
  /\ {MAX_URL, MAX_ID, MAX_UTM, MAX_UA} \subseteq Nat
  /\ None \notin TextFields \union {"event_kind_custom"}

VARIABLES
  processor,  \* what was built
  db,         \* the database in force
  extractor,  \* the OnceLock: "empty", "building" or "ready"
  pc,         \* pc[w]: where the call of thread w stands
  raw,        \* raw[w]: its argument
  visitor_id, location,  \* locals of process
  result,     \* result[w]: what its last call returned
  seen        \* auxiliary: see Publish

sharedVars == <<saltVars, processor, db, extractor>>
callVars == <<pc, raw, visitor_id, location, result, seen>>
vars == <<sharedVars, callVars>>

\* The database without lookups of its own.
GeoIp == INSTANCE GeoIpPromise WITH
           Lookers <- {}, phase <- <<>>, query <- <<>>, reply <- <<>>

-----------------------------------------------------------------------------
\* ProcessorBuilder::build, a strategy over an ArcSwapSalt from try_new.
Init ==
  /\ processor \in Processors
  /\ provider = "ArcSwapSalt" /\ checked = TRUE /\ outcome = "ok"
  /\ cell \in {s \in Salts : LongEnough(s)}
  /\ db \in Dbs \union {None} /\ (processor.geoip \/ db = None)
  /\ extractor = "empty"
  /\ pc = [w \in Workers |-> "idle"]
  /\ raw = [w \in Workers |-> None]
  /\ visitor_id = [w \in Workers |-> None]
  /\ location = [w \in Workers |-> None]
  /\ result = [w \in Workers |-> None]
  /\ seen = [w \in Workers |-> {}]

\* seen[w] holds the pairs of a salt in force at some moment of the call of w
\* and a database in force at that moment or later in the call.
Publish(s, d) ==
  seen' = [w \in Workers |->
             IF pc[w] = "idle" THEN seen[w]
             ELSE seen[w] \union {<<s, d>>} \union {<<p[1], d>> : p \in seen[w]}]

Rotate ==
  \E s \in Salts :
    /\ set(s)
    /\ Publish(s, db)
    /\ UNCHANGED <<processor, db, extractor, pc, raw, visitor_id, location, result>>

Reload ==
  \E d \in Dbs :
    /\ processor.geoip
    /\ GeoIp!Reload(d)
    /\ Publish(cell, d)
    /\ UNCHANGED <<saltVars, processor, extractor, pc, raw, visitor_id, location, result>>

-----------------------------------------------------------------------------
(* Operators named Mutant... are plausible bugs; no action uses them.      *)

MutantUtmUnchecked(f) ==
  CASE f \in {"page_url", "referrer"} -> MAX_URL
    [] f \in {"entity_id", "session_id"} -> MAX_ID
    [] OTHER -> MAX_UA

Limit(f) ==
  CASE f \in {"page_url", "referrer"} -> MAX_URL
    [] f = "user_agent" -> MAX_UA
    [] f \in {"entity_id", "session_id"} -> MAX_ID
    [] f \in UtmFields -> MAX_UTM

Order == <<"page_url", "referrer", "user_agent", "entity_id", "session_id",
           "utm_source", "utm_medium", "utm_campaign", "utm_content", "utm_term">>

\* A text of exactly the limit is too long already.
MutantAtLimit(r, k) ==
  r.text[Order[k]] # None /\ Size[r.text[Order[k]]] >= Limit(Order[k])

TooLong(r, k) ==
  r.text[Order[k]] # None /\ Size[r.text[Order[k]]] > Limit(Order[k])

\* validate: the error of the first check that fails, None when all pass.
validate(r) ==
  CASE r.kind \in BadKinds -> "event_kind_custom"
    [] r.kind \notin BadKinds /\ (\E k \in DOMAIN Order : TooLong(r, k)) ->
         Order[CHOOSE k \in DOMAIN Order :
                 TooLong(r, k) /\ \A j \in 1 .. k - 1 : ~TooLong(r, j)]
    [] r.kind \notin BadKinds /\ (\A k \in DOMAIN Order : ~TooLong(r, k)) -> None

\* A call that ends in an error reads nothing shared.
Reject(w, r) ==
  /\ pc[w] = "idle"
  /\ validate(r) # None
  /\ raw' = [raw EXCEPT ![w] = r]
  /\ result' = [result EXCEPT ![w] = [err |-> validate(r)]]
  /\ seen' = [seen EXCEPT ![w] = {}]
  /\ UNCHANGED <<sharedVars, pc, visitor_id, location>>

Begin(w, r) ==
  /\ pc[w] = "idle"
  /\ validate(r) = None
  /\ raw' = [raw EXCEPT ![w] = r]
  /\ result' = [result EXCEPT ![w] = None]
  /\ seen' = [seen EXCEPT ![w] = {<<cell, db>>}]
  /\ pc' = [pc EXCEPT ![w] = "visitor"]
  /\ UNCHANGED <<sharedVars, visitor_id, location>>

\* compute: a hash of the event and the salt, None without an address.
Hashed(r, s) ==
  IF r.ip = None THEN None
  ELSE <<r.ip, r.text["user_agent"], r.text["entity_id"], s>>

\* (1) The id given with the event, the strategy's otherwise.
VisitorId(w) ==
  /\ pc[w] = "visitor"
  /\ visitor_id' = [visitor_id EXCEPT ![w] =
       CASE raw[w].visitor_id # None -> raw[w].visitor_id
         [] raw[w].visitor_id = None /\ processor.strategy -> Hashed(raw[w], cell)
         [] raw[w].visitor_id = None /\ ~processor.strategy -> None]
  /\ pc' = [pc EXCEPT ![w] = "geo"]
  /\ UNCHANGED <<sharedVars, raw, location, result, seen>>

\* (2)
Location(w) ==
  /\ pc[w] = "geo"
  /\ location' = [location EXCEPT ![w] =
       IF processor.geoip /\ raw[w].ip # None THEN GeoIp!Answer(db, raw[w].ip) ELSE None]
  /\ pc' = [pc EXCEPT ![w] = "ua"]
  /\ UNCHANGED <<sharedVars, raw, visitor_id, result, seen>>

-----------------------------------------------------------------------------
\* The parser runs whatever the event brings.
MutantAlwaysParse(r) == processor.ua /\ r.text["user_agent"] # None

\* resolve_ua reaches UaParserBuiltin::parse, which needs the extractor.
Parses(r) == r.parsed_ua = None /\ processor.ua /\ r.text["user_agent"] # None

\* (3) What resolve_ua returns.
resolve_ua(r) ==
  CASE r.parsed_ua # None -> r.parsed_ua
    [] r.parsed_ua = None /\ Parses(r) -> <<"parsed", r.text["user_agent"]>>
    [] OTHER -> None

\* (4) resolve_referrer, with the classifier's context for its answer.
resolve_referrer(r) ==
  LET domain == Domain[r.text["referrer"]] IN
  [referrer |-> domain,
   traffic_source |->
     IF processor.classifier
     THEN <<domain, r.text["referrer"], [f \in UtmFields |-> r.text[f]], r.text["page_url"]>>
     ELSE None]

\* The id is computed where the event is put together.
MutantIdLast(w) ==
  [kind |-> raw[w].kind,
   visitor_id |-> IF raw[w].visitor_id = None /\ processor.strategy
                  THEN Hashed(raw[w], cell) ELSE raw[w].visitor_id,
   location |-> location[w],
   ua |-> resolve_ua(raw[w]),
   source |-> resolve_referrer(raw[w]),
   raw_referrer |-> IF processor.keep_raw_referrer THEN raw[w].text["referrer"] ELSE None,
   text |-> [f \in KeptFields |-> raw[w].text[f]]]

\* (5) The Event: device, browser, os and bot are the field ua.
Assembled(w) ==
  [kind |-> raw[w].kind,
   visitor_id |-> visitor_id[w],
   location |-> location[w],
   ua |-> resolve_ua(raw[w]),
   source |-> resolve_referrer(raw[w]),
   raw_referrer |-> IF processor.keep_raw_referrer THEN raw[w].text["referrer"] ELSE None,
   text |-> [f \in KeptFields |-> raw[w].text[f]]]

\* get_or_init of an empty OnceLock: this thread runs the closure.
BuildExtractor(w) ==
  /\ pc[w] = "ua" /\ Parses(raw[w])
  /\ extractor = "empty"
  /\ extractor' = "building"
  /\ pc' = [pc EXCEPT ![w] = "building"]
  /\ UNCHANGED <<saltVars, processor, db, raw, visitor_id, location, result, seen>>

\* The closure returns without having stored anything.
MutantNotStored(w) ==
  /\ pc[w] = "building"
  /\ pc' = [pc EXCEPT ![w] = "ua"]
  /\ UNCHANGED <<sharedVars, raw, visitor_id, location, result, seen>>

\* The closure returns, the extractor is there for everyone.
ExtractorReady(w) ==
  /\ pc[w] = "building"
  /\ extractor' = "ready"
  /\ pc' = [pc EXCEPT ![w] = "ua"]
  /\ UNCHANGED <<saltVars, processor, db, raw, visitor_id, location, result, seen>>

\* EXTRACTOR.get() in place of get_or_init once somebody is building it.
MutantNoWait(w) ==
  /\ pc[w] = "ua"
  /\ Parses(raw[w]) => extractor # "empty"
  /\ result' = [result EXCEPT ![w] = [ok |->
       IF Parses(raw[w]) /\ extractor = "building"
       THEN [Assembled(w) EXCEPT !.ua = None] ELSE Assembled(w)]]
  /\ visitor_id' = [visitor_id EXCEPT ![w] = None]
  /\ location' = [location EXCEPT ![w] = None]
  /\ pc' = [pc EXCEPT ![w] = "idle"]
  /\ UNCHANGED <<sharedVars, raw, seen>>

\* A thread that parses waits for the extractor; the others pass.
Return(w) ==
  /\ pc[w] = "ua"
  /\ Parses(raw[w]) => extractor = "ready"
  /\ result' = [result EXCEPT ![w] = [ok |-> Assembled(w)]]
  /\ visitor_id' = [visitor_id EXCEPT ![w] = None]
  /\ location' = [location EXCEPT ![w] = None]
  /\ pc' = [pc EXCEPT ![w] = "idle"]
  /\ UNCHANGED <<sharedVars, raw, seen>>

\* The steps of a call that has begun.
Step(w) ==
  \/ VisitorId(w)
  \/ Location(w)
  \/ BuildExtractor(w)
  \/ ExtractorReady(w)
  \/ Return(w)

Next ==
  \/ Rotate
  \/ Reload
  \/ \E w \in Workers :
       \/ \E r \in RawEvents : Reject(w, r) \/ Begin(w, r)
       \/ Step(w)

Spec == Init /\ [][Next]_vars

-----------------------------------------------------------------------------
(* Properties.                                                             *)

TypeOK ==
  /\ SaltTypeOK /\ cell \in Salts
  /\ processor \in Built
  /\ db \in Dbs \union {None}
  /\ extractor \in {"empty", "building", "ready"}
  /\ pc \in [Workers -> {"idle", "visitor", "geo", "ua", "building"}]
  /\ raw \in [Workers -> RawEvents \union {None}]
  /\ \A w \in Workers : pc[w] # "idle" => raw[w] \in RawEvents /\ result[w] = None
  /\ extractor = "building" <=> \E w \in Workers : pc[w] = "building"
  /\ \A v, w \in Workers : pc[v] = "building" /\ pc[w] = "building" => v = w
  /\ DOMAIN visitor_id = Workers
  /\ DOMAIN location = Workers
  /\ DOMAIN result = Workers
  /\ seen \in [Workers -> SUBSET (Salts \X (Dbs \union {None}))]

Emitted(w) == pc[w] = "idle" /\ result[w] # None /\ "ok" \in DOMAIN result[w]
Event(w) == result[w].ok

\* The two parts of an event that depend on when it was processed.
IdUnder(r, s) ==
  CASE r.visitor_id # None -> r.visitor_id
    [] r.visitor_id = None /\ processor.strategy /\ r.ip # None ->
         <<r.ip, r.text["user_agent"], r.text["entity_id"], s>>
    [] r.visitor_id = None /\ ~(processor.strategy /\ r.ip # None) -> None
PlaceUnder(r, d) ==
  IF processor.geoip /\ d # None /\ r.ip # None THEN Locate[d.reader][r.ip] ELSE None

\* README.md: build once, share behind an Arc.  Whatever is rotated and
\* reloaded meanwhile, process gives an event one salt and one database, both
\* in force during its call and the database no earlier than the salt.  So an
\* operator who reloads first and rotates afterwards never sees an event with
\* the new salt located by the old database.
OneSaltThenOneDatabase ==
  \A w \in Workers : Emitted(w) =>
    \E p \in seen[w] : /\ Event(w).visitor_id = IdUnder(raw[w], p[1])
                       /\ Event(w).location = PlaceUnder(raw[w], p[2])

\* Test is_deterministic of processor.rs, for threads: two calls of process
\* with the same event, while salt and database stay as they are, return the
\* same, and so whichever of them had to build the extractor.
Deterministic ==
  \A v, w \in Workers :
    /\ pc[v] = "idle" /\ pc[w] = "idle"
    /\ raw[v] = raw[w] /\ seen[v] = seen[w] /\ \E p \in seen[v] : seen[v] = {p}
    => result[v] = result[w]

\* The limits at the top of src/processor.rs, and the texts without one.
StatedLimit(f) ==
  IF f \in UtmFields THEN MAX_UTM
  ELSE IF f \in {"entity_id", "session_id"} THEN MAX_ID
  ELSE IF f = "user_agent" THEN MAX_UA ELSE MAX_URL
Unlimited == {"screen_width", "orientation"} \union UaFields

\* The texts of the RawEvent that its Event holds, with their fields.  The kind
\* and the visitor id, which types of their own bound, are left to module Wire.
HandedOn(w) ==
  {<<f, Event(w).text[f]>> : f \in KeptFields}
    \union {<<"referrer", Event(w).raw_referrer>>}
    \union {<<f, Event(w).ua[f]>> : f \in IF raw[w].parsed_ua = None THEN {} ELSE UaFields}

\* Of the texts that process hands on, every one that has a limit keeps it.
\* Those that may arrive at any length are screen_width and orientation of the
\* context and the texts of a supplied parsed_ua, and no others: a consumer
\* that bounds these bounds every text of its input that an event holds.
OnlyUnlimitedOverrun ==
  \A w \in Workers : Emitted(w) =>
    \A p \in HandedOn(w) :
      p[2] # None /\ p[1] \notin Unlimited => Size[p[2]] <= StatedLimit(p[1])

Failed(w) == pc[w] = "idle" /\ result[w] # None /\ "err" \in DOMAIN result[w]

\* src/error.rs:45, "exceeds maximum length": an error names a field that is
\* longer than its limit, and the kind only where that is at fault.  So a text
\* of exactly the limit, or one without a limit, costs nobody the event.
ErrorNamesCulprit ==
  \A w \in Workers : Failed(w) =>
    LET f == result[w].err IN
    \/ f = "event_kind_custom" /\ raw[w].kind \in BadKinds
    \/ /\ f \in TextFields \ Unlimited
       /\ raw[w].text[f] # None /\ Size[raw[w].text[f]] > StatedLimit(f)

\* A process call returns if the threads that process keep running, however
\* many of them meet an extractor that is still being built.
Returns ==
  (\A w \in Workers : WF_vars(Step(w))) =>
    \A w \in Workers : (pc[w] # "idle") ~> (pc[w] = "idle")

\* The first user agent makes every thread that parses one wait.  An event
\* that brings its parsed_ua, or no user agent, waits for no other thread.
OnlyParsingWaits ==
  \A w \in Workers : WF_vars(Step(w)) =>
    ((pc[w] # "idle" /\ (raw[w].parsed_ua # None \/ raw[w].text["user_agent"] = None))
       ~> (pc[w] = "idle"))
=============================================================================
