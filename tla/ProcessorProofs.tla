--------------------------- MODULE ProcessorProofs --------------------------
(***************************************************************************)
(* Theorems about Processor, for any number of threads and any events,     *)
(* salts and databases.                                                    *)
(***************************************************************************)
EXTENDS Processor, TLAPS

\* The actions that leave salt and database alone.
CallAction(w) ==
  \/ \E r \in RawEvents : Reject(w, r) \/ Begin(w, r)
  \/ Step(w)

\* A step rotates the salt, reloads the database or belongs to one call.
LEMMA NextCases ==
  ASSUME Next
  PROVE  Rotate \/ Reload \/ \E w \in Workers : CallAction(w)
BY DEF Next, CallAction

-----------------------------------------------------------------------------
(* Type correctness.                                                       *)

\* The types hold at first ...
LEMMA TypeInit == ASSUME Init PROVE TypeOK
BY SaltAssumption, ProcessorAssumption DEF Init, TypeOK, SaltTypeOK, Providers

\* What Publish does to seen.
LEMMA PublishType ==
  ASSUME TypeOK, NEW s \in Salts, NEW d \in Dbs \union {None}, Publish(s, d)
  PROVE  seen' \in [Workers -> SUBSET (Salts \X (Dbs \union {None}))]
<1>1. ASSUME NEW w \in Workers, NEW p \in seen[w]
      PROVE  <<p[1], d>> \in Salts \X (Dbs \union {None})
  BY DEF TypeOK
<1>2. QED
  BY <1>1 DEF TypeOK, Publish

\* ... a rotation keeps them ...
LEMMA RotateType == ASSUME TypeOK, Rotate PROVE TypeOK'
<1>1. PICK s \in Salts : set(s) /\ Publish(s, db)
  BY DEF Rotate
<1>2. UNCHANGED <<provider, checked, outcome, processor, db, extractor, pc, raw,
                  visitor_id, location, result>> /\ cell' = s
  BY <1>1 DEF Rotate, set
<1>3. db \in Dbs \union {None}
  BY DEF TypeOK
<1>4. seen' \in [Workers -> SUBSET (Salts \X (Dbs \union {None}))]
  BY <1>1, <1>3, PublishType
<1>5. SaltTypeOK'
  BY <1>1, <1>2 DEF TypeOK, SaltTypeOK, set
<1>6. QED
  BY <1>1, <1>2, <1>4, <1>5 DEF TypeOK

\* ... so does a reload ...
LEMMA ReloadType == ASSUME TypeOK, Reload PROVE TypeOK'
<1>1. PICK d \in Dbs : GeoIp!Reload(d) /\ Publish(cell, d)
  BY DEF Reload
<1>2. UNCHANGED <<saltVars, processor, extractor, pc, raw, visitor_id, location, result>>
      /\ db' = d
  BY <1>1 DEF Reload, GeoIp!Reload
<1>3. cell \in Salts
  BY DEF TypeOK
<1>4. seen' \in [Workers -> SUBSET (Salts \X (Dbs \union {None}))]
  BY <1>1, <1>3, PublishType
<1>5. SaltTypeOK'
  BY <1>2 DEF TypeOK, SaltTypeOK, saltVars
<1>6. QED
  BY <1>2, <1>4, <1>5 DEF TypeOK, saltVars

\* ... and so does every step of a call.
LEMMA CallType ==
  ASSUME TypeOK, NEW w \in Workers, CallAction(w)
  PROVE  TypeOK'
<1> USE DEF TypeOK, sharedVars, saltVars, SaltTypeOK
<1>1. ASSUME NEW r \in RawEvents, Reject(w, r) PROVE TypeOK'
  BY <1>1 DEF Reject
<1>2. ASSUME NEW r \in RawEvents, Begin(w, r) PROVE TypeOK'
  BY <1>2 DEF Begin
<1>3. CASE VisitorId(w)
  BY <1>3 DEF VisitorId
<1>4. CASE Location(w)
  BY <1>4 DEF Location
<1>5. CASE BuildExtractor(w)
  BY <1>5 DEF BuildExtractor
<1>6. CASE ExtractorReady(w)
  BY <1>6 DEF ExtractorReady
<1>7. CASE Return(w)
  BY <1>7 DEF Return
<1>8. QED
  BY <1>1, <1>2, <1>3, <1>4, <1>5, <1>6, <1>7 DEF CallAction, Step

\* Every variable keeps its type; a call in flight has its argument and no
\* result yet, and one thread at most builds the extractor.
THEOREM TypeCorrect == Spec => []TypeOK
<1>1. TypeOK /\ [Next]_vars => TypeOK'
  <2>1. ASSUME TypeOK, UNCHANGED vars PROVE TypeOK'
    BY <2>1 DEF TypeOK, SaltTypeOK, vars, sharedVars, callVars, saltVars
  <2>2. QED
    BY <2>1, NextCases, RotateType, ReloadType, CallType
<1>2. QED
  BY TypeInit, <1>1, PTL DEF Spec

-----------------------------------------------------------------------------
(* One salt, then one database.                                            *)

\* What process makes of an event with the salt and the database of a pair.
Complete(r, p) ==
  [kind |-> r.kind,
   visitor_id |-> IdUnder(r, p[1]),
   location |-> PlaceUnder(r, p[2]),
   ua |-> resolve_ua(r),
   source |-> resolve_referrer(r),
   raw_referrer |-> IF processor.keep_raw_referrer THEN r.text["referrer"] ELSE None,
   text |-> [f \in KeptFields |-> r.text[f]]]

\* While a call runs, every salt it may have read is paired with the database
\* now in force, so that whichever it reads next makes a pair of seen.
Running(w) ==
  pc[w] # "idle" =>
    /\ validate(raw[w]) = None
    /\ <<cell, db>> \in seen[w]
    /\ \A p \in seen[w] : <<p[1], db>> \in seen[w]

\* The locals of a call come from one pair.
LocalsPaired(w) ==
  /\ pc[w] = "geo" => \E p \in seen[w] : visitor_id[w] = IdUnder(raw[w], p[1])
  /\ pc[w] \in {"ua", "building"} =>
       \E p \in seen[w] : /\ visitor_id[w] = IdUnder(raw[w], p[1])
                          /\ location[w] = PlaceUnder(raw[w], p[2])

\* So does what it returned.
ResultPaired(w) ==
  pc[w] = "idle" =>
    \/ seen[w] = {} /\ result[w] = None
    \/ /\ seen[w] = {} /\ raw[w] \in RawEvents /\ validate(raw[w]) # None
       /\ result[w] = [err |-> validate(raw[w])]
    \/ /\ raw[w] \in RawEvents /\ validate(raw[w]) = None
       /\ \E p \in seen[w] : result[w] = [ok |-> Complete(raw[w], p)]

PairInv == \A w \in Workers : Running(w) /\ LocalsPaired(w) /\ ResultPaired(w)

\* No call has begun, so there is nothing to pair.
LEMMA PairInit == ASSUME Init PROVE PairInv
BY DEF Init, PairInv, Running, LocalsPaired, ResultPaired

\* A rotation or a reload keeps every pair and adds those it should.
LEMMA PublishKeeps ==
  ASSUME TypeOK, PairInv, Publish(cell', db'),
         UNCHANGED <<processor, pc, raw, visitor_id, location, result>>
  PROVE  PairInv'
<1> SUFFICES ASSUME NEW w \in Workers
             PROVE  Running(w)' /\ LocalsPaired(w)' /\ ResultPaired(w)'
  BY DEF PairInv
<1>1. Running(w) /\ LocalsPaired(w) /\ ResultPaired(w)
  BY DEF PairInv
<1>2. /\ seen[w] \subseteq seen'[w]
      /\ pc[w] = "idle" => seen'[w] = seen[w]
      /\ pc[w] # "idle" =>
           seen'[w] = seen[w] \union {<<cell', db'>>} \union {<<p[1], db'>> : p \in seen[w]}
  BY DEF Publish
<1>3. \A r : validate(r)' = validate(r)
  BY DEF validate, TooLong, Order, Limit
<1>4. \A r, s, d : IdUnder(r, s)' = IdUnder(r, s) /\ PlaceUnder(r, d)' = PlaceUnder(r, d)
  BY DEF IdUnder, PlaceUnder
<1>5. \A r, p : Complete(r, p)' = Complete(r, p)
  BY DEF Complete, IdUnder, PlaceUnder, resolve_ua, resolve_referrer, Parses
<1>6. Running(w)'
  <2> SUFFICES ASSUME pc[w] # "idle"
               PROVE  /\ validate(raw[w]) = None
                      /\ <<cell', db'>> \in seen'[w]
                      /\ \A p \in seen'[w] : <<p[1], db'>> \in seen'[w]
    BY <1>3 DEF Running
  <2>1. validate(raw[w]) = None /\ <<cell', db'>> \in seen'[w]
    BY <1>1, <1>2 DEF Running
  <2>2. ASSUME NEW p \in seen'[w] PROVE <<p[1], db'>> \in seen'[w]
    <3>1. CASE p \in seen[w]
      BY <3>1, <1>2
    <3>2. CASE p = <<cell', db'>>
      BY <3>2, <1>2
    <3>3. ASSUME NEW q \in seen[w], p = <<q[1], db'>> PROVE <<p[1], db'>> \in seen'[w]
      BY <3>3, <1>2
    <3>4. QED BY <1>2, <3>1, <3>2, <3>3
  <2>3. QED BY <2>1, <2>2
<1>7. LocalsPaired(w)'
  BY <1>1, <1>2, <1>4 DEF LocalsPaired
<1>8. ResultPaired(w)'
  BY <1>1, <1>2, <1>3, <1>5 DEF ResultPaired
<1>9. QED BY <1>6, <1>7, <1>8

\* A step of one call leaves the others as they are.
LEMMA OthersKept ==
  ASSUME PairInv, NEW v \in Workers,
         UNCHANGED <<processor, cell, db, pc[v], raw[v], visitor_id[v], location[v],
                     result[v], seen[v]>>
  PROVE  Running(v)' /\ LocalsPaired(v)' /\ ResultPaired(v)'
<1>1. Running(v) /\ LocalsPaired(v) /\ ResultPaired(v)
  BY DEF PairInv
<1>2. \A r : validate(r)' = validate(r)
  BY DEF validate, TooLong, Order, Limit
<1>3. \A r, s, d : IdUnder(r, s)' = IdUnder(r, s) /\ PlaceUnder(r, d)' = PlaceUnder(r, d)
  BY DEF IdUnder, PlaceUnder
<1>4. \A r, p : Complete(r, p)' = Complete(r, p)
  BY DEF Complete, IdUnder, PlaceUnder, resolve_ua, resolve_referrer, Parses
<1>5. Running(v)'
  BY <1>1, <1>2 DEF Running
<1>6. LocalsPaired(v)'
  BY <1>1, <1>3 DEF LocalsPaired
<1>7. ResultPaired(v)'
  BY <1>1, <1>2, <1>4 DEF ResultPaired
<1>8. QED
  BY <1>5, <1>6, <1>7

\* A call that begins, or is refused at once, has taken nothing yet.
LEMMA BeginPaired ==
  ASSUME TypeOK, PairInv, NEW w \in Workers, NEW r \in RawEvents,
         Reject(w, r) \/ Begin(w, r)
  PROVE  PairInv'
<1>1. ASSUME NEW v \in Workers, v # w
      PROVE  Running(v)' /\ LocalsPaired(v)' /\ ResultPaired(v)'
  BY <1>1, OthersKept DEF Reject, Begin, TypeOK, sharedVars, saltVars
<1>2. Running(w)' /\ LocalsPaired(w)' /\ ResultPaired(w)'
  <2>1. CASE Reject(w, r)
    <3>1. /\ pc'[w] = "idle" /\ seen'[w] = {} /\ raw'[w] = r
          /\ validate(r) # None /\ result'[w] = [err |-> validate(r)]
      BY <2>1 DEF Reject, TypeOK
    <3>2. validate(r)' = validate(r)
      BY DEF validate, TooLong, Order, Limit
    <3>3. QED BY <3>1, <3>2 DEF Running, LocalsPaired, ResultPaired
  <2>2. CASE Begin(w, r)
    <3>1. /\ pc'[w] = "visitor" /\ raw'[w] = r /\ seen'[w] = {<<cell', db'>>}
          /\ validate(r) = None
      BY <2>2 DEF Begin, TypeOK, sharedVars, saltVars
    <3>2. validate(r)' = validate(r)
      BY DEF validate, TooLong, Order, Limit
    <3>3. QED BY <3>1, <3>2 DEF Running, LocalsPaired, ResultPaired
  <2>3. QED BY <2>1, <2>2
<1>3. QED BY <1>1, <1>2 DEF PairInv

\* The id is made with the salt of the pair now in force.
LEMMA VisitorIdPaired ==
  ASSUME TypeOK, PairInv, NEW w \in Workers, VisitorId(w)
  PROVE  PairInv'
<1>1. ASSUME NEW v \in Workers, v # w
      PROVE  Running(v)' /\ LocalsPaired(v)' /\ ResultPaired(v)'
  BY <1>1, OthersKept DEF VisitorId, TypeOK, sharedVars, saltVars
<1>2. /\ pc[w] = "visitor" /\ pc'[w] = "geo"
      /\ UNCHANGED <<processor, cell, db, raw[w], seen[w]>>
  BY DEF VisitorId, TypeOK, sharedVars, saltVars
<1>3. Running(w)'
  <2>1. validate(raw[w])' = validate(raw[w])
    BY <1>2 DEF validate, TooLong, Order, Limit
  <2>2. QED BY <1>2, <2>1 DEF PairInv, Running
<1>4. visitor_id'[w] = IdUnder(raw[w], cell)
  BY DEF VisitorId, TypeOK, IdUnder, Hashed
<1>5. \E p \in seen[w] : visitor_id'[w] = IdUnder(raw[w], p[1])
  <2>1. <<cell, db>> \in seen[w] /\ <<cell, db>>[1] = cell
    BY <1>2 DEF PairInv, Running
  <2>2. QED BY <1>4, <2>1
<1>6. \A r, s : IdUnder(r, s)' = IdUnder(r, s)
  BY <1>2 DEF IdUnder
<1>7. LocalsPaired(w)' /\ ResultPaired(w)'
  BY <1>2, <1>5, <1>6 DEF LocalsPaired, ResultPaired
<1>8. QED BY <1>1, <1>3, <1>7 DEF PairInv

\* The location comes from the database now in force, which is paired with
\* whatever salt the id was made with.
LEMMA LocationPaired ==
  ASSUME TypeOK, PairInv, NEW w \in Workers, Location(w)
  PROVE  PairInv'
<1>1. ASSUME NEW v \in Workers, v # w
      PROVE  Running(v)' /\ LocalsPaired(v)' /\ ResultPaired(v)'
  BY <1>1, OthersKept DEF Location, TypeOK, sharedVars, saltVars
<1>2. /\ pc[w] = "geo" /\ pc'[w] = "ua"
      /\ UNCHANGED <<processor, cell, db, raw[w], visitor_id[w], seen[w]>>
  BY DEF Location, TypeOK, sharedVars, saltVars
<1>3. Running(w)'
  <2>1. validate(raw[w])' = validate(raw[w])
    BY <1>2 DEF validate, TooLong, Order, Limit
  <2>2. QED BY <1>2, <2>1 DEF PairInv, Running
<1>4. location'[w] = PlaceUnder(raw[w], db)
  BY DEF Location, TypeOK, PlaceUnder, GeoIp!Answer
<1>5. PICK p \in seen[w] : visitor_id[w] = IdUnder(raw[w], p[1])
  BY <1>2 DEF PairInv, LocalsPaired
<1>6. <<p[1], db>> \in seen[w]
  BY <1>2 DEF PairInv, Running
<1>7. \A r, s, d : IdUnder(r, s)' = IdUnder(r, s) /\ PlaceUnder(r, d)' = PlaceUnder(r, d)
  BY <1>2 DEF IdUnder, PlaceUnder
<1>8. \E q \in seen'[w] : /\ visitor_id'[w] = IdUnder(raw'[w], q[1])
                          /\ location'[w] = PlaceUnder(raw'[w], q[2])
  <2>1. <<p[1], db>>[1] = p[1] /\ <<p[1], db>>[2] = db
    OBVIOUS
  <2>2. QED BY <1>2, <1>4, <1>5, <1>6, <2>1
<1>9. LocalsPaired(w)' /\ ResultPaired(w)'
  BY <1>2, <1>7, <1>8 DEF LocalsPaired, ResultPaired
<1>10. QED BY <1>1, <1>3, <1>9 DEF PairInv

\* The extractor is no part of a pair.
LEMMA ExtractorPaired ==
  ASSUME TypeOK, PairInv, NEW w \in Workers, BuildExtractor(w) \/ ExtractorReady(w)
  PROVE  PairInv'
<1>1. ASSUME NEW v \in Workers, v # w
      PROVE  Running(v)' /\ LocalsPaired(v)' /\ ResultPaired(v)'
  BY <1>1, OthersKept DEF BuildExtractor, ExtractorReady, TypeOK, saltVars
<1>2. /\ pc[w] \in {"ua", "building"} /\ pc'[w] \in {"ua", "building"}
      /\ UNCHANGED <<processor, cell, db, raw[w], visitor_id[w], location[w], seen[w]>>
  BY DEF BuildExtractor, ExtractorReady, TypeOK, saltVars
<1>3. validate(raw[w])' = validate(raw[w])
  BY <1>2 DEF validate, TooLong, Order, Limit
<1>4. \A r, s, d : IdUnder(r, s)' = IdUnder(r, s) /\ PlaceUnder(r, d)' = PlaceUnder(r, d)
  BY <1>2 DEF IdUnder, PlaceUnder
<1>5. Running(w) /\ LocalsPaired(w)
  BY DEF PairInv
<1>6. Running(w)'
  BY <1>2, <1>3, <1>5 DEF Running
<1>7. LocalsPaired(w)'
  BY <1>2, <1>4, <1>5 DEF LocalsPaired
<1>8. ResultPaired(w)'
  BY <1>2 DEF ResultPaired
<1>9. QED BY <1>1, <1>6, <1>7, <1>8 DEF PairInv

\* A result is made from the locals, which are of one pair.
LEMMA ReturnPaired ==
  ASSUME TypeOK, PairInv, NEW w \in Workers, Return(w)
  PROVE  PairInv'
<1>1. ASSUME NEW v \in Workers, v # w
      PROVE  Running(v)' /\ LocalsPaired(v)' /\ ResultPaired(v)'
  BY <1>1, OthersKept DEF Return, TypeOK, sharedVars, saltVars
<1>2. /\ pc[w] = "ua" /\ pc'[w] = "idle" /\ result'[w] = [ok |-> Assembled(w)]
      /\ UNCHANGED <<processor, raw[w], seen[w]>> /\ raw[w] \in RawEvents
  BY DEF Return, TypeOK, sharedVars, saltVars
<1>3. PICK p \in seen[w] : /\ visitor_id[w] = IdUnder(raw[w], p[1])
                           /\ location[w] = PlaceUnder(raw[w], p[2])
  BY <1>2 DEF PairInv, LocalsPaired
<1>4. Assembled(w) = Complete(raw[w], p)
  BY <1>3 DEF Assembled, Complete
<1>5. \A r, q : Complete(r, q)' = Complete(r, q)
  BY <1>2 DEF Complete, IdUnder, PlaceUnder, resolve_ua, resolve_referrer, Parses
<1>6. validate(raw[w])' = validate(raw[w]) /\ validate(raw[w]) = None
  <2>1. validate(raw[w]) = None
    BY <1>2 DEF PairInv, Running
  <2>2. raw'[w] = raw[w]
    BY <1>2
  <2>3. QED BY <2>1, <2>2 DEF validate, TooLong
<1>7. Running(w)' /\ LocalsPaired(w)'
  BY <1>2 DEF Running, LocalsPaired
<1>8. ResultPaired(w)'
  BY <1>2, <1>4, <1>5, <1>6 DEF ResultPaired
<1>9. QED BY <1>1, <1>7, <1>8 DEF PairInv

\* Locals and results of every call come from one salt, then one database, that
\* were in force during the call.
THEOREM Paired == Spec => []PairInv
<1>1. TypeOK /\ PairInv /\ [Next]_vars => PairInv'
  <2>1. ASSUME TypeOK, PairInv, Rotate PROVE PairInv'
    BY <2>1, PublishKeeps DEF Rotate, set
  <2>2. ASSUME TypeOK, PairInv, Reload PROVE PairInv'
    <3>1. Publish(cell', db')
          /\ UNCHANGED <<processor, pc, raw, visitor_id, location, result>>
      BY <2>2 DEF Reload, GeoIp!Reload, saltVars
    <3>2. QED BY <2>2, <3>1, PublishKeeps
  <2>3. ASSUME TypeOK, PairInv, NEW w \in Workers, CallAction(w) PROVE PairInv'
    BY <2>3, BeginPaired, VisitorIdPaired, LocationPaired, ExtractorPaired, ReturnPaired
       DEF CallAction, Step
  <2>4. ASSUME TypeOK, PairInv, UNCHANGED vars PROVE PairInv'
    <3>1. ASSUME NEW v \in Workers
          PROVE  Running(v)' /\ LocalsPaired(v)' /\ ResultPaired(v)'
      BY <2>4, OthersKept DEF vars, sharedVars, callVars, saltVars
    <3>2. QED BY <3>1 DEF PairInv
  <2>5. QED BY <2>1, <2>2, <2>3, <2>4, NextCases
<1>2. QED
  BY PairInit, TypeCorrect, <1>1, PTL DEF Spec

\* Every event has one salt and one database in force during its call, the
\* database no earlier than the salt.
THEOREM OneSaltOneDatabase == Spec => []OneSaltThenOneDatabase
<1>1. PairInv => OneSaltThenOneDatabase
  <2> SUFFICES ASSUME PairInv, NEW w \in Workers, Emitted(w)
               PROVE  \E p \in seen[w] :
                        /\ Event(w).visitor_id = IdUnder(raw[w], p[1])
                        /\ Event(w).location = PlaceUnder(raw[w], p[2])
    BY DEF OneSaltThenOneDatabase
  <2>1. PICK p \in seen[w] : result[w] = [ok |-> Complete(raw[w], p)]
    <3>1. \A f : "ok" \notin DOMAIN [err |-> f]
      OBVIOUS
    <3>2. pc[w] = "idle" /\ result[w] # None /\ \A f : result[w] # [err |-> f]
      BY <3>1 DEF Emitted
    <3>3. QED BY <3>2 DEF PairInv, ResultPaired
  <2>2. Event(w) = Complete(raw[w], p)
    BY <2>1 DEF Event
  <2>3. QED BY <2>2 DEF Complete
<1>2. QED
  BY Paired, <1>1, PTL

\* Two calls with the same event and nothing published meanwhile agree.
THEOREM SameEventSameResult == Spec => []Deterministic
<1>1. PairInv => Deterministic
  <2> SUFFICES ASSUME PairInv, NEW v \in Workers, NEW w \in Workers, NEW p \in seen[v],
                      pc[v] = "idle", pc[w] = "idle", raw[v] = raw[w],
                      seen[v] = seen[w], seen[v] = {p}
               PROVE  result[v] = result[w]
    BY DEF Deterministic
  <2>1. result[v] = [ok |-> Complete(raw[v], p)]
    BY DEF PairInv, ResultPaired
  <2>2. result[w] = [ok |-> Complete(raw[w], p)]
    BY DEF PairInv, ResultPaired
  <2>3. QED BY <2>1, <2>2
<1>2. QED
  BY Paired, <1>1, PTL

-----------------------------------------------------------------------------
(* Limits.                                                                 *)

\* A condition that holds somewhere in 1 .. 10 holds somewhere first.
LEMMA LeastOfTen ==
  ASSUME NEW T \in [1 .. 10 -> BOOLEAN], \E k \in 1 .. 10 : T[k]
  PROVE  \E k \in 1 .. 10 : T[k] /\ \A j \in 1 .. k - 1 : ~T[j]
<1> SUFFICES ASSUME \A k \in 1 .. 10 : (\A j \in 1 .. k - 1 : ~T[j]) => ~T[k]
             PROVE  FALSE
  OBVIOUS
<1>1. ~T[1] /\ ~T[2] /\ ~T[3]
  OBVIOUS
<1>2. ~T[4] /\ ~T[5] /\ ~T[6]
  BY <1>1
<1>3. ~T[7] /\ ~T[8] /\ ~T[9]
  BY <1>1, <1>2
<1>4. ~T[10]
  BY <1>1, <1>2, <1>3
<1>5. QED BY <1>1, <1>2, <1>3, <1>4

\* validate checks every text that has a limit, each in its turn.
LEMMA OrderFields ==
  /\ DOMAIN Order = 1 .. 10
  /\ \A k \in 1 .. 10 : Order[k] \in TextFields \ Unlimited
  /\ \A f \in TextFields \ Unlimited : \E k \in 1 .. 10 : Order[k] = f
BY DEF Order, TextFields, ContextFields, UtmFields, Unlimited, UaFields

\* What validate returns: the bad kind, a text that is too long, or None.
LEMMA Verdicts ==
  ASSUME NEW r
  PROVE  /\ r.kind \in BadKinds => validate(r) = "event_kind_custom"
         /\ r.kind \notin BadKinds /\ (\A k \in 1 .. 10 : ~TooLong(r, k)) =>
              validate(r) = None
         /\ r.kind \notin BadKinds /\ (\E k \in 1 .. 10 : TooLong(r, k)) =>
              \E k \in 1 .. 10 : TooLong(r, k) /\ validate(r) = Order[k]
<1>1. ASSUME r.kind \in BadKinds PROVE validate(r) = "event_kind_custom"
  BY <1>1, Zenon DEF validate
<1>2. ASSUME r.kind \notin BadKinds, \A k \in 1 .. 10 : ~TooLong(r, k)
      PROVE  validate(r) = None
  BY <1>2, OrderFields, Zenon DEF validate
<1>3. ASSUME r.kind \notin BadKinds, \E k \in 1 .. 10 : TooLong(r, k)
      PROVE  \E k \in 1 .. 10 : TooLong(r, k) /\ validate(r) = Order[k]
  <2> DEFINE first(k) == TooLong(r, k) /\ \A j \in 1 .. k - 1 : ~TooLong(r, j)
             T == [k \in 1 .. 10 |-> TooLong(r, k)]
  <2>1. \A k \in 1 .. 10 : TooLong(r, k) \in BOOLEAN
    BY DEF TooLong
  <2>2. T \in [1 .. 10 -> BOOLEAN] /\ \E k \in 1 .. 10 : T[k]
    BY <1>3, <2>1
  <2> HIDE DEF T
  <2>3. PICK k \in 1 .. 10 : T[k] /\ \A j \in 1 .. k - 1 : ~T[j]
    BY <2>2, LeastOfTen
  <2>4. \A j \in 1 .. 10 : T[j] = TooLong(r, j)
    BY DEF T
  <2>5. first(k)
    BY <2>3, <2>4
  <2> DEFINE c == CHOOSE j \in DOMAIN Order : first(j)
  <2>6. c \in 1 .. 10 /\ TooLong(r, c)
    BY <2>5, OrderFields
  <2>7. validate(r) = Order[c]
    BY <1>3, OrderFields, Zenon DEF validate
  <2> QED  BY <2>6, <2>7
<1> QED  BY <1>1, <1>2, <1>3

\* validate accepts only what has no text that is too long.
LEMMA Accepts ==
  ASSUME NEW r, validate(r) = None
  PROVE  \A k \in 1 .. 10 : ~TooLong(r, k)
<1>1. None # "event_kind_custom" /\ None \notin TextFields
  BY ProcessorAssumption
<1> QED  BY <1>1, Verdicts, OrderFields

\* The limits of validate are those stated.
LEMMA LimitStated ==
  ASSUME NEW f \in TextFields \ Unlimited
  PROVE  Limit(f) = StatedLimit(f) /\ Limit(f) \in Nat
<1>1. CASE f \in UtmFields
  <2>1. f \notin {"page_url", "referrer"} /\ f # "user_agent"
        /\ f \notin {"entity_id", "session_id"}
    BY <1>1 DEF UtmFields
  <2>2. Limit(f) = MAX_UTM /\ StatedLimit(f) = MAX_UTM
    BY <1>1, <2>1, Zenon DEF Limit, StatedLimit
  <2> QED  BY <2>2, ProcessorAssumption
<1>2. CASE f \in {"page_url", "referrer"}
  <2>1. f # "user_agent" /\ f \notin {"entity_id", "session_id"} /\ f \notin UtmFields
    BY <1>2 DEF UtmFields
  <2>2. Limit(f) = MAX_URL /\ StatedLimit(f) = MAX_URL
    BY <1>2, <2>1, Zenon DEF Limit, StatedLimit
  <2> QED  BY <2>2, ProcessorAssumption
<1>3. CASE f \in {"entity_id", "session_id"}
  <2>1. f # "user_agent" /\ f \notin {"page_url", "referrer"} /\ f \notin UtmFields
    BY <1>3 DEF UtmFields
  <2>2. Limit(f) = MAX_ID /\ StatedLimit(f) = MAX_ID
    BY <1>3, <2>1, Zenon DEF Limit, StatedLimit
  <2> QED  BY <2>2, ProcessorAssumption
<1>4. CASE f = "user_agent"
  <2>1. /\ f \notin {"page_url", "referrer"} /\ f \notin {"entity_id", "session_id"}
        /\ f \notin UtmFields
    BY <1>4 DEF UtmFields
  <2>2. Limit(f) = MAX_UA /\ StatedLimit(f) = MAX_UA
    BY <1>4, <2>1, Zenon DEF Limit, StatedLimit
  <2> QED  BY <2>2, ProcessorAssumption
<1> QED  BY <1>1, <1>2, <1>3, <1>4 DEF TextFields, ContextFields, Unlimited

\* What TooLong says of a text, in terms of the limits stated.
LEMMA TooLongMeans ==
  ASSUME NEW r \in RawEvents, NEW k \in 1 .. 10, NEW f, f = Order[k]
  PROVE  /\ TooLong(r, k) <=> r.text[f] # None /\ Size[r.text[f]] > StatedLimit(f)
         /\ r.text[f] # None => Size[r.text[f]] \in Nat
         /\ StatedLimit(f) \in Nat
<1>1. f \in TextFields /\ Limit(f) = StatedLimit(f) /\ Limit(f) \in Nat
  BY OrderFields, LimitStated
<1>2. r.text[f] # None => r.text[f] \in Strings
  BY <1>1, ProcessorAssumption
<1>3. r.text[f] # None => Size[r.text[f]] \in Nat
  BY <1>2, ProcessorAssumption
<1> QED  BY <1>1, <1>3 DEF TooLong

\* Of its input, an event holds only screen fields and a supplied parsed_ua at
\* any length; every other text that process hands on keeps its limit.
THEOREM WithinLimits == Spec => []OnlyUnlimitedOverrun
<1>1. PairInv => OnlyUnlimitedOverrun
  <2> SUFFICES ASSUME PairInv, NEW w \in Workers, Emitted(w), NEW p \in HandedOn(w),
                      p[2] # None, p[1] \notin Unlimited
               PROVE  Size[p[2]] <= StatedLimit(p[1])
    BY DEF OnlyUnlimitedOverrun
  <2>1. /\ raw[w] \in RawEvents /\ validate(raw[w]) = None
        /\ \E q \in seen[w] : result[w] = [ok |-> Complete(raw[w], q)]
    <3>1. \A f : "ok" \notin DOMAIN [err |-> f]
      OBVIOUS
    <3>2. pc[w] = "idle" /\ result[w] # None /\ \A f : result[w] # [err |-> f]
      BY <3>1 DEF Emitted
    <3>3. QED BY <3>2 DEF PairInv, ResultPaired
  <2>2. /\ \A f \in KeptFields : Event(w).text[f] = raw[w].text[f]
        /\ Event(w).raw_referrer \in {raw[w].text["referrer"], None}
    BY <2>1 DEF Event, Complete
  <2>3. p[1] \in TextFields /\ p[2] = raw[w].text[p[1]]
    <3>1. CASE p \in {<<f, Event(w).text[f]>> : f \in KeptFields}
      BY <2>2, <3>1 DEF KeptFields, TextFields
    <3>2. CASE p = <<"referrer", Event(w).raw_referrer>>
      BY <2>2, <3>2 DEF TextFields
    <3>3. ASSUME NEW f \in UaFields, p = <<f, Event(w).ua[f]>> PROVE FALSE
      BY <3>3 DEF Unlimited
    <3> QED  BY <3>1, <3>2, <3>3 DEF HandedOn
  <2>4. PICK k \in 1 .. 10 : Order[k] = p[1]
    BY <2>3, OrderFields
  <2>5. ~TooLong(raw[w], k)
    BY <2>1, Accepts
  <2> QED  BY <2>1, <2>3, <2>4, <2>5, TooLongMeans
<1>2. QED
  BY Paired, <1>1, PTL

\* An error names a text that is too long, or the kind that is bad.
THEOREM ErrorsAreTrue == Spec => []ErrorNamesCulprit
<1>1. PairInv => ErrorNamesCulprit
  <2> SUFFICES ASSUME PairInv, NEW w \in Workers, Failed(w),
                      NEW f, f = result[w].err
               PROVE  \/ f = "event_kind_custom" /\ raw[w].kind \in BadKinds
                      \/ /\ f \in TextFields \ Unlimited
                         /\ raw[w].text[f] # None /\ Size[raw[w].text[f]] > StatedLimit(f)
    BY DEF ErrorNamesCulprit
  <2>1. raw[w] \in RawEvents /\ validate(raw[w]) # None /\ f = validate(raw[w])
    <3>1. \A e : "err" \notin DOMAIN [ok |-> e]
      OBVIOUS
    <3>2. pc[w] = "idle" /\ result[w] # None /\ \A e : result[w] # [ok |-> e]
      BY <3>1 DEF Failed
    <3>3. raw[w] \in RawEvents /\ validate(raw[w]) # None
          /\ result[w] = [err |-> validate(raw[w])]
      BY <3>2, Zenon DEF PairInv, ResultPaired
    <3> QED  BY <3>3
  <2>2. CASE raw[w].kind \in BadKinds
    BY <2>1, <2>2, Verdicts
  <2>3. CASE raw[w].kind \notin BadKinds
    <3>1. PICK k \in 1 .. 10 : TooLong(raw[w], k) /\ f = Order[k]
      BY <2>1, <2>3, Verdicts
    <3>2. f \in TextFields \ Unlimited
      BY <3>1, OrderFields
    <3> QED  BY <2>1, <3>1, <3>2, TooLongMeans
  <2> QED  BY <2>2, <2>3
<1>2. QED
  BY Paired, <1>1, PTL
=============================================================================
