------------------------------ MODULE WireProofs ----------------------------
(***************************************************************************)
(* What is written is read back: for all texts, whatever their lengths and *)
(* bytes.                                                                  *)
(***************************************************************************)
EXTENDS Wire, TLAPS

ValidIds == {s \in Texts : VisitorId_new(s) = "ok"}

\* The text of a kind once it has been processed or read.
ValidText(s) == s \in Texts /\ CustomAccepts(s)

\* A message that was not written by some other program is readable; a kind in
\* memory, once processed or read, is written as the message it came from.
WireInv ==
  /\ visitor_id \in ValidIds \union {None}
  /\ pc = "event" => ValidText(as_wire(kind))
  /\ pc = "sent" /\ origin # None => Readable(message)
  /\ pc = "unreadable" => origin = None
  /\ pc = "refused" => message = None
  /\ message # None /\ pc \in {"event", "raw"} =>
       ValidKind /\ as_wire(kind) = message.kind
  /\ message # None /\ pc \in {"event", "raw"} /\ message.visitor_id # None =>
       visitor_id = message.visitor_id

\* Until it is read the kind is the consumer's, and then what custom makes of it.
FoldInv ==
  /\ origin # None => kind \in {origin, custom(as_wire(origin))}
  /\ origin # None /\ message # None => message.kind = as_wire(origin)
  /\ origin # None => kind # None

\* The kinds with a name of their own; Custom is none of them.
LEMMA KnownNames ==
  /\ Known = {"PageView", "Click", "View", "FormSubmit", "Conversation"}
  /\ "Custom" \notin Known
  BY DEF Known, Reserved

\* How a kind is written: a known one by its reserved name, a custom one as it is.
LEMMA KindFacts ==
  ASSUME NEW k \in EventKind
  PROVE  /\ as_wire(k) \in Texts
         /\ k[1] \in Known => IsReserved(as_wire(k)) /\ CustomAccepts(as_wire(k))
         /\ k[1] = "Custom" => as_wire(k) = k[2] /\ k = <<"Custom", k[2]>>
         /\ k[1] \in Known => k = <<k[1]>> /\ as_wire(k) = Reserved[k[1]]
         /\ k[1] \in Known \union {"Custom"}
<1>1. CASE \E v \in Known : k = <<v>>
  <2>1. PICK v \in Known : k = <<v>>
    BY <1>1
  <2>2. k[1] = v /\ v # "Custom"
    BY <2>1, KnownNames
  <2>3. as_wire(k) = Reserved[v] /\ Reserved[v] \in Texts
    BY <2>2, WireAssumption DEF as_wire
  <2> QED  BY <2>1, <2>2, <2>3 DEF CustomAccepts, IsReserved
<1>2. CASE \E s \in Texts : k = <<"Custom", s>>
  <2>1. PICK s \in Texts : k = <<"Custom", s>>
    BY <1>2
  <2>2. k[1] = "Custom" /\ k[2] = s
    BY <2>1
  <2>3. as_wire(k) = s
    BY <2>2 DEF as_wire
  <2> QED  BY <2>1, <2>2, <2>3, KnownNames
<1> QED  BY <1>1, <1>2 DEF EventKind

\* What custom reads from a text is written as that text.
LEMMA RoundTrip ==
  ASSUME NEW s \in Texts
  PROVE  custom(s) \in EventKind /\ as_wire(custom(s)) = s
<1>1. CASE IsReserved(s)
  <2> DEFINE v == CHOOSE v \in Known : Reserved[v] = s
  <2>1. v \in Known /\ Reserved[v] = s
    BY <1>1 DEF IsReserved
  <2>2. custom(s) = <<v>>
    BY <1>1 DEF custom
  <2>3. <<v>>[1] = v /\ v # "Custom"
    BY <2>1, KnownNames
  <2>4. as_wire(<<v>>) = s
    BY <2>1, <2>3 DEF as_wire
  <2>5. <<v>> \in EventKind
    BY <2>1 DEF EventKind
  <2> QED  BY <2>2, <2>4, <2>5
<1>2. CASE ~IsReserved(s)
  BY <1>2 DEF custom, EventKind, as_wire
<1> QED  BY <1>1, <1>2

\* A reserved name is among the texts validate_custom_kind takes only if its
\* length and bytes say so; custom folds it without asking.
LEMMA ReadKindsAreValid ==
  ASSUME NEW s \in Texts, CustomAccepts(s), kind' = custom(s)
  PROVE  ValidKind'
<1>1. CASE IsReserved(s)
  <2>1. custom(s)[1] \in Known
    BY <1>1 DEF custom, IsReserved
  <2>2. custom(s)[1] # "Custom"
    BY <2>1 DEF Known, Reserved
  <2> QED  BY <2>2 DEF ValidKind
<1>2. CASE ~IsReserved(s)
  BY <1>2 DEF custom, ValidKind, CustomAccepts
<1> QED  BY <1>1, <1>2

\* Ids of the strategy satisfy VisitorId::new, which they were not shown to.
LEMMA GeneratedIdsAreValid == Generated \subseteq ValidIds
<1> SUFFICES ASSUME NEW s \in Generated PROVE s \in ValidIds
  OBVIOUS
<1>1. s \in Texts /\ Size[s] \in 1 .. 128 /\ Bytes[s] \subseteq 48 .. 122
  BY WireAssumption DEF MAX_VISITOR_ID
<1>2. Bytes[s] \subseteq 33 .. 126
  BY <1>1
<1>3. Size[s] # 0 /\ ~(Size[s] > 128)
  BY <1>1
<1> QED  BY <1>1, <1>2, <1>3 DEF ValidIds, VisitorId_new, Checked, MAX_VISITOR_ID

\* What the program may write and read has the types of src/event.rs.
THEOREM TypeCorrect == Spec => []TypeOK
<1>1. Init => TypeOK
  BY WireAssumption DEF Init, Made, Foreign, TypeOK
<1>2. TypeOK /\ [Next]_vars => TypeOK'
  <2> SUFFICES ASSUME TypeOK, [Next]_vars PROVE TypeOK'
    OBVIOUS
  <2> USE DEF TypeOK
  <2>1. CASE Refuse
    BY <2>1 DEF Refuse
  <2>2. CASE Process
    BY <2>2, WireAssumption DEF Process
  <2>3. CASE Serialize
    <3>1. kind \in EventKind
      BY <2>3 DEF Serialize
    <3>2. as_wire(kind) \in Texts
      BY <3>1, KindFacts
    <3>3. message' \in Written
      BY <2>3, <3>2 DEF Serialize, Written
    <3>4. message' # None
      BY <3>3, WireAssumption
    <3> QED  BY <2>3, <3>1, <3>3, <3>4 DEF Serialize
  <2>4. CASE Deserialize
    <3>1. message \in Written
      BY <2>4, WireAssumption DEF Deserialize
    <3>2. message.kind \in Texts /\ message.visitor_id \in Texts \union {None}
      BY <3>1 DEF Written
    <3>3. custom(message.kind) \in EventKind
      BY <3>2, RoundTrip
    <3>4. None \notin EventKind
      BY WireAssumption
    <3> QED  BY <2>4, <3>2, <3>3, <3>4 DEF Deserialize
  <2>5. CASE DeserializeFails
    BY <2>5 DEF DeserializeFails
  <2>6. CASE Reprocess
    BY <2>6 DEF Reprocess
  <2>7. CASE UNCHANGED vars
    BY <2>7 DEF vars
  <2> QED  BY <2>1, <2>2, <2>3, <2>4, <2>5, <2>6, <2>7 DEF Next
<1> QED  BY <1>1, <1>2, PTL DEF Spec

-----------------------------------------------------------------------------
\* Every service on the way keeps WireInv ...
LEMMA WireInvInductive == TypeOK /\ TypeOK' /\ WireInv /\ [Next]_vars => WireInv'
<1> SUFFICES ASSUME TypeOK, TypeOK', WireInv, [Next]_vars PROVE WireInv'
  OBVIOUS
<1> USE DEF WireInv
<1>1. CASE Refuse
  BY <1>1 DEF Refuse, TypeOK
<1>2. CASE Process
  <2>1. kind \in EventKind
    BY <1>2 DEF Process, TypeOK
  <2>2. ValidText(as_wire(kind))
    BY <1>2, <2>1, KindFacts DEF Process, ValidKind, ValidText, CustomAccepts
  <2>3. visitor_id' \in ValidIds \union {None}
    BY <1>2, GeneratedIdsAreValid DEF Process
  <2>4. visitor_id # None => visitor_id' = visitor_id
    BY <1>2 DEF Process
  <2>5. message' # None /\ message'.visitor_id # None => visitor_id' = message'.visitor_id
    BY <1>2, <2>4, WireAssumption DEF Process, TypeOK
  <2> QED  BY <1>2, <2>2, <2>3, <2>5 DEF Process, ValidKind
<1>3. CASE Serialize
  <2>1. message'.kind = as_wire(kind) /\ message'.visitor_id = visitor_id
    BY <1>3 DEF Serialize
  <2>2. ValidText(as_wire(kind))
    BY <1>3 DEF Serialize
  <2>3. Readable(message)'
    BY <1>3, <2>1, <2>2 DEF Readable, ValidText, ValidIds
  <2> QED  BY <1>3, <2>3 DEF Serialize
<1>4. CASE Deserialize
  <2>1. message \in Written /\ message.kind \in Texts
    BY <1>4, WireAssumption DEF Deserialize, TypeOK, Written
  <2>2. as_wire(kind)' = message.kind
    BY <1>4, <2>1, RoundTrip DEF Deserialize
  <2>3. CustomAccepts(message.kind) /\ ValidText(message.kind)
    BY <1>4, <2>1 DEF Deserialize, Readable, ValidText
  <2>4. ValidKind'
    BY <1>4, <2>1, <2>3, ReadKindsAreValid DEF Deserialize
  <2>5. visitor_id' \in ValidIds \union {None}
    BY <1>4, <2>1 DEF Deserialize, Readable, ValidIds, Written
  <2> QED  BY <1>4, <2>2, <2>3, <2>4, <2>5 DEF Deserialize
<1>5. CASE DeserializeFails
  BY <1>5 DEF DeserializeFails
<1>6. CASE Reprocess
  BY <1>6 DEF Reprocess, ValidKind
<1>7. CASE UNCHANGED vars
  BY <1>7 DEF vars, ValidKind, Readable
<1> QED  BY <1>1, <1>2, <1>3, <1>4, <1>5, <1>6, <1>7 DEF Next

\* What process accepts, every service can read; what could be read, process
\* accepts.
THEOREM AcceptedIsNeverLost == Spec => []NothingAcceptedIsLost
<1>1. Init => WireInv
  BY WireAssumption DEF Init, Made, Foreign, WireInv, ValidIds
<1>2. TypeOK /\ TypeOK' /\ WireInv /\ [Next]_vars => WireInv'
  BY WireInvInductive
<1>3. WireInv => NothingAcceptedIsLost
  BY DEF WireInv, NothingAcceptedIsLost
<1> QED  BY <1>1, <1>2, <1>3, TypeCorrect, PTL DEF Spec

\* Kind and id stay on the wire as they were first written.
THEOREM PassesOnUnchanged == Spec => PassedOnUnchanged
<1> DEFINE Same ==
      message # None =>
        /\ message'.kind = message.kind
        /\ message.visitor_id # None => message'.visitor_id = message.visitor_id
<1>1. Init => WireInv
  BY WireAssumption DEF Init, Made, Foreign, WireInv, ValidIds
<1>2. TypeOK /\ TypeOK' /\ WireInv /\ [Next]_vars => WireInv'
  BY WireInvInductive
<1>3. WireInv /\ [Next]_vars => [Same]_vars
  <2> SUFFICES ASSUME WireInv, Next, message # None PROVE Same
    BY DEF vars
  <2>1. CASE Serialize
    <3>1. message'.kind = as_wire(kind) /\ message'.visitor_id = visitor_id
      BY <2>1 DEF Serialize
    <3>2. as_wire(kind) = message.kind
      BY <2>1 DEF Serialize, WireInv
    <3>3. message.visitor_id # None => visitor_id = message.visitor_id
      BY <2>1 DEF Serialize, WireInv
    <3> QED  BY <3>1, <3>2, <3>3
  <2>2. CASE ~Serialize
    <3>1. message' = message
      BY <2>2 DEF Next, Refuse, Process, Deserialize, DeserializeFails, Reprocess
    <3> QED  BY <3>1
  <2> QED  BY <2>1, <2>2
<1> QED  BY <1>1, <1>2, <1>3, TypeCorrect, PTL DEF Spec, PassedOnUnchanged

-----------------------------------------------------------------------------
\* ... and FoldInv.
LEMMA FoldInvInductive == TypeOK /\ FoldInv /\ [Next]_vars => FoldInv'
<1> SUFFICES ASSUME TypeOK, FoldInv, [Next]_vars PROVE FoldInv'
  OBVIOUS
<1>1. CASE Serialize
  <2>1. ASSUME origin # None PROVE as_wire(kind) = as_wire(origin)
    <3>1. as_wire(origin) \in Texts
      BY <2>1, KindFacts DEF TypeOK
    <3> QED  BY <2>1, <3>1, RoundTrip DEF FoldInv
  <2> QED  BY <1>1, <2>1 DEF Serialize, FoldInv
<1>2. CASE Deserialize
  <2>1. origin # None => kind' = custom(as_wire(origin))
    BY <1>2, WireAssumption DEF Deserialize, FoldInv, TypeOK, Written
  <2>2. message.kind \in Texts
    BY <1>2, WireAssumption DEF Deserialize, TypeOK, Written
  <2>3. kind' # None
    BY <1>2, <2>2, RoundTrip, WireAssumption DEF Deserialize
  <2> QED  BY <1>2, <2>1, <2>3 DEF Deserialize, FoldInv
<1>3. CASE Refuse \/ Process \/ DeserializeFails \/ Reprocess \/ UNCHANGED vars
  BY <1>3 DEF Refuse, Process, DeserializeFails, Reprocess, vars, FoldInv
<1> QED  BY <1>1, <1>2, <1>3 DEF Next

\* Nothing but a reserved name in Custom changes on the way.
THEOREM OnlyReservedFold == Spec => []FoldsOnlyReserved
<1>1. Init => FoldInv
  BY WireAssumption DEF Init, Made, Foreign, FoldInv
<1>2. TypeOK /\ FoldInv /\ [Next]_vars => FoldInv'
  BY FoldInvInductive
<1>3. TypeOK /\ FoldInv => FoldsOnlyReserved
  <2> SUFFICES ASSUME TypeOK, FoldInv, origin # None, kind # origin
               PROVE  \E v \in Known : origin = <<"Custom", Reserved[v]>> /\ kind = <<v>>
    BY DEF FoldsOnlyReserved
  <2>1. origin \in EventKind /\ as_wire(origin) \in Texts
    BY KindFacts DEF TypeOK
  <2>2. kind = custom(as_wire(origin))
    BY DEF FoldInv
  <2>3. ASSUME ~IsReserved(as_wire(origin)) PROVE FALSE
    <3>1. origin[1] = "Custom" /\ origin = <<"Custom", as_wire(origin)>>
      BY <2>1, <2>3, KindFacts
    <3> QED  BY <2>2, <2>3, <3>1 DEF custom
  <2> DEFINE v == CHOOSE v \in Known : Reserved[v] = as_wire(origin)
  <2>4. v \in Known /\ Reserved[v] = as_wire(origin) /\ kind = <<v>>
    BY <2>2, <2>3 DEF IsReserved, custom
  <2>5. ASSUME origin[1] \in Known PROVE FALSE
    <3>1. Reserved[origin[1]] = Reserved[v] /\ origin = <<origin[1]>>
      BY <2>1, <2>4, <2>5, KindFacts
    <3>2. origin[1] = v
      BY <3>1, <2>4, <2>5 DEF Known, Reserved
    <3> QED  BY <2>4, <3>1, <3>2
  <2>6. origin = <<"Custom", Reserved[v]>>
    BY <2>1, <2>4, <2>5, KindFacts
  <2> QED  BY <2>4, <2>6
<1> QED  BY <1>1, <1>2, <1>3, TypeCorrect, PTL DEF Spec
=============================================================================
