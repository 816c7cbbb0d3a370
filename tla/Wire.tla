-------------------------------- MODULE Wire --------------------------------
(***************************************************************************)
(* src/event.rs and src/visitor.rs: kind and visitor id of an event on     *)
(* their way through services.  One processes a raw event and serializes   *)
(* the result; another reads it, passes it on, or makes a raw event of it  *)
(* and processes that.  Both types are written as plain texts and read     *)
(* back through their validating constructors.                             *)
(*                                                                         *)
(* A text stands for its length and the set of bytes in it.  JSON returns  *)
(* the text it was given.                                                  *)
(***************************************************************************)
EXTENDS Integers

CONSTANTS
  None,
  Texts,      \* texts a consumer may use
  Size,       \* Size[s]: length of s in bytes
  Bytes,      \* Bytes[s]: the bytes that occur in s
  Generated   \* ids of the strategy: base62 digests

MAX_CUSTOM == 64
MAX_VISITOR_ID == 128

\* as_wire of the variants without a payload.
Reserved == [PageView |-> "page_view", Click |-> "click", View |-> "view",
             FormSubmit |-> "form_submit", Conversation |-> "conversation"]
Known == DOMAIN Reserved

\* EventKind: a variant, with a text if it is Custom.
EventKind == {<<v>> : v \in Known} \union {<<"Custom", s>> : s \in Texts}

\* The two fields of a serialized event.
Written == [kind : Texts, visitor_id : Texts \union {None}]

\* Base62Proofs bounds the length of ids; their digits are alphanumeric.
ASSUME WireAssumption ==
  /\ \A v \in Known : Reserved[v] \in Texts
  /\ Generated \subseteq Texts
  /\ Size \in [Texts -> Nat]
  /\ Bytes \in [Texts -> SUBSET (0 .. 255)]
  /\ \A s \in Generated : Size[s] \in 1 .. MAX_VISITOR_ID /\ Bytes[s] \subseteq 48 .. 122
  /\ None \notin Texts /\ None \notin EventKind /\ None \notin Written

VARIABLES
  pc,          \* "raw", "event" or "sent"; "refused" or "unreadable" at the end
  kind, visitor_id,  \* None where no event is in memory
  message,     \* the event as last written, None at first
  origin       \* auxiliary: the kind the consumer chose, None if unknown

vars == <<pc, kind, visitor_id, message, origin>>

-----------------------------------------------------------------------------
\* What validate_custom_kind and VisitorId::new have in common.
Checked(s, first, limit) ==
  IF Size[s] = 0 \/ ~(Bytes[s] \subseteq first .. 126) THEN "InvalidFormat"
  ELSE IF Size[s] > limit THEN "InvalidInput" ELSE "ok"

validate_custom_kind(s) == Checked(s, 32, MAX_CUSTOM)
VisitorId_new(s) == Checked(s, 33, MAX_VISITOR_ID)

(* Operators named Mutant... are plausible bugs; no action uses them.      *)

\* The name of the variant, as derive(Serialize) would write it.
MutantAsWire(k) == IF k[1] = "Custom" THEN k[2] ELSE k[1]

as_wire(k) == IF k[1] = "Custom" THEN k[2] ELSE Reserved[k[1]]

IsReserved(s) == \E v \in Known : Reserved[v] = s

\* custom where validate_custom_kind(s) is "ok" or s is reserved.
custom(s) ==
  IF IsReserved(s) THEN <<CHOOSE v \in Known : Reserved[v] = s>> ELSE <<"Custom", s>>
CustomAccepts(s) == IsReserved(s) \/ validate_custom_kind(s) = "ok"

-----------------------------------------------------------------------------
\* RawEvent::new with any kind: the variant Custom is public, so its text need
\* not have passed custom.  A visitor id has passed new.
Made ==
  /\ pc = "raw"
  /\ kind \in EventKind
  /\ visitor_id \in {s \in Texts : VisitorId_new(s) = "ok"} \union {None}
  /\ message = None
  /\ origin = kind

\* An event that some other program has written.
Foreign ==
  /\ pc = "sent"
  /\ message \in Written
  /\ kind = None /\ visitor_id = None /\ origin = None

Init == Made \/ Foreign

\* Kinds are validated by custom, and validate leaves them alone.
MutantUnvalidated == TRUE

\* validate looks at Custom only.
ValidKind == kind[1] = "Custom" => validate_custom_kind(kind[2]) = "ok"

Refuse ==
  /\ pc = "raw" /\ ~ValidKind
  /\ pc' = "refused"
  /\ UNCHANGED <<kind, visitor_id, message, origin>>

\* The strategy's id takes precedence.
MutantProcess ==
  /\ pc = "raw" /\ ValidKind
  /\ visitor_id' \in Generated \union {None}
  /\ pc' = "event"
  /\ UNCHANGED <<kind, message, origin>>

\* The given id, or the strategy's, which new_unchecked wraps, if there is one.
Process ==
  /\ pc = "raw" /\ ValidKind
  /\ visitor_id' \in IF visitor_id # None THEN {visitor_id} ELSE Generated \union {None}
  /\ pc' = "event"
  /\ UNCHANGED <<kind, message, origin>>

Serialize ==
  /\ pc = "event"
  /\ message' = [kind |-> as_wire(kind), visitor_id |-> visitor_id]
  /\ pc' = "sent"
  /\ UNCHANGED <<kind, visitor_id, origin>>

Readable(m) ==
  CustomAccepts(m.kind) /\ (m.visitor_id # None => VisitorId_new(m.visitor_id) = "ok")

Deserialize ==
  /\ pc = "sent" /\ Readable(message)
  /\ kind' = custom(message.kind)
  /\ visitor_id' = message.visitor_id
  /\ pc' = "event"
  /\ UNCHANGED <<message, origin>>

\* A message that is refused becomes an event without a kind.
MutantDefaulted ==
  /\ pc = "sent" /\ ~Readable(message)
  /\ pc' = "event"
  /\ UNCHANGED <<kind, visitor_id, message, origin>>

DeserializeFails ==
  /\ pc = "sent" /\ ~Readable(message)
  /\ pc' = "unreadable"
  /\ UNCHANGED <<kind, visitor_id, message, origin>>

\* A consumer makes a raw event of what it read, to enrich it further.
Reprocess ==
  /\ pc = "event" /\ message # None
  /\ pc' = "raw"
  /\ UNCHANGED <<kind, visitor_id, message, origin>>

Next ==
  \/ Refuse \/ Process
  \/ Serialize \/ Deserialize \/ DeserializeFails
  \/ Reprocess

Spec == Init /\ [][Next]_vars

-----------------------------------------------------------------------------
(* Properties.                                                             *)

TypeOK ==
  /\ pc \in {"raw", "event", "sent", "refused", "unreadable"}
  /\ {kind, origin} \subseteq EventKind \union {None}
  /\ visitor_id \in Texts \union {None}
  /\ message \in Written \union {None}
  /\ message = None => pc \in {"raw", "event", "refused"}
  /\ kind = None => pc \in {"sent", "unreadable"}

\* README.md, Serialization: kinds and ids are read through their validating
\* constructors, but an event is made without them, from a Custom kind and an
\* id out of new_unchecked.  What process once accepted, every service can
\* read; and what could be read, from whomever it came, process accepts.
NothingAcceptedIsLost ==
  /\ pc = "unreadable" => origin = None
  /\ pc = "refused" => message = None

\* The next service finds the kind written as the first one wrote it, however
\* often it was read and processed in between, and an id that is there stays
\* (README.md: process passes it through unchanged).
PassedOnUnchanged ==
  [][message # None =>
       /\ message'.kind = message.kind
       /\ message.visitor_id # None => message'.visitor_id = message.visitor_id]_vars

\* The kind in memory may differ from the one the consumer chose in one way:
\* a Custom kind with a reserved name becomes that variant when it is read.
\* Of all other kinds, services that compare them see what was meant.
FoldsOnlyReserved ==
  origin # None /\ kind # origin =>
    \E v \in Known : origin = <<"Custom", Reserved[v]>> /\ kind = <<v>>
=============================================================================
