# A verification project for enrichr

enrichr turns a `RawEvent` (URL, address, user agent, referrer, UTM parameters)
into an enriched `Event`. It is a library without I/O of its own: the consumer
builds one `Processor`, shares it behind an `Arc`, calls `process` from as many
threads as it likes, and rotates the salt and reloads the GeoIP database while
they run. The TLA+ modules here model that core; TLC checks small instances and
TLAPS proves the safety properties for every value of the constants.

## The system

| component | source | state it keeps | operations | correct when |
|---|---|---|---|---|
| GeoIP database | `src/geoip.rs` | a cell (`ArcSwapOption`) with the decoded database | `empty`, `from_path`, `reload_from_path`, `reload_from_bytes`, `lookup` | a replacement is no older and not much smaller; a lookup answers from one database in force during the call, never from an older one than was answered from before; nobody waits |
| salt providers | `src/hash/mod.rs` | a fixed salt, or a cell (`ArcSwap`) | `new`, `try_new`, `set`, `current_salt` | a salt is a secret of at least 16 bytes; a replaced salt is not used again |
| framing, base62 | `src/hash/mod.rs` | none | `frame`, `base62` | injective; the id is never empty and at most 128 long |
| address masks | `src/ip.rs` | none | `mask_ip` | one site, one result, whether IPv4 or IPv4-mapped |
| visitor id strategies | `src/strategy.rs` | hasher, provider, mask | `visitor_id` | equal ids are one visitor under one salt, and one visitor has one id |
| processor | `src/processor.rs` | what the builder was given | the builder, `process`, `geoip` | an event has one salt and one database; equal events give equal results; texts with a limit keep it, and only an event with one that is too long, or a bad kind, is refused |
| user agent parser | `src/useragent.rs` | one `OnceLock` for the process | `parse` | built once, waited for only by those who need it; bucket, system and `is_bot` agree |
| event kinds, visitor ids | `src/event.rs`, `src/visitor.rs` | none | `custom`, `as_wire`, `VisitorId::new`, serde | what `process` accepts every service can read, as it was written |
| classifier, referrer helpers | `src/classify.rs`, `src/referrer.rs` | static tables | `classify`, `registrable_domain`, `extract_utm`, `paid_click` | the first value counts; category, source and medium belong together |
| client address | `src/headers.rs` | none | `client_ip` | the first header that parses wins, and a trusted edge can see to it which that is |
| hash functions, errors, features | `src/hash/*.rs`, `src/error.rs`, `src/lib.rs` | none | | |

Interaction is by calls and three shared cells. A `process` call takes the salt
out of the provider (through the strategy), then the database out of its cell,
then the extractor out of the `OnceLock`, in this order, and computes on its own
in between. `ArcSwapSalt::set` and the reloads store into the first two cells at
any time; the first parse builds the third.

What is hard here: a reload compares with a database it loaded and stores
later; a lookup and an id use a snapshot that may have been replaced; an event
takes two snapshots at two moments; the first user agent makes others wait; the
gate and the base62 division depend on integer width; the limits are checked
field by field; kinds are checked at three places that must agree; and credit
for a visit comes out of three sources that are read at different times.
`PROJECT.json` lists each hazard at its line.

## The modules

- **`GeoIpPromise`** states what the documentation promises of the database as
  an atomic object: `Reload` replaces it in one step if the gate admits it, a
  lookup is asked, answered at one moment and returned.
- **`GeoIpDb`** takes the steps of `src/geoip.rs`, one action per access to the
  cell: `BuildCandidate` (read and decode), `LoadAndGate` (`load_full` and the
  comparisons), `Store`, and `BeginLookup`, `LookupLoad`, `LookupDecode`.
  `candidate`, `loaded`, `ip` are the locals of the functions. `served`, `mark`
  and `window` are history that no guard reads. The refinement mapping to
  `GeoIpPromise` puts a reload at its store and a lookup at its load.
- **`Base62`** runs the two loops of `base62`, a byte or a pass per action, with
  the truncation to `u8`.
- **`IpMask`**, **`Framing`**, **`Salt`** are the pure functions and the salt
  cell; **`Strategy`** composes them: `BuildSalt`, `RotateSalt`, and per thread
  `Call`, `NoIp`, `LoadSalt`, `Hash`.
- **`Processor`** composes the salt cell (`Salt`), the atomic database
  (`GeoIpPromise`, which one reloading thread implements) and the extractor.
  `Reject` and `Begin` are a call up to `validate`, `VisitorId` and `Location`
  the two snapshots, `BuildExtractor` and `ExtractorReady` the closure of
  `get_or_init`, `Return` the parse, the referrer and the assembled event.
- **`Wire`** follows kind and visitor id of an event through services:
  `Process` or `Refuse`, `Serialize`, `Deserialize` or `DeserializeFails`,
  `Reprocess`. An event starts out of `RawEvent::new`, with any `Custom` text,
  or as a message some other program wrote. A text stands for its length and
  its bytes.
- **`Attribution`** takes a page view from the query of its URL to its
  `TrafficSource`: the loop of `extract_utm`, which the consumer may call or
  not, the UTM checks of `validate`, the loop of `paid_click`, each a pair of
  the query per step, then `registrable_domain` and `classify` with both tables
  of the code. `process` itself computes `paid_click` inside `classify`; nothing
  changes between the two.
- **`Headers`** has the headers a client sends, an edge that overwrites or
  removes some, proxies that append, and then the loop of `client_ip`.
- **`UserAgent`** is `parse` as a function of what the extractor found, with
  the markers and word lists of the code. A text is the set of words of interest
  in it; words that arise where texts are joined are a table of their own.
- **`MC...`** modules hold the instances, **`...Proofs`** the theorems.
  `EXTENDS` composes; the constants of one instance are those of its parts.

Operators named `Mutant...` are plausible bugs, kept next to what they mutate to
show that each property notices one. No action uses them.

Abstractions. File contents are members of a set with a table of epochs, sizes
and locations. Hashes are injective, so an id is the frame it hashes, or its
arguments. In `Processor` the parser and the classifier, which are pure, stand
for their arguments, and a text for its length; each part of a supplied
`parsed_ua` is the longest of its texts. Timestamps pass through unread and are
left out. All features are on.

## The runs

| run | instance | shows |
|---|---|---|
| `geoip_sole` | 1 reloading thread, 2 looking up, 4 contents around the gate and one that does not decode | `ImplementsPromise`, `NoStaleAnswer`, `WaitFree`: the atomic gated object, at which no thread waits for another |
| `geoip_concurrent` | 2 reloading threads, 1 looking up, one content whose products saturate | what remains: `InstallsWereGated`, `UnracedInstallsAreGated`, `NoSpuriousRefusal`, `AnswerWasCurrent` |
| `geoip_race` | the same | violates `InstallsAreGated` |
| `base62` | all digests of 3 bytes out of 11 edge values | `QuotientFitsByte`, `ValuePreserved`, `LengthBounds`, `Terminates` |
| `strategy_rotation` | 2 threads, 3 salts of different length, masks Balanced and Full, 11 events | `SameIdSameVisitor`, `StableId`, `IdFromCurrentSalt` |
| `salt_set_short` | 1 thread, one event | violates `CheckedSaltStaysSecret` |
| `pipeline` | 2 threads, 2 salts, 2 databases, 7 events, of which 4 are refused and one brings a `screen_width` and a `parsed_ua` longer than most limits, all components or none | `OneSaltThenOneDatabase`, `Deterministic`, `OnlyUnlimitedOverrun`, `ErrorNamesCulprit` |
| `pipeline_live` | 3 threads, one salt, one database that arrives later | `Returns`, `OnlyParsingWaits` |
| `wire` | texts on both sides of each bound on length and bytes, the reserved names and the names of their variants | `NothingAcceptedIsLost`, `PassedOnUnchanged`, `FoldsOnlyReserved` |
| `attribution` | every query of up to 3 parameters out of 9, 10 kinds of referrer | `FirstAliasWins`, `RefusedForWhatCounts`, `FirstClickPays`, `NoMixedCredit`, `CreditUnlessDirect` |
| `client_ip` | each of the five headers missing, an address, or nonsense before an address | `EdgeDecides`, `FirstReadableWins` |
| `user_agent` | combinations of browsers, systems, devices and texts | `BucketsAgree` |

Why the bounds suffice. The race of the gate needs two reloaders and three
databases, and sizes on both sides of four fifths: `b` has exactly 80% of `a`,
`c` one byte less, `d` is as old as `a` but larger. `U64Max` is scaled so that
one content saturates. Real-time order between lookups needs two of them. A
mask acts on bits, so bytes of 3 bits with one byte for IPv4 and three for IPv6
keep three different IPv4 prefixes and an IPv6 prefix that ends before the
mapped range. A digit of base62 is decided by a byte and a remainder, so three
bytes show a carry into, through and out of the middle. Two threads suffice for
a builder and a waiter at the extractor, three for two waiters. Three parameters allow a value, a repeat of it
and a click id between or around them, in every order; the referrers include one
listed in each table, one in neither, an address and a host without a domain.
Texts at a limit and one byte above, the empty text and the bytes next to the
printable range meet every branch of the two validations. Symmetry is
used only for runs without temporal properties beyond action properties, on
threads that no property tells apart.

`Base62.cfg` turns deadlock checking off because `base62` returns. `Salt`
allows a salt of any length from `set`; `StrategyRotation` runs a debug build,
where `new` panics on short salts, `SaltSetShort` a release build. The runs of
`Wire`, `Attribution`, `Headers` and `UserAgent` turn it off because a call
returns, and an event is refused or unreadable in the end.

What a reader may not expect, though no document promises otherwise:

- `Custom("page_view")` passes `validate` and is read back as `PageView`.
  `FoldsOnlyReserved` says that nothing else changes on the way.
- `process` looks for click ids in `page_url` but for UTM parameters only in the
  context. The quickstart of the repository's `README.md` (lines 42-51) sets a
  URL with `utm_source` and calls no `extract_utm`; its event is credited to the
  referrer. `FirstClickPays` and `NoMixedCredit` hold either way, as `extracts`
  takes both values.
- `validate` measures ten texts. `screen_width` and `orientation` of the context
  and the texts of a supplied `parsed_ua` are handed on at any length.
  `OnlyUnlimitedOverrun` says that no others are.
- A campaign that gives only one of source and medium is completed by the click
  or, without one, by the referrer. `NoMixedCredit` says that what it leaves open
  has one origin.
- A brand `XiaoMi` with a model `Pad 5` is a tablet, because the joined texts
  contain `ipad`. Apart from a word of its own texts, `BucketsAgree` allows only
  this reason for a tablet.
- An empty `utm_source=` counts as a value, for `extract_utm` and for `classify`.
- With the edge headers unset, `client_ip` falls through to the entry the client
  chose. `EdgeDecides` is what the caller has to ensure, in exact terms.

## Two disagreements with the documentation

1. The repository's `README.md:109` says that reloads are gated against the current database.
   `reload_from_bytes` compares with what it loaded (`src/geoip.rs:44`) and
   stores without looking again (line 54). Two reloads that overlap both pass
   against the old database, and the one that stores last may be older than or
   far smaller than what it replaces. With one reloading thread, the timer the
   README suggests, the promise holds, and is proved.
2. `src/hash/mod.rs:26-27` demands at least 16 bytes of every provider.
   `ArcSwapSalt::set` (line 133) checks nothing, so a provider from `try_new`
   may end up with a short or empty salt.

## Fairness

Specifications state no fairness except `Base62!FairSpec`: a thread inside a
loop without waiting runs on. Liveness elsewhere carries its fairness in the
property. `WaitFree` and `OnlyParsingWaits` assume it only of the thread whose
call is to return, so they hold wherever the others have stopped: the code loads
and stores through `arc_swap` and takes no lock. `Returns` assumes that every
thread keeps running, because `OnceLock` blocks whoever meets an extractor under
construction; weak fairness suffices, since it stays ready once it is.

## What is proved

| module | theorems | argument |
|---|---|---|
| `GeoIpDbProofs` | `TypeCorrect`, `AnswersAreCurrent`, `InstalledWereGated`, `UnracedAreGated`, `RefusalsAreJustified` for any number of threads; `SoleNoStaleAnswer`, `SoleInstallsAreGated` assuming `Sole`; `ImplementsAtomically` assuming `Sole` and `NoSaturation` | `WindowInv`: what a call loaded, or was gated against, is in its window. `SoleInv`: between gate and store of the only reloader the cell has not changed, and epochs of the cell never fall below what was served |
| `Base62Proofs` | `TypeCorrect`, `NoTruncation`, `IdLength`, `ValueKept`, `NoCollision` | remainders stay below 62, hence quotients below 256; `LengthInv`: how many digits each skipped byte has cost, from the bound on the leading byte; `ValueInv`: within a pass, quotient, remainder and the bytes not yet divided, followed by the digits found, are still the digest; different digests are different numbers, so an id is of one digest (`NoCollision`) |
| `StrategyProofs` | `TypeCorrect`, `IdsFromCurrentSalt`, `MaskIsSite`, `NoneIsFull`, `FrameInjective`, `EqualIdsOneVisitor`, `OneVisitorOneId` | `CallInv`: a salt taken is in the window of its call; the rest below |
| `ProcessorProofs` | `TypeCorrect`, `OneSaltOneDatabase`, `SameEventSameResult`, `WithinLimits`, `ErrorsAreTrue` | `PairInv`, below |
| `WireProofs` | `TypeCorrect`, `AcceptedIsNeverLost`, `PassesOnUnchanged`, `OnlyReservedFold` | `WireInv`: what is in memory, once processed or read, is valid and written as the message it came from; `FoldInv`: until it is read the kind is the consumer's, then what `custom` makes of it |
| `AttributionProofs` | `TypeCorrect`, `FirstOfTheAliases`, `RefusedOnlyForWhatCounts`, `FirstClickIsCredited`, `CreditIsNotMixed`, `OnlyDirectLacksCredit` | `UtmInv` and `PaidInv`: what the loops hold is the first match among the pairs read so far; `LongInv`, `ResultInv`: what has been decided stays true of `utm` and `paid` |
| `HeadersProofs` | `TypeCorrect`, `FirstReadable`, `EdgeDecidesTheAddress` | `LoopInv`: no header passed over begins with an address, and what the edge fixed is gone or begins with its entry, however many are appended |
| `UserAgentProofs` | `TypeCorrect`, `BucketsAlwaysAgree` | the words of each text are among those of the joined one, which has no others but those of its joints |

`Sole` says that one thread reloads; `NoSaturation` that 100 times every size
fits 64 bits. The other theorems have no hypothesis but the assumptions on
constants, named in the modules that declare them and evaluated by TLC. Those of
`Strategy` say that the length of every part has a code, as it does in the `u64`
of `frame`, and those of `IpMask` that `None` and `Full` keep all bits.

`OneSaltThenOneDatabase` is not inductive: after `VisitorId` the salt is fixed
and the database is still to be read. `PairInv` adds that while a call runs,
every salt it may have taken is paired in `seen` with the database now in force
(`Running`), so whichever database `Location` reads makes a pair, and that
locals and results come from one pair (`LocalsPaired`, `ResultPaired`).
`Deterministic` follows because a result is a function of event and pair.
`ResultPaired` also says that an event in hand was accepted by `validate`, and
that an error is its answer. `Verdicts` states what it answers: a bad kind, or
one of the texts that are too long, or none if there are none, whichever check
comes first. From this follow `OnlyUnlimitedOverrun` and `ErrorNamesCulprit`.

`EqualIdsOneVisitor` and `OneVisitorOneId` compare ids, which are frames of
masked octets, with visitors, whose addresses are sets of bits in the IPv6 form
(`Site`). The proof goes from one to the other:

- `FrameInjective`: frames are compared part by part through their length
  prefixes, so equal frames have four equal parts.
- `OctetsInjective`: octets are the digits of the address in the base of a byte,
  and their number tells the family, so equal octets are of one address.
- `MaskForm`: in every mode a mask keeps the quotient of the address by a power
  of two, the number of cleared bits being its exponent.
- `HighBits`: two numbers have the same bits from `j` on just when their
  quotients by `Pow2[j]` are the same. `CanonicalForm` adds that `canonical` keeps
  the IPv6 form, and `WholeAbove` that the bits which mark a mapped address lie
  above every mask of IPv4. `MaskIsSite` puts these together.

The proof of `ValueKept` needs induction over the digits of a number. The
library's induction theorems take an operator, which the provers cannot
instantiate; `Induction` in `Base62Proofs` states it of a set instead, from the
fact that a set of numbers has a least element, and every lemma on `Number`
gives it the set of lengths for which the lemma holds. `StrategyProofs` does the
same for powers of two and digits. `Pow2` is a recursive function because the
provers know nothing of `^`.

Model-checked only: liveness (`WaitFree`, `Terminates`, `Returns`,
`OnlyParsingWaits`), which is beyond the prover. Every safety property of a
passing run is proved.

## What is not modelled, and what comes next

Not modelled: the hash functions, URL parsing, the public suffix list, the
regexes and the MaxMind decoder (external code), error messages, schemas and
feature flags.

Timestamps and the redaction of `Debug` are left out, so the component of the
events is only partly modelled.

Next: the `Processor` with several reloading threads, over `GeoIpDb` itself instead
of the atomic database.
