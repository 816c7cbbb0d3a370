-------------------------------- MODULE Salt --------------------------------
(***************************************************************************)
(* src/hash/mod.rs, StaticSalt and ArcSwapSalt: the salt providers and the *)
(* checks on the length of a salt.  A process builds one provider and may  *)
(* replace the salt of an ArcSwapSalt while events are hashed.             *)
(***************************************************************************)
EXTENDS Integers, Sequences

CONSTANTS
  Salts,            \* byte sequences offered as salts
  MIN_SALT_LEN,     \* 16 in the code
  DebugAssertions,  \* cfg(debug_assertions): debug_assert! panics
  None

Providers == {"StaticSalt", "ArcSwapSalt"}

ASSUME SaltAssumption ==
  /\ MIN_SALT_LEN \in Nat
  /\ \A s \in Salts : Len(s) \in Nat
  /\ DebugAssertions \in BOOLEAN
  /\ None \notin Salts \union Providers

VARIABLES
  provider,  \* None, or the type of the provider that was built
  cell,      \* its salt
  checked,   \* built by try_new, the constructor that refuses short salts
  outcome    \* of the last constructor: "ok", "panic" or "SaltTooShort"

saltVars == <<provider, cell, checked, outcome>>

SaltTypeOK ==
  /\ provider \in Providers \union {None}
  /\ cell \in Salts \union {None}
  /\ provider # None <=> cell \in Salts
  /\ checked \in BOOLEAN
  /\ outcome \in {"ok", "panic", "SaltTooShort", None}

SaltInit ==
  /\ provider = None
  /\ cell = None
  /\ checked = FALSE
  /\ outcome = None

LongEnough(s) == Len(s) >= MIN_SALT_LEN

\* StaticSalt::new and ArcSwapSalt::new.
new(p, s) ==
  /\ provider = None
  /\ \/ /\ DebugAssertions => LongEnough(s)
        /\ provider' = p
        /\ cell' = s
        /\ checked' = FALSE
        /\ outcome' = "ok"
     \/ /\ DebugAssertions /\ ~LongEnough(s)
        /\ outcome' = "panic"
        /\ UNCHANGED <<provider, cell, checked>>

\* StaticSalt::try_new and ArcSwapSalt::try_new.
try_new(p, s) ==
  /\ provider = None
  /\ \/ /\ LongEnough(s)
        /\ provider' = p
        /\ cell' = s
        /\ checked' = TRUE
        /\ outcome' = "ok"
     \/ /\ ~LongEnough(s)
        /\ outcome' = "SaltTooShort"
        /\ UNCHANGED <<provider, cell, checked>>

\* ArcSwapSalt::set looks at no length.
set(s) ==
  /\ provider = "ArcSwapSalt"
  /\ cell' = s
  /\ UNCHANGED <<provider, checked, outcome>>
=============================================================================
