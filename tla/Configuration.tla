---------------------------- MODULE Configuration ----------------------------
(***************************************************************************)
(* NewConfiguration (configuration.go): the options are applied one after  *)
(* the other to the defaults, then all limits are validated and those that *)
(* contain each other are clamped.  The result never changes.              *)
(*                                                                         *)
(* Keys and words are abstract: a payload key is a word with underscores   *)
(* in front, and Canonical gives what CanonicalizeKey leaves of a word.    *)
(***************************************************************************)
EXTENDS Integers, FiniteSets

CONSTANTS
    None,
    Word,           \* the words keys are made of, without leading underscores
    Canonical,      \* what is left of a word without case and punctuation, or None
    DefaultSecret,  \* the words in defaultSensitiveKeys
    SecretPart,     \* the words with one of sensitiveKeyFragments in them
    Option,         \* the options the application may give
    MaxOptions      \* bound: how many of them

Limit == {"maxFileBytes", "maxStringBytes", "maxKeyBytes", "maxRecordBytes", "maxArrayItems",
          "maxPayloadNodes", "maxDepth", "retentionDays"}

ASSUME WordAssumption ==
    /\ None \notin Word \cup Int
    /\ DOMAIN Canonical = Word
    /\ DefaultSecret \subseteq Word /\ SecretPart \subseteq Word
ASSUME OptionAssumption ==
    /\ Option \subseteq [field : Limit, value : Int]
                  \cup [field : {"sensitiveKeys"}, value : SUBSET Word]
                  \cup [field : {"strictSensitiveKeys", "logDirectory"}, value : BOOLEAN]
    /\ MaxOptions \in Nat

VARIABLES
    values,         \* configValues: the defaults and the options so far
    given,          \* the options so far, only for the bound
    configuration   \* what NewConfiguration returned; an error is one without limits

configVars == <<values, given, configuration>>

minMaxKeyBytes == 32

(* `logDirectory` says whether the name is not empty.  Modes and handlers  *)
(* are left out.                                                           *)
Defaults ==
    [maxFileBytes |-> 50 * 1024 * 1024, maxStringBytes |-> 64 * 1024, maxKeyBytes |-> 256,
     maxRecordBytes |-> 256 * 1024, maxArrayItems |-> 1000, maxPayloadNodes |-> 10000,
     maxDepth |-> 16, retentionDays |-> 0, sensitiveKeys |-> {},
     strictSensitiveKeys |-> FALSE, logDirectory |-> TRUE]

ConfigValues ==
    [maxFileBytes : Int, maxStringBytes : Int, maxKeyBytes : Int, maxRecordBytes : Int,
     maxArrayItems : Int, maxPayloadNodes : Int, maxDepth : Int, retentionDays : Int,
     sensitiveKeys : SUBSET Word, strictSensitiveKeys : BOOLEAN, logDirectory : BOOLEAN]

ConfigInit ==
    /\ values = Defaults
    /\ given = 0
    /\ configuration = None

-----------------------------------------------------------------------------
(* An option replaces the value of its field; custom keys accumulate. *)
Apply(o) ==
    IF o.field = "sensitiveKeys"
    THEN [values EXCEPT !.sensitiveKeys = @ \cup o.value]
    ELSE [values EXCEPT ![o.field] = o.value]

With(o) ==
    /\ configuration = None
    /\ given < MaxOptions
    /\ given' = given + 1
    /\ values' = Apply(o)
    /\ UNCHANGED configuration

Valid ==
    /\ values.logDirectory
    /\ values.maxFileBytes > 0
    /\ values.maxStringBytes > 0
    /\ values.maxKeyBytes >= minMaxKeyBytes
    /\ values.maxRecordBytes > 0
    /\ values.maxArrayItems > 0
    /\ values.maxPayloadNodes > 0
    /\ values.maxDepth > 0
    /\ values.retentionDays >= 0

Least(m, n) == IF m > n THEN n ELSE m

(* Mutant of Clamped: the strings before the records. *)
ClampedSwapped ==
    [values EXCEPT !.maxRecordBytes = Least(@, values.maxFileBytes),
                   !.maxStringBytes = Least(@, values.maxRecordBytes)]

Clamped ==
    LET record == Least(values.maxRecordBytes, values.maxFileBytes)
    IN  [values EXCEPT !.maxRecordBytes = record, !.maxStringBytes = Least(@, record)]

(* The canonical forms of the default keys and the custom ones. *)
KeySet == {Canonical[w] : w \in DefaultSecret \cup values.sensitiveKeys} \ {None}

Build ==
    /\ configuration = None
    /\ Valid
    /\ configuration' = [limits |-> Clamped, sensitiveKeySet |-> KeySet]
    /\ UNCHANGED <<values, given>>

Reject ==
    /\ configuration = None
    /\ ~Valid
    /\ configuration' = [limits |-> None, sensitiveKeySet |-> {}]
    /\ UNCHANGED <<values, given>>

ConfigNext ==
    \/ \E o \in Option : With(o)
    \/ Build
    \/ Reject

-----------------------------------------------------------------------------
Configurations ==
    [limits : ConfigValues, sensitiveKeySet : SUBSET {Canonical[w] : w \in Word}]
        \cup [limits : {None}, sensitiveKeySet : {{}}]

ConfigTypeOK ==
    /\ values \in ConfigValues
    /\ given \in 0 .. MaxOptions
    /\ configuration \in Configurations \cup {None}

Built == configuration # None /\ configuration.limits # None

(* The limits of a configuration contain each other, whichever options     *)
(* were given in whichever order: a record fits into a shard, a string     *)
(* into a record, a digest into a key, and no limit is zero.  The writer   *)
(* and the sanitizer rely on it without looking.                           *)
LimitsNested ==
    Built =>
        LET c == configuration.limits
        IN  /\ 0 < c.maxStringBytes
            /\ c.maxStringBytes <= c.maxRecordBytes
            /\ c.maxRecordBytes <= c.maxFileBytes
            /\ c.maxKeyBytes >= minMaxKeyBytes
            /\ c.maxArrayItems > 0 /\ c.maxPayloadNodes > 0 /\ c.maxDepth > 0
            /\ c.retentionDays >= 0

=============================================================================
