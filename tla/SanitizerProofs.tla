--------------------------- MODULE SanitizerProofs ---------------------------
(***************************************************************************)
(* Safety of the sanitizer for every configuration that any options build, *)
(* every payload of any number of containers, and any keys.                *)
(***************************************************************************)
EXTENDS Sanitizer, SequenceTheorems, FiniteSetTheorems, WellFoundedInduction, TLAPS

-----------------------------------------------------------------------------
(* The configuration.                                                      *)

(* What was built is what the options said, clamped. *)
BuiltFrom ==
    Built => /\ configuration.limits = Clamped
             /\ configuration.sensitiveKeySet = KeySet

ConfigInv == ConfigTypeOK /\ BuiltFrom /\ LimitsNested

LEMMA DefaultTypes == Defaults \in ConfigValues
BY DEF Defaults, ConfigValues

LEMMA ApplyType ==
    ASSUME ConfigTypeOK, NEW o \in Option
    PROVE  Apply(o) \in ConfigValues
<1>1. values \in ConfigValues
  BY DEF ConfigTypeOK
<1>2. CASE o.field = "sensitiveKeys"
  <2>1. o.value \in SUBSET Word
    BY <1>2, OptionAssumption DEF Limit
  <2> QED
    BY <1>1, <1>2, <2>1 DEF Apply, ConfigValues
<1>3. CASE o.field \in Limit
  <2>1. o.value \in Int
    BY <1>3, OptionAssumption DEF Limit
  <2>2. o.field # "sensitiveKeys"
    BY <1>3 DEF Limit
  <2> QED
    BY <1>1, <1>3, <2>1, <2>2 DEF Apply, ConfigValues, Limit
<1>4. CASE o.field \in {"strictSensitiveKeys", "logDirectory"}
  <2>1. o.value \in BOOLEAN
    BY <1>4, OptionAssumption DEF Limit
  <2> QED
    BY <1>1, <1>4, <2>1 DEF Apply, ConfigValues
<1>5. o.field \in Limit \cup {"sensitiveKeys", "strictSensitiveKeys", "logDirectory"}
  BY OptionAssumption
<1> QED
  BY <1>2, <1>3, <1>4, <1>5

LEMMA ClampedType ==
    ASSUME ConfigTypeOK
    PROVE  /\ Clamped \in ConfigValues
           /\ Clamped.maxRecordBytes = Least(values.maxRecordBytes, values.maxFileBytes)
           /\ Clamped.maxStringBytes = Least(values.maxStringBytes, Clamped.maxRecordBytes)
           /\ \A f \in {"maxFileBytes", "maxKeyBytes", "maxArrayItems", "maxPayloadNodes", "maxDepth",
                        "retentionDays"} : Clamped[f] = values[f]
BY DEF ConfigTypeOK, ConfigValues, Clamped, Least

(* A set of entries has a first one: of the sets of those up to one of     *)
(* them, the smallest is up to it.                                         *)
LEMMA LeastElement ==
    ASSUME NEW slots \in SUBSET Nat, slots # {}, IsFiniteSet(slots)
    PROVE  First(slots) \in slots /\ \A t \in slots : First(slots) <= t
<1> DEFINE Below(s) == {t \in slots : t <= s}
           below == {Below(s) : s \in slots}
<1>1. PICK x \in below : \A y \in below : ~(<<y, x>> \in StrictSubsetOrdering(slots))
  <2>1. IsWellFoundedOn(StrictSubsetOrdering(slots), FiniteSubsetsOf(slots))
    BY FS_StrictSubsetOrderingWellFounded
  <2>2. below \subseteq FiniteSubsetsOf(slots) /\ below # {}
    <3>1. ASSUME NEW s \in slots PROVE Below(s) \in FiniteSubsetsOf(slots)
      <4>1. Below(s) \in SUBSET slots
        OBVIOUS
      <4> QED
        BY <4>1, FS_Subset DEF FiniteSubsetsOf
    <3> QED
      BY <3>1
  <2> QED
    BY <2>1, <2>2, WFMin
<1>2. PICK s \in slots : x = Below(s)
  OBVIOUS
<1>3. ASSUME NEW t \in slots PROVE s <= t
  <2>1. SUFFICES ASSUME t < s PROVE FALSE
    OBVIOUS
  <2>2. Below(t) \subseteq x /\ s \in x /\ s \notin Below(t)
    <3>1. s \in Nat /\ s \in x
      BY <1>2
    <3>2. t \in Nat /\ ~(s <= t)
      BY <2>1, <3>1
    <3>3. s \notin Below(t)
      BY <3>2
    <3>4. ASSUME NEW u \in Below(t) PROVE u \in x
      <4>1. u \in Nat /\ u \in slots /\ u <= t
        BY <3>4
      <4>2. u <= s
        BY <2>1, <3>1, <3>2, <4>1
      <4> QED
        BY <1>2, <4>1, <4>2
    <3> QED
      BY <3>1, <3>3, <3>4
  <2>3. Below(t) \in below /\ Below(t) \subseteq slots /\ x \subseteq slots
    BY <1>2
  <2>4. <<Below(t), x>> \in StrictSubsetOrdering(slots)
    BY <2>2, <2>3, SMTT(30) DEF StrictSubsetOrdering
  <2> QED
    BY <1>1, <2>3, <2>4
<1> QED
  BY <1>3 DEF First

LEMMA ConfigStep ==
    ASSUME ConfigInv, ConfigNext \/ UNCHANGED configVars
    PROVE  ConfigInv' /\ (Built => UNCHANGED configVars)
<1> USE DEF ConfigInv
<1>1. CASE \E o \in Option : With(o)
  <2>1. PICK o \in Option : With(o)
    BY <1>1
  <2>2. values' \in ConfigValues
    BY <2>1, ApplyType DEF With
  <2>3. configuration = None /\ configuration' = None /\ given' \in 0 .. MaxOptions
    BY <2>1, OptionAssumption DEF With, ConfigTypeOK
  <2> QED
    BY <2>2, <2>3 DEF ConfigTypeOK, BuiltFrom, LimitsNested, Built
<1>2. CASE Build
  <2>1. /\ configuration = None /\ Valid /\ UNCHANGED <<values, given>>
        /\ configuration' = [limits |-> Clamped, sensitiveKeySet |-> KeySet]
    BY <1>2 DEF Build
  <2>2. Clamped \in ConfigValues /\ KeySet \subseteq {Canonical[w] : w \in Word}
    BY ClampedType, WordAssumption DEF KeySet, ConfigTypeOK, ConfigValues
  <2>3. ConfigTypeOK'
    BY <2>1, <2>2 DEF ConfigTypeOK, Configurations
  <2>4. BuiltFrom'
    BY <2>1 DEF BuiltFrom, Clamped, KeySet, Least
  <2>5. LimitsNested'
    <3> DEFINE c == Clamped
    <3>1. /\ values.maxFileBytes \in Int /\ values.maxRecordBytes \in Int
          /\ values.maxStringBytes \in Int
      BY DEF ConfigTypeOK, ConfigValues
    <3>2. /\ values.maxFileBytes > 0 /\ values.maxStringBytes > 0 /\ values.maxRecordBytes > 0
          /\ values.maxKeyBytes >= minMaxKeyBytes /\ values.maxArrayItems > 0
          /\ values.maxPayloadNodes > 0 /\ values.maxDepth > 0 /\ values.retentionDays >= 0
      BY <2>1 DEF Valid
    <3>3. /\ c.maxRecordBytes = Least(values.maxRecordBytes, values.maxFileBytes)
          /\ c.maxStringBytes = Least(values.maxStringBytes, c.maxRecordBytes)
          /\ c.maxFileBytes = values.maxFileBytes /\ c.maxKeyBytes = values.maxKeyBytes
          /\ c.maxArrayItems = values.maxArrayItems /\ c.maxPayloadNodes = values.maxPayloadNodes
          /\ c.maxDepth = values.maxDepth /\ c.retentionDays = values.retentionDays
      BY DEF Clamped, ConfigTypeOK, ConfigValues
    <3>4. configuration'.limits = c
      BY <2>1
    <3> HIDE DEF c
    <3> QED
      BY <3>1, <3>2, <3>3, <3>4 DEF LimitsNested, Least
  <2> QED
    BY <2>1, <2>3, <2>4, <2>5, SMTT(30) DEF Built
<1>3. CASE Reject
  BY <1>3 DEF Reject, ConfigTypeOK, BuiltFrom, LimitsNested, Built, Configurations
<1>4. CASE UNCHANGED configVars
  BY <1>4 DEF configVars, ConfigTypeOK, BuiltFrom, LimitsNested, Built, Clamped, KeySet, Least
<1> QED
  BY <1>1, <1>2, <1>3, <1>4 DEF ConfigNext

LEMMA ConfigBegins == ConfigInit => ConfigInv
BY DefaultTypes, OptionAssumption
DEF ConfigInit, ConfigInv, ConfigTypeOK, BuiltFrom, LimitsNested, Built

(* The budgets of a configuration, for the sanitizer. *)
LEMMA LimitTypes ==
    ASSUME ConfigInv, Built
    PROVE  /\ limits.maxKeyBytes \in Nat /\ minMaxKeyBytes <= limits.maxKeyBytes
           /\ limits.maxPayloadNodes \in Nat
           /\ limits.maxDepth \in Nat \ {0}
           /\ limits.maxArrayItems \in Nat
           /\ limits.strictSensitiveKeys = values.strictSensitiveKeys
<1>1. limits = Clamped /\ Clamped \in ConfigValues
  BY ClampedType DEF ConfigInv, BuiltFrom, limits
<1>2. /\ limits.maxKeyBytes \in Int /\ limits.maxPayloadNodes \in Int /\ limits.maxDepth \in Int
      /\ limits.maxArrayItems \in Int
  BY <1>1 DEF ConfigValues
<1>3. /\ limits.maxKeyBytes >= minMaxKeyBytes /\ limits.maxArrayItems > 0
      /\ limits.maxPayloadNodes > 0 /\ limits.maxDepth > 0
  BY DEF ConfigInv, LimitsNested, limits
<1>4. limits.strictSensitiveKeys = values.strictSensitiveKeys
  BY <1>1 DEF Clamped, ConfigInv, ConfigTypeOK, ConfigValues
<1> QED
  BY <1>2, <1>3, <1>4 DEF minMaxKeyBytes

(* Whatever the options say, in any order and any number of them, the      *)
(* limits that NewConfiguration returns contain each other.                *)
THEOREM LimitsStayNested == Spec => []LimitsNested
<1>1. Init => ConfigInv
  BY ConfigBegins DEF Init
<1>2. ConfigInv /\ [Next]_vars => ConfigInv'
  <2> SUFFICES ASSUME ConfigInv, [Next]_vars PROVE ConfigNext \/ UNCHANGED configVars
    BY ConfigStep
  <2> QED
    BY DEF Next, Normalize, Sanitize, RenderLeaf, MaxDepthExceeded, MarshalValue,
           CircularReference, MarshalMap, Dereference, EnterContainer, NextEntry, OmitRest,
           Leave, LeaveRoot, Returns, Enter, vars
<1>3. ConfigInv => LimitsNested
  BY DEF ConfigInv
<1> QED
  BY <1>1, <1>2, <1>3, PTL DEF Spec

-----------------------------------------------------------------------------
(* Keys.                                                                   *)

NameBounded(k) ==
    \/ NameBytes(k) <= limits.maxKeyBytes
    \/ /\ k.underscores > 1 /\ k.word \in MarkerWord
       /\ NameBytes(k) = limits.maxKeyBytes + 1

LEMMA KeyTypes ==
    ASSUME NEW k \in PayloadKeys
    PROVE  /\ k \in Name /\ k.underscores \in Nat /\ k.word \in Word
           /\ KeyBytes[k.word] \in Nat /\ NameBytes(k) \in Nat
<1>1. k \in Name
  BY KeyAssumption, ElementOfSeq, LenProperties DEF PayloadKeys
<1>2. k.underscores \in Nat /\ k.word \in Word /\ KeyBytes[k.word] \in Nat
  BY <1>1, KeyAssumption DEF Name
<1> QED
  BY <1>1, <1>2 DEF NameBytes

(* A key over the limit is shortened to whole runes of it and its digest,  *)
(* which together stay within the limit.                                   *)
LEMMA ShortenedKey ==
    ASSUME ConfigInv, Built, NEW k \in PayloadKeys, ~(NameBytes(k) <= limits.maxKeyBytes)
    PROVE  \E u \in Nat : \E v \in Stem :
              /\ NormalizeKey(k) = [underscores |-> u, word |-> Suffixed[v][Digest[k]]]
              /\ Suffixed[v][Digest[k]] \in Word \ MarkerWord
              /\ u + KeyBytes[Suffixed[v][Digest[k]]] <= limits.maxKeyBytes
<1> DEFINE m == limits.maxKeyBytes - suffixBytes
           u == Least(k.underscores, m)
           v == Prefix[k.word][m - u]
           word == Suffixed[v][Digest[k]]
<1>1. /\ k.underscores \in Nat /\ k.word \in Word /\ KeyBytes[k.word] \in Nat
      /\ k.underscores + KeyBytes[k.word] > limits.maxKeyBytes
      /\ limits.maxKeyBytes \in Nat /\ minMaxKeyBytes <= limits.maxKeyBytes
  BY KeyTypes, LimitTypes DEF NameBytes
<1>2. /\ m \in Nat /\ u \in Nat /\ u <= m
      /\ m - u \in 0 .. KeyBytes[k.word] /\ m + suffixBytes = limits.maxKeyBytes
  BY <1>1 DEF minMaxKeyBytes, suffixBytes, Least
<1>3. NormalizeKey(k) = [underscores |-> u, word |-> word]
  BY DEF NormalizeKey, TruncateUTF8
<1> HIDE DEF m, u
<1>4. v \in Stem /\ v \in Word /\ KeyBytes[v] \in Nat /\ KeyBytes[v] <= m - u
  <2>1. v \in Stem
    BY <1>2 DEF Stem
  <2>2. v \in Word /\ KeyBytes[v] <= m - u
    BY <1>2, DigestAssumption
  <2> QED
    BY <2>1, <2>2, KeyAssumption
<1> HIDE DEF v
<1>5. word \in Word \ MarkerWord /\ KeyBytes[word] = KeyBytes[v] + suffixBytes
  BY <1>4, DigestAssumption
<1> HIDE DEF word
<1>6. u + KeyBytes[word] <= limits.maxKeyBytes
  BY <1>1, <1>2, <1>4, <1>5 DEF suffixBytes
<1> QED
  BY <1>2, <1>3, <1>4, <1>5, <1>6 DEF word

LEMMA NormalizedKey ==
    ASSUME ConfigInv, Built, NEW k \in PayloadKeys
    PROVE  /\ NormalizeKey(k) \in Name /\ NameBytes(NormalizeKey(k)) \in Nat
           /\ NameBytes(NormalizeKey(k)) <= limits.maxKeyBytes
<1>1. CASE NameBytes(k) <= limits.maxKeyBytes
  BY <1>1, KeyTypes DEF NormalizeKey
<1>2. CASE ~(NameBytes(k) <= limits.maxKeyBytes)
  <2>1. PICK u \in Nat, v \in Stem :
           /\ NormalizeKey(k) = [underscores |-> u, word |-> Suffixed[v][Digest[k]]]
           /\ Suffixed[v][Digest[k]] \in Word \ MarkerWord
           /\ u + KeyBytes[Suffixed[v][Digest[k]]] <= limits.maxKeyBytes
    BY <1>2, ShortenedKey
  <2>2. KeyBytes[Suffixed[v][Digest[k]]] \in Nat
    BY <2>1, KeyAssumption
  <2> QED
    BY <2>1, <2>2 DEF Name, NameBytes
<1> QED
  BY <1>1, <1>2

LEMMA AssignedName ==
    ASSUME ConfigInv, Built, NEW s \in DOMAIN Key
    PROVE  Assigned(Key[s]) \in Name /\ NameBounded(Assigned(Key[s]))
<1> DEFINE k == Key[s]
           name == NormalizeKey(k)
<1>1. /\ name \in Name /\ NameBytes(name) \in Nat /\ NameBytes(name) <= limits.maxKeyBytes
      /\ limits.maxKeyBytes \in Nat
  BY NormalizedKey, LimitTypes DEF PayloadKeys
<1>2. name.underscores \in Nat /\ name.word \in Word /\ KeyBytes[name.word] \in Nat
  BY <1>1, KeyAssumption DEF Name
<1>3. Assigned(k) = IF Reserved(name) THEN [name EXCEPT !.underscores = @ + 1] ELSE name
  BY DEF Assigned
<1> HIDE DEF name, k
<1>4. CASE ~Reserved(name)
  BY <1>1, <1>3, <1>4 DEF NameBounded, k
<1>5. CASE Reserved(name)
  <2>1. /\ Assigned(k) \in Name /\ Assigned(k).underscores = name.underscores + 1
        /\ Assigned(k).word = name.word
    BY <1>1, <1>2, <1>3, <1>5 DEF Name
  <2>2. name.underscores > 0 /\ name.word \in MarkerWord
    BY <1>5 DEF Reserved
  <2>3. name.underscores + KeyBytes[name.word] <= limits.maxKeyBytes
    BY <1>1 DEF NameBytes
  <2>4. NameBytes(Assigned(k)) = name.underscores + 1 + KeyBytes[name.word]
    BY <2>1 DEF NameBytes
  <2> QED
    BY <1>1, <1>2, <2>1, <2>2, <2>3, <2>4 DEF NameBounded, k
<1> QED
  BY <1>4, <1>5

LEMMA OmittedName ==
    ASSUME ConfigInv, Built
    PROVE  OmittedItems \in Name /\ NameBounded(OmittedItems)
<1>1. /\ OmittedWord \in Word /\ KeyBytes[OmittedWord] \in Nat
      /\ 1 + KeyBytes[OmittedWord] <= minMaxKeyBytes
  BY KeyAssumption
<1>2. limits.maxKeyBytes \in Nat /\ minMaxKeyBytes <= limits.maxKeyBytes
  BY LimitTypes
<1> QED
  BY <1>1, <1>2 DEF OmittedItems, Name, NameBounded, NameBytes, minMaxKeyBytes

(* IsSensitive finds every key that the options call secret. *)
LEMMA SecretIsSensitive ==
    ASSUME ConfigInv, Built, NEW k, Secret(k)
    PROVE  IsSensitive(k)
<1>1. limits.strictSensitiveKeys = values.strictSensitiveKeys
  BY LimitTypes
<1>2. configuration.sensitiveKeySet = KeySet
  BY DEF ConfigInv, BuiltFrom
<1>3. CASE ~values.strictSensitiveKeys /\ k.word \in SecretPart /\ Canonical[k.word] # None
  BY <1>1, <1>3 DEF IsSensitive
<1>4. CASE \E w \in DefaultSecret \cup values.sensitiveKeys :
              Canonical[w] # None /\ Canonical[w] = Canonical[k.word]
  BY <1>2, <1>4 DEF IsSensitive, KeySet
<1> QED
  BY <1>3, <1>4 DEF Secret

-----------------------------------------------------------------------------
(* The invariant of the traversal.                                         *)

Containers == Mapping \cup Listing

FrameInv(f) ==
    /\ f \in Frames
    /\ f.depth \in 1 .. limits.maxDepth
    /\ f.todo \subseteq Remaining(heap, f.node)
    /\ f.current # None => f.current \in DOMAIN Entries(f.node)
    /\ KindOf(f.node) \in Mapping => \A k \in f.fields : NameBounded(k)

(* normalize is called for the current entry of each container it is in. *)
ShapeInv ==
    /\ heap # None => Built /\ WellFormed(heap)
    /\ heap = None => stack = <<>> /\ call = None /\ written = 0
    /\ stack \in Seq(Frames)
    /\ \A i \in DOMAIN stack :
          FrameInv(stack[i]) /\ (i < Len(stack) => stack[i].current # None)
    /\ call \in [node : Node \cup {Leaf}, depth : Nat] \cup {None}
    /\ call # None => stack # <<>> /\ Top.current # None
    /\ seen \subseteq Node /\ visited \subseteq Node
    /\ budget \in Nat /\ written \in Nat

(* Containers that have entries are deeper than what they are in. *)
Deeper(f, d) ==
    /\ f.depth <= d
    /\ KindOf(f.node) \in Containers => f.depth < d
DepthInv ==
    /\ \A i, j \in DOMAIN stack : i < j => Deeper(stack[i], stack[j].depth)
    /\ call # None => \A i \in DOMAIN stack : Deeper(stack[i], call.depth)

BudgetInv == heap # None => written + budget = limits.maxPayloadNodes

(* Where the traversal is and what it will be asked next is public. *)
PublicInv ==
    heap # None => \A nodes \in SUBSET Node : Public(nodes) =>
        /\ visited \subseteq nodes
        /\ \A i \in DOMAIN stack : stack[i].node \in nodes
        /\ call # None => call.node \in nodes \cup {Leaf}

IInv ==
    ConfigInv /\ ShapeInv /\ DepthInv /\ OnlyAncestorsAreCircular /\ BudgetInv /\ PublicInv

LEMMA InitIInv == Init => IInv
<1> SUFFICES ASSUME Init PROVE IInv
  OBVIOUS
<1>1. ConfigInv
  BY ConfigBegins DEF Init
<1>2. ShapeInv
  BY DEF Init, ShapeInv
<1>3. DepthInv /\ OnlyAncestorsAreCircular /\ BudgetInv /\ PublicInv
  BY DEF Init, DepthInv, OnlyAncestorsAreCircular, BudgetInv, PublicInv
<1> QED
  BY <1>1, <1>2, <1>3 DEF IInv

(* In a traversal there are a heap and a configuration. *)
LEMMA Inside ==
    ASSUME IInv, stack # <<>>
    PROVE  /\ heap # None /\ Built /\ ConfigInv /\ WellFormed(heap)
           /\ Len(stack) \in DOMAIN stack /\ DOMAIN stack = 1 .. Len(stack) /\ Len(stack) \in Nat \ {0}
           /\ FrameInv(Top) /\ Top.node \in Node
<1>1. stack \in Seq(Frames)
  BY DEF IInv, ShapeInv
<1>2. Len(stack) \in DOMAIN stack /\ DOMAIN stack = 1 .. Len(stack) /\ Len(stack) \in Nat \ {0}
  BY <1>1, EmptySeq, LenProperties
<1>3. FrameInv(Top)
  BY <1>2 DEF IInv, ShapeInv, Top
<1> QED
  BY <1>2, <1>3 DEF IInv, ShapeInv, FrameInv, Frames

LEMMA EntrySlot ==
    ASSUME WellFormed(heap), NEW n \in Node, NEW s \in DOMAIN Entries(n)
    PROVE  s \in Slots /\ Entries(n)[s] \in Node \cup {Leaf}
<1>1. /\ KindOf(n) \in Kind
      /\ Entries(n) \in [DOMAIN Entries(n) -> Node \cup {Leaf}]
      /\ IsFiniteSet(DOMAIN Entries(n))
      /\ KindOf(n) \in Mapping => DOMAIN Entries(n) \subseteq DOMAIN Key
      /\ KindOf(n) \in Listing => DOMAIN Entries(n) = 1 .. Cardinality(DOMAIN Entries(n))
      /\ KindOf(n) \in Encoded => DOMAIN Entries(n) \subseteq {1}
      /\ KindOf(n) = "pointer" => DOMAIN Entries(n) = {1}
  BY DEF WellFormed, KindOf, Entries
<1>2. DOMAIN Key \subseteq Slots
  BY KeyAssumption, LenProperties DEF Slots
<1>3. 1 .. Cardinality(DOMAIN Entries(n)) \subseteq Slots
  BY <1>1, FS_CardinalityType DEF Slots
<1>4. s \in Slots
  <2>1. \/ KindOf(n) \in Mapping \/ KindOf(n) \in Listing
        \/ KindOf(n) \in Encoded \cup {"pointer"}
    BY <1>1 DEF Kind
  <2>2. KindOf(n) \in Encoded \cup {"pointer"} => s = 1
    BY <1>1
  <2>3. 1 \in Slots
    BY DEF Slots
  <2> QED
    BY <1>1, <1>2, <1>3, <2>1, <2>2, <2>3
<1> QED
  BY <1>1, <1>4

(* What Filled makes of a frame. *)
LEMMA FilledFrame ==
    ASSUME ConfigInv, Built, WellFormed(heap), NEW f, FrameInv(f), f.current # None
    PROVE  /\ FrameInv(Filled(f))
           /\ Filled(f).node = f.node /\ Filled(f).depth = f.depth
<1> DEFINE s == f.current
           r == Filled(f)
<1>1. f \in Frames /\ f.node \in Node /\ s \in DOMAIN Entries(f.node) /\ s \in Slots
  BY EntrySlot DEF FrameInv, Frames
<1>2. /\ r.node = f.node /\ r.depth = f.depth /\ r.todo = f.todo /\ r.current = None
      /\ r.omitted = f.omitted /\ r.fields = f.fields \cup {Slot(f, s)}
  BY <1>1 DEF Filled, Frames
<1>3. CASE KindOf(f.node) \in Mapping
  <2>1. s \in DOMAIN Key
    BY <1>1, <1>3 DEF WellFormed, Entries, KindOf
  <2>2. Slot(f, s) \in Name /\ NameBounded(Slot(f, s))
    BY <1>3, <2>1, AssignedName DEF Slot
  <2>3. r \in Frames
    BY <1>1, <2>2 DEF Frames, Filled
  <2> HIDE DEF r, s
  <2> QED
    BY <1>2, <2>2, <2>3 DEF FrameInv, r, s
<1>4. CASE KindOf(f.node) \notin Mapping
  <2>1. Slot(f, s) \in [index : Slots]
    BY <1>1, <1>4 DEF Slot
  <2>2. r \in Frames
    BY <1>1, <2>1 DEF Frames, Filled
  <2> HIDE DEF r, s
  <2> QED
    BY <1>2, <1>4, <2>2 DEF FrameInv, r
<1> QED
  BY <1>3, <1>4

(* The stack keeps its containers and their depths. *)
SameShape ==
    /\ DOMAIN stack' = DOMAIN stack
    /\ \A i \in DOMAIN stack : stack'[i].node = stack[i].node /\ stack'[i].depth = stack[i].depth

LEMMA Replaced ==
    ASSUME IInv, stack # <<>>, NEW f, FrameInv(f), f.node = Top.node, f.depth = Top.depth,
           stack' = Replace(f)
    PROVE  /\ SameShape /\ stack' \in Seq(Frames) /\ Len(stack') = Len(stack)
           /\ stack'[Len(stack)] = f
           /\ \A i \in DOMAIN stack : i # Len(stack) => stack'[i] = stack[i]
<1>1. /\ stack \in Seq(Frames) /\ f \in Frames
      /\ Len(stack) \in 1 .. Len(stack) /\ DOMAIN stack = 1 .. Len(stack)
  BY Inside DEF IInv, ShapeInv, FrameInv
<1>2. /\ stack' \in Seq(Frames) /\ Len(stack') = Len(stack)
      /\ \A i \in 1 .. Len(stack) : stack'[i] = IF i = Len(stack) THEN f ELSE stack[i]
  BY <1>1, ExceptSeq DEF Replace
<1>3. DOMAIN stack' = DOMAIN stack
  BY <1>1, <1>2, LenProperties
<1> QED
  BY <1>1, <1>2, <1>3 DEF SameShape, Top

(* A step that changes the last frame of the stack only. *)
LEMMA ReplaceStep ==
    ASSUME IInv, stack # <<>>, NEW f, FrameInv(f), f.node = Top.node, f.depth = Top.depth,
           stack' = Replace(f), UNCHANGED <<configVars, heap, seen>>,
           \/ call' = None
           \/ /\ call' \in [node : Node \cup {Leaf}, depth : Nat]
              /\ f.current # None
              /\ \A i \in DOMAIN stack : Deeper(stack[i], call'.depth),
           visited' \subseteq Node, budget' \in Nat, written' \in Nat,
           written' + budget' = written + budget,
           \A nodes \in SUBSET Node : Public(nodes) =>
              /\ visited' \subseteq nodes
              /\ call' # None => call'.node \in nodes \cup {Leaf}
    PROVE  IInv'
<1>1. /\ heap # None /\ Built /\ ConfigInv /\ WellFormed(heap)
      /\ Len(stack) \in DOMAIN stack /\ DOMAIN stack = 1 .. Len(stack) /\ Len(stack) \in Nat \ {0}
  BY Inside
<1>2. /\ SameShape /\ stack' \in Seq(Frames) /\ Len(stack') = Len(stack)
      /\ stack'[Len(stack)] = f
      /\ \A i \in DOMAIN stack : i # Len(stack) => stack'[i] = stack[i]
  BY Replaced
<1>3. ConfigInv'
  BY <1>1, ConfigStep
<1>4. /\ Built' /\ WellFormed(heap)' /\ limits' = limits
      /\ \A n : KindOf(n)' = KindOf(n) /\ ReferenceOf(n)' = ReferenceOf(n)
  BY <1>1 DEF configVars, Built, WellFormed, Decoded, limits, KindOf, ReferenceOf
<1>5. ShapeInv'
  <2>1. ASSUME NEW i \in DOMAIN stack'
        PROVE  FrameInv(stack'[i]) /\ (i < Len(stack') => stack'[i].current # None)
    <3>1. CASE i = Len(stack)
      BY <1>1, <1>2, <3>1
    <3>2. CASE i # Len(stack)
      BY <1>1, <1>2, <3>2 DEF SameShape, IInv, ShapeInv
    <3> QED
      BY <3>1, <3>2
  <2>2. ASSUME NEW i \in DOMAIN stack' PROVE FrameInv(stack[i])'
    BY <2>1, <1>4 DEF FrameInv, NameBounded, NameBytes, Remaining, KindOf, Entries
  <2>3. stack' # <<>> /\ Top' = f
    BY <1>1, <1>2 DEF Top, SameShape
  <2>4. /\ call' \in [node : Node \cup {Leaf}, depth : Nat] \cup {None}
        /\ call' # None => f.current # None
    OBVIOUS
  <2>5. seen' \subseteq Node /\ heap' # None
    BY <1>1 DEF IInv, ShapeInv
  <2> QED
    BY <1>2, <1>4, <2>1, <2>2, <2>3, <2>4, <2>5 DEF ShapeInv
<1>6. DepthInv'
  <2>1. ASSUME NEW i \in DOMAIN stack', NEW j \in DOMAIN stack', i < j
        PROVE  Deeper(stack'[i], stack'[j].depth)
    <3>1. Deeper(stack[i], stack[j].depth)
      BY <1>2, <2>1 DEF IInv, DepthInv, SameShape
    <3> QED
      BY <1>2, <3>1 DEF SameShape, Deeper
  <2>2. ASSUME call' # None, NEW i \in DOMAIN stack'
        PROVE  Deeper(stack'[i], call'.depth)
    BY <1>2, <2>2 DEF SameShape, Deeper
  <2> QED
    BY <1>4, <2>1, <2>2 DEF DepthInv, Deeper
<1>7. OnlyAncestorsAreCircular'
  <2> DEFINE refs == {i \in DOMAIN stack : KindOf(stack[i].node) \in Reference}
             after == {i \in DOMAIN stack' : KindOf(stack'[i].node) \in Reference}
  <2>1. /\ seen = {ReferenceOf(stack[i].node) : i \in refs}
        /\ \A i, j \in refs :
              ReferenceOf(stack[i].node) = ReferenceOf(stack[j].node) => i = j
    BY DEF IInv, OnlyAncestorsAreCircular
  <2>2. after = refs /\ \A i \in refs : stack'[i].node = stack[i].node
    BY <1>2 DEF SameShape
  <2> HIDE DEF refs, after
  <2>3. /\ seen' = {ReferenceOf(stack'[i].node) : i \in after}
        /\ \A i, j \in after :
              ReferenceOf(stack'[i].node) = ReferenceOf(stack'[j].node) => i = j
    BY <2>1, <2>2
  <2> QED
    BY <1>4, <2>3 DEF OnlyAncestorsAreCircular, after
<1>8. BudgetInv'
  BY <1>1, <1>4 DEF IInv, BudgetInv
<1>9. PublicInv'
  <2>1. \A nodes : Public(nodes)' <=> Public(nodes)
    BY DEF Public, Remaining, KindOf, Entries, Secret, configVars
  <2> QED
    BY <1>1, <1>2, <2>1 DEF IInv, PublicInv, SameShape
<1> QED
  BY <1>3, <1>5, <1>6, <1>7, <1>8, <1>9 DEF IInv

(* normalize enters the container it was called with. *)
LEMMA EnterStep ==
    ASSUME IInv, call # None, call.node # Leaf,
           KindOf(call.node) \in Reference => ReferenceOf(call.node) \notin seen,
           NEW f, FrameInv(f), f.node = call.node, f.depth = call.depth,
           Enter(f),
           \/ call' = None
           \/ /\ call' \in [node : Node \cup {Leaf}, depth : Nat]
              /\ f.current # None
              /\ call'.depth = call.depth /\ KindOf(call.node) \notin Containers
              /\ \A nodes \in SUBSET Node :
                    Public(nodes) /\ call.node \in nodes => call'.node \in nodes \cup {Leaf}
    PROVE  IInv'
<1> DEFINE n == call.node
           l == Len(stack)
<1>1. /\ stack # <<>> /\ Top.current # None
      /\ heap # None /\ Built /\ ConfigInv /\ WellFormed(heap)
      /\ l \in DOMAIN stack /\ DOMAIN stack = 1 .. l /\ l \in Nat \ {0}
      /\ n \in Node
  BY Inside DEF IInv, ShapeInv
<1>2. /\ stack' = Append(stack, f) /\ UNCHANGED <<configVars, heap, budget, written>>
      /\ seen' = IF KindOf(n) \in Reference THEN seen \cup {ReferenceOf(n)} ELSE seen
      /\ visited' = visited \cup {n}
  BY DEF Enter
<1>3. /\ stack' \in Seq(Frames) /\ Len(stack') = l + 1 /\ DOMAIN stack' = (DOMAIN stack) \cup {l + 1}
      /\ stack'[l + 1] = f /\ \A i \in DOMAIN stack : stack'[i] = stack[i]
  <2>1. stack \in Seq(Frames) /\ f \in Frames
    BY DEF IInv, ShapeInv, FrameInv
  <2>2. /\ stack' \in Seq(Frames) /\ Len(stack') = l + 1
        /\ stack'[l + 1] = f /\ \A i \in 1 .. l : stack'[i] = stack[i]
    BY <1>2, <2>1, AppendProperties
  <2>3. DOMAIN stack' = 1 .. l + 1
    BY <2>2, LenProperties
  <2> QED
    BY <1>1, <2>2, <2>3
<1>4. ConfigInv'
  BY <1>1, <1>2, ConfigStep
<1>5. /\ Built' /\ WellFormed(heap)' /\ limits' = limits
      /\ \A m : KindOf(m)' = KindOf(m) /\ ReferenceOf(m)' = ReferenceOf(m)
  BY <1>1, <1>2 DEF configVars, Built, WellFormed, Decoded, limits, KindOf, ReferenceOf
<1> HIDE DEF n, l
<1>6. ShapeInv'
  <2>1. ASSUME NEW i \in DOMAIN stack'
        PROVE  FrameInv(stack'[i]) /\ (i < Len(stack') => stack'[i].current # None)
    <3>1. CASE i = l + 1
      BY <1>1, <1>3, <3>1
    <3>2. CASE i = l
      BY <1>1, <1>3, <3>2 DEF IInv, ShapeInv, Top, l
    <3>3. CASE i \notin {l, l + 1}
      BY <1>1, <1>3, <3>3 DEF IInv, ShapeInv, l
    <3> QED
      BY <3>1, <3>2, <3>3
  <2>2. ASSUME NEW i \in DOMAIN stack' PROVE FrameInv(stack[i])'
    BY <1>2, <1>5, <2>1 DEF FrameInv, NameBounded, NameBytes, Remaining, KindOf, Entries
  <2>3. stack' # <<>> /\ Top' = f
    BY <1>1, <1>3 DEF Top
  <2>4. /\ call' \in [node : Node \cup {Leaf}, depth : Nat] \cup {None}
        /\ call' # None => f.current # None
    OBVIOUS
  <2>5. seen' \subseteq Node /\ visited' \subseteq Node /\ budget' \in Nat /\ written' \in Nat
        /\ heap' # None
    <3>1. ReferenceOf(n) \in Node
      BY <1>1 DEF WellFormed, ReferenceOf
    <3> QED
      BY <1>1, <1>2, <3>1 DEF IInv, ShapeInv
  <2> QED
    BY <1>3, <1>5, <2>1, <2>2, <2>3, <2>4, <2>5 DEF ShapeInv
<1>7. DepthInv'
  <2>1. \A i \in DOMAIN stack : Deeper(stack[i], f.depth)
    BY DEF IInv, DepthInv
  <2>2. ASSUME NEW i \in DOMAIN stack', NEW j \in DOMAIN stack', i < j
        PROVE  Deeper(stack'[i], stack'[j].depth)
    <3>1. i \in DOMAIN stack /\ stack'[i] = stack[i]
      BY <1>1, <1>3, <2>2
    <3>2. CASE j = l + 1
      BY <1>3, <2>1, <3>1, <3>2
    <3>3. CASE j \in DOMAIN stack
      BY <1>3, <2>2, <3>1, <3>3 DEF IInv, DepthInv
    <3> QED
      BY <1>3, <3>2, <3>3
  <2>3. ASSUME call' # None, NEW i \in DOMAIN stack' PROVE Deeper(stack'[i], call'.depth)
    <3>1. call'.depth = f.depth /\ KindOf(f.node) \notin Containers /\ f.depth \in Nat
      BY <2>3 DEF FrameInv, Frames
    <3>2. Deeper(f, call'.depth)
      BY <3>1 DEF Deeper
    <3> QED
      BY <1>3, <2>1, <3>1, <3>2
  <2> QED
    BY <1>5, <2>2, <2>3 DEF DepthInv, Deeper
<1>8. OnlyAncestorsAreCircular'
  <2> DEFINE refs == {i \in DOMAIN stack : KindOf(stack[i].node) \in Reference}
             after == {i \in DOMAIN stack' : KindOf(stack'[i].node) \in Reference}
  <2>1. /\ seen = {ReferenceOf(stack[i].node) : i \in refs}
        /\ \A i, j \in refs :
              ReferenceOf(stack[i].node) = ReferenceOf(stack[j].node) => i = j
    BY <1>1 DEF IInv, OnlyAncestorsAreCircular
  <2>2. refs \subseteq DOMAIN stack /\ \A i \in refs : stack'[i].node = stack[i].node /\ i # l + 1
    BY <1>1, <1>3
  <2>3. after = IF KindOf(n) \in Reference THEN refs \cup {l + 1} ELSE refs
    BY <1>1, <1>3 DEF n
  <2>4. stack'[l + 1].node = n
    BY <1>3 DEF n
  <2>5. KindOf(n) \in Reference => ReferenceOf(n) \notin seen
    BY DEF n
  <2> HIDE DEF refs, after
  <2>6. seen' = {ReferenceOf(stack'[i].node) : i \in after}
    <3>1. CASE KindOf(n) \in Reference
      <4>1. {ReferenceOf(stack'[i].node) : i \in after}
               = {ReferenceOf(stack'[i].node) : i \in refs} \cup {ReferenceOf(n)}
        BY <2>3, <2>4, <3>1
      <4>2. {ReferenceOf(stack'[i].node) : i \in refs} = {ReferenceOf(stack[i].node) : i \in refs}
        BY <2>2
      <4> QED
        BY <1>2, <2>1, <3>1, <4>1, <4>2
    <3>2. CASE KindOf(n) \notin Reference
      BY <1>2, <2>1, <2>2, <2>3, <3>2
    <3> QED
      BY <3>1, <3>2
  <2>7. \A i, j \in after :
           ReferenceOf(stack'[i].node) = ReferenceOf(stack'[j].node) => i = j
    BY <2>1, <2>2, <2>3, <2>4, <2>5
  <2> QED
    BY <1>5, <2>6, <2>7 DEF OnlyAncestorsAreCircular, after
<1>9. BudgetInv'
  BY <1>1, <1>2, <1>5 DEF IInv, BudgetInv
<1>10. PublicInv'
  <2>1. \A nodes : Public(nodes)' <=> Public(nodes)
    BY <1>2 DEF Public, Remaining, KindOf, Entries, Secret, configVars
  <2>2. ASSUME NEW nodes \in SUBSET Node, Public(nodes)
        PROVE  /\ visited' \subseteq nodes
               /\ \A i \in DOMAIN stack' : stack'[i].node \in nodes
               /\ call' # None => call'.node \in nodes \cup {Leaf}
    <3>1. /\ visited \subseteq nodes /\ n \in nodes
          /\ \A i \in DOMAIN stack : stack[i].node \in nodes
      BY <1>1, <2>2 DEF IInv, PublicInv, n
    <3> QED
      BY <1>2, <1>3, <2>2, <3>1 DEF n
  <2> QED
    BY <2>1, <2>2 DEF PublicInv
<1> QED
  BY <1>4, <1>6, <1>7, <1>8, <1>9, <1>10 DEF IInv

(* normalize returns from a container to the one around it. *)
LEMMA LeaveStep ==
    ASSUME IInv, Leave
    PROVE  IInv'
<1> DEFINE l == Len(stack)
           f == Filled(stack[l - 1])
<1>1. /\ stack # <<>> /\ l > 1 /\ call = None /\ call' = None
      /\ heap # None /\ Built /\ ConfigInv /\ WellFormed(heap)
      /\ l \in DOMAIN stack /\ DOMAIN stack = 1 .. l /\ l \in Nat \ {0}
      /\ l - 1 \in DOMAIN stack
      /\ stack \in Seq(Frames)
  BY Inside DEF Leave, Finished, IInv, ShapeInv
<1>2. /\ stack' = [SubSeq(stack, 1, l - 1) EXCEPT ![l - 1] = f]
      /\ UNCHANGED <<configVars, heap, budget, visited, written>>
      /\ seen' = IF KindOf(Top.node) \in Reference THEN seen \ {ReferenceOf(Top.node)} ELSE seen
  BY DEF Leave, Forget
<1>3. /\ FrameInv(f) /\ f.node = stack[l - 1].node /\ f.depth = stack[l - 1].depth
  <2>1. FrameInv(stack[l - 1]) /\ stack[l - 1].current # None
    BY <1>1 DEF IInv, ShapeInv
  <2> QED
    BY <1>1, <2>1, FilledFrame
<1> HIDE DEF f
<1>4. /\ stack' \in Seq(Frames) /\ Len(stack') = l - 1 /\ DOMAIN stack' = (DOMAIN stack) \ {l}
      /\ stack'[l - 1] = f
      /\ \A i \in DOMAIN stack' : i # l - 1 => stack'[i] = stack[i]
      /\ \A i \in DOMAIN stack' : stack'[i].node = stack[i].node /\ stack'[i].depth = stack[i].depth
  <2> DEFINE r == SubSeq(stack, 1, l - 1)
  <2>1. \A i \in 1 .. l - 1 : stack[i] \in Frames
    BY <1>1, ElementOfSeq
  <2>2. r \in Seq(Frames) /\ Len(r) = l - 1 /\ \A i \in 1 .. l - 1 : r[i] = stack[i]
    <3>1. /\ r \in Seq(Frames)
          /\ Len(r) = IF 1 <= l - 1 THEN l - 1 - 1 + 1 ELSE 0
          /\ \A i \in 1 .. l - 1 - 1 + 1 : r[i] = stack[1 + i - 1]
      BY <1>1, <2>1, SubSeqProperties
    <3>2. 1 <= l - 1 /\ l - 1 - 1 + 1 = l - 1 /\ \A i \in 1 .. l - 1 : 1 + i - 1 = i
      BY <1>1
    <3> HIDE DEF r, l
    <3> QED
      BY <3>1, <3>2
  <2>3. f \in Frames /\ l - 1 \in 1 .. Len(r)
    BY <1>1, <1>3, <2>2 DEF FrameInv
  <2>4. stack' = [r EXCEPT ![l - 1] = f]
    BY <1>2
  <2> HIDE DEF r, l
  <2>5. /\ stack' \in Seq(Frames) /\ Len(stack') = Len(r)
        /\ \A i \in 1 .. Len(r) : stack'[i] = IF i = l - 1 THEN f ELSE r[i]
    BY <2>2, <2>3, <2>4, ExceptSeq
  <2>6. DOMAIN stack' = 1 .. l - 1
    BY <2>2, <2>5, LenProperties
  <2>7. 1 .. l - 1 = (1 .. l) \ {l}
    BY <1>1
  <2>8. \A i \in 1 .. l - 1 : stack'[i] = IF i = l - 1 THEN f ELSE stack[i]
    BY <2>2, <2>5
  <2> QED
    BY <1>1, <1>3, <2>2, <2>3, <2>5, <2>6, <2>7, <2>8
<1>5. ConfigInv'
  BY <1>1, <1>2, ConfigStep
<1>6. /\ Built' /\ WellFormed(heap)' /\ limits' = limits
      /\ \A m : KindOf(m)' = KindOf(m) /\ ReferenceOf(m)' = ReferenceOf(m)
  BY <1>1, <1>2 DEF configVars, Built, WellFormed, Decoded, limits, KindOf, ReferenceOf
<1> HIDE DEF l
<1>7. ShapeInv'
  <2>1. ASSUME NEW i \in DOMAIN stack'
        PROVE  FrameInv(stack'[i]) /\ (i < Len(stack') => stack'[i].current # None)
    <3>1. CASE i = l - 1
      BY <1>1, <1>3, <1>4, <3>1
    <3>2. CASE i # l - 1
      <4>1. i \in DOMAIN stack /\ i < l /\ stack'[i] = stack[i]
        BY <1>1, <1>4, <3>2
      <4> QED
        BY <4>1 DEF IInv, ShapeInv, l
    <3> QED
      BY <3>1, <3>2
  <2>2. ASSUME NEW i \in DOMAIN stack' PROVE FrameInv(stack[i])'
    BY <1>2, <1>6, <2>1 DEF FrameInv, NameBounded, NameBytes, Remaining, KindOf, Entries
  <2>3. seen' \subseteq Node /\ visited' \subseteq Node /\ budget' \in Nat /\ written' \in Nat
        /\ heap' # None
    BY <1>1, <1>2 DEF IInv, ShapeInv
  <2> QED
    BY <1>1, <1>4, <1>6, <2>1, <2>2, <2>3 DEF ShapeInv
<1>8. DepthInv'
  <2>1. ASSUME NEW i \in DOMAIN stack', NEW j \in DOMAIN stack', i < j
        PROVE  Deeper(stack'[i], stack'[j].depth)
    <3>1. Deeper(stack[i], stack[j].depth)
      BY <1>4, <2>1 DEF IInv, DepthInv
    <3> QED
      BY <1>4, <3>1 DEF Deeper
  <2> QED
    BY <1>1, <1>6, <2>1 DEF DepthInv, Deeper
<1>9. OnlyAncestorsAreCircular'
  <2> DEFINE refs == {i \in DOMAIN stack : KindOf(stack[i].node) \in Reference}
             after == {i \in DOMAIN stack' : KindOf(stack'[i].node) \in Reference}
  <2>1. /\ seen = {ReferenceOf(stack[i].node) : i \in refs}
        /\ \A i, j \in refs :
              ReferenceOf(stack[i].node) = ReferenceOf(stack[j].node) => i = j
    BY <1>1 DEF IInv, OnlyAncestorsAreCircular
  <2>2. after = refs \ {l} /\ \A i \in after : stack'[i].node = stack[i].node
    BY <1>1, <1>4
  <2>3. Top = stack[l]
    BY DEF Top, l
  <2>4. l \in refs <=> KindOf(Top.node) \in Reference
    BY <1>1, <2>3
  <2>5. \A i \in refs : KindOf(stack[i].node) \in Reference
    OBVIOUS
  <2> HIDE DEF refs, after
  <2>6. seen' = {ReferenceOf(stack'[i].node) : i \in after}
    <3>1. CASE l \in refs
      BY <1>2, <2>1, <2>2, <2>3, <2>4, <3>1
    <3>2. CASE l \notin refs
      BY <1>2, <2>1, <2>2, <2>4, <3>2
    <3> QED
      BY <3>1, <3>2
  <2>7. \A i, j \in after :
           ReferenceOf(stack'[i].node) = ReferenceOf(stack'[j].node) => i = j
    BY <2>1, <2>2
  <2> QED
    BY <1>6, <2>6, <2>7 DEF OnlyAncestorsAreCircular, after
<1>10. BudgetInv'
  BY <1>1, <1>2, <1>6 DEF IInv, BudgetInv
<1>11. PublicInv'
  <2>1. \A nodes : Public(nodes)' <=> Public(nodes)
    BY <1>2 DEF Public, Remaining, KindOf, Entries, Secret, configVars
  <2> QED
    BY <1>1, <1>2, <1>4, <2>1 DEF IInv, PublicInv
<1> QED
  BY <1>5, <1>7, <1>8, <1>9, <1>10, <1>11 DEF IInv

-----------------------------------------------------------------------------
(* The actions.                                                            *)

(* The facts about a call that was not cut for its depth. *)
LEMMA CallFacts ==
    ASSUME IInv, call # None
    PROVE  /\ stack # <<>> /\ Top.current # None /\ FrameInv(Top)
           /\ call.node \in Node \cup {Leaf} /\ call.depth \in Nat \ {0}
           /\ \A i \in DOMAIN stack : Deeper(stack[i], call.depth)
           /\ limits.maxDepth \in Nat
<1>1. /\ stack # <<>> /\ Top.current # None
      /\ call.node \in Node \cup {Leaf} /\ call.depth \in Nat
      /\ \A i \in DOMAIN stack : Deeper(stack[i], call.depth)
  BY DEF IInv, ShapeInv, DepthInv
<1>2. FrameInv(Top) /\ Len(stack) \in DOMAIN stack /\ limits.maxDepth \in Nat
  BY <1>1, Inside, LimitTypes
<1>3. Top.depth <= call.depth /\ Top.depth \in 1 .. limits.maxDepth
  BY <1>1, <1>2 DEF Deeper, Top, FrameInv
<1> QED
  BY <1>1, <1>2, <1>3

LEMMA PublicFacts ==
    ASSUME IInv, heap # None, NEW nodes \in SUBSET Node, Public(nodes)
    PROVE  /\ visited \subseteq nodes
           /\ stack # <<>> => Top.node \in nodes
           /\ call # None => call.node \in nodes \cup {Leaf}
<1>1. stack # <<>> => Len(stack) \in DOMAIN stack
  BY Inside
<1> QED
  BY <1>1 DEF IInv, PublicInv, Top

(* normalize returns a value for the current entry. *)
LEMMA ReturnsStep ==
    ASSUME IInv, call # None, Returns,
           visited' = visited \/ (call.node # Leaf /\ visited' = visited \cup {call.node})
    PROVE  IInv'
<1>1. /\ stack # <<>> /\ Top.current # None /\ FrameInv(Top)
      /\ call.node \in Node \cup {Leaf}
  BY CallFacts
<1>2. heap # None /\ Built /\ ConfigInv /\ WellFormed(heap)
  BY <1>1, Inside
<1>3. FrameInv(Filled(Top)) /\ Filled(Top).node = Top.node /\ Filled(Top).depth = Top.depth
  BY <1>1, <1>2, FilledFrame
<1>4. /\ call' = None /\ stack' = Replace(Filled(Top))
      /\ UNCHANGED <<configVars, heap, seen, budget, written>>
  BY DEF Returns
<1>5. visited' \subseteq Node /\ budget' \in Nat /\ written' \in Nat
      /\ written' + budget' = written + budget
  BY <1>1, <1>4 DEF IInv, ShapeInv
<1>6. \A nodes \in SUBSET Node : Public(nodes) => visited' \subseteq nodes
  BY <1>2, PublicFacts
<1> QED
  BY <1>1, <1>3, <1>4, <1>5, <1>6, ReplaceStep

(* What a value is encoded to, and what a pointer points to, is as public  *)
(* as the value itself.                                                    *)
LEMMA OnlyEntry ==
    ASSUME WellFormed(heap), NEW n \in Node, KindOf(n) \in Encoded \cup {"pointer"},
           Entries(n) # <<>>
    PROVE  /\ 1 \in DOMAIN Entries(n) /\ Entries(n)[1] \in Node \cup {Leaf}
           /\ \A nodes \in SUBSET Node :
                 Public(nodes) /\ n \in nodes => Entries(n)[1] \in nodes \cup {Leaf}
<1>1. /\ Entries(n) \in [DOMAIN Entries(n) -> Node \cup {Leaf}]
      /\ DOMAIN Entries(n) \subseteq {1}
      /\ KindOf(n) # "struct" => heap[n].skipped = {}
  BY DEF WellFormed, KindOf, Entries
<1>2. DOMAIN Entries(n) # {}
  <2>1. <<>> \in [{} -> Node \cup {Leaf}]
    BY EmptySeq, LenProperties
  <2> QED
    BY <1>1, <2>1
<1>3. 1 \in DOMAIN Entries(n) /\ Entries(n)[1] \in Node \cup {Leaf}
  BY <1>1, <1>2
<1>4. KindOf(n) # "struct" /\ KindOf(n) \notin Mapping
  BY DEF Encoded, Mapping
<1>5. 1 \in Remaining(heap, n)
  BY <1>1, <1>3, <1>4 DEF Remaining, Entries
<1> QED
  BY <1>3, <1>4, <1>5 DEF Public

LEMMA MarshalValueStep ==
    ASSUME IInv, MarshalValue
    PROVE  IInv'
<1>1. /\ call # None /\ call.node # Leaf /\ KindOf(call.node) = "marshaler"
      /\ visited' = visited \cup {call.node}
  BY DEF MarshalValue, Calls
<1>2. CASE Entries(call.node) = <<>>
  BY <1>1, <1>2, ReturnsStep DEF MarshalValue
<1>3. CASE Entries(call.node) # <<>>
  <2> DEFINE next == [node |-> Entries(call.node)[1], depth |-> call.depth]
  <2>1. /\ call' = next
        /\ UNCHANGED <<configVars, heap, stack, budget, seen, written>>
    BY <1>3 DEF MarshalValue, Calling
  <2>2. /\ stack # <<>> /\ Top.current # None /\ FrameInv(Top) /\ call.node \in Node
        /\ call.depth \in Nat /\ \A i \in DOMAIN stack : Deeper(stack[i], call.depth)
    BY <1>1, CallFacts
  <2>3. /\ heap # None /\ WellFormed(heap)
        /\ stack \in Seq(Frames) /\ Len(stack) \in DOMAIN stack /\ Top = stack[Len(stack)]
    BY <2>2, Inside DEF IInv, ShapeInv, Top
  <2>4. stack' = Replace(Top)
    BY <2>1, <2>3, LenProperties DEF Replace
  <2>5. /\ Entries(call.node)[1] \in Node \cup {Leaf}
        /\ \A nodes \in SUBSET Node :
              Public(nodes) /\ call.node \in nodes => Entries(call.node)[1] \in nodes \cup {Leaf}
    BY <1>1, <1>3, <2>2, <2>3, OnlyEntry DEF Encoded
  <2>6. call' \in [node : Node \cup {Leaf}, depth : Nat] /\ call'.depth = call.depth
        /\ call'.node = Entries(call.node)[1]
    BY <2>1, <2>2, <2>5
  <2>7. \A nodes \in SUBSET Node : Public(nodes) =>
           visited' \subseteq nodes /\ call'.node \in nodes \cup {Leaf}
    BY <1>1, <2>3, <2>5, <2>6, PublicFacts
  <2>8. visited' \subseteq Node /\ budget' \in Nat /\ written' \in Nat
        /\ written' + budget' = written + budget
    BY <1>1, <2>1, <2>2 DEF IInv, ShapeInv
  <2> HIDE DEF next
  <2> QED
    BY <2>1, <2>2, <2>4, <2>6, <2>7, <2>8, ReplaceStep
<1> QED
  BY <1>2, <1>3

(* A frame that normalize enters with. *)
LEMMA NewFrame ==
    ASSUME IInv, call # None, call.node # Leaf, ~TooDeep(call.depth),
           NEW slots, slots \subseteq Remaining(heap, call.node),
           NEW slot, slot = None \/ slot \in DOMAIN Entries(call.node)
    PROVE  LET f == Frame(call.node, call.depth, slots, slot)
           IN  FrameInv(f) /\ f.node = call.node /\ f.depth = call.depth /\ f.current = slot
<1> DEFINE n == call.node
           f == Frame(n, call.depth, slots, slot)
<1>1. /\ n \in Node /\ call.depth \in 1 .. limits.maxDepth /\ WellFormed(heap)
  BY CallFacts, Inside DEF TooDeep
<1>2. /\ slots \subseteq Slots
      /\ slot \in Slots \cup {None}
  <2>1. \A s \in DOMAIN Entries(n) : s \in Slots
    BY <1>1, EntrySlot
  <2>2. Remaining(heap, n) \subseteq DOMAIN Entries(n)
    BY DEF Remaining, Entries
  <2> QED
    BY <2>1, <2>2
<1>3. /\ f.node = n /\ f.depth = call.depth /\ f.todo = slots /\ f.current = slot /\ f.fields = {}
      /\ f \in Frames
  BY <1>1, <1>2 DEF Frame, Frames
<1> HIDE DEF f
<1> QED
  BY <1>1, <1>3 DEF FrameInv, f

LEMMA EntersStep ==
    ASSUME IInv, MarshalMap \/ Dereference \/ EnterContainer
    PROVE  IInv'
<1>1. /\ call # None /\ call.node # Leaf /\ ~TooDeep(call.depth)
      /\ ReferenceOf(call.node) \notin seen
  BY DEF MarshalMap, Dereference, EnterContainer, Calls
<1>2. /\ call.node \in Node /\ WellFormed(heap) /\ call.depth \in Nat
  BY <1>1, CallFacts, Inside
<1>3. ASSUME KindOf(call.node) \in {"keyed", "pointer"}, Entries(call.node) # <<>>,
             Enter(Frame(call.node, call.depth, {}, 1)), Calling(Entries(call.node)[1], call.depth)
      PROVE  IInv'
  <2> DEFINE f == Frame(call.node, call.depth, {}, 1)
  <2>1. /\ 1 \in DOMAIN Entries(call.node) /\ Entries(call.node)[1] \in Node \cup {Leaf}
        /\ \A nodes \in SUBSET Node :
              Public(nodes) /\ call.node \in nodes => Entries(call.node)[1] \in nodes \cup {Leaf}
    BY <1>2, <1>3, OnlyEntry DEF Encoded
  <2>2. FrameInv(f) /\ f.node = call.node /\ f.depth = call.depth /\ f.current = 1
    BY <1>1, <2>1, NewFrame
  <2>3. /\ call' \in [node : Node \cup {Leaf}, depth : Nat] /\ call'.depth = call.depth
        /\ call'.node = Entries(call.node)[1]
    BY <1>2, <1>3, <2>1 DEF Calling
  <2>4. KindOf(call.node) \notin Containers
    BY <1>3 DEF Containers, Mapping, Listing
  <2>5. 1 # None
    BY WordAssumption
  <2> HIDE DEF f
  <2> QED
    BY <1>1, <1>3, <2>1, <2>2, <2>3, <2>4, <2>5, EnterStep DEF f
<1>4. CASE MarshalMap
  <2>1. CASE Entries(call.node) = <<>>
    BY <1>1, <1>4, <2>1, ReturnsStep DEF MarshalMap
  <2>2. CASE Entries(call.node) # <<>>
    BY <1>3, <1>4, <2>2 DEF MarshalMap, Calls
  <2> QED
    BY <2>1, <2>2
<1>5. CASE Dereference
  <2>1. KindOf(call.node) = "pointer"
    BY <1>5 DEF Dereference, Calls
  <2>2. DOMAIN Entries(call.node) = {1}
    BY <1>2, <2>1 DEF WellFormed, KindOf, Entries
  <2>3. Entries(call.node) # <<>>
    BY <2>2, EmptySeq, LenProperties
  <2> QED
    BY <1>3, <1>5, <2>1, <2>3 DEF Dereference
<1>6. CASE EnterContainer
  <2> DEFINE f == Frame(call.node, call.depth, Remaining(heap, call.node), None)
  <2>1. FrameInv(f) /\ f.node = call.node /\ f.depth = call.depth
    BY <1>1, NewFrame
  <2>2. Enter(f) /\ call' = None
    BY <1>6 DEF EnterContainer
  <2> HIDE DEF f
  <2> QED
    BY <1>1, <2>1, <2>2, EnterStep
<1> QED
  BY <1>4, <1>5, <1>6

LEMMA CutStep ==
    ASSUME IInv, RenderLeaf \/ MaxDepthExceeded \/ CircularReference
    PROVE  IInv'
<1>1. call # None /\ Returns /\ visited' = visited
  BY DEF RenderLeaf, MaxDepthExceeded, CircularReference, Calls
<1> QED
  BY <1>1, ReturnsStep

(* In a loop the next entry is one that is still to come. *)
LEMMA NextSlot ==
    ASSUME IInv, Looping
    PROVE  /\ stack # <<>> /\ First(Top.todo) \in Top.todo
           /\ First(Top.todo) \in Remaining(heap, Top.node)
           /\ First(Top.todo) \in DOMAIN Entries(Top.node)
           /\ \A t \in Top.todo : First(Top.todo) <= t
<1>1. /\ stack # <<>> /\ Top.todo # {} /\ FrameInv(Top) /\ WellFormed(heap)
      /\ Top.node \in Node
  BY Inside DEF Looping
<1>2. /\ Top.todo \subseteq Remaining(heap, Top.node)
      /\ Remaining(heap, Top.node) \subseteq DOMAIN Entries(Top.node)
  BY <1>1 DEF FrameInv, Remaining, Entries
<1>3. IsFiniteSet(DOMAIN Entries(Top.node))
  BY <1>1 DEF WellFormed, Entries
<1>4. Top.todo \in SUBSET Nat /\ IsFiniteSet(Top.todo)
  <2>1. \A s \in DOMAIN Entries(Top.node) : s \in Slots
    BY <1>1, EntrySlot
  <2> QED
    BY <1>2, <1>3, <2>1, FS_Subset DEF Slots
<1> QED
  BY <1>1, <1>2, <1>4, LeastElement

LEMMA NextEntryStep ==
    ASSUME IInv, NextEntry
    PROVE  IInv'
<1> DEFINE s == First(Top.todo)
           f == [Top EXCEPT !.todo = @ \ {s}, !.current = s]
<1>1. /\ stack # <<>> /\ s \in Top.todo /\ s \in Remaining(heap, Top.node)
      /\ s \in DOMAIN Entries(Top.node) /\ call = None
  BY NextSlot DEF NextEntry, Looping
<1>2. /\ heap # None /\ Built /\ ConfigInv /\ WellFormed(heap) /\ FrameInv(Top) /\ Top.node \in Node
      /\ Len(stack) \in DOMAIN stack
  BY <1>1, Inside
<1>3. s \in Slots /\ Entries(Top.node)[s] \in Node \cup {Leaf} /\ s # None
  BY <1>1, <1>2, EntrySlot, WordAssumption DEF Slots
<1>4. /\ Top \in Frames /\ f \in Frames
      /\ f.node = Top.node /\ f.depth = Top.depth /\ f.todo = Top.todo \ {s} /\ f.current = s
      /\ f.fields = Top.fields
  BY <1>2, <1>3 DEF FrameInv, Frames
<1>5. /\ UNCHANGED <<configVars, heap, seen, visited>>
      /\ budget' \in Nat /\ written' \in Nat /\ written' + budget' = written + budget
      /\ visited' \subseteq Node
  <2>1. ~(budget <= 0) /\ budget' = budget - 1 /\ written' = written + 1
        /\ UNCHANGED <<configVars, heap, seen, visited>>
    BY DEF NextEntry, Exhausted
  <2>2. budget \in Nat /\ written \in Nat /\ visited \subseteq Node
    BY DEF IInv, ShapeInv
  <2> QED
    BY <2>1, <2>2
<1>6. \A nodes \in SUBSET Node : Public(nodes) => visited' \subseteq nodes /\ Top.node \in nodes
  BY <1>1, <1>2, <1>5, PublicFacts
<1>7. \/ Masked(Top, s) /\ stack' = Replace(Filled(f)) /\ call' = call
      \/ /\ ~Masked(Top, s) /\ stack' = Replace(f)
         /\ call' = [node |-> Entries(Top.node)[s], depth |-> Top.depth + 1]
  BY DEF NextEntry, Calling
<1> HIDE DEF f, s
<1>8. FrameInv(f)
  BY <1>1, <1>2, <1>4 DEF FrameInv
<1>9. CASE Masked(Top, s) /\ stack' = Replace(Filled(f)) /\ call' = call
  <2>1. FrameInv(Filled(f)) /\ Filled(f).node = Top.node /\ Filled(f).depth = Top.depth
    BY <1>2, <1>3, <1>4, <1>8, FilledFrame
  <2>2. call' = None
    BY <1>1, <1>9
  <2> QED
    BY <1>1, <1>5, <1>6, <1>9, <2>1, <2>2, ReplaceStep
<1>10. CASE /\ ~Masked(Top, s) /\ stack' = Replace(f)
            /\ call' = [node |-> Entries(Top.node)[s], depth |-> Top.depth + 1]
  <2>1. Top.depth \in Nat /\ call'.depth = Top.depth + 1 /\ call'.node = Entries(Top.node)[s]
        /\ call' \in [node : Node \cup {Leaf}, depth : Nat]
    BY <1>3, <1>4, <1>10 DEF Frames
  <2>2. ASSUME NEW i \in DOMAIN stack PROVE Deeper(stack[i], call'.depth)
    <3>1. stack[i].depth \in Nat /\ Len(stack) \in Nat /\ i \in 1 .. Len(stack)
      BY <1>1, Inside DEF IInv, ShapeInv, FrameInv, Frames
    <3>2. stack[i].depth <= Top.depth
      <4>1. CASE i = Len(stack)
        BY <3>1, <4>1 DEF Top
      <4>2. CASE i < Len(stack)
        BY <1>2, <4>2 DEF IInv, DepthInv, Deeper, Top
      <4> QED
        BY <3>1, <4>1, <4>2
    <3> QED
      BY <2>1, <3>1, <3>2 DEF Deeper
  <2>3. ASSUME NEW nodes \in SUBSET Node, Public(nodes)
        PROVE  call'.node \in nodes \cup {Leaf}
    <3>1. ~(KindOf(Top.node) \in Mapping /\ Secret(Key[s]))
      BY <1>2, <1>10, SecretIsSensitive DEF Masked
    <3> QED
      BY <1>1, <1>6, <2>1, <2>3, <3>1 DEF Public
  <2> QED
    BY <1>1, <1>3, <1>4, <1>5, <1>6, <1>8, <1>10, <2>1, <2>2, <2>3, ReplaceStep
<1> QED
  BY <1>7, <1>9, <1>10

LEMMA OmitRestStep ==
    ASSUME IInv, OmitRest
    PROVE  IInv'
<1> DEFINE fields == Top.fields \cup {OmittedItems}
           f == [Top EXCEPT !.todo = {}, !.omitted = Cardinality(Top.todo), !.fields = fields]
<1>1. /\ stack # <<>> /\ call = None /\ call' = None
      /\ stack' = Replace(f)
      /\ UNCHANGED <<configVars, heap, budget, seen, visited, written>>
  BY DEF OmitRest, Looping
<1>2. /\ heap # None /\ Built /\ ConfigInv /\ WellFormed(heap) /\ FrameInv(Top) /\ Top.node \in Node
  BY <1>1, Inside
<1>3. Cardinality(Top.todo) \in Nat
  <2>1. Top.todo \subseteq DOMAIN Entries(Top.node) /\ IsFiniteSet(DOMAIN Entries(Top.node))
    BY <1>2 DEF FrameInv, Remaining, WellFormed, Entries
  <2> QED
    BY <2>1, FS_Subset, FS_CardinalityType
<1>4. Top \in Frames /\ OmittedItems \in Name /\ NameBounded(OmittedItems)
  BY <1>2, OmittedName DEF FrameInv
<1>5. /\ f \in Frames /\ f.node = Top.node /\ f.depth = Top.depth /\ f.todo = {}
      /\ f.current = Top.current /\ f.fields = fields
  <2>1. fields \in SUBSET (Name \cup [index : Slots])
    BY <1>4 DEF Frames
  <2> HIDE DEF fields
  <2> QED
    BY <1>3, <1>4, <2>1 DEF Frames
<1> HIDE DEF f
<1>6. FrameInv(f)
  BY <1>2, <1>4, <1>5 DEF FrameInv
<1>7. /\ visited' \subseteq Node /\ budget' \in Nat /\ written' \in Nat
      /\ written' + budget' = written + budget
  BY <1>1 DEF IInv, ShapeInv
<1>8. \A nodes \in SUBSET Node : Public(nodes) => visited' \subseteq nodes
  BY <1>1, <1>2, PublicFacts
<1> QED
  BY <1>1, <1>5, <1>6, <1>7, <1>8, ReplaceStep

LEMMA LeaveRootStep ==
    ASSUME IInv, LeaveRoot
    PROVE  IInv'
<1>1. /\ stack # <<>> /\ stack' = <<>> /\ call = None
      /\ UNCHANGED <<configVars, heap, call, budget, seen, visited, written>>
  BY DEF LeaveRoot, Finished
<1>2. heap # None /\ Built /\ ConfigInv /\ WellFormed(heap)
  BY <1>1, Inside
<1>3. ConfigInv' /\ Built' /\ WellFormed(heap)' /\ limits' = limits
  BY <1>1, <1>2, ConfigStep DEF configVars, Built, WellFormed, limits
<1>4. \A nodes : Public(nodes)' <=> Public(nodes)
  BY <1>1 DEF Public, Remaining, KindOf, Entries, Secret, configVars
<1>5. DOMAIN stack' = {} /\ stack' \in Seq(Frames)
  BY <1>1, EmptySeq, LenProperties
<1>6. ShapeInv'
  BY <1>1, <1>2, <1>3, <1>5 DEF IInv, ShapeInv
<1>7. DepthInv' /\ OnlyAncestorsAreCircular'
  BY <1>1, <1>5 DEF DepthInv, OnlyAncestorsAreCircular
<1>8. BudgetInv' /\ PublicInv'
  BY <1>1, <1>2, <1>3, <1>4, <1>5 DEF IInv, BudgetInv, PublicInv
<1> QED
  BY <1>3, <1>6, <1>7, <1>8 DEF IInv

LEMMA SanitizeStep ==
    ASSUME IInv, Sanitize
    PROVE  IInv'
<1> DEFINE f == Frame(Root, 1, Remaining(heap', Root), None)
<1>1. /\ Built /\ heap = None /\ stack = <<>> /\ call = None /\ written = 0 /\ ConfigInv
      /\ heap' \in Payload /\ budget' = limits.maxPayloadNodes
      /\ stack' = <<f>> /\ seen' = {heap'[Root].reference} /\ visited' = {Root}
      /\ UNCHANGED <<configVars, call, written>>
  BY DEF Sanitize, IInv, ShapeInv
<1>2. WellFormed(heap') /\ Root \in Node /\ heap'[Root].kind = "map"
      /\ heap'[Root].reference \in Node
  BY <1>1, PayloadAssumption, NodeAssumption DEF WellFormed
<1>3. heap' # None
  BY <1>1, PayloadAssumption
<1>4. /\ ConfigInv' /\ Built' /\ limits' = limits
      /\ limits.maxPayloadNodes \in Nat /\ limits.maxDepth \in Nat \ {0}
  BY <1>1, ConfigStep, LimitTypes DEF configVars, Built, limits
<1>5. /\ f.node = Root /\ f.depth = 1 /\ f.todo = Remaining(heap', Root) /\ f.current = None
      /\ f.fields = {} /\ f.omitted = 0
  BY DEF Frame
<1>6. f \in Frames
  <2>1. WellFormed(heap)'
    BY <1>2 DEF WellFormed
  <2>2. Remaining(heap', Root) \subseteq Slots
    <3>1. Remaining(heap', Root) \subseteq DOMAIN Key
      BY <1>2 DEF WellFormed, Remaining, Mapping
    <3> QED
      BY <3>1, KeyAssumption, LenProperties DEF Slots
  <2> QED
    BY <1>2, <2>2 DEF Frame, Frames
<1> HIDE DEF f
<1>7. /\ stack' \in Seq(Frames) /\ Len(stack') = 1 /\ DOMAIN stack' = {1} /\ stack'[1] = f
      /\ stack' # <<>>
  BY <1>1, <1>6
<1>8. ShapeInv'
  <2>1. /\ stack'[1] \in Frames /\ stack'[1].node = Root /\ stack'[1].depth = 1
        /\ stack'[1].todo = Remaining(heap', Root) /\ stack'[1].current = None
        /\ stack'[1].fields = {}
    BY <1>5, <1>6, <1>7
  <2>2. FrameInv(stack[1])'
    BY <1>4, <2>1 DEF FrameInv
  <2> QED
    BY <1>1, <1>2, <1>3, <1>4, <1>7, <2>2 DEF ShapeInv, WellFormed
<1>9. DepthInv'
  BY <1>1, <1>7 DEF DepthInv
<1>10. OnlyAncestorsAreCircular'
  <2>1. KindOf(Root)' \in Reference
    BY <1>2 DEF KindOf, Reference
  <2> QED
    BY <1>1, <1>5, <1>7, <2>1 DEF OnlyAncestorsAreCircular, KindOf, ReferenceOf
<1>11. BudgetInv'
  BY <1>1, <1>4 DEF BudgetInv
<1>12. PublicInv'
  BY <1>1, <1>5, <1>7 DEF PublicInv, Public
<1> QED
  BY <1>4, <1>8, <1>9, <1>10, <1>11, <1>12 DEF IInv

LEMMA ConfigKeepsIInv ==
    ASSUME IInv, (ConfigNext \/ UNCHANGED configVars) /\ UNCHANGED traversal
    PROVE  IInv'
<1>1. UNCHANGED <<heap, call, stack, budget, seen, visited, written>>
  BY DEF traversal
<1>2. ConfigInv' /\ (Built => UNCHANGED configVars)
  BY ConfigStep DEF IInv
<1>3. CASE heap = None
  BY <1>1, <1>2, <1>3
  DEF IInv, ShapeInv, DepthInv, OnlyAncestorsAreCircular, BudgetInv, PublicInv
<1>4. CASE heap # None
  <2>1. Built /\ UNCHANGED <<values, given, configuration>>
    BY <1>2, <1>4 DEF IInv, ShapeInv, configVars
  <2>2. /\ Built' /\ limits' = limits /\ Top' = Top /\ WellFormed(heap)' = WellFormed(heap)
        /\ \A n : KindOf(n)' = KindOf(n) /\ Entries(n)' = Entries(n)
    BY <1>1, <2>1 DEF Built, limits, Top, KindOf, Entries, WellFormed
  <2>3. ShapeInv'
    BY <1>1, <1>4, <2>1, <2>2
    DEF IInv, ShapeInv, FrameInv, NameBounded, Remaining, KindOf, Entries, limits
  <2>4. DepthInv' /\ OnlyAncestorsAreCircular' /\ BudgetInv'
    BY <1>1, <2>2
    DEF IInv, DepthInv, Deeper, OnlyAncestorsAreCircular, BudgetInv, KindOf, ReferenceOf
  <2>5. PublicInv'
    BY <1>1, <2>1 DEF IInv, PublicInv, Public, Remaining, KindOf, Entries, Secret
  <2> QED
    BY <1>2, <2>3, <2>4, <2>5 DEF IInv
<1> QED
  BY <1>3, <1>4

-----------------------------------------------------------------------------
(* The theorems.                                                           *)

LEMMA Inductive == IInv /\ [Next]_vars => IInv'
<1> SUFFICES ASSUME IInv, [Next]_vars PROVE IInv'
  OBVIOUS
<1>1. CASE ConfigNext /\ UNCHANGED traversal
  BY <1>1, ConfigKeepsIInv
<1>2. CASE Sanitize
  BY <1>2, SanitizeStep
<1>3. CASE RenderLeaf \/ MaxDepthExceeded \/ CircularReference
  BY <1>3, CutStep
<1>4. CASE MarshalValue
  BY <1>4, MarshalValueStep
<1>5. CASE MarshalMap \/ Dereference \/ EnterContainer
  BY <1>5, EntersStep
<1>6. CASE NextEntry
  BY <1>6, NextEntryStep
<1>7. CASE OmitRest
  BY <1>7, OmitRestStep
<1>8. CASE Leave
  BY <1>8, LeaveStep
<1>9. CASE LeaveRoot
  BY <1>9, LeaveRootStep
<1>10. CASE UNCHANGED vars
  BY <1>10, ConfigKeepsIInv DEF vars
<1> QED
  BY <1>1, <1>2, <1>3, <1>4, <1>5, <1>6, <1>7, <1>8, <1>9, <1>10 DEF Next, Normalize

LEMMA Invariance == Spec => []IInv
BY InitIInv, Inductive, PTL DEF Spec

(* Whatever the payload refers to, and however often, what is replaced by  *)
(* [CIRCULAR_REFERENCE] is inside of a value of its type and address, and  *)
(* nothing is without being replaced: `seen` is the references on the      *)
(* stack, each once.                                                       *)
THEOREM CyclesAreCut == Spec => []OnlyAncestorsAreCircular
<1>1. IInv => OnlyAncestorsAreCircular
  BY DEF IInv
<1> QED
  BY <1>1, Invariance, PTL

(* A value behind a secret key is never looked into, for all keys, custom  *)
(* and default, and all payloads that hide it, share it or decode to it.   *)
THEOREM SecretsStayHidden == Spec => []NoSecretVisited
<1>1. IInv => NoSecretVisited
  BY DEF IInv, PublicInv, NoSecretVisited
<1> QED
  BY <1>1, Invariance, PTL

(* The frames of containers with entries have different depths.            *)
LEMMA NestingBounded ==
    ASSUME IInv, heap # None
    PROVE  Cardinality({i \in DOMAIN stack : KindOf(stack[i].node) \in Containers})
              <= limits.maxDepth
<1> DEFINE inside == {i \in DOMAIN stack : KindOf(stack[i].node) \in Containers}
           d == [i \in inside |-> stack[i].depth]
<1>1. limits.maxDepth \in Nat
  BY LimitTypes DEF IInv, ShapeInv
<1>2. IsFiniteSet(1 .. limits.maxDepth) /\ Cardinality(1 .. limits.maxDepth) = limits.maxDepth
  <2>1. /\ IsFiniteSet(1 .. limits.maxDepth)
        /\ Cardinality(1 .. limits.maxDepth) =
              IF 1 > limits.maxDepth THEN 0 ELSE limits.maxDepth - 1 + 1
    BY <1>1, FS_Interval
  <2> QED
    BY <1>1, <2>1
<1>3. \A i \in DOMAIN stack : stack[i].depth \in 1 .. limits.maxDepth /\ i \in Nat
  BY LenProperties DEF IInv, ShapeInv, FrameInv
<1>4. d \in [inside -> 1 .. limits.maxDepth]
  BY <1>3
<1>5. \A i, j \in inside : i # j => d[i] # d[j]
  <2>1. ASSUME NEW i \in inside, NEW j \in inside, i < j PROVE stack[i].depth < stack[j].depth
    BY <2>1 DEF IInv, DepthInv, Deeper
  <2>2. ASSUME NEW i \in inside, NEW j \in inside, i # j PROVE d[i] # d[j]
    <3>1. i < j \/ j < i
      BY <1>3, <2>2
    <3>2. stack[i].depth \in Nat /\ stack[j].depth \in Nat
      BY <1>1, <1>3
    <3>3. stack[i].depth # stack[j].depth
      BY <2>1, <3>1, <3>2
    <3> QED
      BY <3>3
  <2> QED
    BY <2>2
<1>6. d \in Injection(inside, 1 .. limits.maxDepth)
  BY <1>4, <1>5 DEF Injection, IsInjective
<1> HIDE DEF d, inside
<1>7. Cardinality(inside) <= Cardinality(1 .. limits.maxDepth)
  BY <1>2, <1>6, FS_Injection
<1> QED
  BY <1>2, <1>7 DEF inside

(* Type correctness of the traversal. *)
THEOREM TypeCorrect == Spec => []TypeOK
<1>1. IInv => TypeOK
  BY DEF IInv, ConfigInv, ShapeInv, TypeOK
<1> QED
  BY <1>1, Invariance, PTL

-----------------------------------------------------------------------------
(* What becomes of the entries.                                            *)

Pending(f) == IF f.current = None THEN {} ELSE {f.current}

(* The entries that are done have given the result its names. *)
Accounted(f) ==
    \E done \in SUBSET Remaining(heap, f.node) :
        /\ f.fields = {Slot(f, s) : s \in done}
                         \cup IF f.omitted > 0 THEN {OmittedItems} ELSE {}
        /\ Pending(f) \subseteq Remaining(heap, f.node) \ f.todo
        /\ f.omitted = 0 => done = Remaining(heap, f.node) \ (f.todo \cup Pending(f))
        /\ f.omitted > 0 => /\ f.todo = {} /\ f.current = None
                            /\ Cardinality(Remaining(heap, f.node))
                                  = Cardinality(done) + f.omitted

(* The loop over a list is at most behind its last item.                   *)
Justified(f) ==
    /\ f.omitted > 0 => \/ written = limits.maxPayloadNodes
                        \/ /\ KindOf(f.node) \in Listing
                           /\ Cardinality(f.fields \ {OmittedItems}) = limits.maxArrayItems
    /\ KindOf(f.node) \in Listing /\ f.omitted = 0 =>
          \E m \in 0 .. limits.maxArrayItems :
              f.todo = {s \in Remaining(heap, f.node) : s > m}

Settled(f) == Accounted(f) /\ Justified(f)

AccountInv ==
    /\ call = None /\ stack # <<>> => Top.current = None
    /\ \A i \in DOMAIN stack : Settled(stack[i])

(* A name is assigned to one of two keys only, unless one of them is       *)
(* spelled like what the other one is shortened to.                        *)
LEMMA NormalizedKeys ==
    ASSUME ConfigInv, Built, NEW k \in PayloadKeys, NEW l \in PayloadKeys,
           NormalizeKey(k) = NormalizeKey(l), NormalizeKey(k) # l, NormalizeKey(l) # k
    PROVE  k = l
<1>1. ~(NameBytes(k) <= limits.maxKeyBytes) /\ ~(NameBytes(l) <= limits.maxKeyBytes)
  BY DEF NormalizeKey
<1>2. PICK u \in Nat, v \in Stem :
         NormalizeKey(k) = [underscores |-> u, word |-> Suffixed[v][Digest[k]]]
  BY <1>1, ShortenedKey
<1>3. PICK t \in Nat, w \in Stem :
         NormalizeKey(l) = [underscores |-> t, word |-> Suffixed[w][Digest[l]]]
  BY <1>1, ShortenedKey
<1>4. Suffixed[w][Digest[l]] = Suffixed[v][Digest[k]]
  <2>1. NormalizeKey(k).word = Suffixed[v][Digest[k]]
    BY <1>2
  <2>2. NormalizeKey(l).word = Suffixed[w][Digest[l]]
    BY <1>3
  <2> QED
    BY <2>1, <2>2
<1>5. Digest[l] = Digest[k]
  BY <1>4, DigestAssumption
<1> QED
  BY <1>5, DigestAssumption

Escape(name) == IF Reserved(name) THEN [name EXCEPT !.underscores = @ + 1] ELSE name

LEMMA EscapedName ==
    ASSUME NEW n \in Name
    PROVE  /\ \A m \in Name : Escape(n) = Escape(m) => n = m
           /\ \A w \in MarkerWord : Escape(n) # [underscores |-> 1, word |-> w]
<1>1. ASSUME NEW m \in Name
      PROVE  /\ m.underscores \in Nat
             /\ Escape(m).word = m.word
             /\ Escape(m).underscores = IF Reserved(m) THEN m.underscores + 1 ELSE m.underscores
  BY DEF Name, Escape
<1>2. ASSUME NEW m \in Name, Escape(n) = Escape(m) PROVE n = m
  <2>1. n.word = m.word
    BY <1>1, <1>2
  <2>2. n.underscores \in Nat /\ m.underscores \in Nat
    BY <1>1
  <2>3. n.underscores = m.underscores
    BY <1>1, <1>2, <2>1, <2>2 DEF Reserved
  <2> QED
    BY <2>1, <2>3 DEF Name
<1>3. ASSUME NEW w \in MarkerWord PROVE Escape(n) # [underscores |-> 1, word |-> w]
  <2> SUFFICES ASSUME Escape(n).underscores = 1, Escape(n).word = w PROVE FALSE
    OBVIOUS
  <2> QED
    BY <1>1 DEF Reserved
<1> QED
  BY <1>2, <1>3

(* No entry of a container gets the name of a marker, and where no key is  *)
(* spelled like the shortened form of another one no two get one name.     *)
LEMMA SlotNames ==
    ASSUME ConfigInv, Built, WellFormed(heap), NEW f, f.node \in Node,
           NEW s \in Remaining(heap, f.node)
    PROVE  /\ ~Ambiguous(f.node) =>
                  \A t \in Remaining(heap, f.node) : Slot(f, s) = Slot(f, t) => s = t
           /\ \A w \in MarkerWord : Slot(f, s) # [underscores |-> 1, word |-> w]
<1>1. CASE KindOf(f.node) \in Mapping
  <2>1. \A t \in Remaining(heap, f.node) : t \in DOMAIN Key
    BY <1>1 DEF WellFormed, Remaining, KindOf
  <2>2. \A t \in DOMAIN Key :
           /\ Key[t] \in PayloadKeys /\ NormalizeKey(Key[t]) \in Name
           /\ Slot(f, t) = Escape(NormalizeKey(Key[t]))
    BY <1>1, NormalizedKey DEF PayloadKeys, Slot, Assigned, Escape
  <2>3. \A i, j \in DOMAIN Key : Key[i] = Key[j] => i = j
    BY KeyAssumption
  <2>4. ASSUME ~Ambiguous(f.node), NEW t \in Remaining(heap, f.node), Slot(f, s) = Slot(f, t)
        PROVE  s = t
    <3> SUFFICES ASSUME s # t PROVE FALSE
      OBVIOUS
    <3>1. NormalizeKey(Key[s]) = NormalizeKey(Key[t])
      BY <2>1, <2>2, <2>4, EscapedName
    <3>2. NormalizeKey(Key[s]) # Key[t] /\ NormalizeKey(Key[t]) # Key[s]
      BY <1>1, <2>4 DEF Ambiguous
    <3>3. Key[s] = Key[t]
      BY <2>1, <2>2, <3>1, <3>2, NormalizedKeys
    <3> QED
      BY <2>1, <2>3, <3>3
  <2>5. ASSUME NEW w \in MarkerWord PROVE Slot(f, s) # [underscores |-> 1, word |-> w]
    BY <2>1, <2>2, EscapedName
  <2> QED
    BY <2>4, <2>5
<1>2. CASE KindOf(f.node) \notin Mapping
  <2>1. \A t : Slot(f, t) = [index |-> t]
    BY <1>2 DEF Slot
  <2>2. \A t : DOMAIN [index |-> t] = {"index"} /\ [index |-> t].index = t
    OBVIOUS
  <2>3. \A w : DOMAIN [underscores |-> 1, word |-> w] = {"underscores", "word"}
    OBVIOUS
  <2> QED
    BY <2>1, <2>2, <2>3
<1> QED
  BY <1>1, <1>2

LEMMA MarkerOmitted ==
    OmittedWord \in MarkerWord /\ OmittedItems = [underscores |-> 1, word |-> OmittedWord]
BY KeyAssumption DEF OmittedItems

(* There are as many names as entries that are done. *)
LEMMA NamesCounted ==
    ASSUME ConfigInv, Built, WellFormed(heap), NEW f, f.node \in Node,
           NEW done \in SUBSET Remaining(heap, f.node)
    PROVE  /\ IsFiniteSet(Remaining(heap, f.node)) /\ IsFiniteSet(done)
           /\ ~Ambiguous(f.node) =>
                 Cardinality({Slot(f, s) : s \in done}) = Cardinality(done)
<1> DEFINE names == {Slot(f, s) : s \in done}
           b == [s \in done |-> Slot(f, s)]
<1>1. IsFiniteSet(Remaining(heap, f.node))
  <2>1. IsFiniteSet(DOMAIN Entries(f.node))
    BY DEF WellFormed, Entries
  <2>2. Remaining(heap, f.node) \in SUBSET DOMAIN Entries(f.node)
    BY DEF Remaining, Entries
  <2> QED
    BY <2>1, <2>2, FS_Subset
<1>2. IsFiniteSet(done)
  BY <1>1, FS_Subset
<1>3. ASSUME ~Ambiguous(f.node) PROVE Cardinality(names) = Cardinality(done)
  <2>1. \A s, t \in done : Slot(f, s) = Slot(f, t) => s = t
    BY <1>3, SlotNames
  <2>2. b \in Bijection(done, names)
    BY <2>1 DEF Bijection, Injection, Surjection, IsInjective
  <2>3. ExistsBijection(done, names)
    BY <2>2 DEF ExistsBijection
  <2> HIDE DEF names, b
  <2> QED
    BY <1>2, <2>3, FS_Bijection
<1> QED
  BY <1>1, <1>2, <1>3 DEF names

(* The frame that normalize begins a container with. *)
LEMMA NewSettled ==
    ASSUME WellFormed(heap), limits.maxArrayItems \in Nat, NEW n \in Node, NEW d,
           NEW slot,
           NEW slots,
           \/ slots = Remaining(heap, n) /\ slot = None
           \/ /\ KindOf(n) \notin Listing /\ slots = {} /\ slot # None
              /\ Remaining(heap, n) = {slot}
    PROVE  Settled(Frame(n, d, slots, slot))
<1> DEFINE f == Frame(n, d, slots, slot)
           R == Remaining(heap, n)
<1>1. /\ f.node = n /\ f.todo = slots /\ f.current = slot /\ f.fields = {} /\ f.omitted = 0
  BY DEF Frame
<1>2. \A s \in R : s > 0
  <2>1. \A s \in DOMAIN Entries(n) : s \in Slots
    BY EntrySlot
  <2> QED
    BY <2>1 DEF Remaining, Entries, Slots
<1> HIDE DEF f
<1>3. Pending(f) = (IF slot = None THEN {} ELSE {slot}) /\ R \ (slots \cup Pending(f)) = {}
  BY <1>1 DEF Pending
<1>4. Accounted(f)
  <2>1. {} \in SUBSET R /\ {Slot(f, s) : s \in {}} = {}
    OBVIOUS
  <2>2. Pending(f) \subseteq R \ slots
    BY <1>3
  <2> HIDE DEF R
  <2> QED
    BY <1>1, <1>3, <2>1, <2>2 DEF Accounted, R
<1>5. Justified(f)
  <2>1. KindOf(n) \in Listing => slots = {s \in R : s > 0}
    BY <1>2
  <2>2. 0 \in 0 .. limits.maxArrayItems
    OBVIOUS
  <2> QED
    BY <1>1, <2>1, <2>2 DEF Justified
<1> QED
  BY <1>4, <1>5 DEF Settled, f

(* The value that normalize returned gives the current entry its name. *)
LEMMA FilledSettled ==
    ASSUME NEW f, FrameInv(f), Settled(f), f.current # None
    PROVE  Settled(Filled(f))
<1> DEFINE s == f.current
           r == Filled(f)
           R == Remaining(heap, f.node)
<1>1. /\ f \in Frames /\ f.omitted \in Nat
      /\ r.node = f.node /\ r.todo = f.todo /\ r.current = None /\ r.omitted = f.omitted
      /\ r.fields = f.fields \cup {Slot(f, s)}
  BY DEF Filled, Frames, FrameInv
<1> HIDE DEF r
<1>2. PICK done \in SUBSET R :
         /\ f.fields = {Slot(f, t) : t \in done}
                          \cup IF f.omitted > 0 THEN {OmittedItems} ELSE {}
         /\ {s} \subseteq R \ f.todo
         /\ f.omitted = 0 => done = R \ (f.todo \cup {s})
         /\ f.omitted > 0 => f.current = None
  BY DEF Settled, Accounted, Pending
<1>3. f.omitted = 0 /\ ~(f.omitted > 0)
  BY <1>1, <1>2
<1>4. /\ s \in R /\ s \notin f.todo /\ done = R \ (f.todo \cup {s})
      /\ f.fields = {Slot(f, t) : t \in done}
  BY <1>2, <1>3
<1>5. Accounted(r)
  <2> DEFINE after == R \ f.todo
  <2>1. after = done \cup {s} /\ after \in SUBSET R
    BY <1>4
  <2>2. \A t : Slot(r, t) = Slot(f, t)
    BY <1>1 DEF Slot
  <2>3. r.fields = {Slot(r, t) : t \in after}
    BY <1>1, <1>4, <2>1, <2>2
  <2>4. Pending(r) = {} /\ r.omitted = 0 /\ ~(r.omitted > 0)
    BY <1>1, <1>3 DEF Pending
  <2>5. after = Remaining(heap, r.node) \ (r.todo \cup Pending(r)) /\ after \in SUBSET Remaining(heap, r.node)
    BY <1>1, <2>1, <2>4
  <2> HIDE DEF after, R
  <2> QED
    BY <2>3, <2>4, <2>5 DEF Accounted
<1>6. Justified(r)
  <2>1. Justified(f)
    BY DEF Settled
  <2> QED
    BY <1>1, <1>3, <2>1 DEF Justified
<1> QED
  BY <1>5, <1>6 DEF Settled, r

(* The loop goes on with the next entry. *)
LEMMA NextSettled ==
    ASSUME IInv, Looping, ~Exhausted(Top), Settled(Top), Top.current = None
    PROVE  LET s == First(Top.todo)
               f == [Top EXCEPT !.todo = @ \ {s}, !.current = s]
           IN  Settled(f)
<1> DEFINE s == First(Top.todo)
           f == [Top EXCEPT !.todo = @ \ {s}, !.current = s]
           R == Remaining(heap, Top.node)
<1>1. /\ stack # <<>> /\ s \in Top.todo /\ s \in R /\ \A t \in Top.todo : s <= t
      /\ s \in DOMAIN Entries(Top.node)
  BY NextSlot
<1>2. /\ WellFormed(heap) /\ FrameInv(Top) /\ Top.node \in Node /\ ConfigInv /\ Built
  BY <1>1, Inside
<1>3. /\ s \in Slots /\ s # None /\ \A t \in R : t \in Slots
  <2>1. \A t \in DOMAIN Entries(Top.node) : t \in Slots
    BY <1>2, EntrySlot
  <2> QED
    BY <1>1, <2>1, WordAssumption DEF Slots, Remaining, Entries
<1>4. /\ Top \in Frames /\ Top.omitted \in Nat /\ Top.todo \subseteq R
      /\ f.node = Top.node /\ f.todo = Top.todo \ {s} /\ f.current = s
      /\ f.fields = Top.fields /\ f.omitted = Top.omitted
  BY <1>2 DEF FrameInv, Frames
<1> HIDE DEF f, s
<1>5. PICK done \in SUBSET R :
         /\ Top.fields = {Slot(Top, t) : t \in done}
                          \cup IF Top.omitted > 0 THEN {OmittedItems} ELSE {}
         /\ Top.omitted = 0 => done = R \ (Top.todo \cup {})
         /\ Top.omitted > 0 => Top.todo = {}
  BY DEF Settled, Accounted, Pending
<1>6. Top.omitted = 0 /\ ~(Top.omitted > 0)
  BY <1>1, <1>4, <1>5
<1>7. done = R \ Top.todo /\ Top.fields = {Slot(Top, t) : t \in done}
  BY <1>5, <1>6
<1>8. Accounted(f)
  <2>1. \A t : Slot(f, t) = Slot(Top, t)
    BY <1>4 DEF Slot
  <2>2. f.fields = {Slot(f, t) : t \in done}
    BY <1>4, <1>7, <2>1
  <2>3. Pending(f) = {s} /\ f.omitted = 0 /\ ~(f.omitted > 0)
    BY <1>3, <1>4, <1>6 DEF Pending
  <2>4. done = Remaining(heap, f.node) \ (f.todo \cup Pending(f)) /\ done \in SUBSET Remaining(heap, f.node)
    BY <1>1, <1>4, <1>7, <2>3
  <2>5. Pending(f) \subseteq Remaining(heap, f.node) \ f.todo
    BY <1>1, <1>4, <2>3
  <2> HIDE DEF R
  <2> QED
    BY <2>2, <2>3, <2>4, <2>5 DEF Accounted
<1>9. Justified(f)
  <2>1. ASSUME KindOf(f.node) \in Listing
        PROVE  \E m \in 0 .. limits.maxArrayItems : f.todo = {t \in R : t > m}
    <3>1. s <= limits.maxArrayItems /\ limits.maxArrayItems \in Nat
      BY <1>2, <1>3, <1>4, <2>1, LimitTypes DEF Exhausted, s, Slots
    <3>2. PICK m \in 0 .. limits.maxArrayItems : Top.todo = {t \in R : t > m}
      BY <1>4, <1>6, <2>1 DEF Settled, Justified
    <3>3. s \in 0 .. limits.maxArrayItems
      BY <1>3, <3>1 DEF Slots
    <3>4. s \in Nat /\ s > m /\ \A t \in R : t \in Nat
      BY <1>1, <1>3, <3>2 DEF Slots
    <3>5. ASSUME NEW t \in R PROVE t \in f.todo <=> t > s
      BY <1>1, <1>4, <3>2, <3>4
    <3>6. f.todo = {t \in R : t > s}
      BY <1>4, <3>5
    <3> QED
      BY <3>3, <3>6
  <2> QED
    BY <1>4, <1>6, <2>1 DEF Justified
<1> QED
  BY <1>8, <1>9 DEF Settled, f, s

(* The loop leaves out the rest: the budget is used up, or the list has as *)
(* many items in the result as it may have.                                *)
LEMMA OmitSettled ==
    ASSUME IInv, Looping, Exhausted(Top), Settled(Top), Top.current = None,
           NEW f \in Frames, f.node = Top.node, f.todo = {}, f.current = None,
           f.omitted = Cardinality(Top.todo),
           f.fields = Top.fields \cup {OmittedItems}
    PROVE  Settled(f)
<1> DEFINE s == First(Top.todo)
           R == Remaining(heap, Top.node)
<1>1. /\ stack # <<>> /\ s \in Top.todo /\ s \in R /\ \A t \in Top.todo : s <= t
  BY NextSlot
<1>2. /\ heap # None /\ WellFormed(heap) /\ FrameInv(Top) /\ Top.node \in Node /\ ConfigInv /\ Built
  BY <1>1, Inside
<1>3. \A t \in R : t \in Slots
  <2>1. \A t \in DOMAIN Entries(Top.node) : t \in Slots
    BY <1>2, EntrySlot
  <2> QED
    BY <2>1 DEF Remaining, Entries
<1>4. Top.omitted \in Nat /\ Top.todo \in SUBSET R
  BY <1>2 DEF FrameInv, Frames
<1>5. IsFiniteSet(R)
  BY <1>2, NamesCounted
<1>6. Cardinality(Top.todo) \in Nat \ {0}
  BY <1>1, <1>4, <1>5, FS_Subset, FS_CardinalityType, FS_EmptySet
<1> HIDE DEF s
<1>7. PICK done \in SUBSET R :
         /\ Top.fields = {Slot(Top, t) : t \in done}
                          \cup IF Top.omitted > 0 THEN {OmittedItems} ELSE {}
         /\ Top.omitted = 0 => done = R \ (Top.todo \cup {})
         /\ Top.omitted > 0 => Top.todo = {}
  BY DEF Settled, Accounted, Pending
<1>8. Top.omitted = 0 /\ ~(Top.omitted > 0)
  BY <1>1, <1>4, <1>7
<1>9. done = R \ Top.todo /\ Top.fields = {Slot(Top, t) : t \in done}
  BY <1>7, <1>8
<1>10. f.omitted > 0 /\ f.omitted # 0
  BY <1>6
<1>11. Accounted(f)
  <2>1. \A t : Slot(f, t) = Slot(Top, t)
    BY DEF Slot
  <2>2. f.fields = {Slot(f, t) : t \in done}
                       \cup {OmittedItems}
    BY <1>9, <2>1
  <2>3. Cardinality(R) = Cardinality(done) + Cardinality(Top.todo)
    <3>1. R \cap Top.todo = Top.todo /\ IsFiniteSet(done)
      BY <1>4, <1>5, <1>9, FS_Difference
    <3>2. Cardinality(done) = Cardinality(R) - Cardinality(Top.todo)
      <4> HIDE DEF R
      <4>1. Cardinality(R \ Top.todo) = Cardinality(R) - Cardinality(R \cap Top.todo)
        BY <1>5, FS_Difference
      <4> QED
        BY <1>9, <3>1, <4>1
    <3>3. Cardinality(R) \in Nat /\ Cardinality(done) \in Nat
      BY <1>5, <3>1, FS_CardinalityType
    <3> HIDE DEF R
    <3> QED
      BY <1>6, <3>2, <3>3
  <2>4. Pending(f) = {}
    BY DEF Pending
  <2> HIDE DEF R
  <2> QED
    BY <1>10, <2>2, <2>3, <2>4 DEF Accounted, R
<1>12. \/ written = limits.maxPayloadNodes
       \/ /\ KindOf(f.node) \in Listing
          /\ Cardinality(f.fields \ {OmittedItems}) = limits.maxArrayItems
  <2>1. CASE budget <= 0
    <3>1. budget \in Nat /\ written \in Nat /\ written + budget = limits.maxPayloadNodes
      BY <1>2 DEF IInv, ShapeInv, BudgetInv
    <3> QED
      BY <2>1, <3>1
  <2>2. CASE KindOf(Top.node) \in Listing /\ s > limits.maxArrayItems
    <3>1. limits.maxArrayItems \in Nat
      BY <1>2, LimitTypes
    <3>2. PICK m \in 0 .. limits.maxArrayItems : Top.todo = {t \in R : t > m}
      BY <1>8, <2>2 DEF Settled, Justified
    <3>3. PICK c \in Nat : R = 1 .. c
      <4>1. /\ DOMAIN Entries(Top.node) = 1 .. Cardinality(DOMAIN Entries(Top.node))
            /\ IsFiniteSet(DOMAIN Entries(Top.node))
            /\ heap[Top.node].skipped \subseteq {}
        BY <1>2, <2>2 DEF WellFormed, Entries, KindOf, Listing
      <4>2. R = DOMAIN Entries(Top.node)
        BY <4>1 DEF Remaining, Entries
      <4> QED
        BY <4>1, <4>2, FS_CardinalityType
    <3>4. m = limits.maxArrayItems
      <4> SUFFICES ASSUME m < limits.maxArrayItems PROVE FALSE
        BY <3>1
      <4>1. s \in Nat /\ m + 1 < s /\ s <= c
        BY <1>1, <2>2, <3>1, <3>3
      <4>2. m + 1 \in Top.todo
        BY <3>1, <3>2, <3>3, <4>1
      <4> QED
        BY <1>1, <3>1, <4>1, <4>2
    <3>5. done = 1 .. limits.maxArrayItems
      <4>1. s \in 1 .. c
        BY <1>1, <3>3
      <4>2. limits.maxArrayItems < c
        BY <2>2, <3>1, <4>1
      <4> HIDE DEF R
      <4>3. ASSUME NEW t PROVE t \in done <=> t \in 1 .. limits.maxArrayItems
        BY <1>9, <3>1, <3>2, <3>3, <3>4, <4>2
      <4> QED
        BY <4>3
    <3>6. Cardinality(done) = limits.maxArrayItems
      BY <3>1, <3>5, FS_Interval
    <3>7. Cardinality({Slot(Top, t) : t \in done}) = Cardinality(done)
      <4>1. ~Ambiguous(Top.node)
        BY <2>2 DEF Ambiguous, Mapping, Listing
      <4> QED
        BY <1>2, <4>1, NamesCounted
    <3>8. f.fields \ {OmittedItems} = {Slot(Top, t) : t \in done}
      <4>1. \A t \in done : Slot(Top, t) # OmittedItems
        BY <1>2, SlotNames, MarkerOmitted
      <4> QED
        BY <1>9, <4>1
    <3> QED
      BY <1>9, <2>2, <3>6, <3>7, <3>8
  <2> QED
    BY <2>1, <2>2 DEF Exhausted, s
<1>13. Justified(f)
  BY <1>10, <1>12 DEF Justified
<1> QED
  BY <1>11, <1>13 DEF Settled

(* What holds of a frame goes on to hold while the payload stays.          *)
LEMMA SettledKept ==
    ASSUME UNCHANGED <<configVars, heap>>,
           written' = written \/ written # limits.maxPayloadNodes,
           NEW f, Settled(f)
    PROVE  Settled(f)'
<1>1. /\ limits' = limits /\ heap' = heap /\ Remaining(heap, f.node)' = Remaining(heap, f.node)
      /\ KindOf(f.node)' = KindOf(f.node)
      /\ \A s : Slot(f, s)' = Slot(f, s)
  BY DEF configVars, limits, Remaining, KindOf, Slot, Assigned, NormalizeKey, TruncateUTF8, NameBytes
<1>2. Accounted(f)'
  BY <1>1 DEF Settled, Accounted
<1>3. Justified(f)'
  BY <1>1 DEF Settled, Justified
<1> QED
  BY <1>2, <1>3 DEF Settled

LEMMA AccountInit == Init => AccountInv
BY EmptySeq, LenProperties DEF Init, AccountInv

(* A step that changes the last frame of the stack only. *)
LEMMA ReplaceAccount ==
    ASSUME IInv, AccountInv, stack # <<>>, NEW f, FrameInv(f), Settled(f),
           f.node = Top.node, f.depth = Top.depth,
           stack' = Replace(f), UNCHANGED <<configVars, heap>>,
           written' = written \/ written # limits.maxPayloadNodes,
           call' = None => f.current = None
    PROVE  AccountInv'
<1>1. /\ DOMAIN stack' = DOMAIN stack /\ Len(stack') = Len(stack)
      /\ stack'[Len(stack)] = f
      /\ \A i \in DOMAIN stack : i # Len(stack) => stack'[i] = stack[i]
  BY Replaced DEF SameShape
<1>2. ASSUME NEW i \in DOMAIN stack' PROVE Settled(stack[i])'
  <2>1. PICK g : g = stack'[i]
    OBVIOUS
  <2>2. Settled(g)
    BY <1>1, <2>1 DEF AccountInv
  <2>3. Settled(g)'
    BY <2>2, SettledKept
  <2> QED
    BY <2>1, <2>3
<1>3. Top' = f
  BY <1>1 DEF Top
<1> QED
  BY <1>2, <1>3 DEF AccountInv

(* normalize enters a container. *)
LEMMA EnterAccount ==
    ASSUME IInv, AccountInv, NEW f, f \in Frames, Settled(f), Enter(f),
           call' = None => f.current = None
    PROVE  AccountInv'
<1> DEFINE l == Len(stack)
<1>1. /\ stack' = Append(stack, f) /\ UNCHANGED <<configVars, heap, written>>
      /\ stack \in Seq(Frames)
  BY DEF Enter, IInv, ShapeInv
<1>2. /\ Len(stack') = l + 1 /\ DOMAIN stack' = (DOMAIN stack) \cup {l + 1}
      /\ stack'[l + 1] = f /\ \A i \in DOMAIN stack : stack'[i] = stack[i]
  <2>1. /\ stack' \in Seq(Frames) /\ Len(stack') = l + 1
        /\ stack'[l + 1] = f /\ \A i \in 1 .. l : stack'[i] = stack[i]
    BY <1>1, AppendProperties
  <2>2. DOMAIN stack' = 1 .. l + 1 /\ DOMAIN stack = 1 .. l /\ l \in Nat
    BY <1>1, <2>1, LenProperties
  <2> QED
    BY <2>1, <2>2
<1>3. ASSUME NEW i \in DOMAIN stack' PROVE Settled(stack[i])'
  <2>1. PICK g : g = stack'[i]
    OBVIOUS
  <2>2. Settled(g)
    BY <1>2, <2>1 DEF AccountInv
  <2>3. Settled(g)'
    BY <1>1, <2>2, SettledKept
  <2> QED
    BY <2>1, <2>3
<1>4. Top' = f
  BY <1>2 DEF Top
<1> QED
  BY <1>3, <1>4 DEF AccountInv

(* normalize returns from a container, which names the entry it was        *)
(* entered for.                                                            *)
LEMMA LeaveAccount ==
    ASSUME IInv, AccountInv, Leave
    PROVE  AccountInv'
<1> DEFINE l == Len(stack)
           f == Filled(stack[l - 1])
<1>1. /\ stack # <<>> /\ l > 1 /\ DOMAIN stack = 1 .. l /\ l \in Nat \ {0}
      /\ l - 1 \in DOMAIN stack /\ stack \in Seq(Frames)
      /\ heap # None /\ Built /\ ConfigInv /\ WellFormed(heap)
  BY Inside DEF Leave, Finished, IInv, ShapeInv
<1>2. /\ stack' = [SubSeq(stack, 1, l - 1) EXCEPT ![l - 1] = f]
      /\ UNCHANGED <<configVars, heap, written>>
  BY DEF Leave
<1>3. FrameInv(stack[l - 1]) /\ stack[l - 1].current # None /\ Settled(stack[l - 1])
  BY <1>1 DEF IInv, ShapeInv, AccountInv
<1>4. Settled(f) /\ FrameInv(f) /\ f.current = None
  <2>1. f.current = None
    BY <1>3 DEF Filled, FrameInv, Frames
  <2> QED
    BY <1>1, <1>3, <2>1, FilledFrame, FilledSettled
<1> HIDE DEF f, l
<1>5. /\ Len(stack') = l - 1 /\ DOMAIN stack' = 1 .. l - 1
      /\ stack'[l - 1] = f
      /\ \A i \in 1 .. l - 1 : i # l - 1 => stack'[i] = stack[i]
  <2> DEFINE r == SubSeq(stack, 1, l - 1)
  <2>1. \A i \in 1 .. l - 1 : stack[i] \in Frames
    BY <1>1, ElementOfSeq
  <2>2. r \in Seq(Frames) /\ Len(r) = l - 1 /\ \A i \in 1 .. l - 1 : r[i] = stack[i]
    <3>1. /\ r \in Seq(Frames)
          /\ Len(r) = IF 1 <= l - 1 THEN l - 1 - 1 + 1 ELSE 0
          /\ \A i \in 1 .. l - 1 - 1 + 1 : r[i] = stack[1 + i - 1]
      BY <1>1, <2>1, SubSeqProperties
    <3>2. 1 <= l - 1 /\ l - 1 - 1 + 1 = l - 1 /\ \A i \in 1 .. l - 1 : 1 + i - 1 = i
      BY <1>1
    <3> HIDE DEF r
    <3> QED
      BY <3>1, <3>2
  <2>3. f \in Frames /\ l - 1 \in 1 .. Len(r)
    BY <1>1, <1>4, <2>2 DEF FrameInv
  <2>4. stack' = [r EXCEPT ![l - 1] = f]
    BY <1>2
  <2> HIDE DEF r
  <2>5. /\ stack' \in Seq(Frames) /\ Len(stack') = Len(r)
        /\ \A i \in 1 .. Len(r) : stack'[i] = IF i = l - 1 THEN f ELSE r[i]
    BY <2>2, <2>3, <2>4, ExceptSeq
  <2>6. DOMAIN stack' = 1 .. l - 1
    BY <2>2, <2>5, LenProperties
  <2> QED
    BY <2>2, <2>3, <2>5, <2>6
<1>6. ASSUME NEW i \in DOMAIN stack' PROVE Settled(stack[i])'
  <2>1. PICK g : g = stack'[i]
    OBVIOUS
  <2>2. Settled(g)
    <3>1. i \in 1 .. l - 1 /\ i \in DOMAIN stack
      BY <1>1, <1>5
    <3>2. CASE i = l - 1
      BY <1>4, <1>5, <2>1, <3>2
    <3>3. CASE i # l - 1
      BY <1>5, <2>1, <3>1, <3>3 DEF AccountInv
    <3> QED
      BY <3>2, <3>3
  <2>3. Settled(g)'
    BY <1>2, <2>2, SettledKept
  <2> QED
    BY <2>1, <2>3
<1>7. Top' = f
  BY <1>1, <1>5 DEF Top
<1> QED
  BY <1>4, <1>6, <1>7 DEF AccountInv

(* normalize returns a value for the current entry. *)
LEMMA ReturnsAccount ==
    ASSUME IInv, AccountInv, call # None, Returns
    PROVE  AccountInv'
<1>1. /\ stack # <<>> /\ Top.current # None /\ FrameInv(Top)
  BY CallFacts
<1>2. /\ heap # None /\ Built /\ ConfigInv /\ WellFormed(heap) /\ Len(stack) \in DOMAIN stack
  BY <1>1, Inside
<1>3. FrameInv(Filled(Top)) /\ Filled(Top).node = Top.node /\ Filled(Top).depth = Top.depth
  BY <1>1, <1>2, FilledFrame
<1>4. Settled(Top)
  BY <1>2 DEF AccountInv, Top
<1>5. Settled(Filled(Top)) /\ Filled(Top).current = None
  <2>1. Filled(Top).current = None
    BY <1>1 DEF Filled, FrameInv, Frames
  <2> QED
    BY <1>1, <1>4, <2>1, FilledSettled
<1>6. stack' = Replace(Filled(Top)) /\ UNCHANGED <<configVars, heap>> /\ written' = written
  BY DEF Returns
<1> QED
  BY <1>1, <1>3, <1>5, <1>6, ReplaceAccount

LEMMA MarshalValueAccount ==
    ASSUME IInv, AccountInv, MarshalValue
    PROVE  AccountInv'
<1>1. call # None
  BY DEF MarshalValue, Calls
<1>2. CASE Entries(call.node) = <<>>
  BY <1>1, <1>2, ReturnsAccount DEF MarshalValue
<1>3. CASE Entries(call.node) # <<>>
  <2>1. /\ call' = [node |-> Entries(call.node)[1], depth |-> call.depth]
        /\ UNCHANGED <<configVars, heap, stack, budget, seen, written>>
    BY <1>3 DEF MarshalValue, Calling
  <2>2. call' # None
    <3>1. /\ stack # <<>> /\ call.node # Leaf /\ call.node \in Node /\ call.depth \in Nat
          /\ KindOf(call.node) \in Encoded /\ WellFormed(heap)
      BY CallFacts, Inside DEF MarshalValue, Calls, Encoded
    <3>2. Entries(call.node)[1] \in Node \cup {Leaf}
      BY <1>3, <3>1, OnlyEntry
    <3> QED
      BY <2>1, <3>1, <3>2, NodeAssumption
  <2>3. ASSUME NEW i \in DOMAIN stack' PROVE Settled(stack[i])'
    <3>1. PICK g : g = stack'[i]
      OBVIOUS
    <3>2. Settled(g)
      BY <2>1, <3>1 DEF AccountInv
    <3>3. Settled(g)'
      BY <2>1, <3>2, SettledKept
    <3> QED
      BY <3>1, <3>3
  <2> QED
    BY <2>2, <2>3 DEF AccountInv
<1> QED
  BY <1>2, <1>3

LEMMA EntersAccount ==
    ASSUME IInv, AccountInv, MarshalMap \/ Dereference \/ EnterContainer
    PROVE  AccountInv'
<1>1. /\ call # None /\ call.node # Leaf /\ ~TooDeep(call.depth)
  BY DEF MarshalMap, Dereference, EnterContainer, Calls
<1>2. /\ call.node \in Node /\ WellFormed(heap) /\ call.depth \in Nat
      /\ limits.maxArrayItems \in Nat
  BY <1>1, CallFacts, Inside, LimitTypes
<1>3. ASSUME KindOf(call.node) \in {"keyed", "pointer"}, Entries(call.node) # <<>>,
             Enter(Frame(call.node, call.depth, {}, 1)), Calling(Entries(call.node)[1], call.depth)
      PROVE  AccountInv'
  <2> DEFINE f == Frame(call.node, call.depth, {}, 1)
  <2>1. 1 \in DOMAIN Entries(call.node) /\ Entries(call.node)[1] \in Node \cup {Leaf}
    BY <1>2, <1>3, OnlyEntry DEF Encoded
  <2>2. f \in Frames /\ f.current = 1
    BY <1>1, <2>1, NewFrame DEF FrameInv
  <2>3. 1 # None
    BY WordAssumption
  <2>4. Remaining(heap, call.node) = {1} /\ KindOf(call.node) \notin Listing
    <3>1. /\ DOMAIN Entries(call.node) \subseteq {1} /\ heap[call.node].skipped = {}
      BY <1>2, <1>3 DEF WellFormed, KindOf, Entries, Encoded
    <3> QED
      BY <1>3, <2>1, <3>1 DEF Remaining, Entries, Listing
  <2>5. call' # None
    <3>1. call' \in [node : Node \cup {Leaf}, depth : Nat]
      BY <1>2, <1>3, <2>1 DEF Calling
    <3> QED
      BY <3>1, NodeAssumption
  <2>6. Settled(f)
    BY <1>2, <2>3, <2>4, NewSettled
  <2> HIDE DEF f
  <2> QED
    BY <1>3, <2>2, <2>5, <2>6, EnterAccount DEF f
<1>4. CASE MarshalMap
  <2>1. CASE Entries(call.node) = <<>>
    BY <1>1, <1>4, <2>1, ReturnsAccount DEF MarshalMap
  <2>2. CASE Entries(call.node) # <<>>
    BY <1>3, <1>4, <2>2 DEF MarshalMap, Calls
  <2> QED
    BY <2>1, <2>2
<1>5. CASE Dereference
  <2>1. KindOf(call.node) = "pointer"
    BY <1>5 DEF Dereference, Calls
  <2>2. DOMAIN Entries(call.node) = {1}
    BY <1>2, <2>1 DEF WellFormed, KindOf, Entries
  <2>3. Entries(call.node) # <<>>
    BY <2>2, EmptySeq, LenProperties
  <2> QED
    BY <1>3, <1>5, <2>1, <2>3 DEF Dereference
<1>6. CASE EnterContainer
  <2> DEFINE f == Frame(call.node, call.depth, Remaining(heap, call.node), None)
  <2>1. f \in Frames /\ f.current = None
    BY <1>1, NewFrame DEF FrameInv
  <2>2. Settled(f)
    BY <1>2, NewSettled
  <2>3. Enter(f)
    BY <1>6 DEF EnterContainer
  <2> HIDE DEF f
  <2> QED
    BY <2>1, <2>2, <2>3, EnterAccount
<1> QED
  BY <1>4, <1>5, <1>6

LEMMA NextEntryAccount ==
    ASSUME IInv, AccountInv, NextEntry
    PROVE  AccountInv'
<1> DEFINE s == First(Top.todo)
           f == [Top EXCEPT !.todo = @ \ {s}, !.current = s]
<1>1. /\ stack # <<>> /\ s \in Top.todo
      /\ s \in DOMAIN Entries(Top.node) /\ call = None /\ Looping /\ ~Exhausted(Top)
  BY NextSlot DEF NextEntry, Looping
<1>2. /\ heap # None /\ Built /\ ConfigInv /\ WellFormed(heap) /\ FrameInv(Top) /\ Top.node \in Node
      /\ Len(stack) \in DOMAIN stack
  BY <1>1, Inside
<1>3. s \in Slots /\ Entries(Top.node)[s] \in Node \cup {Leaf} /\ s # None
  BY <1>1, <1>2, EntrySlot, WordAssumption DEF Slots
<1>4. /\ Top \in Frames /\ f \in Frames
      /\ f.node = Top.node /\ f.depth = Top.depth /\ f.todo = Top.todo \ {s} /\ f.current = s
      /\ f.fields = Top.fields
  BY <1>2, <1>3 DEF FrameInv, Frames
<1>5. UNCHANGED <<configVars, heap>> /\ written # limits.maxPayloadNodes
  <2>1. budget \in Nat /\ written \in Nat /\ written + budget = limits.maxPayloadNodes
    BY <1>2 DEF IInv, ShapeInv, BudgetInv
  <2>2. ~(budget <= 0)
    BY <1>1 DEF Exhausted
  <2> QED
    BY <2>1, <2>2 DEF NextEntry
<1>6. Settled(Top) /\ Top.current = None
  BY <1>1, <1>2 DEF AccountInv, Top
<1>7. Settled(f)
  BY <1>1, <1>6, NextSettled
<1>8. \/ stack' = Replace(Filled(f))
      \/ stack' = Replace(f) /\ call' = [node |-> Entries(Top.node)[s], depth |-> Top.depth + 1]
  BY DEF NextEntry, Calling
<1> HIDE DEF f, s
<1>9. FrameInv(f)
  BY <1>1, <1>2, <1>4 DEF FrameInv
<1>10. CASE stack' = Replace(Filled(f))
  <2>1. FrameInv(Filled(f)) /\ Filled(f).node = Top.node /\ Filled(f).depth = Top.depth
    BY <1>2, <1>3, <1>4, <1>9, FilledFrame
  <2>2. Settled(Filled(f)) /\ Filled(f).current = None
    <3>1. Filled(f).current = None
      BY <1>4 DEF Filled, Frames
    <3> QED
      BY <1>3, <1>4, <1>7, <1>9, <3>1, FilledSettled
  <2> QED
    BY <1>1, <1>5, <1>10, <2>1, <2>2, ReplaceAccount
<1>11. CASE stack' = Replace(f) /\ call' = [node |-> Entries(Top.node)[s], depth |-> Top.depth + 1]
  <2>1. call' # None
    <3>1. Top.depth + 1 \in Nat
      BY <1>4 DEF Frames
    <3> QED
      BY <1>3, <1>11, <3>1, NodeAssumption
  <2> QED
    BY <1>1, <1>4, <1>5, <1>7, <1>9, <1>11, <2>1, ReplaceAccount
<1> QED
  BY <1>8, <1>10, <1>11

LEMMA OmitRestAccount ==
    ASSUME IInv, AccountInv, OmitRest
    PROVE  AccountInv'
<1> DEFINE fields == Top.fields \cup {OmittedItems}
           f == [Top EXCEPT !.todo = {}, !.omitted = Cardinality(Top.todo), !.fields = fields]
<1>1. /\ stack # <<>> /\ call = None /\ Looping /\ Exhausted(Top)
      /\ stack' = Replace(f)
      /\ UNCHANGED <<configVars, heap, written>>
  BY DEF OmitRest, Looping
<1>2. /\ heap # None /\ Built /\ ConfigInv /\ WellFormed(heap) /\ FrameInv(Top) /\ Top.node \in Node
      /\ Len(stack) \in DOMAIN stack
  BY <1>1, Inside
<1>3. Settled(Top) /\ Top.current = None
  BY <1>1, <1>2 DEF AccountInv, Top
<1>4. Cardinality(Top.todo) \in Nat
  <2>1. Top.todo \in SUBSET Remaining(heap, Top.node)
    BY <1>2 DEF FrameInv
  <2> QED
    BY <1>2, <2>1, NamesCounted, FS_CardinalityType
<1>5. Top \in Frames /\ OmittedItems \in Name /\ NameBounded(OmittedItems)
  BY <1>2, OmittedName DEF FrameInv
<1>6. /\ f \in Frames /\ f.node = Top.node /\ f.depth = Top.depth /\ f.todo = {}
      /\ f.current = Top.current /\ f.fields = fields /\ f.omitted = Cardinality(Top.todo)
  <2>1. fields \in SUBSET (Name \cup [index : Slots])
    BY <1>5 DEF Frames
  <2> HIDE DEF fields
  <2> QED
    BY <1>4, <1>5, <2>1 DEF Frames
<1> HIDE DEF f
<1>7. FrameInv(f)
  BY <1>2, <1>5, <1>6 DEF FrameInv
<1>8. Settled(f)
  BY <1>1, <1>3, <1>6, OmitSettled
<1> QED
  BY <1>1, <1>3, <1>6, <1>7, <1>8, ReplaceAccount

LEMMA SanitizeAccount ==
    ASSUME IInv, AccountInv, Sanitize
    PROVE  AccountInv'
<1>1. /\ heap' \in Payload /\ stack' = <<Frame(Root, 1, Remaining(heap', Root), None)>>
  BY DEF Sanitize
<1>2. heap'[Root].kind = "map"
  BY <1>1, PayloadAssumption DEF WellFormed
<1>3. PICK f : f = Frame(Root, 1, Remaining(heap', Root), None)
  OBVIOUS
<1>4. /\ f.node = Root /\ f.todo = Remaining(heap', Root) /\ f.current = None /\ f.fields = {}
      /\ f.omitted = 0
  BY <1>3 DEF Frame
<1>5. DOMAIN stack' = {1} /\ stack'[1] = f /\ Top' = f
  BY <1>1, <1>3 DEF Top
<1>6. Accounted(f)'
  <2> DEFINE R == Remaining(heap', Root)
  <2>1. {} \in SUBSET R /\ {Slot(f, s)' : s \in {}} = {}
    OBVIOUS
  <2>2. Pending(f) = {} /\ R \ (R \cup {}) = {}
    BY <1>4 DEF Pending
  <2> HIDE DEF R
  <2> QED
    BY <1>4, <2>1, <2>2 DEF Accounted, Pending, R
<1>7. Justified(f)'
  BY <1>2, <1>4 DEF Justified, KindOf, Listing
<1>8. Settled(f)'
  BY <1>6, <1>7 DEF Settled
<1> QED
  BY <1>4, <1>5, <1>8 DEF AccountInv

LEMMA ConfigKeepsAccount ==
    ASSUME IInv, AccountInv, (ConfigNext \/ UNCHANGED configVars) /\ UNCHANGED traversal
    PROVE  AccountInv'
<1>1. UNCHANGED <<heap, call, stack, written>>
  BY DEF traversal
<1>2. CASE stack = <<>>
  BY <1>1, <1>2, EmptySeq, LenProperties DEF AccountInv
<1>3. CASE stack # <<>>
  <2>1. UNCHANGED configVars
    BY <1>3, Inside, ConfigStep
  <2>2. ASSUME NEW i \in DOMAIN stack' PROVE Settled(stack[i])'
    <3>1. PICK g : g = stack'[i]
      OBVIOUS
    <3>2. Settled(g)
      BY <1>1, <2>2, <3>1 DEF AccountInv
    <3>3. Settled(g)'
      BY <1>1, <2>1, <3>2, SettledKept
    <3> QED
      BY <3>1, <3>3
  <2> QED
    BY <1>1, <2>2 DEF AccountInv, Top
<1> QED
  BY <1>2, <1>3

LEMMA LeaveRootAccount ==
    ASSUME LeaveRoot
    PROVE  AccountInv'
<1>1. stack' = <<>> /\ DOMAIN stack' = {}
  BY EmptySeq, LenProperties DEF LeaveRoot
<1> QED
  BY <1>1 DEF AccountInv

LEMMA AccountInductive == IInv /\ AccountInv /\ [Next]_vars => AccountInv'
<1> SUFFICES ASSUME IInv, AccountInv, [Next]_vars PROVE AccountInv'
  OBVIOUS
<1>1. CASE ConfigNext /\ UNCHANGED traversal
  BY <1>1, ConfigKeepsAccount
<1>2. CASE Sanitize
  BY <1>2, SanitizeAccount
<1>3. CASE RenderLeaf \/ MaxDepthExceeded \/ CircularReference
  BY <1>3, ReturnsAccount DEF RenderLeaf, MaxDepthExceeded, CircularReference, Calls
<1>4. CASE MarshalValue
  BY <1>4, MarshalValueAccount
<1>5. CASE MarshalMap \/ Dereference \/ EnterContainer
  BY <1>5, EntersAccount
<1>6. CASE NextEntry
  BY <1>6, NextEntryAccount
<1>7. CASE OmitRest
  BY <1>7, OmitRestAccount
<1>8. CASE Leave
  BY <1>8, LeaveAccount
<1>9. CASE LeaveRoot
  BY <1>9, LeaveRootAccount
<1>10. CASE UNCHANGED vars
  BY <1>10, ConfigKeepsAccount DEF vars
<1> QED
  BY <1>1, <1>2, <1>3, <1>4, <1>5, <1>6, <1>7, <1>8, <1>9, <1>10 DEF Next, Normalize

LEMMA AccountInvariance == Spec => [](IInv /\ AccountInv)
BY InitIInv, AccountInit, Inductive, AccountInductive, PTL DEF Spec

(* What the result shows of the entries that are done: their names, all    *)
(* different, and _omitted_items exactly in a map that lost some.          *)
LEMMA FrameAccount ==
    ASSUME IInv, AccountInv, NEW i \in DOMAIN stack
    PROVE  \E done \in SUBSET Remaining(heap, stack[i].node) :
              LET f == stack[i]
              IN  /\ Settled(f) /\ FrameInv(f) /\ f.node \in Node /\ WellFormed(heap)
                  /\ f.fields = {Slot(f, s) : s \in done}
                                   \cup IF f.omitted > 0 THEN {OmittedItems} ELSE {}
                  /\ Pending(f) \subseteq Remaining(heap, f.node) \ f.todo
                  /\ f.omitted = 0 =>
                        done = Remaining(heap, f.node) \ (f.todo \cup Pending(f))
                  /\ f.omitted > 0 =>
                        /\ f.todo = {} /\ f.current = None
                        /\ Cardinality(Remaining(heap, f.node)) = Cardinality(done) + f.omitted
<1>1. Settled(stack[i]) /\ FrameInv(stack[i]) /\ stack # <<>>
  BY EmptySeq, LenProperties DEF AccountInv, IInv, ShapeInv
<1>2. stack[i].node \in Node /\ WellFormed(heap)
  BY <1>1, Inside DEF FrameInv, Frames
<1> QED
  BY <1>1, <1>2 DEF Settled, Accounted

(* However a payload is shared, nested or encoded, the result stays within *)
(* the budgets for entries and depth, with one level more below a list     *)
(* that was cut, and the names stay within theirs, with one byte more for  *)
(* the escape of a key that is spelled like a marker.                      *)
THEOREM PayloadStaysBounded == Spec => []PayloadBounded
<1>1. ASSUME IInv, AccountInv, heap # None PROVE written <= limits.maxPayloadNodes
  <2>1. written \in Nat /\ budget \in Nat /\ written + budget = limits.maxPayloadNodes
    BY <1>1 DEF IInv, ShapeInv, BudgetInv
  <2> QED
    BY <2>1
<1>2. ASSUME IInv, AccountInv, NEW i \in DOMAIN stack
      PROVE  Nesting(i) <= limits.maxDepth + (IF stack[i].omitted > 0 THEN 1 ELSE 0)
  <2> DEFINE f == stack[i]
             inside == {j \in DOMAIN stack : KindOf(stack[j].node) \in Containers}
             upto == {j \in 1 .. i : KindOf(stack[j].node) \in Mapping \cup Listing}
  <2>1. stack # <<>> /\ heap # None /\ ConfigInv /\ Built /\ limits.maxDepth \in Nat
    BY <1>2, EmptySeq, LenProperties, Inside, LimitTypes
  <2>2. 1 .. i \subseteq DOMAIN stack /\ IsFiniteSet(DOMAIN stack)
    <3>1. DOMAIN stack = 1 .. Len(stack) /\ Len(stack) \in Nat
      BY <1>2, <2>1, Inside
    <3> QED
      BY <3>1, FS_Interval
  <2>3. upto \in SUBSET inside /\ IsFiniteSet(inside)
    BY <2>2, FS_Subset DEF Containers
  <2>4. Cardinality(upto) <= limits.maxDepth /\ Cardinality(upto) \in Nat
    <3>1. Cardinality(inside) <= limits.maxDepth
      BY <1>2, <2>1, NestingBounded
    <3> HIDE DEF inside, upto
    <3>2. IsFiniteSet(upto) /\ Cardinality(upto) <= Cardinality(inside)
      BY <2>3, FS_Subset
    <3>3. Cardinality(upto) \in Nat /\ Cardinality(inside) \in Nat
      BY <2>3, <3>2, FS_CardinalityType
    <3> QED
      BY <2>1, <3>1, <3>2, <3>3
  <2>5. OmittedItems \in f.fields => f.omitted > 0
    <3>1. PICK done \in SUBSET Remaining(heap, f.node) :
             /\ f.node \in Node /\ WellFormed(heap)
             /\ f.fields = {Slot(f, s) : s \in done} \cup IF f.omitted > 0 THEN {OmittedItems} ELSE {}
      BY <1>2, FrameAccount
    <3> HIDE DEF f
    <3>2. \A s \in done : Slot(f, s) # OmittedItems
      BY <2>1, <3>1, SlotNames, MarkerOmitted
    <3> QED
      BY <3>1, <3>2
  <2>6. Nesting(i) = Cardinality(upto)
           + (IF KindOf(f.node) \in Listing /\ OmittedItems \in f.fields THEN 1 ELSE 0)
    BY DEF Nesting
  <2> HIDE DEF upto
  <2> QED
    BY <2>1, <2>4, <2>5, <2>6
<1>3. ASSUME IInv, NEW i \in DOMAIN stack, KindOf(stack[i].node) \in Mapping,
             NEW k \in stack[i].fields
      PROVE  NameBounded(k)
  BY <1>3 DEF IInv, ShapeInv, FrameInv
<1>4. IInv /\ AccountInv => PayloadBounded
  BY <1>1, <1>2, <1>3 DEF PayloadBounded, NameBounded
<1> QED
  BY <1>4, AccountInvariance, PTL

(* Where no key of a container is spelled like the shortened form of       *)
(* another one, no entry of it loses its name to another one, whatever is  *)
(* shortened and escaped and whatever the budget leaves out.               *)
THEOREM NoEntryIsLost == Spec => []EntriesAccounted
<1>1. ASSUME IInv, AccountInv, NEW i \in DOMAIN stack, ~Ambiguous(stack[i].node)
      PROVE  LET frame == stack[i]
                 pending == IF frame.current = None THEN {} ELSE {frame.current}
             IN  Cardinality(Remaining(heap, frame.node)) =
                     Cardinality(frame.fields \ {OmittedItems}) + frame.omitted
                         + Cardinality(frame.todo) + Cardinality(pending)
  <2> DEFINE f == stack[i]
             R == Remaining(heap, f.node)
  <2>1. PICK done \in SUBSET R :
           /\ FrameInv(f) /\ f.node \in Node /\ WellFormed(heap)
           /\ f.fields = {Slot(f, s) : s \in done}
                            \cup IF f.omitted > 0 THEN {OmittedItems} ELSE {}
           /\ Pending(f) \subseteq R \ f.todo
           /\ f.omitted = 0 => done = R \ (f.todo \cup Pending(f))
           /\ f.omitted > 0 => /\ f.todo = {} /\ f.current = None
                               /\ Cardinality(R) = Cardinality(done) + f.omitted
    BY <1>1, FrameAccount
  <2> HIDE DEF f
  <2>9. ConfigInv /\ Built
    BY <1>1, EmptySeq, LenProperties, Inside
  <2>2. /\ IsFiniteSet(R) /\ IsFiniteSet(done)
        /\ Cardinality({Slot(f, s) : s \in done}) = Cardinality(done)
    <3>1. f.node \in Node /\ WellFormed(heap) /\ done \in SUBSET Remaining(heap, f.node)
      BY <2>1
    <3>2. ~Ambiguous(f.node)
      BY <1>1 DEF f
    <3> QED
      BY <2>9, <3>1, <3>2, NamesCounted
  <2>3. \A s \in done : Slot(f, s) # OmittedItems
    BY <2>1, <2>9, SlotNames, MarkerOmitted
  <2>4. f.fields \ {OmittedItems} = {Slot(f, s) : s \in done}
    BY <2>1, <2>3
  <2>5. f.omitted \in Nat /\ f.todo \in SUBSET R
    BY <2>1 DEF FrameInv, Frames
  <2>6. /\ Cardinality(done) \in Nat /\ IsFiniteSet(f.todo) /\ Cardinality(f.todo) \in Nat
    BY <2>2, <2>5, FS_Subset, FS_CardinalityType
  <2>7. IsFiniteSet(Pending(f)) /\ Cardinality(Pending(f)) \in Nat
    <3>1. Pending(f) = {} \/ Pending(f) = {f.current}
      BY DEF Pending
    <3>2. CASE Pending(f) = {}
      BY <3>2, FS_EmptySet
    <3>3. CASE Pending(f) = {f.current}
      <4>1. IsFiniteSet({f.current}) /\ Cardinality({f.current}) = 1
        BY FS_Singleton, Zenon
      <4> QED
        BY <3>3, <4>1
    <3> QED
      BY <3>1, <3>2, <3>3
  <2>8. Cardinality(R) = Cardinality(done) + f.omitted + Cardinality(f.todo) + Cardinality(Pending(f))
    <3>1. CASE f.omitted > 0
      <4>1. Cardinality(f.todo) = 0 /\ Cardinality(Pending(f)) = 0
        BY <2>1, <3>1, FS_EmptySet DEF Pending
      <4> QED
        BY <2>1, <2>5, <2>6, <3>1, <4>1
    <3>2. CASE f.omitted = 0
      <4> DEFINE rest == f.todo \cup Pending(f)
      <4>1. f.todo \cap Pending(f) = {} /\ Cardinality({}) = 0
        BY <2>1, FS_EmptySet
      <4>2. IsFiniteSet(rest) /\ Cardinality(rest) = Cardinality(f.todo) + Cardinality(Pending(f))
        <5> DEFINE p == Pending(f)
                   t == f.todo
        <5>1. IsFiniteSet(p) /\ IsFiniteSet(t)
          BY <2>6, <2>7
        <5>2. Cardinality(p) \in Nat /\ Cardinality(t) \in Nat /\ t \cap p = {}
          BY <2>6, <2>7, <4>1
        <5> HIDE DEF p, t
        <5>3. /\ IsFiniteSet(t \cup p)
              /\ Cardinality(t \cup p) = Cardinality(t) + Cardinality(p) - Cardinality(t \cap p)
          BY <5>1, FS_Union
        <5>4. Cardinality(t \cup p) = Cardinality(t) + Cardinality(p)
          <6>1. Cardinality(t \cap p) = 0
            BY <4>1, <5>2
          <6> QED
            BY <5>2, <5>3, <6>1
        <5> QED
          BY <5>3, <5>4 DEF p, t
      <4>3. R \cap rest = rest /\ done = R \ rest
        BY <2>1, <2>5, <3>2
      <4> HIDE DEF rest, R
      <4>4. Cardinality(R \ rest) = Cardinality(R) - Cardinality(R \cap rest)
        BY <2>2, FS_Difference
      <4>5. Cardinality(R) \in Nat
        BY <2>2, FS_CardinalityType
      <4> QED
        BY <2>6, <2>7, <3>2, <4>2, <4>3, <4>4, <4>5
    <3> QED
      BY <2>5, <3>1, <3>2
  <2> HIDE DEF R
  <2> QED
    BY <2>2, <2>4, <2>8 DEF Pending, f, R
<1>2. IInv /\ AccountInv => EntriesAccounted
  BY <1>1 DEF EntriesAccounted
<1> QED
  BY <1>2, AccountInvariance, PTL

(* No key of the application can pass for a marker, for all keys, escaped  *)
(* and shortened.                                                          *)
THEOREM MarkersAreGenuine == Spec => []MarkersGenuine
<1>1. ASSUME IInv, AccountInv, NEW i \in DOMAIN stack, NEW w \in MarkerWord,
             [underscores |-> 1, word |-> w] \in stack[i].fields
      PROVE  w = OmittedWord /\ stack[i].omitted > 0
  <2> DEFINE f == stack[i]
             R == Remaining(heap, f.node)
  <2>1. PICK done \in SUBSET R :
           /\ f.node \in Node /\ WellFormed(heap)
           /\ f.fields = {Slot(f, s) : s \in done}
                            \cup IF f.omitted > 0 THEN {OmittedItems} ELSE {}
    BY <1>1, FrameAccount
  <2> HIDE DEF f
  <2>2. \A s \in done : Slot(f, s) # [underscores |-> 1, word |-> w]
    <3>1. ConfigInv /\ Built
      BY <1>1, EmptySeq, LenProperties, Inside
    <3> QED
      BY <2>1, <3>1, SlotNames
  <2>3. [underscores |-> 1, word |-> w] \in f.fields
    BY <1>1 DEF f
  <2>4. f.omitted > 0 /\ [underscores |-> 1, word |-> w] = OmittedItems
    BY <2>1, <2>2, <2>3
  <2>5. w = OmittedWord
    BY <2>4 DEF OmittedItems
  <2> QED
    BY <2>4, <2>5 DEF f
<1>2. IInv /\ AccountInv => MarkersGenuine
  BY <1>1 DEF MarkersGenuine
<1> QED
  BY <1>2, AccountInvariance, PTL

(* Entries are omitted at the end of the budget or of a list that is full, *)
(* never before.                                                           *)
THEOREM OmissionsAreJustified == Spec => []OmittedForAReason
<1>1. IInv /\ AccountInv => OmittedForAReason
  BY DEF AccountInv, Settled, Justified, OmittedForAReason
<1> QED
  BY <1>1, AccountInvariance, PTL

=============================================================================
