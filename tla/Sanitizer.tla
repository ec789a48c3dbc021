----------------------------- MODULE Sanitizer ------------------------------
(***************************************************************************)
(* Sanitizer.Sanitize (sanitizer.go): the traversal of one event payload   *)
(* under the limits of the configuration that the options have built.      *)
(*                                                                         *)
(* A payload is a heap of nodes, perhaps with cycles.  The recursion of    *)
(* normalize is a stack of frames, one for each container it is inside of, *)
(* and `call` is what normalize was called with last.  Whatever becomes    *)
(* one value without recursion is a Leaf: nil, scalars, strings, byte      *)
(* sequences, text marshalers.                                             *)
(***************************************************************************)
EXTENDS Configuration, Sequences

CONSTANTS
    Node,         \* numbers of the containers a payload may have
    Root,         \* the Data the application passes
    Leaf,         \* any value without parts
    Key,          \* the payload keys, in the order of sort.Strings
    KeyBytes,     \* the bytes of a word
    Prefix,       \* truncateUTF8: the whole runes in the first bytes of a word
    Digest,       \* the digest of a key
    Suffixed,     \* a word with the separator and a digest behind it
    MarkerWord,   \* the words of reservedKeyPattern
    OmittedWord,  \* "omitted_items"
    Payload       \* bound: the heaps

Mapping == {"map", "struct"}
Listing == {"slice", "array"}
Encoded == {"keyed", "marshaler"}   \* a map without string keys, a json.Marshaler
Reference == {"map", "keyed", "slice", "pointer"}
Contained == {"struct", "array", "marshaler"}
Kind == Mapping \cup Listing \cup Encoded \cup {"pointer"}

Name == [underscores : Nat, word : Word]

(* What JSON decodes to: maps and lists that nobody else refers to.        *)
Decoded(h, n) ==
    /\ h[n].kind \in {"map", "slice"}
    /\ \A s \in DOMAIN h[n].entries : h[n].entries[s] = Leaf \/ n < h[n].entries[s]

(* The entries of a map or struct are the places of their keys in Key; a   *)
(* struct may skip some: unexported, named "-", or omitempty and empty,    *)
(* and of two fields with one name only the last is an entry.              *)
(* An encoded value decodes to a leaf or a tree, which has the last of the *)
(* numbers, or fails and has no entry.  What only contains parts has no    *)
(* cycle.  A `reference` is the type and the address: that of another node *)
(* only for slices of which one begins with all there is of the other.     *)
WellFormed(h) ==
    /\ DOMAIN h = Node
    /\ h[Root].kind = "map"
    /\ \A n \in Node :
          LET kind == h[n].kind
              entries == h[n].entries
              slots == DOMAIN entries
              within == {entries[s] : s \in slots} \ {Leaf}
          IN  /\ kind \in Kind
              /\ entries \in [slots -> Node \cup {Leaf}]
              /\ IsFiniteSet(slots)
              /\ h[n].skipped \subseteq IF kind = "struct" THEN slots ELSE {}
              /\ h[n].reference \in Node
              /\ kind \in Mapping => slots \subseteq DOMAIN Key
              /\ kind \in Listing => slots = 1 .. Cardinality(slots)
              /\ kind \in Encoded => slots \subseteq {1}
              /\ kind = "pointer" => slots = {1}
              /\ \A m \in within :
                    /\ kind \in Contained /\ h[m].kind \in Contained => n < m
                    /\ kind \in Encoded => \A l \in Node : m <= l => Decoded(h, l)
    /\ \A m, n \in {l \in Node : h[l].kind \in Reference} :
          m # n /\ h[m].reference = h[n].reference =>
              /\ h[m].kind = "slice" /\ h[n].kind = "slice"
              /\ \A s \in DOMAIN h[m].entries \cap DOMAIN h[n].entries :
                    h[m].entries[s] = h[n].entries[s]

ASSUME NodeAssumption ==
    /\ Node \subseteq Nat /\ IsFiniteSet(Node) /\ Root \in Node
    /\ Leaf \notin Node
    /\ None \notin Node \cup [node : Node \cup {Leaf}, depth : Nat]
ASSUME KeyAssumption ==
    /\ Key \in Seq(Name)
    /\ \A i, j \in DOMAIN Key : Key[i] = Key[j] => i = j
    /\ KeyBytes \in [Word -> Nat]
    /\ MarkerWord \subseteq Word /\ OmittedWord \in MarkerWord
    /\ 1 + KeyBytes[OmittedWord] <= minMaxKeyBytes

PayloadKeys == {Key[i] : i \in DOMAIN Key}

suffixBytes == 17

(* The words that are left of a key in front of its digest. *)
Stem == UNION {{Prefix[k.word][m] : m \in 0 .. KeyBytes[k.word]} : k \in PayloadKeys}

(* The digests of the keys do not collide.  A key of the application may   *)
(* well end in a separator and a digest.                                   *)
ASSUME DigestAssumption ==
    /\ \A k, l \in PayloadKeys : Digest[k] = Digest[l] => k = l
    /\ \A k \in PayloadKeys : \A m \in 0 .. KeyBytes[k.word] :
          Prefix[k.word][m] \in Word /\ KeyBytes[Prefix[k.word][m]] <= m
    /\ \A w \in Stem, k \in PayloadKeys :
          LET word == Suffixed[w][Digest[k]]
          IN  /\ word \in Word \ MarkerWord
              /\ KeyBytes[word] = KeyBytes[w] + suffixBytes
              /\ \A v \in Stem, l \in PayloadKeys :
                    Suffixed[v][Digest[l]] = word => Digest[l] = Digest[k]
ASSUME PayloadAssumption == None \notin Payload /\ \A h \in Payload : WellFormed(h)

VARIABLES
    heap,     \* the payload, None before the call
    call,     \* the value and the depth of the last call of normalize, or None
    stack,    \* the containers that normalize is inside of
    budget,   \* sanitizeState.budget
    seen,     \* sanitizeState.seen
    visited,  \* history: the containers that were looked into
    written   \* history: the number of entries that were written

traversal == <<heap, call, stack, budget, seen, visited, written>>
vars == <<configVars, traversal>>

Init ==
    /\ ConfigInit
    /\ heap = None
    /\ call = None
    /\ stack = <<>>
    /\ budget = 0
    /\ seen = {}
    /\ visited = {}
    /\ written = 0

limits == configuration.limits

-----------------------------------------------------------------------------
(* Keys.                                                                   *)

NameBytes(k) == k.underscores + KeyBytes[k.word]

(* The first bytes of a key, of which some may be its underscores. *)
TruncateUTF8(k, bytes) ==
    LET kept == Least(k.underscores, bytes)
    IN  [underscores |-> kept, word |-> Prefix[k.word][bytes - kept]]

(* Mutants of NormalizeKey: no room for the digest, no digest. *)
NormalizeKeyLong(k) ==
    IF NameBytes(k) <= limits.maxKeyBytes THEN k
    ELSE LET head == TruncateUTF8(k, limits.maxKeyBytes)
         IN  [head EXCEPT !.word = Suffixed[@][Digest[k]]]
NormalizeKeyPlain(k) ==
    IF NameBytes(k) <= limits.maxKeyBytes THEN k ELSE TruncateUTF8(k, limits.maxKeyBytes)

NormalizeKey(k) ==
    IF NameBytes(k) <= limits.maxKeyBytes THEN k
    ELSE LET head == TruncateUTF8(k, limits.maxKeyBytes - suffixBytes)
         IN  [head EXCEPT !.word = Suffixed[@][Digest[k]]]

(* Mutant of IsSensitive: looks at the key after it was shortened. *)
IsSensitiveShortened(k) ==
    LET word == NormalizeKey(k).word
    IN  /\ Canonical[word] # None
        /\ \/ Canonical[word] \in configuration.sensitiveKeySet
           \/ ~limits.strictSensitiveKeys /\ word \in SecretPart

IsSensitive(k) ==
    /\ Canonical[k.word] # None
    /\ \/ Canonical[k.word] \in configuration.sensitiveKeySet
       \/ ~limits.strictSensitiveKeys /\ k.word \in SecretPart

(* Mutant of Reserved: no key is. *)
ReservedNever(k) == FALSE

Reserved(k) == k.underscores > 0 /\ k.word \in MarkerWord

(* The name that assign writes a key under. *)
Assigned(k) ==
    LET name == NormalizeKey(k)
    IN  IF Reserved(name) THEN [name EXCEPT !.underscores = @ + 1] ELSE name

OmittedItems == [underscores |-> 1, word |-> OmittedWord]

-----------------------------------------------------------------------------
(* Frames.                                                                 *)

KindOf(n) == heap[n].kind
Entries(n) == heap[n].entries
ReferenceOf(n) == heap[n].reference

(* What the loop over a container runs through: normalizeStruct filters    *)
(* its fields before.                                                      *)
Remaining(h, n) == DOMAIN h[n].entries \ h[n].skipped

(* A frame has the entries still to come, the one normalize was called     *)
(* for, the names or indices of the result so far, and _omitted_items.     *)
Frame(n, d, slots, slot) ==
    [node |-> n, depth |-> d, todo |-> slots, current |-> slot, fields |-> {}, omitted |-> 0]

Top == stack[Len(stack)]
Replace(frame) == [stack EXCEPT ![Len(stack)] = frame]

Slot(frame, s) == IF KindOf(frame.node) \in Mapping THEN Assigned(Key[s]) ELSE [index |-> s]

Filled(frame) ==
    [frame EXCEPT !.current = None, !.fields = @ \cup {Slot(frame, frame.current)}]

(* normalize returns a value, which becomes the current entry of the       *)
(* container it was called for.                                            *)
Returns ==
    /\ call' = None
    /\ stack' = Replace(Filled(Top))
    /\ UNCHANGED <<configVars, heap, budget, seen, written>>

Calling(n, d) == call' = [node |-> n, depth |-> d]

Enter(frame) ==
    /\ stack' = Append(stack, frame)
    /\ seen' = IF KindOf(frame.node) \in Reference THEN seen \cup {ReferenceOf(frame.node)} ELSE seen
    /\ visited' = visited \cup {frame.node}
    /\ UNCHANGED <<configVars, heap, budget, written>>

TooDeep(d) == d > limits.maxDepth

(* normalize goes on with a container of one of the kinds. *)
Calls(kinds) ==
    /\ call # None
    /\ call.node # Leaf
    /\ ~TooDeep(call.depth)
    /\ KindOf(call.node) \in kinds

-----------------------------------------------------------------------------
(* Sanitize, with the root as the only container that is never too deep.   *)

Sanitize ==
    /\ Built
    /\ heap = None
    /\ heap' \in Payload
    /\ budget' = limits.maxPayloadNodes
    /\ stack' = <<Frame(Root, 1, Remaining(heap', Root), None)>>
    /\ seen' = {heap'[Root].reference}
    /\ visited' = {Root}
    /\ UNCHANGED <<configVars, call, written>>

-----------------------------------------------------------------------------
(* normalize.                                                              *)

RenderLeaf ==
    /\ call # None
    /\ call.node = Leaf
    /\ Returns
    /\ UNCHANGED visited

MaxDepthExceeded ==
    /\ call # None
    /\ call.node # Leaf
    /\ TooDeep(call.depth)
    /\ Returns
    /\ UNCHANGED visited

(* Mutant of MarshalValue: traverses the marshaler again instead of what   *)
(* it was decoded to.                                                      *)
MarshalAgain ==
    /\ Calls({"marshaler"})
    /\ visited' = visited \cup {call.node}
    /\ Calling(call.node, call.depth)
    /\ UNCHANGED <<configVars, heap, stack, budget, seen, written>>

(* A marshaler is no reference: it is replaced by what it decodes to, at   *)
(* the same depth, or by a marker when it fails or panics.                 *)
MarshalValue ==
    /\ Calls({"marshaler"})
    /\ visited' = visited \cup {call.node}
    /\ IF Entries(call.node) = <<>>
       THEN Returns
       ELSE /\ Calling(Entries(call.node)[1], call.depth)
            /\ UNCHANGED <<configVars, heap, stack, budget, seen, written>>

CircularReference ==
    /\ Calls(Reference)
    /\ ReferenceOf(call.node) \in seen
    /\ Returns
    /\ UNCHANGED visited

(* normalizeViaJSON, inside of the map. *)
MarshalMap ==
    /\ Calls({"keyed"})
    /\ ReferenceOf(call.node) \notin seen
    /\ IF Entries(call.node) = <<>>
       THEN Returns /\ visited' = visited \cup {call.node}
       ELSE Enter(Frame(call.node, call.depth, {}, 1)) /\ Calling(Entries(call.node)[1], call.depth)

Dereference ==
    /\ Calls({"pointer"})
    /\ ReferenceOf(call.node) \notin seen
    /\ Enter(Frame(call.node, call.depth, {}, 1))
    /\ Calling(Entries(call.node)[1], call.depth)

EnterContainer ==
    /\ Calls(Mapping \cup Listing)
    /\ ReferenceOf(call.node) \notin seen
    /\ Enter(Frame(call.node, call.depth, Remaining(heap, call.node), None))
    /\ call' = None

-----------------------------------------------------------------------------
(* The loops of normalizeStringMap, normalizeStruct and normalizeSlice.    *)

First(slots) == CHOOSE s \in slots : \A t \in slots : s <= t

Looping == call = None /\ stack # <<>> /\ Top.todo # {}

(* Mutants of Exhausted: one entry too late; the cap of arrays for all. *)
ExhaustedLate(frame) ==
    \/ budget < 0
    \/ KindOf(frame.node) \in Listing /\ First(frame.todo) > limits.maxArrayItems
ExhaustedByAll(frame) ==
    \/ budget <= 0
    \/ First(frame.todo) > limits.maxArrayItems

Exhausted(frame) ==
    \/ budget <= 0
    \/ KindOf(frame.node) \in Listing /\ First(frame.todo) > limits.maxArrayItems

Masked(frame, s) == KindOf(frame.node) \in Mapping /\ IsSensitive(Key[s])

(* The value of a sensitive key is replaced without a look at it. *)
NextEntry ==
    /\ Looping
    /\ ~Exhausted(Top)
    /\ budget' = budget - 1
    /\ written' = written + 1
    /\ LET s == First(Top.todo)
           frame == [Top EXCEPT !.todo = @ \ {s}, !.current = s]
       IN  IF Masked(Top, s)
           THEN stack' = Replace(Filled(frame)) /\ UNCHANGED call
           ELSE stack' = Replace(frame) /\ Calling(Entries(Top.node)[s], Top.depth + 1)
    /\ UNCHANGED <<configVars, heap, seen, visited>>

(* The marker is a field of a map, and a map of its own at the end of a    *)
(* list: one level deeper.                                                 *)
OmitRest ==
    /\ Looping
    /\ Exhausted(Top)
    /\ stack' = Replace([Top EXCEPT !.todo = {}, !.omitted = Cardinality(Top.todo),
                           !.fields = @ \cup {OmittedItems}])
    /\ UNCHANGED <<configVars, heap, call, budget, seen, visited, written>>

(* Mutant of Forget: what was seen once stays seen. *)
ForgetNothing(n) == seen

Forget(n) == IF KindOf(n) \in Reference THEN seen \ {ReferenceOf(n)} ELSE seen

Finished == call = None /\ stack # <<>> /\ Top.todo = {}

Leave ==
    /\ Finished
    /\ Len(stack) > 1
    /\ LET n == Len(stack) - 1
       IN  stack' = [SubSeq(stack, 1, n) EXCEPT ![n] = Filled(stack[n])]
    /\ seen' = Forget(Top.node)
    /\ UNCHANGED <<configVars, heap, call, budget, visited, written>>

LeaveRoot ==
    /\ Finished
    /\ Len(stack) = 1
    /\ stack' = <<>>
    /\ UNCHANGED <<configVars, heap, call, budget, seen, visited, written>>

-----------------------------------------------------------------------------
Normalize ==
    \/ RenderLeaf \/ MaxDepthExceeded \/ MarshalValue \/ CircularReference
    \/ MarshalMap \/ Dereference \/ EnterContainer
    \/ NextEntry \/ OmitRest \/ Leave \/ LeaveRoot

Next ==
    \/ ConfigNext /\ UNCHANGED traversal
    \/ Sanitize
    \/ Normalize

Spec == Init /\ [][Next]_vars

(* Sanitize runs in the goroutine of the caller and waits for nobody. *)
FairSpec == Spec /\ WF_vars(Normalize)

-----------------------------------------------------------------------------
(* Safety.                                                                 *)

Slots == Nat \ {0}
Frames ==
    [node : Node, depth : Nat, todo : SUBSET Slots, current : Slots \cup {None},
     fields : SUBSET (Name \cup [index : Slots]), omitted : Nat]

TypeOK ==
    /\ ConfigTypeOK
    /\ heap # None => WellFormed(heap)
    /\ call \in [node : Node \cup {Leaf}, depth : Nat] \cup {None}
    /\ stack \in Seq(Frames)
    /\ budget \in Nat
    /\ seen \subseteq Node /\ visited \subseteq Node
    /\ written \in Nat

(* A value is replaced by [CIRCULAR_REFERENCE] exactly when it is inside   *)
(* of a value of the same type and address, so a cycle is always cut and   *)
(* what two siblings share is written twice: `seen` are the references of  *)
(* the containers on the stack, each of them once (defer delete in         *)
(* normalize).  So a slice inside of a longer one that begins with it is   *)
(* replaced although it is in no cycle, where the documentation says of    *)
(* the marker that the value "refers back to itself".                      *)
OnlyAncestorsAreCircular ==
    stack # <<>> =>
        LET references == {i \in DOMAIN stack : KindOf(stack[i].node) \in Reference}
        IN  /\ seen = {ReferenceOf(stack[i].node) : i \in references}
            /\ \A i, j \in references :
                  ReferenceOf(stack[i].node) = ReferenceOf(stack[j].node) => i = j

(* A key of the container is spelled like what another one is shortened    *)
(* to: one overwrites the other.                                           *)
Ambiguous(n) ==
    /\ KindOf(n) \in Mapping
    /\ \E s, t \in Remaining(heap, n) : s # t /\ NormalizeKey(Key[s]) = Key[t]

(* No entry is lost to the truncation and the escape of keys: unless a key *)
(* of the container spells the shortened form of another, each entry has a *)
(* name of its own in the result, is counted as omitted, or is still to    *)
(* come (assign).  The exception is what normalizeKey does, and not its    *)
(* comment, that "the mapping stays collision-free".                       *)
EntriesAccounted ==
    \A i \in DOMAIN stack :
        LET frame == stack[i]
            pending == IF frame.current = None THEN {} ELSE {frame.current}
        IN  \/ Cardinality(Remaining(heap, frame.node)) =
                  Cardinality(frame.fields \ {OmittedItems}) + frame.omitted
                      + Cardinality(frame.todo) + Cardinality(pending)
            \/ Ambiguous(frame.node)

(* A marker in the result is one that the sanitizer wrote: no key of the   *)
(* application spells one, also not after it was escaped or shortened.     *)
MarkersGenuine ==
    \A i \in DOMAIN stack : \A w \in MarkerWord :
        [underscores |-> 1, word |-> w] \in stack[i].fields =>
            w = OmittedWord /\ stack[i].omitted > 0

(* How deep the result nests in the i-th container on the stack, with the  *)
(* map that says how much of a list was omitted.                           *)
Nesting(i) ==
    Cardinality({j \in 1 .. i : KindOf(stack[j].node) \in Mapping \cup Listing})
        + (IF KindOf(stack[i].node) \in Listing /\ OmittedItems \in stack[i].fields THEN 1 ELSE 0)

(* However the payload is shared, nested or encoded, no more entries are   *)
(* written than maxPayloadNodes.  Containers nest no deeper than maxDepth, *)
(* and one level more only below a list that was cut.  A name is no longer *)
(* than maxKeyBytes, and one byte more only when it is an escaped key that *)
(* the application spelled like a marker.                                  *)
PayloadBounded ==
    heap # None =>
        /\ written <= limits.maxPayloadNodes
        /\ \A i \in DOMAIN stack :
              /\ Nesting(i) <= limits.maxDepth + (IF stack[i].omitted > 0 THEN 1 ELSE 0)
              /\ KindOf(stack[i].node) \in Mapping =>
                    \A k \in stack[i].fields :
                        \/ NameBytes(k) <= limits.maxKeyBytes
                        \/ /\ k.underscores > 1 /\ k.word \in MarkerWord
                           /\ NameBytes(k) = limits.maxKeyBytes + 1

(* Entries are omitted only when the payload has no budget left or their   *)
(* own array is too long: one long array does not starve what is beside it *)
(* (WithMaxArrayItems).                                                    *)
OmittedForAReason ==
    \A i \in DOMAIN stack : stack[i].omitted > 0 =>
        \/ written = limits.maxPayloadNodes
        \/ /\ KindOf(stack[i].node) \in Listing
           /\ Cardinality(stack[i].fields \ {OmittedItems}) = limits.maxArrayItems

(* What the options call secret, looked at without the configuration. *)
Secret(k) ==
    \/ ~values.strictSensitiveKeys /\ k.word \in SecretPart /\ Canonical[k.word] # None
    \/ \E w \in DefaultSecret \cup values.sensitiveKeys :
          Canonical[w] # None /\ Canonical[w] = Canonical[k.word]

(* A set with the root that is closed under all entries but secret ones.   *)
Public(nodes) ==
    /\ Root \in nodes
    /\ \A n \in nodes : \A s \in Remaining(heap, n) :
          ~(KindOf(n) \in Mapping /\ Secret(Key[s])) => Entries(n)[s] \in nodes \cup {Leaf}

(* A container that can only be reached through a secret key, whatever is  *)
(* decoded or shared on the way, is never looked into by normalize.  What  *)
(* a marshaler or encoding/json reads to encode a value is its own affair; *)
(* what it made of it is masked like everything else.                      *)
NoSecretVisited == heap # None => \A nodes \in SUBSET Node : Public(nodes) => visited \subseteq nodes

(* Sanitize returns for every payload, cycles of pointers included, which  *)
(* neither the depth nor the budget bounds.                                *)
SanitizeReturns == heap # None ~> stack = <<>>

=============================================================================
