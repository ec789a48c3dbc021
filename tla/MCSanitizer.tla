---------------------------- MODULE MCSanitizer -----------------------------
EXTENDS Sanitizer, TLC

CONSTANT leaf

(* A word is what it is called, its bytes, and the digest it ends in. *)
w(name, bytes) == <<name, bytes, "">>
k(u, word) == [underscores |-> u, word |-> word]
MCSuffixed(word, d) == <<word[1], word[2] + 17, d>>

(* A marker under three numbers of underscores, of which one is as long as *)
(* 32 bytes; two keys over that limit that begin alike, of which one ends  *)
(* in a secret fragment; what the first of them is shortened to; a default *)
(* secret and an ordinary key.                                             *)
omitted == w("omitted_items", 13)
Keys == <<k(19, omitted), k(2, omitted), k(1, omitted),
          k(0, w("longname", 40)), k(0, w("longtoken", 40)), k(0, MCSuffixed(w("long", 15), "d4")),
          k(0, w("password", 8)), k(0, w("user", 4))>>
Digests == [l \in PayloadKeys |->
               <<"d1", "d2", "d3", "d4", "d5", "d6", "d7", "d8">>[CHOOSE i \in DOMAIN Key : Key[i] = l]]
KeyWords == {l.word : l \in PayloadKeys}
(* The long words have rune boundaries after 15 and after 32 bytes. *)
Beginning(word, m) ==
    IF m = word[2] THEN word
    ELSE IF m < 15 \/ word[2] < 32 THEN w("", 0)
    ELSE w("long", IF m < 32 THEN 15 ELSE 32)
Prefixes == [word \in KeyWords |-> [m \in 0 .. word[2] |-> Beginning(word, m)]]
MCStem == UNION {{Prefixes[word][m] : m \in 0 .. word[2]} : word \in KeyWords}
MCDigest == {Digests[l] : l \in PayloadKeys}
Suffixes == [word \in MCStem |-> [d \in MCDigest |-> MCSuffixed(word, d)]]
Words == MCStem \cup {MCSuffixed(word, d) : word \in MCStem, d \in MCDigest} \cup {w("dot", 1)}
Bytes == [word \in Words |-> word[2]]
Canonicals == [word \in Words |-> IF word[1] = "dot" THEN None ELSE word]
Defaultsecrets == {w("password", 8)}
Secretparts == {w("password", 8), w("longtoken", 40)}
Markers == {omitted}

o(f, v) == [field |-> f, value |-> v]
Options == {o("maxFileBytes", 40), o("maxKeyBytes", 32), o("maxDepth", 2), o("maxPayloadNodes", 3),
            o("maxArrayItems", 1), o("strictSensitiveKeys", TRUE),
            o("sensitiveKeys", {w("user", 4), w("dot", 1)}), o("logDirectory", FALSE)}

(* Node 1 is the root, 2 and 3 are anything, 3 and 4 are also what others  *)
(* are encoded to.                                                         *)
n(i, kind, entries) == [kind |-> kind, entries |-> entries, skipped |-> {}, reference |-> i]
Roots == {n(1, "map", e) : e \in [{1, 2, 3} -> {leaf}] \cup [{4, 6} -> {leaf}]
                                  \cup {4 :> 1 @@ 5 :> 2, 4 :> 2 @@ 5 :> 2}
                                  \cup [{7} -> {2, 3}] \cup [{7, 8} -> {2, 3}] \cup [{8} -> {2, 3}]}
Inner == {n(2, kind, e) : kind \in {"map", "struct"}, e \in [{7, 8} -> {leaf, 3}] \cup [{8} -> {1, 2}]}
             \cup {n(2, kind, e) : kind \in {"slice", "array"}, e \in [{1, 2} -> {leaf, 3}] \cup {<<3>>}}
             \cup {n(2, "slice", e) : e \in {<<>>, <<1, 3>>, <<2, 3>>}}
             \cup {n(2, "pointer", e) : e \in [{1} -> {1, 2, 3}]}
             \cup {[n(2, "struct", 7 :> leaf @@ 8 :> 3) EXCEPT !.skipped = {x}] : x \in {7, 8}}
             \cup {n(2, kind, e) : kind \in {"keyed", "marshaler"}, e \in {<<>>, <<leaf>>, <<3>>}}
Innermost == {n(3, "pointer", <<2>>), n(3, "struct", 8 :> 2), n(3, "map", 5 :> 2 @@ 8 :> 1),
              n(3, "slice", <<2, 1>>), n(3, "map", 7 :> 4 @@ 8 :> leaf), n(3, "slice", <<leaf, 4>>),
              n(3, "array", <<leaf, leaf, leaf>>), n(3, "marshaler", <<4>>),
              [n(3, "slice", <<leaf>>) EXCEPT !.reference = 2]}
Mentioned(h, by) == UNION {{h[i].entries[s] : s \in DOMAIN h[i].entries} : i \in by}
(* A node that nobody mentions has one shape only. *)
Payloads == {h \in {<<a, b, c, n(4, "slice", <<leaf>>)>> :
                        a \in Roots, b \in Inner, c \in Innermost} :
                /\ WellFormed(h)
                /\ 2 \in Mentioned(h, {1, 3}) \/ h[2] = n(2, "pointer", <<1>>)
                /\ 3 \in Mentioned(h, {1, 2}) \/ h[3] = n(3, "pointer", <<2>>)}
=============================================================================
