-------------------------- MODULE FrpcToml_proofs --------------------------
(***************************************************************************)
(* Theorems about FrpcToml: what comes back when this app imports the      *)
(* frpc.toml it has exported, for every value of the fields.               *)
(***************************************************************************)
EXTENDS FrpcToml, LoopTheorems, SequenceTheorems, TLAPS

-----------------------------------------------------------------------------
(* Filtering a list.                                                        *)

Nil == << >>

\* The runs of the loop over the texts.
Builds(texts, kept) ==
    kept = [n \in 0 .. Len(texts) |->
              IF n = 0 THEN Nil ELSE AddNonEmpty(kept[n - 1], texts[n])]

LEMMA BuildsExists ==
  ASSUME NEW S, NEW texts \in Seq(S)
  PROVE  \E kept : Builds(texts, kept)
<1> DEFINE N == Len(texts)
           F == [x \in Seq(S) \X (1 .. N) |-> AddNonEmpty(x[1], texts[x[2]])]
<1>1. N \in Nat /\ Nil \in Seq(S) /\ \A n \in 1 .. N : texts[n] \in S
  BY DEF Nil
<1>2. \A kept \in Seq(S), text \in S : AddNonEmpty(kept, text) \in Seq(S)
  <2>1. \A kept \in Seq(S), text \in S : Append(kept, text) \in Seq(S)
    BY AppendProperties, Zenon
  <2> QED BY <2>1 DEF AddNonEmpty
<1>3. F \in [Seq(S) \X (1 .. N) -> Seq(S)]
  BY <1>1, <1>2
<1>4. \A kept \in Seq(S), n \in 1 .. N : F[<<kept, n>>] = AddNonEmpty(kept, texts[n])
  OBVIOUS
<1> HIDE DEF F, N
<1>5. PICK kept : Loop(kept, N, Seq(S), Nil, F)
  BY <1>1, <1>3, LoopExists
<1>6. kept \in [0 .. N -> Seq(S)] /\ kept[0] = Nil
      /\ \A n \in 1 .. N : kept[n] = F[<<kept[n - 1], n>>]
  BY <1>5 DEF Loop
<1>7. \A n \in 0 .. N : n # 0 => n \in 1 .. N /\ n - 1 \in 0 .. N
  BY <1>1
<1>8. \A n \in 0 .. N :
        kept[n] = IF n = 0 THEN Nil ELSE AddNonEmpty(kept[n - 1], texts[n])
  BY <1>4, <1>6, <1>7
<1>9. kept = [n \in 0 .. N |-> kept[n]]
  BY <1>6
<1> QED BY <1>8, <1>9 DEF Builds, N

\* The loop over the texts, step by step.
LEMMA NonEmptyBuilt ==
  ASSUME NEW S, NEW texts \in Seq(S)
  PROVE  \E kept :
            /\ kept[0] = << >>
            /\ \A n \in 1 .. Len(texts) : kept[n] = AddNonEmpty(kept[n - 1], texts[n])
            /\ NonEmpty(texts) = kept[Len(texts)]
<1> DEFINE kept[n \in 0 .. Len(texts)] ==
            IF n = 0 THEN << >> ELSE AddNonEmpty(kept[n - 1], texts[n])
<1>1. kept = CHOOSE f : Builds(texts, f)
  BY DEF Builds, Nil
<1>2. Len(texts) \in Nat
  OBVIOUS
<1>3. Builds(texts, CHOOSE f : Builds(texts, f))
  BY BuildsExists
<1>4. NonEmpty(texts) = kept[Len(texts)]
  BY DEF NonEmpty
<1> HIDE DEF kept
<1>5. Builds(texts, kept)
  BY <1>1, <1>3
<1>6. kept[0] = Nil
  BY <1>5, <1>2 DEF Builds
<1>7. ASSUME NEW n \in 1 .. Len(texts)
      PROVE  kept[n] = AddNonEmpty(kept[n - 1], texts[n])
  <2>1. n \in 0 .. Len(texts) /\ n # 0
    BY <1>2
  <2> QED BY <1>5, <2>1 DEF Builds
<1> QED BY <1>4, <1>6, <1>7 DEF Nil

\* A sequence of texts none of which is empty.
AllKept(S, texts) == texts \in Seq(S) /\ \A n \in 1 .. Len(texts) : texts[n] # ""

LEMMA AddKept ==
  ASSUME NEW S, NEW kept, AllKept(S, kept), NEW text \in S
  PROVE  AllKept(S, AddNonEmpty(kept, text))
<1>1. CASE text = ""
  BY <1>1 DEF AddNonEmpty
<1>2. CASE text # ""
  <2>1. kept \in Seq(S) /\ \A n \in 1 .. Len(kept) : kept[n] # ""
    BY DEF AllKept
  <2>2. ASSUME NEW before \in Seq(S), \A n \in 1 .. Len(before) : before[n] # ""
        PROVE  AllKept(S, Append(before, text))
    <3> DEFINE after == Append(before, text)
    <3>1. after \in Seq(S) /\ Len(after) = Len(before) + 1
      BY AppendProperties, Zenon
    <3>2. \A n \in 1 .. Len(before) : after[n] = before[n]
      BY AppendProperties
    <3>6. after[Len(before) + 1] = text
      BY AppendProperties
    <3>3. Len(before) \in Nat
      OBVIOUS
    <3> HIDE DEF after
    <3>4. \A n \in 1 .. Len(after) : n \in 1 .. Len(before) \/ n = Len(before) + 1
      BY <3>1, <3>3
    <3>5. \A n \in 1 .. Len(after) : after[n] # ""
      BY <1>2, <2>2, <3>2, <3>4, <3>6, Zenon
    <3> QED BY <3>1, <3>5 DEF AllKept, after
  <2> QED BY <1>2, <2>1, <2>2 DEF AddNonEmpty
<1> QED BY <1>1, <1>2

LEMMA NonEmptyKept ==
  ASSUME NEW S, NEW texts \in Seq(S)
  PROVE  AllKept(S, NonEmpty(texts))
<1>1. PICK kept :
            /\ kept[0] = << >>
            /\ \A n \in 1 .. Len(texts) : kept[n] = AddNonEmpty(kept[n - 1], texts[n])
            /\ NonEmpty(texts) = kept[Len(texts)]
  BY NonEmptyBuilt
<1>2. Len(texts) \in Nat
  OBVIOUS
<1> DEFINE Done == {m \in 0 .. Len(texts) : AllKept(S, kept[m])}
<1>3. 0 \in Done
  <2>1. AllKept(S, << >>)
    BY DEF AllKept
  <2> QED BY <1>1, <1>2, <2>1
<1>4. ASSUME NEW m \in 0 .. Len(texts) - 1, m \in Done PROVE m + 1 \in Done
  <2>1. m + 1 \in 1 .. Len(texts) /\ (m + 1) - 1 = m /\ m + 1 \in 0 .. Len(texts)
    BY <1>2
  <2>2. texts[m + 1] \in S
    BY <2>1
  <2> QED BY <1>1, <1>4, <2>1, <2>2, AddKept
<1>5. 0 .. Len(texts) \subseteq Done
  <2> HIDE DEF Done
  <2> QED BY <1>2, <1>3, <1>4, SetInduction
<1> QED BY <1>1, <1>2, <1>5

\* Where no text is empty nothing is dropped.
LEMMA NonEmptyOfKept ==
  ASSUME NEW S, NEW texts \in Seq(S), AllKept(S, texts)
  PROVE  NonEmpty(texts) = texts
<1>1. PICK kept :
            /\ kept[0] = << >>
            /\ \A n \in 1 .. Len(texts) : kept[n] = AddNonEmpty(kept[n - 1], texts[n])
            /\ NonEmpty(texts) = kept[Len(texts)]
  BY NonEmptyBuilt
<1>2. Len(texts) \in Nat
  OBVIOUS
<1> DEFINE Done == {m \in 0 .. Len(texts) : kept[m] = SubSeq(texts, 1, m)}
<1>3. 0 \in Done
  <2>1. SubSeq(texts, 1, 0) = << >>
    OBVIOUS
  <2>2. kept[0] = SubSeq(texts, 1, 0) /\ 0 \in 0 .. Len(texts)
    BY <1>1, <1>2, <2>1
  <2> QED BY <2>2
<1>4. ASSUME NEW m \in 0 .. Len(texts) - 1, m \in Done PROVE m + 1 \in Done
  <2>1. m + 1 \in 1 .. Len(texts) /\ (m + 1) - 1 = m /\ m + 1 \in 0 .. Len(texts)
    BY <1>2
  <2>2. kept[m + 1] = Append(SubSeq(texts, 1, m), texts[m + 1])
    BY <1>1, <1>4, <2>1 DEF AllKept, AddNonEmpty
  <2>3. Append(SubSeq(texts, 1, m), texts[m + 1]) = SubSeq(texts, 1, m + 1)
    BY <2>1
  <2> QED BY <2>1, <2>2, <2>3
<1>5. 0 .. Len(texts) \subseteq Done
  <2> HIDE DEF Done
  <2> QED BY <1>2, <1>3, <1>4, SetInduction
<1>6. NonEmpty(texts) = SubSeq(texts, 1, Len(texts))
  BY <1>1, <1>2, <1>5
<1> QED BY <1>6

-----------------------------------------------------------------------------
(* The fields.                                                              *)

\* A key is of one kind.
LEMMA KeysApart ==
  /\ IntKeys \cap BoolKeys = {}
  /\ (IntKeys \cup BoolKeys) \cap ListKeys = {}
  /\ "customDomains" \in ListKeys /\ "locations" \in ListKeys
  BY DEF IntKeys, BoolKeys, ListKeys, TransportInts, TransportBools

LEMMA ParseTwice == \A x : Parse(Parse(x)) = Parse(x)
  BY TextAssumption DEF Parse

LEMMA IntField ==
  ASSUME NEW k \in IntKeys
  PROVE  /\ \A x : Written(k, x) = [type |-> "integer", value |-> Parse(x)]
         /\ \A v : ReadAs(k, v) = TomlI64(v)
  BY KeysApart DEF Written, ReadAs

LEMMA BoolField ==
  ASSUME NEW k \in BoolKeys
  PROVE  /\ \A x : Written(k, x) = [type |-> "boolean", value |-> x]
         /\ \A v : ReadAs(k, v) = TomlBool(v)
  BY KeysApart, Zenon DEF Written, ReadAs

LEMMA TextField ==
  ASSUME NEW k, k \notin IntKeys \cup BoolKeys \cup ListKeys
  PROVE  /\ \A x : Written(k, x) = String(x)
         /\ \A v : ReadAs(k, v) = TomlStr(v)
  BY KeysApart DEF Written, ReadAs

\* A field that was written, read and written again is written as before, but
\* for the lists.
LEMMA FieldRestored ==
  ASSUME NEW k, NEW x, k \notin ListKeys, k \in BoolKeys => x \in BOOLEAN
  PROVE  Written(k, ReadAs(k, Written(k, x))) = Written(k, x)
<1>1. CASE k \in IntKeys
  <2>1. TomlI64([type |-> "integer", value |-> Parse(x)]) = Parse(x)
    BY DEF TomlI64
  <2> QED BY <1>1, <2>1, IntField, ParseTwice
<1>2. CASE k \in BoolKeys
  <2>1. TomlBool([type |-> "boolean", value |-> x]) = x
    BY DEF TomlBool
  <2> QED BY <1>2, <2>1, BoolField
<1>3. CASE k \notin IntKeys \cup BoolKeys
  <2>1. TomlStr(String(x)) = x
    BY DEF TomlStr, String
  <2> QED BY <1>3, <2>1, TextField
<1> QED BY <1>1, <1>2, <1>3

LEMMA ParsedIsNumeral == \A x : Parse(x) \in Numerals
  BY TextAssumption DEF Parse

\* A text comes back as it was, a number as a number.
LEMMA FieldRead ==
  ASSUME NEW k, NEW x, k \notin ListKeys, k \notin BoolKeys
  PROVE  ReadAs(k, Written(k, x)) = IF k \in IntKeys THEN Parse(x) ELSE x
<1>1. CASE k \in IntKeys
  <2>1. TomlI64([type |-> "integer", value |-> Parse(x)]) = Parse(x)
    BY DEF TomlI64
  <2> QED BY <1>1, <2>1, IntField
<1>2. CASE k \notin IntKeys
  <2>1. TomlStr(String(x)) = x
    BY DEF TomlStr, String
  <2> QED BY <1>2, <2>1, TextField
<1> QED BY <1>1, <1>2

-----------------------------------------------------------------------------
(* The configuration.                                                       *)

\* The keys that are written and read again.
BothWays == CopiedKeys \cup ForcedKeys \cup AuthKeys \cup {"metadatas.token"}

LEMMA ServerKinds ==
  /\ BothWays \subseteq ServerKeys /\ ListKeys \cap ServerKeys = {}
  /\ "metadatas.other" \in ServerKeys \ BothWays
  /\ {"auth.method", "metadatas.token"} \cap (IntKeys \cup BoolKeys) = {}
  /\ {"auth.method", "metadatas.token"} \subseteq BothWays
  BY DEF BothWays, ServerKeys, CopiedKeys, ForcedKeys, AuthKeys, MetadataKeys,
     DesktopKeys, TransportKeys, TransportInts, TransportBools, TransportTexts,
     IntKeys, BoolKeys, ListKeys

LEMMA ServerRead ==
  ASSUME NEW table, NEW k \in ServerKeys
  PROVE  ServerFromToml(table)[k] =
            IF k \in BothWays \cap DOMAIN table THEN ReadAs(k, table[k])
                                                ELSE DefaultServer[k]
<1>1. DOMAIN DefaultServer = ServerKeys
  BY DEF DefaultServer
<1>2. ServerFromToml(table) = Overlay(DefaultServer, table, BothWays)
  BY DEF ServerFromToml, BothWays
<1> QED BY <1>1, <1>2 DEF Overlay

LEMMA CommonKeys ==
  ASSUME NEW row, ServerRestorable(row)
  PROVE  DOMAIN CommonToToml(row) = BothWays
  BY DEF CommonToToml, ServerRestorable, AuthWritten, MetadataKeys, BothWays

\* A configuration that names an authentication method and a token, and has no
\* other metadata, comes back.
LEMMA ServerComesBack ==
  ASSUME NEW row, ServerRestorable(row),
         BooleansOf(DefaultServer, row)
  PROVE  ServerRestored(row)
<1> DEFINE table == CommonToToml(row)
           back == ServerFromToml(table)
<1>1. DOMAIN table = BothWays
  BY CommonKeys
<1> HIDE DEF table
<1>2. DefaultServer["metadatas.other"] = None
  BY ServerKinds DEF DefaultServer, CopiedKeys, TransportInts, TransportBools
<1>3. \A k \in BothWays : back[k] = ReadAs(k, table[k])
  BY <1>1, ServerRead, ServerKinds
<1>4. back["metadatas.other"] = None
  BY <1>2, ServerRead, ServerKinds
<1>5. \A k \in BothWays \ ForcedKeys : table[k] = Written(k, row[k])
  BY <1>1 DEF table, CommonToToml, ForcedKeys
<1>6. \A k \in {"auth.method", "metadatas.token"} : back[k] = row[k]
  <2>1. ForcedKeys \cap {"auth.method", "metadatas.token"} = {}
    BY DEF ForcedKeys
  <2>2. \A k \in {"auth.method", "metadatas.token"} :
          back[k] = ReadAs(k, Written(k, row[k]))
    BY <1>3, <1>5, <2>1, ServerKinds
  <2>3. \A k \in {"auth.method", "metadatas.token"} :
          ReadAs(k, Written(k, row[k])) = row[k]
    BY FieldRead, ServerKinds, "auth.method" \notin ListKeys, "metadatas.token" \notin ListKeys
  <2> QED BY <2>2, <2>3
<1> HIDE DEF back
<1>7. ServerRestorable(back)
  BY <1>4, <1>6 DEF ServerRestorable
<1>8. DOMAIN CommonToToml(back) = BothWays
  BY <1>7, CommonKeys
<1>9. \A k \in BothWays \ ForcedKeys : CommonToToml(back)[k] = Written(k, back[k])
  BY <1>8 DEF CommonToToml, ForcedKeys
<1>10. \A k \in BothWays \ ForcedKeys : CommonToToml(back)[k] = table[k]
  <2> SUFFICES ASSUME NEW k \in BothWays \ ForcedKeys
               PROVE  CommonToToml(back)[k] = table[k]
    OBVIOUS
  <2>1. k \notin ListKeys /\ k \in DOMAIN DefaultServer
    BY ServerKinds DEF DefaultServer
  <2>2. Written(k, ReadAs(k, Written(k, row[k]))) = Written(k, row[k])
    BY <2>1, FieldRestored DEF BooleansOf
  <2> QED BY <1>3, <1>5, <1>9, <2>2
<1>11. \A k \in ForcedKeys : CommonToToml(back)[k] = table[k]
  <2>1. ForcedKeys \subseteq BothWays
    BY DEF BothWays
  <2> QED BY <1>1, <1>8, <2>1 DEF table, CommonToToml, ForcedKeys
<1>12. CommonToToml(back) = table
  <2>1. \A k \in BothWays : CommonToToml(back)[k] = table[k]
    BY <1>10, <1>11
  <2>2. CommonToToml(back) = [k \in BothWays |-> CommonToToml(back)[k]]
    BY <1>8 DEF CommonToToml
  <2>3. table = [k \in BothWays |-> table[k]]
    BY <1>1 DEF table, CommonToToml
  <2> QED BY <2>1, <2>2, <2>3
<1> QED BY <1>12 DEF ServerRestored, back, table

LEMMA ServerDefaults ==
  /\ DefaultServer["auth.method"] = "" /\ DefaultServer["metadatas.token"] = ""
  /\ DefaultServer["metadatas.other"] = None
  BY ServerKinds DEF DefaultServer, CopiedKeys, TransportInts, TransportBools

\* Which of the keys that are not always written are written.
LEMMA OptionalKeys ==
  ASSUME NEW row
  PROVE  /\ "auth.method" \in DOMAIN CommonToToml(row) <=> row["auth.method"] # "none"
         /\ \A m \in MetadataKeys : m \in DOMAIN CommonToToml(row) <=> row[m] # None
  BY DEF CommonToToml, AuthWritten, AuthKeys, MetadataKeys, CopiedKeys, ForcedKeys,
     TransportKeys, TransportInts, TransportBools, TransportTexts

\* Exporting and importing a configuration gives frpc the same one if and only
\* if it names an authentication method and a token and has no other metadata.
THEOREM ServerRestoredIff ==
  ASSUME NEW row, BooleansOf(DefaultServer, row)
  PROVE  ServerRestored(row) <=> ServerRestorable(row)
<1> DEFINE table == CommonToToml(row)
           back == ServerFromToml(table)
<1>1. SUFFICES ASSUME ~ServerRestorable(row) PROVE DOMAIN CommonToToml(back) # DOMAIN table
  BY ServerComesBack DEF ServerRestored
<1>2. {"auth.method", "metadatas.token", "metadatas.other"} \subseteq ServerKeys
  BY ServerKinds
<1> HIDE DEF table
<1>3. CASE row["auth.method"] = "none"
  <2>1. "auth.method" \notin DOMAIN table
    BY <1>3, OptionalKeys DEF table
  <2>2. back["auth.method"] = ""
    BY <1>2, <2>1, ServerRead, ServerDefaults
  <2> QED BY <2>1, <2>2, OptionalKeys
<1>4. CASE row["metadatas.token"] = None
  <2>1. "metadatas.token" \notin DOMAIN table
    BY <1>4, OptionalKeys DEF table, MetadataKeys
  <2>2. back["metadatas.token"] # None
    BY <1>2, <2>1, ServerRead, ServerDefaults, TextAssumption
  <2> QED BY <2>1, <2>2, OptionalKeys DEF MetadataKeys
<1>5. CASE row["metadatas.other"] # None
  <2>1. "metadatas.other" \in DOMAIN table
    BY <1>5, OptionalKeys DEF table, MetadataKeys
  <2>2. back["metadatas.other"] = None
    BY <1>2, ServerRead, ServerDefaults, ServerKinds
  <2> QED BY <2>1, <2>2, OptionalKeys DEF MetadataKeys
<1> QED BY <1>1, <1>3, <1>4, <1>5 DEF ServerRestorable

\* A configuration that was imported has booleans where it must.
LEMMA ImportedServerTyped ==
  ASSUME NEW row, BooleansOf(DefaultServer, row)
  PROVE  BooleansOf(DefaultServer, ServerFromToml(CommonToToml(row)))
<1> DEFINE table == CommonToToml(row)
<1> SUFFICES ASSUME NEW k \in BoolKeys \cap DOMAIN DefaultServer
             PROVE  ServerFromToml(table)[k] \in BOOLEAN
  BY DEF BooleansOf
<1>1. k \in ServerKeys /\ DefaultServer[k] \in BOOLEAN
  <2>1. k \in ServerKeys
    BY DEF DefaultServer
  <2>2. k \in TransportBools \cup {"loginFailExit", "log.disablePrintColor",
                                  "webServer.pprofEnable"}
    BY <2>1 DEF BoolKeys, ServerKeys, CopiedKeys, ForcedKeys, AuthKeys,
       MetadataKeys, DesktopKeys, TransportKeys, TransportInts, TransportTexts
  <2>3. CASE k \in TransportBools
    <3>1. DefaultServer[k] = TRUE
      BY <2>1, <2>3 DEF DefaultServer, TransportBools
    <3> QED BY <2>1, <3>1
  <2>4. CASE k \in {"loginFailExit", "log.disablePrintColor",
                    "webServer.pprofEnable"}
    <3>1. DefaultServer[k] = FALSE
      BY <2>1, <2>4 DEF DefaultServer, TransportBools
    <3> QED BY <2>1, <3>1
  <2> QED BY <2>2, <2>3, <2>4
<1>2. \A x \in BOOLEAN : ReadAs(k, Written(k, x)) = x
  <2>1. \A x : TomlBool([type |-> "boolean", value |-> x]) = x
    BY DEF TomlBool
  <2> QED BY <2>1, BoolField
<1>3. k \in DOMAIN table => table[k] = Written(k, FALSE) \/ table[k] = Written(k, row[k])
  <2>1. k \notin {"log.to", "webServer.addr"}
    BY DEF BoolKeys, TransportBools
  <2> QED BY <2>1 DEF table, CommonToToml
<1>4. row[k] \in BOOLEAN
  BY DEF BooleansOf
<1> HIDE DEF table
<1>5. k \in DOMAIN table => ReadAs(k, table[k]) \in BOOLEAN
  BY <1>2, <1>3, <1>4
<1> QED BY <1>1, <1>5, ServerRead

-----------------------------------------------------------------------------
(* Proxies and visitors.                                                    *)

LEMMA TunnelKinds ==
  /\ BoolKeys \cap DOMAIN DefaultImportedProxy \subseteq
        {"keepTunnelOpen", "transport.useEncryption", "transport.useCompression"}
  /\ {"name", "type", "localIP", "serverName", "secretKey", "bindAddr",
      "serverUser"} \cap (IntKeys \cup BoolKeys \cup ListKeys) = {}
  /\ {"localPort", "remotePort", "bindPort"} \subseteq IntKeys
  BY DEF DefaultImportedProxy, IntKeys, BoolKeys, ListKeys, ProxyTransportKeys,
     TransportInts, TransportBools

Fallbacks == {"keepTunnelOpen", "fallbackTo", "fallbackTimeoutMs"}

\* A list as a TOML array.
ArrayOf(texts) ==
    [type |-> "array", value |-> [n \in DOMAIN texts |-> String(texts[n])]]

LEMMA ArrayRead ==
  ASSUME NEW texts
  PROVE  TomlStringArray(ArrayOf(texts)) = [n \in DOMAIN texts |-> texts[n]]
<1>1. \A z : TomlStr(String(z)) = z
  BY DEF TomlStr, String
<1> QED BY <1>1 DEF TomlStringArray, ArrayOf

LEMMA ListFields ==
  ASSUME NEW texts
  PROVE  /\ Written("customDomains", texts) = ArrayOf(texts)
         /\ Written("locations", texts) = ArrayOf(NonEmpty(texts))
         /\ ReadAs("customDomains", texts) = TomlStringArray(texts)
         /\ ReadAs("locations", texts) = TomlStringArray(texts)
  BY KeysApart DEF Written, ReadAs, ArrayOf

LEMMA ListRestored ==
  ASSUME NEW x
  PROVE  /\ Written("customDomains", ReadAs("customDomains", Written("customDomains", x)))
              = Written("customDomains", x)
         /\ IsList(x) =>
              ReadAs("locations", Written("locations", x)) = NonEmpty(x)
<1>1. ArrayOf([n \in DOMAIN x |-> x[n]]) = ArrayOf(x)
  BY DEF ArrayOf
<1>2. IsList(x) => [n \in DOMAIN NonEmpty(x) |-> NonEmpty(x)[n]] = NonEmpty(x)
  <2>1. ASSUME NEW S, NEW y \in Seq(S) PROVE [n \in DOMAIN y |-> y[n]] = y
    OBVIOUS
  <2> DEFINE S == {x[n] : n \in DOMAIN x}
  <2>2. IsList(x) => NonEmpty(x) \in Seq(S)
    <3> HIDE DEF S
    <3>1. x \in Seq(S) => NonEmpty(x) \in Seq(S)
      BY NonEmptyKept DEF AllKept
    <3> QED BY <3>1 DEF IsList, S
  <2> HIDE DEF S
  <2> QED BY <2>1, <2>2
<1>3. ReadAs("customDomains", Written("customDomains", x)) = [n \in DOMAIN x |-> x[n]]
  BY ListFields, ArrayRead
<1>4. ReadAs("locations", Written("locations", x)) =
         [n \in DOMAIN NonEmpty(x) |-> NonEmpty(x)[n]]
  BY ListFields, ArrayRead
<1> QED BY <1>1, <1>2, <1>3, <1>4, ListFields

LEMMA ListOf ==
  ASSUME NEW S, NEW x \in Seq(S)
  PROVE  IsList(x)
<1>1. DOMAIN x = 1 .. Len(x) /\ x = [n \in 1 .. Len(x) |-> x[n]] /\ Len(x) \in Nat
  OBVIOUS
<1> DEFINE T == {x[n] : n \in DOMAIN x}
<1>2. \A n \in 1 .. Len(x) : x[n] \in T
  BY <1>1
<1> HIDE DEF T
<1>3. [n \in 1 .. Len(x) |-> x[n]] \in Seq(T)
  BY <1>1, <1>2
<1> QED BY <1>1, <1>3 DEF IsList, T

LEMMA NonEmptyTwice ==
  ASSUME NEW x, IsList(x)
  PROVE  NonEmpty(NonEmpty(x)) = NonEmpty(x) /\ IsList(NonEmpty(x))
<1>1. PICK S : S = {x[n] : n \in DOMAIN x}
  OBVIOUS
<1>2. AllKept(S, NonEmpty(x))
  BY <1>1, NonEmptyKept DEF IsList
<1>3. NonEmpty(x) \in Seq(S)
  BY <1>2 DEF AllKept
<1> QED BY <1>2, <1>3, NonEmptyOfKept, ListOf


LEMMA NonEmptyDefault == NonEmpty(<<"">>) = << >>
<1>1. <<"">> \in Seq({""}) /\ Len(<<"">>) = 1 /\ <<"">>[1] = ""
  OBVIOUS
<1>2. PICK kept : /\ kept[0] = << >>
                  /\ \A n \in 1 .. 1 : kept[n] = AddNonEmpty(kept[n - 1], <<"">>[n])
                  /\ NonEmpty(<<"">>) = kept[1]
  BY <1>1, NonEmptyBuilt
<1>3. kept[1] = AddNonEmpty(kept[0], "")
  <2>1. 1 \in 1 .. 1 /\ 1 - 1 = 0
    OBVIOUS
  <2> QED BY <1>1, <1>2, <2>1, Zenon
<1> QED BY <1>2, <1>3 DEF AddNonEmpty

\* The defaults of an imported proxy that the file can not change, or that its
\* absence leaves.
LEMMA ImportedDefaults ==
  /\ DefaultImportedProxy["status"] = 1
  /\ DefaultImportedProxy["visitorsModel"] = "visitors"
  /\ DefaultImportedProxy["basicAuth"] = FALSE
  /\ DefaultImportedProxy["https2http"] = FALSE
  /\ DefaultImportedProxy["locations"] = <<"">>
  /\ DefaultImportedProxy["localPort"] = "8080"
  /\ {"status", "visitorsModel", "basicAuth", "https2http", "locations", "localPort",
      "name", "type"} \cup Fallbacks \subseteq DOMAIN DefaultImportedProxy
  /\ {"status", "visitorsModel", "basicAuth", "https2http"}
        \cap (ProxyImportKeys \cup VisitorImportKeys) = {}
  /\ {"name", "type"} \subseteq ProxyImportKeys \cap VisitorImportKeys
  /\ {"localPort", "locations"} \subseteq ProxyImportKeys
  BY DEF DefaultImportedProxy, ListKeys, ProxyImportKeys, ProxyTransportKeys,
     VisitorImportKeys, Fallbacks

\* What an imported proxy has, key by key.
LEMMA ProxyRead ==
  ASSUME NEW table, NEW k \in DOMAIN DefaultImportedProxy
  PROVE  ProxyFromToml(table)[k] =
            IF k \in ProxyImportKeys \cap DOMAIN table THEN ReadAs(k, table[k])
                                              ELSE DefaultImportedProxy[k]
  BY DEF ProxyFromToml, Overlay

\* The keys follow from two fields and the kind of an http proxy.
LEMMA SameProxyKeys ==
  ASSUME NEW q, NEW r, q["type"] = r["type"],
         ~PluginUsed(q), ~PluginUsed(r),
         q["type"] \in {"http", "https"} =>
            ~q["basicAuth"] /\ ~r["basicAuth"] /\ LocationKeys(q) = LocationKeys(r)
  PROVE  ProxyKeys(q) = ProxyKeys(r)
  BY Zenon DEF ProxyKeys

\* What is written of a proxy without a plugin and credentials can be read.
LEMMA ProxyFields ==
  ASSUME NEW q, ~PluginUsed(q), q["type"] \in {"http", "https"} => ~q["basicAuth"]
  PROVE  /\ {"name", "type"} \subseteq ProxyKeys(q)
         /\ ProxyKeys(q) \subseteq ProxyImportKeys \cap DOMAIN DefaultImportedProxy
         /\ "plugin" \notin ProxyKeys(q)
         /\ "locations" \in ProxyKeys(q) <=>
               q["type"] \in {"http", "https"} /\ NonEmpty(q["locations"]) # << >>
         /\ q["type"] \in {"tcp", "udp"} => "localPort" \in ProxyKeys(q)
<1> DEFINE Port == {"localIP", "localPort", "remotePort"} \cup ProxyTransportKeys
           Web0 == {"localIP", "localPort", "customDomains", "subdomain"}
           Secret == {"localIP", "localPort", "secretKey"}
<1>1. {"name", "type", "locations"} \cup Port \cup Web0 \cup Secret
         \subseteq (ProxyImportKeys \cap DOMAIN DefaultImportedProxy) \ {"plugin"}
  BY DEF ProxyImportKeys, DefaultImportedProxy, ProxyTransportKeys
<1>2. "locations" \notin {"name", "type"} \cup Port \cup Web0 \cup Secret
  BY DEF ProxyTransportKeys
<1>3. CASE q["type"] \in {"tcp", "udp"}
  <2>1. ProxyKeys(q) = {"name", "type"} \cup Port
    BY <1>3 DEF ProxyKeys
  <2> QED BY <1>1, <1>2, <1>3, <2>1
<1>4. CASE q["type"] \in {"http", "https"}
  <2>1. ProxyKeys(q) = {"name", "type"} \cup Web0 \cup LocationKeys(q)
    BY <1>4 DEF ProxyKeys
  <2> QED BY <1>1, <1>2, <1>4, <2>1 DEF LocationKeys
<1>5. CASE q["type"] \in {"stcp", "xtcp", "sudp"}
  <2>1. ProxyKeys(q) = {"name", "type"} \cup Secret
    BY <1>5 DEF ProxyKeys
  <2> QED BY <1>1, <1>2, <1>5, <2>1
<1>6. CASE q["type"] \notin {"tcp", "udp", "http", "https", "stcp", "xtcp", "sudp"}
  <2>1. ProxyKeys(q) = {"name", "type"}
    BY <1>6 DEF ProxyKeys, PluginUsed
  <2> QED BY <1>1, <1>2, <1>6, <2>1
<1> QED BY <1>3, <1>4, <1>5, <1>6

\* The list of locations is there again, or is not there again.
LEMMA LocationsRead ==
  ASSUME NEW p, TypedProxy(p), p["type"] \in {"http", "https"},
         ~PluginUsed(p), ~p["basicAuth"]
  PROVE  NonEmpty(ProxyFromToml(ProxyToToml(p))["locations"]) = NonEmpty(p["locations"])
<1> DEFINE table == ProxyToToml(p)
           back == ProxyFromToml(table)
<1>1. /\ DOMAIN table = ProxyKeys(p)
      /\ "locations" \in ProxyKeys(p) =>
            table["locations"] = Written("locations", p["locations"])
  BY DEF ProxyToToml
<1> HIDE DEF table
<1>2. back["locations"] =
         IF "locations" \in ProxyKeys(p) THEN ReadAs("locations", table["locations"])
                                         ELSE <<"">>
  BY <1>1, ProxyRead, ImportedDefaults
<1> HIDE DEF back
<1>3. CASE NonEmpty(p["locations"]) # << >>
  <2>1. back["locations"] = NonEmpty(p["locations"])
    BY <1>1, <1>2, <1>3, ProxyFields, ListRestored DEF TypedProxy
  <2> QED BY <2>1, NonEmptyTwice DEF TypedProxy, back, table
<1>4. CASE NonEmpty(p["locations"]) = << >>
  <2>1. back["locations"] = <<"">>
    BY <1>2, <1>4, ProxyFields
  <2> QED BY <1>4, <2>1, NonEmptyDefault DEF back, table
<1> QED BY <1>3, <1>4

\* The tables that one enabled proxy is alone in.
LEMMA OneTunnel ==
  ASSUME NEW q, IsEnableProxy(q)
  PROVE  TunnelsToToml({q}) =
            [proxies  |-> IF ~IsVisitors(q) /\ ~IsRangePort(q) THEN {ProxyToToml(q)} ELSE {},
             ranges   |-> IF ~IsVisitors(q) /\ IsRangePort(q) THEN {RangePortTemplate(q)}
                                                              ELSE {},
             visitors |-> IF IsVisitors(q) THEN {VisitorToToml(q)} ELSE {}]
<1>1. {p \in {q} : IsEnableProxy(p)} = {q}
  OBVIOUS
<1>2. /\ {r \in {q} : ~IsVisitors(r) /\ ~IsRangePort(r)} =
            IF ~IsVisitors(q) /\ ~IsRangePort(q) THEN {q} ELSE {}
      /\ {r \in {q} : ~IsVisitors(r) /\ IsRangePort(r)} =
            IF ~IsVisitors(q) /\ IsRangePort(q) THEN {q} ELSE {}
      /\ {r \in {q} : IsVisitors(r)} = IF IsVisitors(q) THEN {q} ELSE {}
  OBVIOUS
<1>3. /\ \A f : {ProxyToToml(p) : p \in {}} = {}
      /\ {RangePortTemplate(p) : p \in {}} = {}
      /\ {VisitorToToml(p) : p \in {}} = {}
      /\ {ProxyToToml(p) : p \in {q}} = {ProxyToToml(q)}
      /\ {RangePortTemplate(p) : p \in {q}} = {RangePortTemplate(q)}
      /\ {VisitorToToml(p) : p \in {q}} = {VisitorToToml(q)}
  OBVIOUS
<1> QED BY <1>1, <1>2, <1>3 DEF TunnelsToToml

\* An enabled proxy that is no visitor comes back with the same table.
LEMMA ProxyComesBack ==
  ASSUME NEW p, TypedProxy(p), IsEnableProxy(p), ~IsVisitors(p), Restorable(p)
  PROVE  Restored(p)
<1> DEFINE table == ProxyToToml(p)
           back == ProxyFromToml(table)
<1>1. /\ p["type"] \notin {"stcp", "sudp", "xtcp"} /\ ~IsRangePort(p)
      /\ ~PluginUsed(p)
      /\ p["type"] \in {"http", "https"} => ~p["basicAuth"]
  BY DEF Restorable
<1>2. DOMAIN table = ProxyKeys(p) /\ \A k \in ProxyKeys(p) : table[k] = Written(k, p[k])
  BY <1>1, ProxyFields DEF ProxyToToml
<1>3. p["type"] \in {"http", "https"} =>
         NonEmpty(back["locations"]) = NonEmpty(p["locations"])
  BY <1>1, LocationsRead
<1> HIDE DEF table
<1>4. \A k \in ProxyKeys(p) : back[k] = ReadAs(k, table[k])
  BY <1>1, <1>2, ProxyFields, ProxyRead
<1>5. /\ back["status"] = 1 /\ back["basicAuth"] = FALSE /\ back["https2http"] = FALSE
      /\ "localPort" \notin ProxyKeys(p) => back["localPort"] = "8080"
  BY <1>2, ProxyRead, ImportedDefaults
<1> HIDE DEF back
<1>6. back["type"] = p["type"]
  <2>1. ReadAs("type", Written("type", p["type"])) = p["type"]
    BY FieldRead, TunnelKinds
  <2> QED BY <1>1, <1>2, <1>4, <2>1, ProxyFields
<1>7. back["localPort"] \in Numerals
  <2>1. ReadAs("localPort", Written("localPort", p["localPort"])) \in Numerals
    <3>1. "localPort" \in IntKeys \ (BoolKeys \cup ListKeys)
      BY TunnelKinds, KeysApart
    <3>2. ReadAs("localPort", Written("localPort", p["localPort"])) = Parse(p["localPort"])
      BY <3>1, FieldRead
    <3> QED BY <3>2, ParsedIsNumeral
  <2> QED BY <1>2, <1>4, <1>5, <2>1, TextAssumption
<1>8. ~IsVisitors(back) /\ ~IsRangePort(back) /\ IsEnableProxy(back) /\ ~PluginUsed(back)
  BY TextAssumption, <1>1, <1>5, <1>6, <1>7
     DEF IsVisitors, IsRangePort, IsEnableProxy, PluginUsed
<1>9. ProxyKeys(back) = ProxyKeys(p)
  <2>1. p["type"] \in {"http", "https"} => LocationKeys(back) = LocationKeys(p)
    BY <1>3 DEF LocationKeys
  <2> QED BY <1>1, <1>5, <1>6, <1>8, <2>1, SameProxyKeys
<1>10. \A k \in ProxyKeys(p) : Written(k, back[k]) = table[k]
  <2> SUFFICES ASSUME NEW k \in ProxyKeys(p) PROVE Written(k, back[k]) = table[k]
    OBVIOUS
  <2>1. CASE k \notin ListKeys
    <3>1. k \in DOMAIN DefaultImportedProxy
      BY <1>1, ProxyFields
    <3>2. Written(k, ReadAs(k, Written(k, p[k]))) = Written(k, p[k])
      BY <2>1, <3>1, FieldRestored DEF TypedProxy, BooleansOf
    <3> QED BY <1>2, <1>4, <3>2
  <2>2. CASE k = "customDomains"
    BY <1>2, <1>4, <2>2, ListRestored
  <2>3. CASE k = "locations"
    <3>1. p["type"] \in {"http", "https"}
      BY <1>1, <2>3, ProxyFields
    <3> QED BY <1>2, <1>3, <2>3, <3>1, ListFields
  <2> QED BY <2>1, <2>2, <2>3 DEF ListKeys
<1>11. ProxyToToml(back) = table
  <2>1. ProxyToToml(back) = [k \in ProxyKeys(p) |-> Written(k, back[k])]
    BY <1>1, <1>9, ProxyFields DEF ProxyToToml
  <2>2. table = [k \in ProxyKeys(p) |-> table[k]]
    BY <1>2 DEF table, ProxyToToml
  <2> QED BY <1>10, <2>1, <2>2
<1>12. Reimported(p) = back
  BY DEF Reimported, back, table
<1>13. TunnelsToToml({back}) = TunnelsToToml({p})
  BY <1>1, <1>8, <1>11, OneTunnel DEF table
<1> QED BY <1>12, <1>13 DEF Restored

LEMMA VisitorFields ==
  ASSUME NEW q
  PROVE  /\ {"name", "type", "serverName", "secretKey", "bindAddr"} \subseteq VisitorKeys(q)
         /\ VisitorKeys(q) \ Fallbacks \subseteq VisitorImportKeys
         /\ VisitorKeys(q) \subseteq DOMAIN DefaultImportedProxy
         /\ Fallbacks \cap VisitorImportKeys = {}
         /\ VisitorKeys(q) \cap ListKeys = {}
         /\ "serverUser" \in VisitorKeys(q) <=> q["serverUser"] # ""
         /\ "bindPort" \in VisitorKeys(q) <=> q["bindPort"] # None
<1>1. /\ VisitorKeys(q) \ Fallbacks \subseteq VisitorImportKeys
      /\ Fallbacks \cap VisitorImportKeys = {}
  BY DEF VisitorKeys, Fallbacks, VisitorImportKeys, ProxyTransportKeys
<1>2. VisitorKeys(q) \subseteq DOMAIN DefaultImportedProxy
  <2>1. VisitorKeys(q) \subseteq
          {"name", "type", "serverName", "secretKey", "bindAddr", "bindPort",
           "serverUser", "keepTunnelOpen", "fallbackTo", "fallbackTimeoutMs"}
    BY DEF VisitorKeys
  <2>2. {"name", "type", "serverName", "secretKey", "bindAddr", "bindPort",
         "serverUser", "keepTunnelOpen", "fallbackTo", "fallbackTimeoutMs"}
          \subseteq DOMAIN DefaultImportedProxy
    BY DEF DefaultImportedProxy
  <2> QED BY <2>1, <2>2
<1>3. VisitorKeys(q) \cap ListKeys = {}
  BY DEF VisitorKeys, ListKeys
<1>4. /\ {"name", "type", "serverName", "secretKey", "bindAddr"} \subseteq VisitorKeys(q)
      /\ "serverUser" \in VisitorKeys(q) <=> q["serverUser"] # ""
      /\ "bindPort" \in VisitorKeys(q) <=> q["bindPort"] # None
  BY DEF VisitorKeys
<1> QED BY <1>1, <1>2, <1>3, <1>4

\* The keys follow from three fields.
LEMMA SameVisitorKeys ==
  ASSUME NEW q, NEW r, q["type"] = r["type"],
         q["bindPort"] = None <=> r["bindPort"] = None,
         q["serverUser"] = "" <=> r["serverUser"] = ""
  PROVE  VisitorKeys(q) = VisitorKeys(r)
  BY DEF VisitorKeys

LEMMA VisitorDefaults ==
  /\ DefaultImportedProxy["visitorsModel"] = "visitors"
  /\ DefaultImportedProxy["status"] = 1
  /\ DefaultImportedProxy["bindPort"] = None
  /\ DefaultImportedProxy["serverUser"] = ""
  /\ {"visitorsModel", "status", "bindPort", "serverUser"}
        \subseteq DOMAIN DefaultImportedProxy
  /\ {"visitorsModel", "status"} \cap VisitorImportKeys = {}
  BY DEF DefaultImportedProxy, ListKeys, VisitorImportKeys, ProxyTransportKeys

\* What an imported visitor has, key by key.
LEMMA VisitorRead ==
  ASSUME NEW table, NEW k \in DOMAIN DefaultImportedProxy
  PROVE  VisitorFromToml(table)[k] =
            IF k \in VisitorImportKeys \cap DOMAIN table THEN ReadAs(k, table[k])
                                                ELSE DefaultImportedProxy[k]
  BY DEF VisitorFromToml, Overlay

\* An enabled visitor comes back with the same table, if it is not of an xtcp
\* tunnel with a fallback.
LEMMA VisitorComesBack ==
  ASSUME NEW p, IsEnableProxy(p), IsVisitors(p), Restorable(p),
         BooleansOf(DefaultImportedProxy, p)
  PROVE  Restored(p)
<1> DEFINE table == VisitorToToml(p)
           back == VisitorFromToml(table)
<1>1. /\ DOMAIN table = VisitorKeys(p)
      /\ \A k \in VisitorKeys(p) : table[k] = Written(k, p[k])
  BY DEF VisitorToToml
<1> HIDE DEF table
<1>2. \A k \in VisitorKeys(p) \ Fallbacks : back[k] = ReadAs(k, table[k])
  BY <1>1, VisitorRead, VisitorFields
<1>3. \A k \in VisitorKeys(p) \cap Fallbacks : back[k] = DefaultImportedProxy[k]
  BY VisitorRead, VisitorFields
<1>4. \A k \in {"visitorsModel", "status"} : back[k] = DefaultImportedProxy[k]
  BY VisitorRead, VisitorDefaults
<1>5. /\ "bindPort" \notin VisitorKeys(p) => back["bindPort"] = None
      /\ "serverUser" \notin VisitorKeys(p) => back["serverUser"] = ""
  BY <1>1, VisitorRead, VisitorDefaults
<1> HIDE DEF back
<1>6. back["type"] = p["type"]
  <2>1. "type" \in VisitorKeys(p) \ Fallbacks
    BY VisitorFields DEF Fallbacks
  <2>2. ReadAs("type", Written("type", p["type"])) = p["type"]
    BY FieldRead, TunnelKinds
  <2> QED BY <1>1, <1>2, <2>1, <2>2
<1>7. back["bindPort"] = None <=> p["bindPort"] = None
  <2>1. CASE p["bindPort"] = None
    BY <1>5, <2>1, VisitorFields
  <2>2. CASE p["bindPort"] # None
    <3>1. "bindPort" \in VisitorKeys(p) \ Fallbacks
      BY <2>2, VisitorFields DEF Fallbacks
    <3>2. "bindPort" \in IntKeys \ (BoolKeys \cup ListKeys)
      BY TunnelKinds, KeysApart
    <3>3. back["bindPort"] = Parse(p["bindPort"])
      BY <1>1, <1>2, <3>1, <3>2, FieldRead
    <3> QED BY <2>2, <3>3, ParsedIsNumeral, TextAssumption
  <2> QED BY <2>1, <2>2
<1>8. back["serverUser"] = "" <=> p["serverUser"] = ""
  <2>1. CASE p["serverUser"] = ""
    BY <1>5, <2>1, VisitorFields
  <2>2. CASE p["serverUser"] # ""
    <3>1. "serverUser" \in VisitorKeys(p) \ Fallbacks
      BY <2>2, VisitorFields DEF Fallbacks
    <3>2. ReadAs("serverUser", Written("serverUser", p["serverUser"])) = p["serverUser"]
      BY FieldRead, TunnelKinds
    <3> QED BY <1>1, <1>2, <2>2, <3>1, <3>2
  <2> QED BY <2>1, <2>2
<1>9. VisitorKeys(back) = VisitorKeys(p)
  BY <1>6, <1>7, <1>8, SameVisitorKeys
<1>10. \A k \in VisitorKeys(p) : Written(k, back[k]) = Written(k, p[k])
  <2>1. ASSUME NEW k \in VisitorKeys(p) \ Fallbacks
        PROVE  Written(k, back[k]) = Written(k, p[k])
    <3>1. k \notin ListKeys /\ k \in DOMAIN DefaultImportedProxy
      BY VisitorFields
    <3>2. Written(k, ReadAs(k, Written(k, p[k]))) = Written(k, p[k])
      BY <3>1, FieldRestored DEF BooleansOf
    <3> QED BY <1>1, <1>2, <3>2
  <2>2. ASSUME NEW k \in VisitorKeys(p) \cap Fallbacks
        PROVE  Written(k, back[k]) = Written(k, p[k])
    <3>1. p["type"] = "xtcp"
      BY <2>2 DEF VisitorKeys, Fallbacks
    <3>2. Written(k, p[k]) = Written(k, DefaultImportedProxy[k])
      BY <3>1 DEF Restorable, Fallbacks
    <3> QED BY <1>3, <3>2
  <2> QED BY <2>1, <2>2
<1>11. VisitorToToml(back) = VisitorToToml(p)
  <2>1. VisitorToToml(back) = [k \in VisitorKeys(p) |-> Written(k, back[k])]
    BY <1>9 DEF VisitorToToml
  <2> QED BY <1>10, <2>1 DEF VisitorToToml
<1>12. IsVisitors(back) /\ IsEnableProxy(back)
  BY <1>4, <1>6, VisitorDefaults DEF IsVisitors, IsEnableProxy
<1>13. Reimported(p) = back
  BY DEF Reimported, back, table
<1>14. TunnelsToToml({back}) = TunnelsToToml({p})
  <2>1. ASSUME NEW q, IsEnableProxy(q), IsVisitors(q)
        PROVE  TunnelsToToml({q}) = [proxies |-> {}, ranges |-> {},
                                     visitors |-> {VisitorToToml(q)}]
    BY <2>1 DEF TunnelsToToml
  <2> QED BY <1>11, <1>12, <2>1
<1> QED BY <1>13, <1>14 DEF Restored

-----------------------------------------------------------------------------
(* What comes back, and what does not.                                      *)

\* The keys that the plugin and the fallback have are in no proxy's table but
\* these, and a table always says its name and type.
LEMMA ProxyTable ==
  ASSUME NEW p
  PROVE  /\ DOMAIN ProxyToToml(p) = ProxyKeys(p)
         /\ {"name", "type"} \subseteq ProxyKeys(p)
         /\ ProxyKeys(p) \cap Fallbacks = {}
         /\ \A k \in ProxyKeys(p) \ {"plugin"} : ProxyToToml(p)[k] = Written(k, p[k])
<1>1. DOMAIN ProxyToToml(p) = ProxyKeys(p)
  BY DEF ProxyToToml
<1>2. {"name", "type"} \subseteq ProxyKeys(p)
  BY DEF ProxyKeys
<1>3. ProxyKeys(p) \cap Fallbacks = {}
  <2> DEFINE All == {"name", "type", "localIP", "localPort", "remotePort", "customDomains",
                     "subdomain", "plugin", "httpUser", "httpPassword", "secretKey",
                     "locations"} \cup ProxyTransportKeys
  <2>1. ProxyKeys(p) \subseteq All
    BY Zenon DEF ProxyKeys, LocationKeys
  <2>2. All \cap Fallbacks = {}
    BY DEF ProxyTransportKeys, Fallbacks
  <2> QED BY <2>1, <2>2
<1>4. \A k \in ProxyKeys(p) \ {"plugin"} : ProxyToToml(p)[k] = Written(k, p[k])
  BY DEF ProxyToToml
<1> QED BY <1>1, <1>2, <1>3, <1>4

\* Whatever is imported, it has the type it had, the rest of these fields is
\* as the import leaves it.
LEMMA ReimportedFields ==
  ASSUME NEW p
  PROVE  /\ Reimported(p)["status"] = 1
         /\ Reimported(p)["visitorsModel"] = "visitors"
         /\ Reimported(p)["basicAuth"] = FALSE
         /\ Reimported(p)["https2http"] = FALSE
         /\ Reimported(p)["type"] = p["type"]
         /\ Reimported(p)["localPort"] \in Numerals
         /\ \A k \in Fallbacks : Reimported(p)[k] = DefaultImportedProxy[k]
<1>1. ReadAs("type", Written("type", p["type"])) = p["type"]
  BY FieldRead, TunnelKinds
<1>2. "8080" \in Numerals
  BY TextAssumption
<1> DEFINE Left == Fallbacks \cup {"status", "visitorsModel", "basicAuth", "https2http"}
<1>3. Left \cup {"type", "localPort"} \subseteq DOMAIN DefaultImportedProxy
  BY ImportedDefaults
<1>4. Left \cap VisitorImportKeys = {} /\ "localPort" \notin VisitorImportKeys
  BY DEF VisitorImportKeys, ProxyTransportKeys, Fallbacks
<1>5. (Left \ Fallbacks) \cap ProxyImportKeys = {}
  BY ImportedDefaults
<1>6. SUFFICES ASSUME NEW back, back = Reimported(p)
               PROVE  /\ \A k \in Left : back[k] = DefaultImportedProxy[k]
                      /\ back["type"] = p["type"]
                      /\ back["localPort"] \in Numerals
  BY ImportedDefaults
<1>7. CASE IsVisitors(p)
  <2>1. PICK table : table = VisitorToToml(p)
    OBVIOUS
  <2>2. back = VisitorFromToml(table)
    BY <1>6, <1>7, <2>1 DEF Reimported
  <2>3. "type" \in DOMAIN table /\ table["type"] = Written("type", p["type"])
    BY <2>1, VisitorFields DEF VisitorToToml
  <2>4. back["type"] = p["type"]
    BY <1>1, <1>3, <2>2, <2>3, VisitorRead, ImportedDefaults
  <2>5. \A k \in Left \cup {"localPort"} : back[k] = DefaultImportedProxy[k]
    <3> HIDE DEF Left
    <3> QED BY <1>3, <1>4, <2>2, VisitorRead
  <2> QED BY <1>2, <2>4, <2>5, ImportedDefaults
<1>8. CASE ~IsVisitors(p)
  <2>1. PICK table : table = ProxyToToml(p)
    OBVIOUS
  <2>2. back = ProxyFromToml(table)
    BY <1>6, <1>8, <2>1 DEF Reimported
  <2>3. /\ "type" \in DOMAIN table /\ DOMAIN table \cap Fallbacks = {}
        /\ \A k \in DOMAIN table \ {"plugin"} : table[k] = Written(k, p[k])
    BY <2>1, ProxyTable
  <2>4. back["type"] = p["type"]
    BY <1>1, <1>3, <2>2, <2>3, ProxyRead, ImportedDefaults
  <2>5. \A k \in Left : back[k] = DefaultImportedProxy[k]
    <3>1. \A k \in Left : k \notin ProxyImportKeys \cap DOMAIN table
      BY <1>5, <2>3
    <3> HIDE DEF Left
    <3> QED BY <1>3, <2>2, <3>1, ProxyRead
  <2>6. back["localPort"] \in Numerals
    <3>1. CASE "localPort" \in DOMAIN table
      <4>1. back["localPort"] = ReadAs("localPort", Written("localPort", p["localPort"]))
        BY <1>3, <2>2, <2>3, <3>1, ProxyRead, ImportedDefaults
      <4>2. "localPort" \in IntKeys \ (BoolKeys \cup ListKeys)
        BY TunnelKinds, KeysApart
      <4> QED BY <4>1, <4>2, FieldRead, ParsedIsNumeral
    <3>2. CASE "localPort" \notin DOMAIN table
      BY <1>2, <1>3, <2>2, <3>2, ProxyRead, ImportedDefaults
    <3> QED BY <3>1, <3>2
  <2> QED BY <2>4, <2>5, <2>6
<1> QED BY <1>7, <1>8

\* A range, a provider, the plugin, credentials and a fallback are lost.
LEMMA OnlyRestorable ==
  ASSUME NEW p, IsEnableProxy(p), Restored(p)
  PROVE  Restorable(p)
<1> DEFINE back == Reimported(p)
<1>1. /\ IsEnableProxy(back)
      /\ back["visitorsModel"] = "visitors" /\ back["type"] = p["type"]
      /\ ~IsRangePort(back) /\ ~PluginUsed(back) /\ back["basicAuth"] = FALSE
      /\ \A k \in Fallbacks : back[k] = DefaultImportedProxy[k]
  BY ReimportedFields, TextAssumption DEF IsEnableProxy, IsRangePort, PluginUsed
<1>2. TunnelsToToml({back}) = TunnelsToToml({p})
  BY DEF Restored
<1> HIDE DEF back
<1>3. TunnelsToToml({back}) =
         [proxies  |-> IF ~IsVisitors(back) THEN {ProxyToToml(back)} ELSE {},
          ranges   |-> {},
          visitors |-> IF IsVisitors(back) THEN {VisitorToToml(back)} ELSE {}]
  BY <1>1, OneTunnel
<1>11. TunnelsToToml({p}) =
          [proxies  |-> IF ~IsVisitors(p) /\ ~IsRangePort(p) THEN {ProxyToToml(p)} ELSE {},
           ranges   |-> IF ~IsVisitors(p) /\ IsRangePort(p) THEN {RangePortTemplate(p)}
                                                            ELSE {},
           visitors |-> IF IsVisitors(p) THEN {VisitorToToml(p)} ELSE {}]
  BY OneTunnel
<1>4. IsVisitors(p) <=> IsVisitors(back)
  <2>1. TunnelsToToml({p}).visitors = {} <=> ~IsVisitors(p)
    BY <1>11
  <2>2. TunnelsToToml({back}).visitors = {} <=> ~IsVisitors(back)
    BY <1>3
  <2> QED BY <1>2, <2>1, <2>2
<1>5. ~IsRangePort(p)
  <2>1. IsVisitors(p) => ~IsRangePort(p)
    BY DEF IsVisitors, IsRangePort
  <2>2. TunnelsToToml({p}).ranges = {} <=> ~(~IsVisitors(p) /\ IsRangePort(p))
    BY <1>11
  <2>3. TunnelsToToml({back}).ranges = {}
    BY <1>3
  <2> QED BY <1>2, <2>1, <2>2, <2>3
<1>6. p["type"] \in {"stcp", "sudp", "xtcp"} => IsVisitors(p)
  BY <1>1, <1>4 DEF IsVisitors
<1>7. ~IsVisitors(p) => ProxyToToml(back) = ProxyToToml(p)
  <2>1. ~IsVisitors(p) => /\ TunnelsToToml({p}).proxies = {ProxyToToml(p)}
                          /\ TunnelsToToml({back}).proxies = {ProxyToToml(back)}
    BY <1>3, <1>4, <1>5, <1>11
  <2> QED BY <1>2, <2>1
<1>8. ASSUME PluginUsed(p) PROVE FALSE
  <2>1. ~IsVisitors(p) /\ "plugin" \in ProxyKeys(p)
    BY <1>8 DEF PluginUsed, IsVisitors, ProxyKeys
  <2>2. "plugin" \notin ProxyKeys(back)
    BY <1>1, <1>8, ProxyFields DEF PluginUsed
  <2> QED BY <1>7, <2>1, <2>2, ProxyTable
<1>9. ASSUME p["type"] \in {"http", "https"}, p["basicAuth"] PROVE FALSE
  <2>1. ~IsVisitors(p) /\ "httpUser" \in ProxyKeys(p)
    BY <1>8, <1>9 DEF IsVisitors, ProxyKeys
  <2>2. "httpUser" \notin ProxyKeys(back)
    BY <1>1, <1>9 DEF ProxyKeys, LocationKeys
  <2> QED BY <1>7, <2>1, <2>2, ProxyTable
<1>10. ASSUME p["type"] = "xtcp", NEW k \in Fallbacks
       PROVE  Written(k, p[k]) = Written(k, DefaultImportedProxy[k])
  <2>1. IsVisitors(p) /\ IsVisitors(back)
    BY <1>4, <1>6, <1>10 DEF IsVisitors
  <2>2. VisitorToToml(back) = VisitorToToml(p)
    <3>1. /\ TunnelsToToml({p}).visitors = {VisitorToToml(p)}
          /\ TunnelsToToml({back}).visitors = {VisitorToToml(back)}
      BY <1>3, <1>11, <2>1
    <3> QED BY <1>2, <3>1
  <2>3. k \in VisitorKeys(p) /\ k \in VisitorKeys(back)
    BY <1>1, <1>10 DEF VisitorKeys, Fallbacks
  <2> QED BY <1>1, <2>2, <2>3 DEF VisitorToToml
<1> QED BY <1>5, <1>6, <1>8, <1>9, <1>10 DEF Restorable, Fallbacks

\* Exporting and importing an enabled proxy or visitor gives frpc the same if and
\* only if it is Restorable: gen_toml_config and import_toml_config agree on
\* nothing less and nothing more.
THEOREM RestoredIff ==
  ASSUME NEW p, TypedProxy(p), IsEnableProxy(p)
  PROVE  Restored(p) <=> Restorable(p)
<1>1. Restorable(p) /\ IsVisitors(p) => Restored(p)
  BY VisitorComesBack DEF TypedProxy
<1>2. Restorable(p) /\ ~IsVisitors(p) => Restored(p)
  BY ProxyComesBack
<1> QED BY <1>1, <1>2, OnlyRestorable

\* A row that was imported is of the types of its fields.
LEMMA ReimportedTyped ==
  ASSUME NEW p, TypedProxy(p)
  PROVE  TypedProxy(Reimported(p))
<1> SUFFICES ASSUME NEW back, back = Reimported(p) PROVE TypedProxy(back)
  OBVIOUS
<1> DEFINE Switches == BoolKeys \cap DOMAIN DefaultImportedProxy
<1>1. \A k \in Switches : DefaultImportedProxy[k] = FALSE
  BY TunnelKinds DEF DefaultImportedProxy, ListKeys
<1>2. \A k \in Switches : ReadAs(k, Written(k, p[k])) = p[k]
  <2>1. \A x \in BOOLEAN : TomlBool([type |-> "boolean", value |-> x]) = x
    BY DEF TomlBool
  <2> QED BY <2>1, BoolField DEF TypedProxy, BooleansOf
<1>3. /\ IsList(DefaultImportedProxy["locations"])
      /\ "locations" \in ProxyImportKeys \cap DOMAIN DefaultImportedProxy
      /\ "locations" \notin VisitorImportKeys
  <2>1. <<"">> \in Seq({""})
    OBVIOUS
  <2>2. IsList(<<"">>)
    BY <2>1, ListOf
  <2>3. "locations" \notin VisitorImportKeys
    BY DEF VisitorImportKeys, ProxyTransportKeys
  <2> QED BY <2>2, <2>3, ImportedDefaults
<1>6. Switches \subseteq DOMAIN DefaultImportedProxy
  OBVIOUS
<1>7. DOMAIN back = DOMAIN DefaultImportedProxy
  BY DEF Reimported, VisitorFromToml, ProxyFromToml, Overlay
<1>4. CASE IsVisitors(p)
  <2>1. PICK table : table = VisitorToToml(p)
    OBVIOUS
  <2>2. back = VisitorFromToml(table)
    BY <1>4, <2>1 DEF Reimported
  <2>3. \A k \in DOMAIN table : table[k] = Written(k, p[k])
    BY <2>1 DEF VisitorToToml
  <2>4. \A k \in Switches : back[k] \in BOOLEAN
    <3> SUFFICES ASSUME NEW k \in Switches PROVE back[k] \in BOOLEAN
      OBVIOUS
    <3>1. p[k] \in BOOLEAN
      BY DEF TypedProxy, BooleansOf
    <3>2. k \in DOMAIN DefaultImportedProxy
      OBVIOUS
    <3>3. back[k] = IF k \in VisitorImportKeys \cap DOMAIN table
                    THEN ReadAs(k, table[k]) ELSE DefaultImportedProxy[k]
      BY <2>2, <3>2, VisitorRead
    <3>4. back[k] = p[k] \/ back[k] = FALSE
      BY <1>1, <1>2, <2>3, <3>3
    <3> QED BY <3>1, <3>4
  <2>5. back["locations"] = DefaultImportedProxy["locations"]
    BY <1>3, <2>2, VisitorRead
  <2> QED BY <1>3, <1>7, <2>4, <2>5 DEF TypedProxy, BooleansOf
<1>5. CASE ~IsVisitors(p)
  <2>1. PICK table : table = ProxyToToml(p)
    OBVIOUS
  <2>2. back = ProxyFromToml(table)
    BY <1>5, <2>1 DEF Reimported
  <2>3. \A k \in DOMAIN table \ {"plugin"} : table[k] = Written(k, p[k])
    BY <2>1, ProxyTable
  <2>4. \A k \in Switches : back[k] \in BOOLEAN
    <3> SUFFICES ASSUME NEW k \in Switches PROVE back[k] \in BOOLEAN
      OBVIOUS
    <3>1. k # "plugin" /\ p[k] \in BOOLEAN
      BY TunnelKinds DEF TypedProxy, BooleansOf
    <3>2. k \in DOMAIN DefaultImportedProxy
      OBVIOUS
    <3>3. back[k] = IF k \in ProxyImportKeys \cap DOMAIN table
                    THEN ReadAs(k, table[k]) ELSE DefaultImportedProxy[k]
      BY <2>2, <3>2, ProxyRead
    <3>4. back[k] = p[k] \/ back[k] = FALSE
      BY <1>1, <1>2, <2>3, <3>1, <3>3
    <3> QED BY <3>1, <3>4
  <2>5. back["locations"] = IF "locations" \in DOMAIN table THEN NonEmpty(p["locations"])
                             ELSE DefaultImportedProxy["locations"]
    <3>1. ReadAs("locations", Written("locations", p["locations"])) = NonEmpty(p["locations"])
      BY ListRestored DEF TypedProxy
    <3>2. "locations" \in DOMAIN table => table["locations"] = Written("locations", p["locations"])
      BY <2>3
    <3> QED BY <1>3, <2>2, <3>1, <3>2, ProxyRead
  <2>6. IsList(NonEmpty(p["locations"]))
    BY NonEmptyTwice DEF TypedProxy
  <2> QED BY <1>3, <1>7, <2>4, <2>5, <2>6 DEF TypedProxy, BooleansOf
<1> QED BY <1>4, <1>5

\* An import settles at once: what it makes of a proxy is the same after any
\* further export and import.
THEOREM ImportSettles ==
  ASSUME NEW p, TypedProxy(p)
  PROVE  Restored(Reimported(p))
<1>1. TypedProxy(Reimported(p))
  BY ReimportedTyped
<1>2. IsEnableProxy(Reimported(p)) /\ Restorable(Reimported(p))
  BY ReimportedFields, TextAssumption
     DEF IsEnableProxy, Restorable, IsRangePort, IsVisitors, PluginUsed, Fallbacks
<1> QED BY <1>1, <1>2, RestoredIff

-----------------------------------------------------------------------------
(* The file.                                                                *)

\* What is in each part of the file.
LEMMA TunnelParts ==
  ASSUME NEW P
  PROVE  /\ TunnelsToToml(P) = [proxies  |-> TunnelsToToml(P).proxies,
                                ranges   |-> TunnelsToToml(P).ranges,
                                visitors |-> TunnelsToToml(P).visitors]
         /\ \A t : t \in TunnelsToToml(P).proxies <=>
               \E q \in P : /\ IsEnableProxy(q) /\ ~IsVisitors(q) /\ ~IsRangePort(q)
                            /\ t = ProxyToToml(q)
         /\ \A t : t \in TunnelsToToml(P).ranges <=>
               \E q \in P : /\ IsEnableProxy(q) /\ ~IsVisitors(q) /\ IsRangePort(q)
                            /\ t = RangePortTemplate(q)
         /\ \A t : t \in TunnelsToToml(P).visitors <=>
               \E q \in P : IsEnableProxy(q) /\ IsVisitors(q) /\ t = VisitorToToml(q)
<1> DEFINE E == {p \in P : IsEnableProxy(p)}
           X == {ProxyToToml(p) : p \in {q \in E : ~IsVisitors(q) /\ ~IsRangePort(q)}}
           R == {RangePortTemplate(p) : p \in {q \in E : ~IsVisitors(q) /\ IsRangePort(q)}}
           V == {VisitorToToml(p) : p \in {q \in E : IsVisitors(q)}}
<1>1. TunnelsToToml(P) = [proxies |-> X, ranges |-> R, visitors |-> V]
  BY DEF TunnelsToToml
<1>2. /\ \A t : t \in X <=> \E q \in P : /\ IsEnableProxy(q) /\ ~IsVisitors(q)
                                         /\ ~IsRangePort(q) /\ t = ProxyToToml(q)
      /\ \A t : t \in R <=> \E q \in P : /\ IsEnableProxy(q) /\ ~IsVisitors(q)
                                         /\ IsRangePort(q) /\ t = RangePortTemplate(q)
      /\ \A t : t \in V <=> \E q \in P : /\ IsEnableProxy(q) /\ IsVisitors(q)
                                         /\ t = VisitorToToml(q)
  OBVIOUS
<1> HIDE DEF X, R, V
<1>3. /\ TunnelsToToml(P).proxies = X /\ TunnelsToToml(P).ranges = R
      /\ TunnelsToToml(P).visitors = V
  BY <1>1
<1> QED BY <1>1, <1>2, <1>3

\* Each part is put together from what each proxy adds.
LEMMA TunnelsOfEach ==
  ASSUME NEW P
  PROVE  /\ \A t : t \in TunnelsToToml(P).proxies <=>
                      \E p \in P : t \in TunnelsToToml({p}).proxies
         /\ \A t : t \in TunnelsToToml(P).ranges <=>
                      \E p \in P : t \in TunnelsToToml({p}).ranges
         /\ \A t : t \in TunnelsToToml(P).visitors <=>
                      \E p \in P : t \in TunnelsToToml({p}).visitors
<1>1. ASSUME NEW p
      PROVE  /\ \A t : t \in TunnelsToToml({p}).proxies <=>
                          /\ IsEnableProxy(p) /\ ~IsVisitors(p) /\ ~IsRangePort(p)
                          /\ t = ProxyToToml(p)
             /\ \A t : t \in TunnelsToToml({p}).ranges <=>
                          /\ IsEnableProxy(p) /\ ~IsVisitors(p) /\ IsRangePort(p)
                          /\ t = RangePortTemplate(p)
             /\ \A t : t \in TunnelsToToml({p}).visitors <=>
                          IsEnableProxy(p) /\ IsVisitors(p) /\ t = VisitorToToml(p)
  BY TunnelParts
<1>2. /\ \A t : t \in TunnelsToToml(P).proxies <=>
               \E q \in P : /\ IsEnableProxy(q) /\ ~IsVisitors(q) /\ ~IsRangePort(q)
                            /\ t = ProxyToToml(q)
      /\ \A t : t \in TunnelsToToml(P).ranges <=>
               \E q \in P : /\ IsEnableProxy(q) /\ ~IsVisitors(q) /\ IsRangePort(q)
                            /\ t = RangePortTemplate(q)
      /\ \A t : t \in TunnelsToToml(P).visitors <=>
               \E q \in P : IsEnableProxy(q) /\ IsVisitors(q) /\ t = VisitorToToml(q)
  BY TunnelParts
<1> QED BY <1>1, <1>2

\* A proxy of which nothing is written adds nothing.
LEMMA DisabledAddNothing ==
  ASSUME NEW p, ~IsEnableProxy(p)
  PROVE  TunnelsToToml({p}) = [proxies |-> {}, ranges |-> {}, visitors |-> {}]
<1>1. {q \in {p} : IsEnableProxy(q)} = {}
  OBVIOUS
<1> QED BY <1>1 DEF TunnelsToToml

\* What the import makes of the tables of a file without templates: of each
\* enabled proxy the one that comes back.
LEMMA ImportedEach ==
  ASSUME NEW server, NEW P, \A p \in P : IsEnableProxy(p) => ~IsRangePort(p)
  PROVE  ImportTomlConfig(GenTomlConfig(server, P)).proxies =
            {Reimported(p) : p \in {q \in P : IsEnableProxy(q)}}
<1> DEFINE file == GenTomlConfig(server, P)
<1>1. /\ file.tunnels.proxies =
            {ProxyToToml(p) : p \in {q \in P : IsEnableProxy(q) /\ ~IsVisitors(q)}}
      /\ file.tunnels.visitors =
            {VisitorToToml(p) : p \in {q \in P : IsEnableProxy(q) /\ IsVisitors(q)}}
  BY DEF GenTomlConfig, TunnelsToToml
<1>2. ImportTomlConfig(file).proxies =
         {ProxyFromToml(t) : t \in file.tunnels.proxies}
            \cup {VisitorFromToml(t) : t \in file.tunnels.visitors}
  BY DEF ImportTomlConfig
<1> HIDE DEF file
<1> QED BY <1>1, <1>2 DEF Reimported, file

\* The whole file: if every enabled proxy is Restorable, the exported file can be
\* read again, and what was imported gives frpc the same tunnels.
THEOREM FileComesBack ==
  ASSUME NEW server, NEW P,
         \A p \in P : IsEnableProxy(p) => TypedProxy(p) /\ Restorable(p)
  PROVE  LET file == GenTomlConfig(server, P)
         IN  /\ ParsesAsToml(file)
             /\ TunnelsToToml(ImportTomlConfig(file).proxies) = TunnelsToToml(P)
<1> DEFINE E == {p \in P : IsEnableProxy(p)}
           back == {Reimported(p) : p \in E}
<1>1. \A p \in P : IsEnableProxy(p) => ~IsRangePort(p)
  BY DEF Restorable
<1>2. ParsesAsToml(GenTomlConfig(server, P))
  BY <1>1 DEF ParsesAsToml, GenTomlConfig, TunnelsToToml
<1>3. ImportTomlConfig(GenTomlConfig(server, P)).proxies = back
  BY <1>1, ImportedEach
<1>4. \A p \in E : TunnelsToToml({Reimported(p)}) = TunnelsToToml({p})
  BY RestoredIff DEF Restored
<1>5. \A p \in P \ E : /\ TunnelsToToml({p}).proxies = {}
                        /\ TunnelsToToml({p}).ranges = {}
                        /\ TunnelsToToml({p}).visitors = {}
  <2> SUFFICES ASSUME NEW p \in P \ E
               PROVE  /\ TunnelsToToml({p}).proxies = {}
                      /\ TunnelsToToml({p}).ranges = {}
                      /\ TunnelsToToml({p}).visitors = {}
    OBVIOUS
  <2>1. ~IsEnableProxy(p)
    OBVIOUS
  <2>2. TunnelsToToml({p}) = [proxies |-> {}, ranges |-> {}, visitors |-> {}]
    BY <2>1, DisabledAddNothing
  <2> QED BY <2>2
<1> DEFINE Of(p) == TunnelsToToml({p})
<1>6. /\ \A t : (\E q \in back : t \in Of(q).proxies) <=> (\E p \in P : t \in Of(p).proxies)
      /\ \A t : (\E q \in back : t \in Of(q).ranges) <=> (\E p \in P : t \in Of(p).ranges)
      /\ \A t : (\E q \in back : t \in Of(q).visitors) <=> (\E p \in P : t \in Of(p).visitors)
  <2>1. \A p \in E : Of(Reimported(p)) = Of(p)
    BY <1>4
  <2>2. \A p \in P \ E : Of(p).proxies = {} /\ Of(p).ranges = {} /\ Of(p).visitors = {}
    BY <1>5
  <2> HIDE DEF Of
  <2> QED BY <2>1, <2>2
<1>7. /\ TunnelsToToml(back).proxies = TunnelsToToml(P).proxies
      /\ TunnelsToToml(back).ranges = TunnelsToToml(P).ranges
      /\ TunnelsToToml(back).visitors = TunnelsToToml(P).visitors
  <2> HIDE DEF back
  <2>1. \A t : t \in TunnelsToToml(back).proxies <=> t \in TunnelsToToml(P).proxies
    BY <1>6, TunnelsOfEach
  <2>2. \A t : t \in TunnelsToToml(back).ranges <=> t \in TunnelsToToml(P).ranges
    BY <1>6, TunnelsOfEach
  <2>3. \A t : t \in TunnelsToToml(back).visitors <=> t \in TunnelsToToml(P).visitors
    BY <1>6, TunnelsOfEach
  <2> QED BY <2>1, <2>2, <2>3
<1>8. TunnelsToToml(back) = TunnelsToToml(P)
  <2> HIDE DEF back
  <2> QED BY <1>7, TunnelParts
<1> QED BY <1>2, <1>3, <1>8

\* What an enabled proxy adds to the file is exactly one table or template, what
\* a disabled one adds is none; and a file that opens no range of ports is one
\* that this app can read.
THEOREM OneTableEach ==
  ASSUME NEW server, NEW p
  PROVE  LET file == GenTomlConfig(server, {p})
             tables == file.tunnels
             all == tables.proxies \cup tables.ranges \cup tables.visitors
         IN  /\ IsEnableProxy(p) => \E t : all = {t}
             /\ ~IsEnableProxy(p) => all = {}
             /\ ParsesAsToml(file) <=> ~(IsEnableProxy(p) /\ IsRangePort(p))
<1>1. GenTomlConfig(server, {p}).tunnels = TunnelsToToml({p})
  BY DEF GenTomlConfig
<1>2. IsVisitors(p) => ~IsRangePort(p)
  BY DEF IsVisitors, IsRangePort
<1>3. CASE IsEnableProxy(p)
  <2>1. TunnelsToToml({p}) =
          [proxies  |-> IF ~IsVisitors(p) /\ ~IsRangePort(p) THEN {ProxyToToml(p)} ELSE {},
           ranges   |-> IF ~IsVisitors(p) /\ IsRangePort(p) THEN {RangePortTemplate(p)}
                                                            ELSE {},
           visitors |-> IF IsVisitors(p) THEN {VisitorToToml(p)} ELSE {}]
    BY <1>3, OneTunnel
  <2>2. CASE IsVisitors(p)
    <3>1. TunnelsToToml({p}) = [proxies |-> {}, ranges |-> {}, visitors |-> {VisitorToToml(p)}]
      BY <2>1, <2>2
    <3>2. ~IsRangePort(p)
      BY <1>2, <2>2
    <3> HIDE <1>2
    <3> QED BY <1>1, <1>3, <3>1, <3>2 DEF ParsesAsToml
  <2>3. CASE ~IsVisitors(p) /\ IsRangePort(p)
    <3>1. TunnelsToToml({p}) = [proxies |-> {}, ranges |-> {RangePortTemplate(p)},
                                visitors |-> {}]
      BY <2>1, <2>3
    <3> QED BY <1>1, <1>3, <2>3, <3>1 DEF ParsesAsToml
  <2>4. CASE ~IsVisitors(p) /\ ~IsRangePort(p)
    <3>1. TunnelsToToml({p}) = [proxies |-> {ProxyToToml(p)}, ranges |-> {}, visitors |-> {}]
      BY <2>1, <2>4
    <3> QED BY <1>1, <1>3, <2>4, <3>1 DEF ParsesAsToml
  <2> QED BY <2>2, <2>3, <2>4
<1>4. CASE ~IsEnableProxy(p)
  BY <1>1, <1>4, DisabledAddNothing DEF ParsesAsToml
<1> QED BY <1>3, <1>4
=============================================================================
