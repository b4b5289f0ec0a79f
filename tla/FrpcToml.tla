------------------------------ MODULE FrpcToml ------------------------------
(***************************************************************************)
(* The frpc.toml the app writes and the one it reads: gen_toml_config and  *)
(* import_toml_config of ServerService, as functions on data.              *)
(*                                                                         *)
(* A stored configuration, a proxy and a TOML table are functions from     *)
(* keys to values.  The names of the stored fields are those of the TOML   *)
(* keys, and a key of a nested table is written with its path              *)
(* ("log.level").  A number is its decimal text, so that the port fields   *)
(* of a proxy, which are texts, need no second representation; a number    *)
(* has one such text.  The order of the tables in a list is left out.      *)
(***************************************************************************)
EXTENDS Naturals, Sequences

CONSTANTS
    Numerals,  \* the texts that parse as an i64
    Ranges,    \* the texts that list or span ports: they have a comma or a dash
    None       \* an Option that is None, a JSON null

ASSUME TextAssumption ==
    /\ {"0", "3", "10", "30", "90", "500", "1500", "7000", "7200", "8080",
        "57400"} \subseteq Numerals
    /\ Numerals \cap Ranges = {}
    /\ "" \notin Numerals \cup Ranges
    /\ None \notin Numerals \cup {""}

-----------------------------------------------------------------------------
(* Values of TOML and their conversions.                                    *)

\* str::parse::<i64>().unwrap_or(0)
Parse(text) == IF text \in Numerals THEN text ELSE "0"

TomlStr(v) ==
    CASE v.type = "string" -> v.value
      [] v.type = "integer" -> v.value
      [] v.type = "boolean" -> IF v.value THEN "true" ELSE "false"
      [] OTHER -> ""

TomlI64(v) ==
    CASE v.type = "integer" -> v.value
      [] v.type = "string" -> Parse(v.value)
      [] OTHER -> "0"

TomlBool(v) ==
    CASE v.type = "boolean" -> v.value
      [] v.type = "integer" -> v.value # "0"
      [] v.type = "string" -> v.value = "true"
      [] OTHER -> FALSE

TomlStringArray(v) ==
    IF v.type = "array" THEN [n \in DOMAIN v.value |-> TomlStr(v.value[n])]
                        ELSE <<"">>

\* What the fields hold.
TransportInts == {"transport.dialServerTimeout", "transport.dialServerKeepalive",
                  "transport.poolCount", "transport.tcpMuxKeepaliveInterval",
                  "transport.heartbeatInterval", "transport.heartbeatTimeout"}
TransportBools == {"transport.tcpMux", "transport.tls.enable",
                   "transport.tls.disableCustomTLSFirstByte"}
TransportTexts == {"transport.protocol", "transport.connectServerLocalIP",
                   "transport.proxyURL", "transport.tls.certFile",
                   "transport.tls.keyFile", "transport.tls.trustedCaFile",
                   "transport.tls.serverName"}
TransportKeys == TransportInts \cup TransportBools \cup TransportTexts

IntKeys == TransportInts \cup
    {"serverPort", "udpPacketSize", "log.maxDays", "webServer.port",
     "localPort", "remotePort", "bindPort", "fallbackTimeoutMs"}

BoolKeys == TransportBools \cup
    {"loginFailExit", "log.disablePrintColor", "webServer.pprofEnable",
     "keepTunnelOpen", "transport.useEncryption", "transport.useCompression"}

ListKeys == {"customDomains", "locations"}

\* The texts that are not empty, in their order.
AddNonEmpty(kept, text) == IF text = "" THEN kept ELSE Append(kept, text)

NonEmpty(texts) ==
    LET kept[n \in 0 .. Len(texts)] ==
            IF n = 0 THEN << >> ELSE AddNonEmpty(kept[n - 1], texts[n])
    IN  kept[Len(texts)]

String(x) == [type |-> "string", value |-> x]

\* The field k as it is written.
Written(k, x) ==
    CASE k \in IntKeys -> [type |-> "integer", value |-> Parse(x)]
      [] k \in BoolKeys -> [type |-> "boolean", value |-> x]
      [] k = "customDomains" ->
            [type |-> "array", value |-> [n \in DOMAIN x |-> String(x[n])]]
      [] k = "locations" ->
            LET kept == NonEmpty(x) IN
            [type |-> "array", value |-> [n \in DOMAIN kept |-> String(kept[n])]]
      [] OTHER -> String(x)

\* The field k as it is read.
ReadAs(k, v) ==
    CASE k \in IntKeys -> TomlI64(v)
      [] k \in BoolKeys -> TomlBool(v)
      [] k \in ListKeys -> TomlStringArray(v)
      [] OTHER -> TomlStr(v)

\* The defaults, overlaid with those of the keys that the table has.
Overlay(default, table, keys) ==
    [k \in DOMAIN default |->
        IF k \in keys \cap DOMAIN table THEN ReadAs(k, table[k]) ELSE default[k]]

-----------------------------------------------------------------------------
(* The server configuration.                                                *)

AuthKeys == {"auth.method", "auth.token"}

CopiedKeys ==
    TransportKeys \cup
    {"user", "serverAddr", "serverPort", "udpPacketSize", "log.level",
     "log.maxDays", "log.disablePrintColor", "webServer.port",
     "webServer.user", "webServer.password", "webServer.pprofEnable"}

\* What the file says whatever is stored.
ForcedKeys == {"loginFailExit", "log.to", "webServer.addr"}

\* "metadatas.other" stands for the entries beside the token.
MetadataKeys == {"metadatas.token", "metadatas.other"}

\* Settings of the desktop app, which frpc does not know.
DesktopKeys == {"frpcVersion", "system"}

ServerKeys == CopiedKeys \cup ForcedKeys \cup AuthKeys \cup MetadataKeys
                \cup DesktopKeys

DefaultServer ==
    [k \in ServerKeys |->
        CASE k = "serverPort" -> "7000"
          [] k = "udpPacketSize" -> "1500"
          [] k = "log.level" -> "info"
          [] k = "log.maxDays" -> "3"
          [] k = "webServer.addr" -> "127.0.0.1"
          [] k = "webServer.port" -> "57400"
          [] k = "transport.dialServerTimeout" -> "10"
          [] k = "transport.dialServerKeepalive" -> "7200"
          [] k = "transport.poolCount" -> "0"
          [] k \in {"transport.tcpMuxKeepaliveInterval",
                    "transport.heartbeatInterval"} -> "30"
          [] k = "transport.heartbeatTimeout" -> "90"
          [] k = "transport.protocol" -> "tcp"
          [] k \in TransportBools -> TRUE
          [] k \in {"loginFailExit", "log.disablePrintColor",
                    "webServer.pprofEnable"} -> FALSE
          [] k \in {"frpcVersion", "metadatas.other"} -> None
          [] k = "system" -> "default"
          [] OTHER -> ""]

\* "omit when method == "none""
AuthWritten(server) == IF server["auth.method"] = "none" THEN {} ELSE AuthKeys

CommonToToml(server) ==
    [k \in CopiedKeys \cup ForcedKeys \cup AuthWritten(server)
             \cup {m \in MetadataKeys : server[m] # None} |->
        CASE k = "loginFailExit" -> Written(k, FALSE)
          [] k = "log.to" -> String("frpc.log")
          [] k = "webServer.addr" -> String("127.0.0.1")
          [] OTHER -> Written(k, server[k])]

\* Of the metadatas only the token is read.
ServerFromToml(common) ==
    Overlay(DefaultServer, common,
            CopiedKeys \cup ForcedKeys \cup AuthKeys \cup {"metadatas.token"})

-----------------------------------------------------------------------------
(* Proxies and visitors.                                                    *)

IsEnableProxy(p) == p["status"] = 1

IsVisitors(p) == /\ p["type"] \in {"stcp", "sudp", "xtcp"}
                 /\ p["visitorsModel"] = "visitors"

IsRangePort(p) == p["type"] \in {"tcp", "udp"} /\ p["localPort"] \in Ranges

ProxyTransportKeys == {"transport.useEncryption", "transport.useCompression",
                       "transport.proxyProtocolVersion"}

LocationKeys(p) == IF NonEmpty(p["locations"]) = << >> THEN {} ELSE {"locations"}

PluginUsed(p) == p["type"] = "https" /\ p["https2http"]

ProxyKeys(p) ==
    {"name", "type"} \cup
    CASE p["type"] \in {"tcp", "udp"} ->
            {"localIP", "localPort", "remotePort"} \cup ProxyTransportKeys
      [] PluginUsed(p) ->
            {"customDomains", "subdomain", "plugin"} \cup LocationKeys(p)
      [] p["type"] \in {"http", "https"} /\ ~PluginUsed(p) ->
            {"localIP", "localPort", "customDomains", "subdomain"}
                \cup LocationKeys(p)
                \cup IF p["basicAuth"] THEN {"httpUser", "httpPassword"} ELSE {}
      [] p["type"] \in {"stcp", "xtcp", "sudp"} ->
            {"localIP", "localPort", "secretKey"}
      [] OTHER -> {}

\* The https2http plugin: where it forwards to, and its certificate.
Plugin(p) ==
    [type |-> "table",
     value |-> <<p["localIP"], p["localPort"], p["https2httpCaFile"],
                 p["https2httpKeyFile"]>>]

ProxyToToml(p) ==
    [k \in ProxyKeys(p) |-> IF k = "plugin" THEN Plugin(p) ELSE Written(k, p[k])]

VisitorKeys(p) ==
    {"name", "type", "serverName", "secretKey", "bindAddr"}
        \cup (IF p["bindPort"] = None THEN {} ELSE {"bindPort"})
        \cup (IF p["serverUser"] = "" THEN {} ELSE {"serverUser"})
        \cup (IF p["type"] = "xtcp"
              THEN {"keepTunnelOpen", "fallbackTo", "fallbackTimeoutMs"} ELSE {})

VisitorToToml(p) == [k \in VisitorKeys(p) |-> Written(k, p[k])]

\* A Go template, which frpc expands to one proxy for each port: the texts of
\* the fields, unquoted and unparsed.
RangePortTemplate(p) ==
    [k \in {"name", "type", "localIP", "localPort", "remotePort"} |-> p[k]]

DefaultImportedProxy ==
    [k \in ProxyTransportKeys \cup
           {"name", "type", "localIP", "localPort", "remotePort",
            "customDomains", "locations", "hostHeaderRewrite", "visitorsModel",
            "serverUser", "serverName", "secretKey", "bindAddr", "bindPort",
            "subdomain", "basicAuth", "httpUser", "httpPassword", "fallbackTo",
            "fallbackTimeoutMs", "https2http", "https2httpCaFile",
            "https2httpKeyFile", "keepTunnelOpen", "status"} |->
        CASE k = "type" -> "http"
          [] k \in {"localPort", "remotePort"} -> "8080"
          [] k \in ListKeys -> <<"">>
          [] k = "visitorsModel" -> "visitors"
          [] k = "bindPort" -> None
          [] k = "fallbackTimeoutMs" -> "500"
          [] k \in {"basicAuth", "https2http", "keepTunnelOpen",
                    "transport.useEncryption", "transport.useCompression"} -> FALSE
          [] k = "status" -> 1
          [] OTHER -> ""]

\* The keys of a table of [[proxies]] that are read.  The plugin is not.
ProxyImportKeys ==
    ProxyTransportKeys \cup
    {"name", "type", "localIP", "localPort", "remotePort", "customDomains",
     "subdomain", "locations", "hostHeaderRewrite", "httpUser", "httpPassword",
     "serverName", "serverUser", "secretKey", "bindAddr", "bindPort",
     "fallbackTo", "fallbackTimeoutMs", "keepTunnelOpen"}

ProxyFromToml(table) == Overlay(DefaultImportedProxy, table, ProxyImportKeys)

VisitorImportKeys ==
    ProxyTransportKeys \cup
    {"name", "type", "serverName", "serverUser", "secretKey", "bindAddr",
     "bindPort"}

VisitorFromToml(table) == Overlay(DefaultImportedProxy, table, VisitorImportKeys)

-----------------------------------------------------------------------------
(* The file.                                                                *)

TunnelsToToml(proxies) ==
    LET enabled == {p \in proxies : IsEnableProxy(p)} IN
    [proxies  |-> {ProxyToToml(p) : p \in
                    {q \in enabled : ~IsVisitors(q) /\ ~IsRangePort(q)}},
     ranges   |-> {RangePortTemplate(p) : p \in
                    {q \in enabled : ~IsVisitors(q) /\ IsRangePort(q)}},
     visitors |-> {VisitorToToml(p) : p \in {q \in enabled : IsVisitors(q)}}]

GenTomlConfig(server, proxies) ==
    [common |-> CommonToToml(server), tunnels |-> TunnelsToToml(proxies)]

\* toml::from_str: a template is no TOML, and the whole file is refused.
ParsesAsToml(file) == file.tunnels.ranges = {}

\* Faulty variant: every table is read as one of a visitor.
ImportAllAsVisitors(file) ==
    [server  |-> ServerFromToml(file.common),
     proxies |-> {VisitorFromToml(t) : t \in file.tunnels.proxies
                                               \cup file.tunnels.visitors}]

\* The configuration that import_toml_config saves and the proxies it hands to
\* insert_many.
ImportTomlConfig(file) ==
    [server  |-> ServerFromToml(file.common),
     proxies |-> {ProxyFromToml(t) : t \in file.tunnels.proxies}
                    \cup {VisitorFromToml(t) : t \in file.tunnels.visitors}]

-----------------------------------------------------------------------------
(* What an export and an import restore: statements about data, which       *)
(* ConfigSync makes of its rows and FrpcToml_proofs proves for all rows.    *)

\* The proxy that comes back when p is exported and imported.
Reimported(p) ==
    IF IsVisitors(p) THEN VisitorFromToml(VisitorToToml(p))
                     ELSE ProxyFromToml(ProxyToToml(p))

\* frpc gets the same from it.
Restored(p) == TunnelsToToml({Reimported(p)}) = TunnelsToToml({p})

\* The enabled proxies for which that is so.  A template is not read at all; a
\* provider of stcp, sudp or xtcp comes back as a visitor; the plugin, the
\* credentials and the fallback of xtcp are written and not read.
Restorable(p) ==
    /\ ~IsRangePort(p)
    /\ p["type"] \in {"stcp", "sudp", "xtcp"} => IsVisitors(p)
    /\ ~PluginUsed(p)
    /\ p["type"] \in {"http", "https"} => ~p["basicAuth"]
    /\ p["type"] = "xtcp" =>
          \A k \in {"keepTunnelOpen", "fallbackTo", "fallbackTimeoutMs"} :
              Written(k, p[k]) = Written(k, DefaultImportedProxy[k])

\* The same for the configuration.
ServerRestored(server) ==
    CommonToToml(ServerFromToml(CommonToToml(server))) = CommonToToml(server)

\* Without a method the defaults come back, of which the method is "" and not
\* "none"; a missing token comes back empty; other metadatas are lost.
ServerRestorable(server) ==
    /\ server["auth.method"] # "none"
    /\ server["metadatas.token"] # None
    /\ server["metadatas.other"] = None

\* What the type FrpcProxy says of a row's fields that are not texts.
BooleansOf(default, row) ==
    \A k \in BoolKeys \cap DOMAIN default : row[k] \in BOOLEAN

IsList(x) == x \in Seq({x[n] : n \in DOMAIN x})

TypedProxy(p) == /\ DOMAIN DefaultImportedProxy \subseteq DOMAIN p
                 /\ BooleansOf(DefaultImportedProxy, p)
                 /\ IsList(p["locations"])
=============================================================================
