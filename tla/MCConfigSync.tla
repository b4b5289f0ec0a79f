--------------------------- MODULE MCConfigSync ---------------------------
(* Instances of ConfigSync for TLC. *)
EXTENDS ConfigSync, Integers, TLC

Symmetry == Permutations(Editors)

Texts == {"0", "3", "10", "30", "90", "500", "1500", "7000", "7200", "8080", "57400"}

ServerA == [DefaultServer EXCEPT !["serverAddr"] = "frps", !["frpcVersion"] = "v1",
                                 !["auth.method"] = "token"]
ServerB == [ServerA EXCEPT !["webServer.port"] = "7000"]
SomeServers == {ServerA, ServerB}
OneServer == {ServerA}

TcpRow == [DefaultImportedProxy EXCEPT !["name"] = "a", !["type"] = "tcp",
                                       !["localPort"] = "7000"]
TwoRows == {TcpRow}

-----------------------------------------------------------------------------
(* What FrpcToml computes, on samples.                                      *)

Row(changes) == [k \in DOMAIN DefaultImportedProxy |->
                    IF k \in DOMAIN changes THEN changes[k] ELSE DefaultImportedProxy[k]]

Kinds == {"tcp", "udp", "http", "https", "stcp", "sudp", "xtcp"}
Booleans == {"basicAuth", "https2http", "keepTunnelOpen", "transport.useEncryption"}

SampleRows ==
    {Row([type |-> t, visitorsModel |-> m, localPort |-> port, bindPort |-> bind,
          fallbackTo |-> other, locations |-> list, customDomains |-> list,
          status |-> s] @@ switches) :
        t \in Kinds, m \in {"visitors", "visitorsProvider"},
        port \in {"80", "8080", "1-2", "x"}, bind \in {None, "7000"},
        other \in {"", "other"}, list \in {<< >>, <<"">>, <<"/a", "", "/b">>},
        s \in {0, 1}, switches \in [Booleans -> BOOLEAN]}

SampleServers ==
    {[DefaultServer EXCEPT !["auth.method"] = method, !["metadatas.token"] = token,
                           !["metadatas.other"] = other, !["serverPort"] = port,
                           !["loginFailExit"] = exit, !["transport.tcpMux"] = mux] :
        method \in {"", "none", "token"}, token \in {None, "", "t"},
        other \in {None, "o"}, port \in {"0", "7000"}, exit \in BOOLEAN,
        mux \in BOOLEAN}

\* Exporting and importing a proxy gives frpc the same if and only if the
\* proxy is Restorable.
ASSUME ImportRestores ==
    \A p \in SampleRows : IsEnableProxy(p) => (Restored(p) <=> Restorable(p))

\* The same for the configuration.
ASSUME ImportRestoresServer ==
    \A row \in SampleServers : ServerRestored(row) <=> ServerRestorable(row)

\* A disabled proxy opens nothing, an enabled one exactly one table, and the
\* file is one that this app can read unless it opens a range of ports.
ASSUME OneTableEach ==
    \A p \in SampleRows :
        LET file == GenTomlConfig(ServerA, {p})
            tables == file.tunnels
            count == [part \in DOMAIN tables |-> IF tables[part] = {} THEN 0 ELSE 1]
        IN  /\ count.proxies + count.ranges + count.visitors = p["status"]
            /\ ParsesAsToml(file) <=> ~(IsEnableProxy(p) /\ IsRangePort(p))

\* An import settles at once: what it makes of a proxy comes back.
ASSUME ImportSettles == \A p \in SampleRows : Restored(Reimported(p))

\* The loop over the locations filters them.
ASSUME NonEmptyFilters ==
    \A p \in SampleRows :
        NonEmpty(p["locations"]) = SelectSeq(p["locations"], LAMBDA s : s # "")
===========================================================================
