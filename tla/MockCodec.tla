----------------------------- MODULE MockCodec -----------------------------
(***************************************************************************)
(* How a mock becomes a document of mocks.yaml or mocks.json and back: the *)
(* encoders EncodeMock and EncodeMockJSON and the decoders DecodeMocks and *)
(* DecodeMocksJSON of pkg/platform/yaml/mockdb/util.go.                    *)
(*                                                                         *)
(* A mock is the record                                                    *)
(*   kind   - its kind;                                                    *)
(*   parts  - which members of the mock and of its spec are set;           *)
(*   paths  - the request-body paths that are noise (Spec.ReqBodyNoise);   *)
(*   type   - Metadata["type"]: "config", "connection", "mocks" or "";     *)
(*   time   - when it was recorded: "zero" when that is not set;           *)
(*   shape  - the payload whose Go type the kind alone does not fix: the   *)
(*            message of a MySQL or Mongo packet, the sub-spec of a        *)
(*            PostgresV3 mock.  "known" when the header names a type the   *)
(*            decoders list, "other" when it names another one, "nil" when *)
(*            it is not set; "reusable" is a known MySQL command that any  *)
(*            test may use.  A decoder may leave "dropped" or "raw".       *)
(* A document is the same record, read from the file.                      *)
(***************************************************************************)
EXTENDS Naturals

\* The members of a mock that do not depend on its kind.
Parts == {"metadata", "created", "request", "response", "times", "connectionID", "value"}

\* The members of the document around the spec.  The list of value regexes
\* and the noise paths share the key "noise"; the regexes of a path are
\* dropped, its name is kept.
NewDocNoise(m) == [value |-> m.parts \cap {"value"}, req |-> m.paths]

ValueNoise(noise) == noise.value

pathsToNoiseMap(paths) == paths

\* noise.req when it is there, else the key req_body_noise of older files.
ResolveReqBodyNoise(noise, legacy) ==
    IF noise.req # {} THEN pathsToNoiseMap(noise.req) ELSE pathsToNoiseMap(legacy)

Common == {"metadata", "request", "response", "times"}

-----------------------------------------------------------------------------
(* What the spec of each kind holds.                                       *)

\* The kinds whose spec is one Go struct, written as it is.
PlainSpecJSON ==
    [HTTP |-> Common \cup {"created"}, DNS |-> Common, GENERIC |-> Common,
     HTTP2 |-> Common \cup {"created"}, GRPC |-> Common]

\* The kinds that carry packets, with a struct of their own for the file.
WireSpecJSON ==
    [PostgresV2 |-> Common \cup {"created"}, Mongo |-> Common \cup {"created"},
     MySQL |-> Common \cup {"created"}, PostgresV3 |-> Common]

PlainSpec ==
    [HTTP |-> Common \cup {"created"}, DNS |-> Common, GENERIC |-> Common]

PacketSpec ==
    [PostgresV2 |-> Common \cup {"created"}, GRPC |-> Common, MySQL |-> Common \cup {"created"}]

MongoSpec == Common \cup {"created"}

FrameSpec == [HTTP2 |-> Common \cup {"created"}, PostgresV3 |-> Common]

KnownKinds == DOMAIN PlainSpecJSON \cup DOMAIN WireSpecJSON

\* A PostgresV3 mock must carry the sub-spec its type names.
validatePostgresV3Spec(m) == m.kind = "PostgresV3" => m.shape = "known"

Typed(shape) == shape \in {"known", "reusable"}

-----------------------------------------------------------------------------
(* Encoding.                                                               *)

Document(m, members) ==
    [kind |-> m.kind, parts |-> m.parts \cap (members \cup {"connectionID"}),
     noise |-> NewDocNoise(m), legacy |-> {}, shape |-> m.shape,
     type |-> m.type, time |-> m.time]

SpecJSON(kind) ==
    IF kind \in DOMAIN PlainSpecJSON THEN PlainSpecJSON[kind] ELSE WireSpecJSON[kind]

SpecYAML(kind) ==
    CASE kind \in DOMAIN PlainSpec -> PlainSpec[kind]
      [] kind \in DOMAIN PacketSpec -> PacketSpec[kind]
      [] kind = "Mongo" -> MongoSpec
      [] OTHER -> FrameSpec[kind]

\* An encoder's result is the document, or nothing when it fails.
Encode(format, m) ==
    IF m.kind \notin KnownKinds \/ ~validatePostgresV3Spec(m) THEN {}
    ELSE {Document(m, IF format = "json" THEN SpecJSON(m.kind) ELSE SpecYAML(m.kind))}

-----------------------------------------------------------------------------
(* Decoding.                                                               *)

\* The packet's message is decoded into the Go type its header names.  For a
\* header the decoder does not list the YAML path leaves the message out and
\* the JSON path keeps the generic value.
MySQLRequestYAML(shape) == IF Typed(shape) THEN shape ELSE "dropped"
MySQLResponseYAML(shape) == IF Typed(shape) THEN shape ELSE "dropped"
MongoMessageYAML(shape) == IF Typed(shape) THEN shape ELSE "dropped"
PostgresV2MessageYAML(shape) == shape
retypeMongoMessage(shape) == IF Typed(shape) THEN shape ELSE "raw"
retypeMySQLRequest(shape) == IF Typed(shape) THEN shape ELSE "raw"
retypeMySQLResponse(shape) == IF Typed(shape) THEN shape ELSE "raw"

ShapeYAML(d) ==
    CASE d.kind = "MySQL" -> {MySQLRequestYAML(d.shape), MySQLResponseYAML(d.shape)}
      [] d.kind = "Mongo" -> {MongoMessageYAML(d.shape)}
      [] d.kind = "PostgresV2" -> {PostgresV2MessageYAML(d.shape)}
      [] OTHER -> {d.shape}

ShapeJSON(d) ==
    CASE d.kind = "MySQL" -> {retypeMySQLRequest(d.shape), retypeMySQLResponse(d.shape)}
      [] d.kind = "Mongo" -> {retypeMongoMessage(d.shape)}
      [] OTHER -> {d.shape}

\* What the decoder of a kind copies into the mock.  A DNS mock always gets
\* a metadata map.
PlainMembersYAML(d) ==
    (d.parts \cap (IF d.kind = "HTTP" THEN Common \cup {"created"} ELSE Common))
    \cup (IF d.kind = "DNS" THEN {"metadata"} ELSE {})

WireMembersYAML(d) ==
    d.parts \cap (IF d.kind = "PostgresV3" THEN Common ELSE Common \cup {"created"})

PlainMembersJSON(d) ==
    (d.parts \cap (IF d.kind \in {"HTTP", "HTTP2"} THEN Common \cup {"created"} ELSE Common))
    \cup (IF d.kind = "DNS" THEN {"metadata"} ELSE {})

WireMembersJSON(d) ==
    d.parts \cap (IF d.kind = "PostgresV3" THEN Common ELSE Common \cup {"created"})

Members(format, d) ==
    IF format = "json"
    THEN IF d.kind \in DOMAIN PlainSpecJSON THEN PlainMembersJSON(d) ELSE WireMembersJSON(d)
    ELSE IF d.kind \in DOMAIN PlainSpec \cup {"GRPC"} THEN PlainMembersYAML(d) ELSE WireMembersYAML(d)

\* A kind with a dash belongs to another edition, an unknown one to another
\* version: the decoders skip both.
Skipped(d) == d.kind \notin KnownKinds

\* The mocks a document yields: none or one.
DecodeDoc(format, d) ==
    IF Skipped(d) THEN {}
    ELSE {[kind |-> d.kind,
           parts |-> Members(format, d) \cup (d.parts \cap {"connectionID"}) \cup ValueNoise(d.noise),
           paths |-> ResolveReqBodyNoise(d.noise, d.legacy),
           type |-> IF "metadata" \in Members(format, d) THEN d.type ELSE "",
           time |-> IF "times" \in Members(format, d) THEN d.time ELSE "zero",
           shape |-> s] : s \in (IF format = "json" THEN ShapeJSON(d) ELSE ShapeYAML(d))}

-----------------------------------------------------------------------------
(* The lifetime a mock gets when it is read (pkg/models/lifetime.go).       *)

mysqlIsSessionReusableCommand(m) == m.kind = "MySQL" /\ m.shape = "reusable"

kindsWithImplicitSessionLifetime ==
    {"HTTP", "HTTP2", "MySQL", "PostgresV2", "GENERIC", "DNS"}

\* The reusable command first, then the tag, then the kind: without a tag
\* always, with the tag of a per-test mock unless the window is strict.
DeriveLifetime(m, strict) ==
    CASE mysqlIsSessionReusableCommand(m) -> "session"
      [] m.type = "config" -> "session"
      [] m.type = "connection" -> IF "connectionID" \in m.parts THEN "connection" ELSE "session"
      [] m.kind \in kindsWithImplicitSessionLifetime /\ (m.type = "" \/ ~strict) -> "session"
      [] OTHER -> "perTest"
=============================================================================
