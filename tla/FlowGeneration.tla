--------------------------- MODULE FlowGeneration ---------------------------
(***************************************************************************)
(* One generation of a Blueprint by a separately installed extension: the  *)
(* request the host prepares from a declared capability, and the response  *)
(* it accepts.  Every field of the answer is either what was asked for or  *)
(* altered, and a response is told by the set of its altered fields.       *)
(***************************************************************************)
EXTENDS Naturals, FiniteSets

Native == {"v3", "v4", "v5"}

\* FlowCapability.validate_request and BlueprintRequest: exactly the declared roles and
\* values, each of its declared kind; a native schema takes neither, but a configuration.
RolesSupplied(capability, request) ==
    /\ DOMAIN request.references = DOMAIN capability.references
    /\ \A r \in DOMAIN request.references : request.references[r] = capability.references[r]
ValuesSupplied(capability, request) ==
    /\ DOMAIN request.values = DOMAIN capability.values
    /\ \A v \in DOMAIN request.values : request.values[v] \in capability.values[v]
ConfigurationSelected(request) ==
    CASE request.schema \in {"v3", "v5"} -> request.parameters = {"configuration"}
      [] request.schema = "v4" -> request.parameters = {"configuration", "verification"}
      [] OTHER -> TRUE
Prepared(capability, request) ==
    /\ request.type = capability.type /\ request.schema = capability.schema
    /\ request.schema \in Native => request.references = <<>> /\ request.values = <<>>
    /\ ConfigurationSelected(request)
    /\ RolesSupplied(capability, request) /\ ValuesSupplied(capability, request)

\* What the host process checks of the envelope, then of the output; what the SDK's own
\* decoding compares; what it compares for a native schema only.
Envelope == {"protocol", "operation", "request id", "request digest", "extension"}
Output == {"output schema", "output extension", "origin", "template", "output references", "mappings", "target", "values", "parameters"}
Decoded == {"request id", "request digest", "extension", "output extension", "origin", "template", "output schema",
            "output references", "mappings", "target", "values", "parameters"}
Pinned(schema) ==
    (IF schema \in Native THEN {"configuration"} ELSE {}) \cup (IF schema = "v4" THEN {"scenarios"} ELSE {})

StatusAgrees(response) == <<response.outcome, response.exit>> \in {<<"success", 0>>, <<"error", 1>>}
OutcomeShaped(response) == (response.outcome = "success") = response.blueprint
\* A Blueprint with unsupported findings, or needing what the target lacks, is refused.
Supported(request, response) == ~response.unsupported /\ response.needs \subseteq request.capabilities

AcceptsResponse(request, response) ==
    /\ response.altered \cap Envelope = {}
    /\ StatusAgrees(response) /\ OutcomeShaped(response)
    /\ response.blueprint =>
          /\ response.altered \cap (Decoded \cup Pinned(request.schema)) = {}
          /\ Supported(request, response)
          /\ response.altered \cap Output = {}

\* generate: the prepared request, one process under the lease, the same installation
\* afterwards, then the response.
Generate(capability, request, response) ==
    IF ~Prepared(capability, request) \/ response.reinstalled \/ ~AcceptsResponse(request, response) THEN "protocol error"
    ELSE IF response.blueprint THEN "blueprint" ELSE "generation failed"

\* The fields an answer of the schema has.
FieldsOf(schema) ==
    Envelope \cup Output \cup (IF schema \in Native THEN {"configuration"} ELSE {})
    \cup (IF schema = "v4" THEN {"scenarios"} ELSE {})

(* GenerationBound: a Blueprint is returned only for the declared roles and *)
(* values, from a process that reported success, under an unchanged         *)
(* installation, with no field of its schema altered and nothing the target *)
(* lacks; and such an answer is never refused (extension.py:125-260,        *)
(* protocol.py:468-522).                                                    *)
GenerationBound(capability, request, response) ==
    LET honest == response.altered \cap FieldsOf(request.schema) = {} /\ ~response.unsupported
                  /\ response.needs \subseteq request.capabilities
    IN (Generate(capability, request, response) = "blueprint") =
         (/\ Prepared(capability, request) /\ honest
          /\ response.blueprint /\ response.outcome = "success" /\ response.exit = 0 /\ ~response.reinstalled)
=============================================================================
