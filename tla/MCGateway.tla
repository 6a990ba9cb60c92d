----------------------------- MODULE MCGateway -----------------------------
(* Gateway for TLC: model names that meet every branch of parse_routed_model. *)
EXTENDS Gateway, TLC

CONSTANTS c1, c2

Cz == [left |-> "cz", right |-> "auto"]
Cursor == [left |-> "cursor", right |-> "auto"]
\* Names that are routed elsewhere, or not at all: no colon, an unknown left
\* side, an empty right side.
Others == {[left |-> "byo", right |-> "m"], [left |-> "mock", right |-> "m"],
           [left |-> "claude", right |-> "m"], [left |-> "", right |-> "auto"],
           [left |-> "nobody", right |-> "m"], [left |-> "mock", right |-> ""]}

\* One client that routes to Cursor by two of its names, one that may use any.
TwoClients == [c \in {c1, c2} |-> IF c = c1 THEN {Cz, Cursor} ELSE {Cursor} \cup Others]

\* Errors that say nothing of interest, or all that openai_http_exception looks for.
AnyTexts == {{}, {"no tools", "HTTP 401", "Missing"}, {"upstream", "upstream first"}}

\* "Upstream errors map to cz_upstream_<status>; timeouts to 504 cz_upstream_timeout"
\* (docs/recipes/backend-openai-compat.md:55), in an answer that is not streamed.
UpstreamErrorsHaveCodes ==
    \A c \in Conversations :
        pc[c] = "over" /\ ~req[c].stream /\ cause[c] \in {"upstream", "timeout"} =>
            answer[c].code \in UpstreamCodes

\* A streamed answer that fails carries the code the recipe promises: "Upstream
\* errors map to cz_upstream_<status>; timeouts to 504 cz_upstream_timeout"
\* (docs/recipes/backend-openai-compat.md:55).
StreamErrorsHaveCodes ==
    \A c \in Conversations :
        pc[c] = "over" /\ cause[c] = "timeout" => answer[c].code = "cz_upstream_timeout"

\* Each line before [DONE] is a chunk of a completion or an error: it has
\* choices, as _stream_response's own reader of them expects.
LinesAreChunks ==
    \A c \in Conversations : \A i \in DOMAIN out[c] : out[c][i] # "id"

\* One driver per backend and process: what the table of drivers is for.
OneDriverPerName == \A b \in Backends : built[b] <= 1
=============================================================================
