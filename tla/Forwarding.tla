----------------------------- MODULE Forwarding -----------------------------
(***************************************************************************)
(* What crosses the proxy: crates/twl-server/src/proxy/headers.rs and      *)
(* body.rs, the request and response building of proxy/mod.rs, the key     *)
(* extraction of crates/twl-auth/src/apikey.rs and the response layers of  *)
(* crates/twl-server/src/server.rs.                                        *)
(*                                                                         *)
(* A client holds a conversation, one request per turn. Each is forwarded  *)
(* to a backend, or to the next one when that cannot be reached, and the   *)
(* answer is passed back. A header map is a function from lower-case names *)
(* to the values of their lines, in order; the value of a "connection"     *)
(* line is the set of names it lists. Values are tags for where they come  *)
(* from.                                                                   *)
(***************************************************************************)
EXTENDS Naturals, Sequences, FiniteSets, SequencesExt

CONSTANTS
  Cases,           \* what is sent and how the proxy is configured, a sequence of
                   \* [headers, answers, bodies, messages, turns, require_api_key]:
                   \* the header maps clients send and backends answer with, the
                   \* request bodies [json, stream, options] (see Rewrite), the
                   \* messages [role, content], where content is text or NoText,
                   \* and the bound on the messages of a conversation
  BackendHeaders,  \* auth_headers of each backend, credential included: one value
                   \* a name (Config's OneValuePerHeader), Illegal for a key whose
                   \* bytes no header may have
  Illegal,
  Endpoints,       \* "chat", "completions" and others
  NoText, Tls,
  MaxPrefix        \* MAX_PREFIX_BYTES

VARIABLES
  case,    \* the case, which never changes
  talk,    \* the conversation: [endpoint, messages]
  hash,    \* the prefix hashes of its turns so far: [messages, value]
  client,  \* the header map of the current request
  body,    \* its body
  stage,   \* "idle", "routed", "waiting", "answered", "refused"
  tried,   \* backends tried so far
  sent,    \* what the last one tried was sent: [headers, body]
  answer   \* the headers the client gets

forwardingVars == <<case, talk, hash, client, body, stage, tried, sent, answer>>

Given == Cases[case]

Values(headers) == UNION {ToSet(headers[n]) : n \in DOMAIN headers \ {"connection"}}

\* What a backend has that can be sent
Credentials(k) == {BackendHeaders[k][n] : n \in DOMAIN BackendHeaders[k]} \ {Illegal}

\* A value's tag says where it comes from. A client puts a key of this proxy in
\* one of the headers it is looked for in, and its session in a cookie.
ASSUME ForwardingAssumption ==
  /\ Len(BackendHeaders) \in Nat /\ DOMAIN BackendHeaders = 1..Len(BackendHeaders)
  /\ \A k \in DOMAIN BackendHeaders :
       /\ Credentials(k) \cap {"twl", "session", "identity"} = {}
       /\ \A j \in DOMAIN BackendHeaders \ {k} : Credentials(j) \cap Credentials(k) = {}
  /\ \A c \in DOMAIN Cases :
       /\ Cases[c].bodies \subseteq
            [json : BOOLEAN, stream : BOOLEAN,
             options : {"absent", "text", "other", "other-usage", "usage"}]
       /\ \A h \in Cases[c].headers :
            /\ \A n \in DOMAIN h \ {"connection"} :
                 /\ "twl" \in ToSet(h[n]) => n \in {"authorization", "x-api-key"}
                 /\ "session" \in ToSet(h[n]) => n = "cookie"
            /\ \A k \in DOMAIN BackendHeaders : Values(h) \cap Credentials(k) = {}

NoHeaders == [n \in {} |-> ""]
Without(headers, names) == [n \in DOMAIN headers \ names |-> headers[n]]
\* HeaderMap::insert
Insert(headers, more) ==
  [n \in DOMAIN headers \cup DOMAIN more |-> IF n \in DOMAIN more THEN more[n] ELSE headers[n]]
\* entry(..).or_insert(..)
OrInsert(headers, more) == Insert(more, headers)

-----------------------------------------------------------------------------
(* Headers.                                                                *)

HopByHop == {"connection", "keep-alive", "proxy-authenticate", "proxy-authorization", "te",
             "trailer", "transfer-encoding", "upgrade"}

SKIP_REQUEST_HEADERS == HopByHop \cup {"host", "content-length", "cookie", "accept-encoding"}
SKIP_RESPONSE_HEADERS == HopByHop \cup {"set-cookie", "content-length"}
CLIENT_AUTH_HEADERS == {"authorization", "x-api-key"}

\* connection_header_names, of all its lines
ConnectionHeaderNames(headers) ==
  IF "connection" \in DOMAIN headers THEN UNION ToSet(headers["connection"]) ELSE {}

\* HeaderMap::get: the first line of a name
FirstLine(headers, n, value) == n \in DOMAIN headers /\ headers[n][1] = value

\* skip_headers: a name goes with all of its lines.
SkipHeaders(list, headers, extra) ==
  Without(headers, list \cup ConnectionHeaderNames(headers) \cup extra)

\* extract_client_key: a value "twl" is a key of this proxy, looked for in the
\* first line of Authorization, then of x-api-key. Validation is in Accounts;
\* here it succeeds.
KeyConsumed(headers) == \E n \in CLIENT_AUTH_HEADERS : FirstLine(headers, n, "twl")

Identity == [n \in {"accept-encoding"} |-> <<"identity">>]

\* Fault: a key that came in the other header is left.
ForwardRequestBearerOnly(headers, consumed) ==
  Insert(SkipHeaders(SKIP_REQUEST_HEADERS, headers, IF consumed THEN {"authorization"} ELSE {}),
         Identity)

\* forward_request_headers
ForwardRequestHeaders(headers, consumed) ==
  Insert(SkipHeaders(SKIP_REQUEST_HEADERS, headers, IF consumed THEN CLIENT_AUTH_HEADERS ELSE {}),
         Identity)

\* The backend's headers that are put over the request; one that is no legal
\* header is skipped with a warning.
Injected(k) ==
  [n \in {m \in DOMAIN BackendHeaders[k] : BackendHeaders[k][m] # Illegal} |->
     <<BackendHeaders[k][n]>>]

Sandbox == [n \in {"content-security-policy", "x-content-type-options", "content-disposition"} |->
              <<"proxy">>]

\* forward_response_headers: active content of an upstream is put in a sandbox.
\* What an answer is, its first Content-Type line says; all lines are passed on.
ForwardResponseHeaders(headers) ==
  IF FirstLine(headers, "content-type", "html")
    THEN Insert(SkipHeaders(SKIP_RESPONSE_HEADERS, headers,
                            DOMAIN Sandbox \cup {"content-security-policy-report-only"}), Sandbox)
    ELSE SkipHeaders(SKIP_RESPONSE_HEADERS, headers, {})

\* security_headers, and hsts_header on the TLS path
SecurityHeaders(headers) ==
  OrInsert(headers, [n \in {"x-content-type-options", "x-frame-options", "referrer-policy"}
                           \cup (IF Tls THEN {"strict-transport-security"} ELSE {}) |->
                       <<"proxy">>])

-----------------------------------------------------------------------------
(* Bodies.                                                                 *)

Tracked(endpoint) == endpoint \in {"chat", "completions"}

\* prepare_body and inject_include_usage: the usage of a stream is asked for;
\* options that are no object are replaced, others are added to ("other" is an
\* object with something else in it).
Rewrite(endpoint, b) ==
  IF b.json /\ b.stream /\ Tracked(endpoint)
    THEN [b EXCEPT !.options = IF @ \in {"other", "other-usage"} THEN "other-usage" ELSE "usage"]
    ELSE b

\* The first message of a role, if its content is text
OfRole(messages, role) == {i \in DOMAIN messages : messages[i].role = role}
HasText(messages, role) ==
  LET of == OfRole(messages, role) IN of # {} /\ messages[Min(of)].content # NoText
FirstOf(messages, role) ==
  IF HasText(messages, role) THEN messages[Min(OfRole(messages, role))].content ELSE <<>>

\* Fault: the last user message is hashed.
ComputePrefixHashLast(endpoint, messages) ==
  LET buf == FirstOf(messages, "system") \o <<"255">> \o FirstOf(Reverse(messages), "user")
  IN  IF endpoint # "chat" \/ (~HasText(messages, "system") /\ ~HasText(messages, "user"))
        THEN <<>>
        ELSE <<SubSeq(buf, 1, Min({MaxPrefix, Len(buf)}))>>

\* compute_prefix_hash, as an option; the hash is the text it is made of. A
\* completion's prompt is the first user text.
ComputePrefixHash(endpoint, messages) ==
  LET text(role) == FirstOf(messages, role)
      cut(buf) == <<SubSeq(buf, 1, Min({MaxPrefix, Len(buf)}))>>
  IN  CASE endpoint = "chat" /\ (HasText(messages, "system") \/ HasText(messages, "user")) ->
             cut(text("system") \o <<"255">> \o text("user"))
        [] endpoint = "completions" /\ HasText(messages, "user") -> cut(text("user"))
        [] OTHER -> <<>>

-----------------------------------------------------------------------------

ForwardingInit ==
  /\ case \in DOMAIN Cases
  /\ \E e \in Endpoints : talk = [endpoint |-> e, messages |-> <<>>]
  /\ hash = <<>> /\ client = NoHeaders /\ body \in Given.bodies /\ stage = "idle"
  /\ tried = 0 /\ sent = [headers |-> NoHeaders, body |-> body] /\ answer = NoHeaders

\* A turn: the client sends the conversation with one more message. The first
\* half of proxy_handler refuses it, or routes it.
Turn(message, headers, b) ==
  /\ stage = "idle" /\ Len(talk.messages) < Given.turns
  /\ talk' = [talk EXCEPT !.messages = Append(@, message)]
  /\ client' = headers /\ body' = b
  /\ tried' = 0 /\ answer' = NoHeaders
  /\ IF Given.require_api_key /\ ~KeyConsumed(headers)
       THEN stage' = "refused" /\ UNCHANGED hash
       ELSE /\ stage' = "routed"
            /\ hash' = IF ~b.json THEN hash
                       ELSE Append(hash, [messages |-> Len(talk'.messages),
                                          value |-> ComputePrefixHash(talk.endpoint,
                                                                      talk'.messages)])
  /\ UNCHANGED <<case, sent>>

\* One candidate of the loop: the request is built anew and its backend's
\* headers are put over it.
Attempt ==
  /\ stage = "routed" /\ tried < Len(BackendHeaders)
  /\ tried' = tried + 1
  /\ sent' = [headers |-> Insert(ForwardRequestHeaders(client, KeyConsumed(client)),
                                 Injected(tried')),
              body |-> Rewrite(talk.endpoint, body)]
  /\ stage' = "waiting"
  /\ UNCHANGED <<case, talk, hash, client, body, answer>>

\* The request cannot be built; no other candidate is tried.
BuildFails ==
  /\ stage = "routed" /\ tried < Len(BackendHeaders)
  /\ tried' = tried + 1 /\ stage' = "refused"
  /\ UNCHANGED <<case, talk, hash, client, body, sent, answer>>

\* The backend cannot be reached, and the next one is tried if there is one; or
\* the exchange fails in another way.
ExecuteFails ==
  /\ stage = "waiting"
  /\ stage' \in {"refused"} \cup (IF tried < Len(BackendHeaders) THEN {"routed"} ELSE {})
  /\ UNCHANGED <<case, talk, hash, client, body, tried, sent, answer>>

Respond(headers) ==
  /\ stage = "waiting"
  /\ answer' = SecurityHeaders(ForwardResponseHeaders(headers))
  /\ stage' = "answered"
  /\ UNCHANGED <<case, talk, hash, client, body, tried, sent>>

Done ==
  /\ stage \in {"answered", "refused"}
  /\ stage' = "idle"
  /\ UNCHANGED <<case, talk, hash, client, body, tried, sent, answer>>

ForwardingNext ==
  \/ \E m \in Given.messages, h \in Given.headers, b \in Given.bodies : Turn(m, h, b)
  \/ Attempt \/ BuildFails \/ ExecuteFails
  \/ \E a \in Given.answers : Respond(a)
  \/ Done

ForwardingSpec == ForwardingInit /\ [][ForwardingNext]_forwardingVars

-----------------------------------------------------------------------------

\* A backend is sent its own legal headers, each in place of all the lines the
\* client put under that name; never the dashboard's session or the credential
\* of a backend that was tried before it; and no line of a key of this proxy
\* once one was taken. A key on a further line is not looked for: it stays
\* behind with one that is found, and goes on like any other line without.
CredentialsStayApart ==
  stage = "waiting" =>
    LET looked == \A n \in CLIENT_AUTH_HEADERS \cap DOMAIN client :
                    "twl" \in ToSet(client[n]) => client[n][1] = "twl"
    IN  /\ \A n \in DOMAIN Injected(tried) : sent.headers[n] = <<BackendHeaders[tried][n]>>
        /\ "session" \notin Values(sent.headers)
        /\ KeyConsumed(client) \/ looked => "twl" \notin Values(sent.headers)
        /\ \A k \in DOMAIN BackendHeaders \ {tried} :
             Values(sent.headers) \cap Credentials(k) = {}
        /\ \/ "accept-encoding" \in DOMAIN Injected(tried)
           \/ sent.headers["accept-encoding"] = <<"identity">>

\* What belongs to one connection stays on it, also what the peer names in its
\* Connection header, unless the proxy itself has set it.
NothingHopByHop ==
  /\ stage = "waiting" =>
       LET own == DOMAIN Injected(tried) \cup {"accept-encoding"} IN
       (DOMAIN sent.headers \ own) \cap (HopByHop \cup ConnectionHeaderNames(client)) = {}
  /\ stage = "answered" => DOMAIN answer \cap (HopByHop \cup {"set-cookie"}) = {}

\* What a client gets with a first Content-Type line of a page is in the proxy's
\* sandbox, under no policy of its own, through all the layers.
ActiveContentSandboxed ==
  stage = "answered" /\ FirstLine(answer, "content-type", "html") =>
    /\ \A n \in DOMAIN Sandbox : answer[n] = <<"proxy">>
    /\ "content-security-policy-report-only" \notin DOMAIN answer

\* A streamed completion is sent with the request for its usage, which is what
\* the accounting of the stream relies on, and with nothing else changed.
UsageAskedFor ==
  stage = "waiting" =>
    /\ body.json /\ body.stream /\ Tracked(talk.endpoint) =>
         sent.body.options \in {"usage", "other-usage"}
    /\ [sent.body EXCEPT !.options = body.options] = body
    /\ body.options = "other" => sent.body.options \in {"other", "other-usage"}

\* What crosses the proxy in either direction is what should: the backend's own
\* credential and no other's, no key that was taken, nothing of one connection
\* on another, no page outside the sandbox that its first Content-Type declares,
\* and the question for the usage the accounting lives on
\* (forward_request_headers, forward_response_headers, inject_include_usage).
OnlyWhatShouldCross ==
  CredentialsStayApart /\ NothingHopByHop /\ ActiveContentSandboxed /\ UsageAskedFor

\* From the turn on in which a conversation has both its first system and its
\* first user message, all of its turns have the same hash and so the same
\* preferred backend.
ConversationKeepsHash ==
  LET settled(n) == \E i, j \in 1..n : /\ talk.messages[i].role = "system"
                                        /\ talk.messages[j].role = "user"
  IN  \A i, j \in DOMAIN hash :
        settled(hash[i].messages) /\ settled(hash[j].messages) => hash[i].value = hash[j].value
=============================================================================
