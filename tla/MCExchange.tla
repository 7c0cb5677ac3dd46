----------------------------- MODULE MCExchange -----------------------------
(***************************************************************************)
(* One exchange with a backend, in three layers with no state in common:   *)
(* Forwarding decides what crosses the proxy, AccountingStream takes the   *)
(* bytes of the answer apart, UsageParsing reads its events. A behaviour   *)
(* is one of one of the layers, while the others stay as they begin.       *)
(***************************************************************************)
EXTENDS Forwarding, AccountingStream, UsageParsing, TLC

CONSTANTS nothing, words, big, quantized, unknown

-----------------------------------------------------------------------------
(* Headers: a key, someone else's credential, or both on two lines, in the *)
(* two headers of clients; and answers with up to two Content-Types.       *)

OneEach(n, values) == IF values = <<>> THEN NoHeaders ELSE n :> values
Auth == {OneEach("authorization", a) @@ OneEach("x-api-key", x) :
           a \in {<<>>, <<"twl">>, <<"own">>, <<"own", "twl">>, <<"twl", "own">>},
           x \in {<<>>, <<"twl">>, <<"own">>, <<"own", "twl">>}}
Hops == {NoHeaders, "te" :> <<"own">>,
         "connection" :> <<{"x-hop"}, {"authorization", "accept-encoding"}>>}
Others == ("cookie" :> <<"session">>) @@ ("x-hop" :> <<"own">>) @@ ("accept-encoding" :> <<"own">>)
MCClientHeaders == {a @@ h @@ Others : a \in Auth, h \in Hops}

MCAnswers ==
  {OneEach("content-type", t) @@ p @@ c @@ ("set-cookie" :> <<"up", "up">>)
     @@ ("x-hop" :> <<"up">>) :
     t \in {<<"html">>, <<"json">>, <<"html", "json">>, <<"json", "html">>, <<>>},
     p \in {NoHeaders, "content-security-policy" :> <<"up", "up">>,
            "x-content-type-options" :> <<"up">>,
            "content-security-policy-report-only" :> <<"up">>, "x-frame-options" :> <<"up">>},
     c \in {NoHeaders, "connection" :> <<{"x-hop"}>>,
            "connection" :> <<{"content-type"}, {"content-security-policy"}>>}}

\* The second backend's key is one no header may have.
MCBackendHeaders ==
  <<"authorization" :> "key1", ("authorization" :> "illegal") @@ ("x-hop" :> "key2")>>

Body(j, s, o) == [json |-> j, stream |-> s, options |-> o]
MCBodies == {Body(j, s, o) : j \in BOOLEAN, s \in BOOLEAN,
                             o \in {"absent", "text", "other", "other-usage", "usage"}}
MCMessages == {[role |-> r, content |-> c] :
                 r \in {"system", "user", "assistant"}, c \in {<<"a">>, <<"b", "a">>, nothing}}

\* Every combination of headers, every body, and every conversation of three
\* turns
MCCases ==
  LET plain == Body(TRUE, FALSE, "absent")
      hello == [role |-> "user", content |-> <<"a">>]
      key == "authorization" :> <<"twl">>
  IN  <<[headers |-> MCClientHeaders, answers |-> MCAnswers, bodies |-> {plain},
         messages |-> {hello}, turns |-> 1, require_api_key |-> FALSE],
        [headers |-> {key}, answers |-> {NoHeaders}, bodies |-> MCBodies,
         messages |-> {hello}, turns |-> 2, require_api_key |-> TRUE],
        [headers |-> {key, NoHeaders}, answers |-> {NoHeaders}, bodies |-> {plain},
         messages |-> MCMessages, turns |-> 3, require_api_key |-> TRUE]>>

-----------------------------------------------------------------------------
(* Bytes: all responses of up to MaxReceived bytes over three symbols, in  *)
(* all ways to cut them. A line "i" reports input tokens and the model, a  *)
(* line "o" output tokens only, "io" both; other lines carry no usage.     *)
(* With their newline "i" and "o" are below the limit and "io" is exactly  *)
(* at it.                                                                  *)

MCBytes == {"i", "o", "nl"}

Content(line) == SelectSeq(line, LAMBDA b : b # NL)

MCParse(line) ==
  CASE Content(line) = <<"i">> -> [model |-> "i", input |-> 2, output |-> 0, total |-> 2]
    [] Content(line) = <<"o">> -> [model |-> Unknown, input |-> 0, output |-> 1, total |-> 1]
    [] Content(line) = <<"i", "o">> -> [model |-> "o", input |-> 1, output |-> 3, total |-> 5]
    [] OTHER -> NoUsage

MCParseBody(bytes) ==
  IF bytes # <<>> /\ Head(bytes) = "i"
  THEN [model |-> "i", input |-> Len(bytes), output |-> 0, total |-> Len(bytes)]
  ELSE NoUsage

(* Events of a broken provider: one count of any value, and pairs that     *)
(* contradict each other.                                                  *)

MCMaxInt == 9
Odd == {-1, MCMaxInt, words}

MCGarbage ==
  {[k \in {name} |-> v] :
     name \in {"input_tokens", "total_tokens", "prompt_cache_hit_tokens", "tokens_evaluated"},
     v \in Odd}
  \cup {[prompt_tokens |-> a, completion_tokens |-> b, cached_tokens |-> 3,
         tokens_cached |-> 3, tokens_predicted |-> b, tokens_evaluated |-> a,
         prompt_tokens_details |-> c] : a \in {1, MCMaxInt}, b \in {-1, MCMaxInt}, c \in {3, words}}
  \cup {[cache_read_input_tokens |-> a, input_tokens |-> b] : a \in Odd, b \in Odd}

\* Nine output tokens of the large model are beyond it.
MCMaxCost == 40

MCNames == {big, quantized}
MCBaseOf == (quantized :> big) @@ (big :> big) @@ (unknown :> unknown)
MCPrices == (big :> [input |-> 3, output |-> 5, input_cached |-> 1])
            @@ (unknown :> [input |-> 2, output |-> -1, input_cached |-> MCMaxCost + 1])

VARIABLE layer  \* "headers", "bytes" or "events"

ExchangeInit ==
  /\ layer \in {"headers", "bytes", "events"}
  /\ ForwardingInit /\ Init /\ ParsingInit
  /\ layer # "headers" => case = 1 /\ talk.endpoint = "chat"
  /\ layer # "bytes" => kind = "line"

ExchangeNext ==
  \/ layer = "headers" /\ ForwardingNext /\ UNCHANGED <<layer, vars, parsingVars>>
  \/ layer = "bytes" /\ Next /\ UNCHANGED <<layer, forwardingVars, parsingVars>>
  \/ layer = "events" /\ ParsingNext /\ UNCHANGED <<layer, forwardingVars, vars>>

ExchangeSpec == ExchangeInit /\ [][ExchangeNext]_<<layer, forwardingVars, vars, parsingVars>>
=============================================================================
