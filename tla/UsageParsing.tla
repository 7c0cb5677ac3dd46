---------------------------- MODULE UsageParsing ----------------------------
(***************************************************************************)
(* From the provider's answer to the price on the dashboard:               *)
(* crates/twl-provider/src/usage.rs, accumulate_usage and                  *)
(* finalize_buffered_usage of crates/twl-server/src/proxy/stream.rs, and   *)
(* crates/twl-pricing/src/lib.rs.                                          *)
(*                                                                         *)
(* A provider of one of the dialects the parser knows generates tokens,    *)
(* reports them in its own way and may be cut off at any event; a broken   *)
(* one sends any numbers. A JSON object is a function from the names it    *)
(* has to numbers, or to Text for a value that is no integer. i64 is       *)
(* scaled down to MaxInt, and the largest f64 to MaxCost.                  *)
(***************************************************************************)
EXTENDS Integers, Sequences, FiniteSets, SequencesExt

CONSTANTS
  Text,        \* a JSON value that is no integer
  MaxInt,      \* i64::MAX, scaled
  MaxPrompt,   \* bound on each kind of input a well-behaved provider counts
  MaxOutput,   \* bound on the output tokens
  Garbage,     \* the objects a broken provider sends
  Names,       \* model names
  Unnamed,     \* the name "unknown"
  BaseOf,      \* model name |-> the name without its quantization suffix
  Prices,      \* model name |-> [input, output, input_cached]
  MaxCost,     \* f64::MAX, scaled: what is larger is not finite
  MaxRows      \* bound on the responses

VARIABLES
  dialect,  \* of the response that is read
  truth,    \* what the provider has counted: [fresh, creation, read, output]
  reading,  \* "idle", "open", "broken" or "ended" (its last event is read)
  counted,  \* UsageRecorder.usage, as an option
  rows      \* what was recorded: [usage, phase, dialect, truth]

parsingVars == <<dialect, truth, reading, counted, rows>>

None == <<>>
Some(x) == <<x>>
Or(option, default) == IF option = None THEN default ELSE option[1]
Larger(a, b) == IF a >= b THEN a ELSE b
Smaller(a, b) == IF a <= b THEN a ELSE b
\* .max(0)
Pos(n) == Larger(n, 0)

\* An i64, and a JSON object
I64 == -(MaxInt + 1)..MaxInt
IsObject(o) == \A k \in DOMAIN o : o[k] \in I64 \cup {Text}

\* What a provider that is not broken counts fits an i64; serde_json gives
\* integers of that width or none.
ASSUME UsageParsingAssumption ==
  /\ Text \notin Int
  /\ MaxInt \in Nat /\ MaxPrompt \in Nat /\ MaxOutput \in Nat
  /\ 3 * MaxPrompt + MaxOutput <= MaxInt
  /\ \A o \in Garbage : IsObject(o)
  /\ \A n \in DOMAIN Prices : \A f \in {"input", "output", "input_cached"} :
       Prices[n][f] \in Int
  /\ MaxCost \in Nat

\* saturating_add
Add(a, b) == Smaller(a + b, MaxInt)

-----------------------------------------------------------------------------
(* Parsing. The "usage" and the "model" of an answer are in a container:   *)
(* [model, has, usage] is the name it gives, whether the key "usage" is    *)
(* there, and the object it holds, which is None for null. An event is     *)
(* three of them, the top-level counts of native dialects, the stop flag   *)
(* of llama.cpp, and whether the endpoint is one that generates nothing.   *)

AsI64(o, k) == IF k \in DOMAIN o /\ o[k] # Text THEN Some(o[k]) ELSE None

\* The first key that holds an integer
Num(o, keys) ==
  LET hits == {i \in DOMAIN keys : AsI64(o, keys[i]) # None}
  IN  IF hits = {} THEN None ELSE AsI64(o, keys[Min(hits)])

\* prompt_tokens_details.cached_tokens, here the number itself; the other name is
\* only looked at when the first is not there.
NestedCached(o) ==
  IF "prompt_tokens_details" \in DOMAIN o THEN AsI64(o, "prompt_tokens_details")
  ELSE AsI64(o, "input_tokens_details")

Recognized == <<"prompt_tokens", "input_tokens", "completion_tokens", "output_tokens",
                "total_tokens", "cache_creation_input_tokens", "cache_read_input_tokens",
                "prompt_cache_hit_tokens">>

\* Fault: Anthropic's cached input is not added to the fresh one.
PromptFreshOnly(o, base) == base

\* Anthropic reports cached input beside the fresh input, others within it.
PromptOf(o, base) ==
  Add(Add(base, Pos(Or(AsI64(o, "cache_creation_input_tokens"), 0))),
      Pos(Or(AsI64(o, "cache_read_input_tokens"), 0)))

\* Fault: what the provider says is cached is taken as it is.
CachedUnclamped(o, prompt) ==
  IF DOMAIN o \cap {"cache_creation_input_tokens", "cache_read_input_tokens"} # {}
    THEN Or(AsI64(o, "cache_read_input_tokens"), 0)
    ELSE Or(NestedCached(o), Or(AsI64(o, "prompt_cache_hit_tokens"), 0))

CachedOf(o, prompt) ==
  Smaller(Pos(IF DOMAIN o \cap {"cache_creation_input_tokens", "cache_read_input_tokens"} # {}
                THEN Pos(Or(AsI64(o, "cache_read_input_tokens"), 0))
                ELSE Or(NestedCached(o), Or(AsI64(o, "prompt_cache_hit_tokens"), 0))),
          prompt)

\* usage_from_openai; a rerank response has a total and nothing else.
UsageFromOpenai(o, model, rerank) ==
  LET rawPrompt == Num(o, <<"prompt_tokens", "input_tokens">>)
      rawCompletion == Num(o, <<"completion_tokens", "output_tokens">>)
      rawTotal == AsI64(o, "total_tokens")
      totalOnly == IF rerank /\ rawPrompt = None /\ rawCompletion = None
                     THEN Pos(Or(rawTotal, 0)) ELSE 0
      prompt == PromptOf(o, Pos(Or(rawPrompt, totalOnly)))
      completion == Pos(Or(rawCompletion, 0))
      total == IF rawTotal # None /\ rawTotal[1] > 0 THEN rawTotal[1]
               ELSE IF rawTotal = Some(0) /\ prompt = 0 /\ completion = 0 THEN 0
               ELSE Add(prompt, completion)
  IN  IF Num(o, Recognized) = None /\ NestedCached(o) = None THEN None
      ELSE Some([model |-> model, input |-> prompt, output |-> completion,
                 cached |-> CachedOf(o, prompt), total |-> total])

\* usage_from_counts
UsageFromCounts(o, promptKey, completionKey, cachedKey, model) ==
  LET prompt == Pos(Or(AsI64(o, promptKey), 0))
      completion == Pos(Or(AsI64(o, completionKey), 0))
  IN  IF AsI64(o, promptKey) = None /\ AsI64(o, completionKey) = None THEN None
      ELSE Some([model |-> model, input |-> prompt, output |-> completion,
                 cached |-> Smaller(Pos(Or(AsI64(o, cachedKey), 0)), prompt),
                 total |-> Add(prompt, completion)])

\* The container: a streamed Responses "response", or an Anthropic "message", if
\* it has the key "usage", be it null; else the object itself.
Root(e) ==
  IF e.response.has THEN e.response
  ELSE IF e.message.has THEN e.message
  ELSE e.top

\* extract_usage, with usage_from_llamacpp and usage_from_ollama. The model is
\* the container's, else the request's, which is Unnamed if it names none.
ExtractUsage(e, reqModel) ==
  LET root == Root(e)
      model == Or(root.model, reqModel)
  IN  IF root.usage # None THEN UsageFromOpenai(root.usage[1], model, e.rerank)
      ELSE IF e.stop
        THEN UsageFromCounts(e.native, "tokens_evaluated", "tokens_predicted", "tokens_cached",
                             model)
      ELSE IF DOMAIN e.native \cap {"prompt_eval_count", "eval_count"} # {}
        THEN UsageFromCounts(e.native, "prompt_eval_count", "eval_count", "-", model)
      ELSE None

PromptKeys == <<"prompt_tokens", "input_tokens", "tokens_evaluated", "prompt_eval_count",
                "prompt_token_count">>
CompletionKeys == <<"completion_tokens", "output_tokens", "tokens_predicted", "eval_count",
                    "completion_token_count", "candidates_token_count">>
TotalKeys == <<"total_tokens", "total_token_count">>
CachedKeys == <<"cached_tokens", "tokens_cached", "cache_read_input_tokens">>

\* scavenge_usage: the first object, in the order of the search, with a count
ScavengeUsage(objects, model) ==
  LET prompt(o) == Num(o, PromptKeys)
      completion(o) == Num(o, CompletionKeys)
      total(o) == Num(o, TotalKeys)
      hits == {i \in DOMAIN objects :
                 prompt(objects[i]) # None \/ completion(objects[i]) # None
                 \/ total(objects[i]) # None}
      o == objects[Min(hits)]
      in == Pos(Or(prompt(o), 0))
      out == Pos(Or(completion(o), 0))
      cached == Or(Num(o, CachedKeys), Or(NestedCached(o), 0))
  IN  IF hits = {} THEN None
      ELSE Some([model |-> model, input |-> in, output |-> out,
                 cached |-> Smaller(Pos(cached), in),
                 total |-> IF Pos(Or(total(o), 0)) > 0 THEN Pos(Or(total(o), 0))
                           ELSE Add(in, out)])

\* finalize_buffered_usage: the known shapes, then the search, which takes the
\* first name it finds; here that is the top one's.
Finalize(e, objects, reqModel) ==
  LET known == ExtractUsage(e, reqModel)
  IN  IF known # None THEN known ELSE ScavengeUsage(objects, Or(e.top.model, reqModel))

\* accumulate_usage: every count is the running total, so the largest is kept.
AccumulateUsage(current, next) ==
  IF next = None THEN current
  ELSE IF current = None THEN next
  ELSE LET c == current[1]
           n == next[1]
           in == Larger(c.input, n.input)
           out == Larger(c.output, n.output)
       IN  Some([model |-> IF c.model = Unnamed THEN n.model ELSE c.model,
                 input |-> in, output |-> out, cached |-> Larger(c.cached, n.cached),
                 total |-> Larger(Larger(c.total, n.total), Add(in, out))])

-----------------------------------------------------------------------------
(* Providers.                                                              *)

Dialects == {"openai", "vllm", "deepseek", "responses", "anthropic", "llamacpp", "ollama",
             "rerank"}

Empty == [model |-> None, has |-> FALSE, usage |-> None]
Holding(usage) == [model |-> None, has |-> TRUE, usage |-> usage]
Event(response, message, top, native, stop, rerank) ==
  [response |-> response, message |-> message, top |-> top, native |-> native, stop |-> stop,
   rerank |-> rerank]
NoCounts == [k \in {} |-> 0]
NoEvent == Event(Empty, Empty, Empty, NoCounts, FALSE, FALSE)
Native(o, stop) == Event(Empty, Empty, Empty, o, stop, FALSE)
\* An event with one container
Within(wrap, container, rerank) ==
  LET at(w) == IF w = wrap THEN container ELSE Empty
  IN  Event(at("response"), at("message"), at("top"), NoCounts, FALSE, rerank)
WithUsage(wrap, o) == Within(wrap, Holding(Some(o)), FALSE)
NullUsage(wrap) == Within(wrap, Holding(None), FALSE)
All(t) == t.fresh + t.creation + t.read

\* What a provider sends at the start, after each token, and at the end. OpenAI
\* and the Responses API send "usage": null until there is one.
FirstEvent(d, t) ==
  CASE d = "anthropic" ->
         WithUsage("message", [input_tokens |-> t.fresh,
                               cache_creation_input_tokens |-> t.creation,
                               cache_read_input_tokens |-> t.read])
    [] d = "responses" -> NullUsage("response")
    [] OTHER -> NoEvent

TokenEvent(d, t) ==
  CASE d = "vllm" -> WithUsage("top", [prompt_tokens |-> All(t), completion_tokens |-> t.output,
                                       total_tokens |-> All(t) + t.output])
    [] d = "llamacpp" -> Native([tokens_predicted |-> t.output], FALSE)
    [] d = "openai" -> NullUsage("top")
    [] OTHER -> NoEvent

LastEvent(d, t) ==
  CASE d \in {"openai", "vllm"} ->
         WithUsage("top", [prompt_tokens |-> All(t), completion_tokens |-> t.output,
                           total_tokens |-> All(t) + t.output,
                           prompt_tokens_details |-> t.read])
    [] d = "deepseek" ->
         WithUsage("top", [prompt_tokens |-> All(t), completion_tokens |-> t.output,
                           prompt_cache_hit_tokens |-> t.read])
    [] d = "responses" ->
         WithUsage("response", [input_tokens |-> All(t), output_tokens |-> t.output,
                                input_tokens_details |-> t.read])
    [] d = "anthropic" -> WithUsage("top", [output_tokens |-> t.output])
    [] d = "llamacpp" -> Native([tokens_evaluated |-> All(t), tokens_predicted |-> t.output,
                                 tokens_cached |-> t.read], TRUE)
    [] d = "ollama" -> Native([prompt_eval_count |-> All(t), eval_count |-> t.output], FALSE)
    [] d = "rerank" -> Within("top", Holding(Some([total_tokens |-> All(t)])), TRUE)

Nothing == [fresh |-> 0, creation |-> 0, read |-> 0, output |-> 0]

ParsingInit ==
  /\ dialect = "openai" /\ truth = Nothing
  /\ reading = "idle" /\ counted = None /\ rows = <<>>

Read(e) == counted' = AccumulateUsage(counted, ExtractUsage(e, Unnamed))

Begin(d, fresh, creation, read) ==
  /\ reading = "idle" /\ Len(rows) < MaxRows
  /\ dialect' = d
  /\ truth' = [fresh |-> fresh, creation |-> creation, read |-> read, output |-> 0]
  /\ reading' = "open"
  /\ Read(FirstEvent(d, truth'))
  /\ UNCHANGED rows

Token ==
  /\ reading = "open" /\ dialect # "rerank" /\ truth.output < MaxOutput
  /\ truth' = [truth EXCEPT !.output = @ + 1]
  /\ Read(TokenEvent(dialect, truth'))
  /\ UNCHANGED <<dialect, reading, rows>>

End ==
  /\ reading = "open"
  /\ reading' = "ended"
  /\ Read(LastEvent(dialect, truth))
  /\ UNCHANGED <<dialect, truth, rows>>

\* A broken provider's event with garbage in a container, and other garbage
\* where it is not looked for
Broken(wrap, name, a, b, rerank) ==
  LET at(w) == IF w = wrap THEN [model |-> name, has |-> TRUE, usage |-> Some(a)]
               ELSE IF w = "top" THEN Holding(Some(b)) ELSE Empty
  IN  Event(at("response"), at("message"), at("top"), NoCounts, TRUE, rerank)

\* Its events: in a stream, the last with native counts; or as a whole body,
\* where the counts may be under an unknown name.
BrokenEvent ==
  /\ reading = "idle" /\ Len(rows) < MaxRows
  /\ \E a, b \in Garbage, name \in {None} \cup {Some(n) : n \in Names} :
       \/ \E wrap \in {"response", "message", "top"}, rerank \in BOOLEAN :
            counted' = AccumulateUsage(ExtractUsage(Broken(wrap, name, a, b, rerank), Unnamed),
                                       ExtractUsage(Native(b, TRUE), Unnamed))
       \/ counted' = Finalize([NoEvent EXCEPT !.top.model = name], <<a, b>>, Unnamed)
  /\ reading' = "broken"
  /\ UNCHANGED <<dialect, truth, rows>>

\* UsageRecorder::drop, at the end of the stream or when it is cut off
DropRecorder ==
  /\ reading \in {"open", "ended", "broken"}
  /\ rows' = IF counted = None THEN rows
             ELSE Append(rows, [usage |-> counted[1], phase |-> reading, dialect |-> dialect,
                                truth |-> truth])
  /\ reading' = "idle" /\ counted' = None /\ dialect' = "openai" /\ truth' = Nothing

ParsingNext ==
  \/ \E d \in Dialects, fresh, creation, read \in 0..MaxPrompt : Begin(d, fresh, creation, read)
  \/ Token \/ End \/ BrokenEvent \/ DropRecorder

ParsingSpec == ParsingInit /\ [][ParsingNext]_parsingVars

-----------------------------------------------------------------------------
(* The report. Costs are kept times the unit the prices are for, and are   *)
(* not rounded.                                                            *)

\* clamp_finite_non_negative
Clamp(v) == IF v \in 0..MaxCost THEN v ELSE 0

\* normalize_rate and Pricing::sanitized
NormalizeRate(rate) == Clamp(rate)

PriceOf(model) ==
  LET name == IF model \in DOMAIN Prices THEN model ELSE BaseOf[model] IN
  IF name \notin DOMAIN Prices THEN [input |-> 0, output |-> 0, input_cached |-> 0]
  ELSE [f \in {"input", "output", "input_cached"} |-> NormalizeRate(Prices[name][f])]

\* Pricing::cost: a part that is not finite costs nothing, nor does such a sum.
Cost(model, input, output, cached) ==
  LET p == PriceOf(model) IN
  Clamp(Clamp(Pos(input - cached) * p.input) + Clamp(Pos(cached) * p.input_cached)
        + Clamp(Pos(output) * p.output))

SumOf(s) ==
  LET sum[i \in 0..Len(s)] == IF i = 0 THEN 0 ELSE sum[i - 1] + s[i]
  IN  sum[Len(s)]

\* SUM of SQLite is an error if a sum of integers is no i64.
SqlSum(s) == IF SumOf(s) \in I64 THEN Some(SumOf(s)) ELSE None

Models == {rows[i].usage.model : i \in DOMAIN rows}
Column(m, field) ==
  [i \in DOMAIN rows |-> IF rows[i].usage.model = m THEN rows[i].usage[field] ELSE 0]

\* Db::stats: one sum that does not fit fails the whole report.
Stats(m, field) == SqlSum(Column(m, field))
Answered == \A m \in Models, field \in {"input", "output", "cached", "total"} :
              Stats(m, field) # None

\* An addition of i64 in a release build
Wrap(n) == ((n + MaxInt + 1) % (2 * (MaxInt + 1))) - (MaxInt + 1)

\* grand_total_tokens, over the models in the order of the query
GrandTotal(order) == Wrap(SumOf([k \in DOMAIN order |-> Or(Stats(order[k], "total"), 0)]))

-----------------------------------------------------------------------------

\* Whatever a provider sends, what is recorded adds up: no negative count, no
\* overflow, and the cached tokens are part of the input.
RecordedIsSane ==
  \A i \in DOMAIN rows :
    LET u == rows[i].usage IN
    /\ 0 <= u.cached /\ u.cached <= u.input /\ u.input <= MaxInt
    /\ u.output \in 0..MaxInt /\ u.total \in 0..MaxInt

\* A response that was read to its end is recorded with what the provider
\* counted, in each dialect; running totals are not added up.
CompleteIsExact ==
  \A i \in DOMAIN rows :
    LET u == rows[i].usage
        t == rows[i].truth
    IN  rows[i].phase = "ended" =>
          /\ u.input = All(t) /\ u.output = t.output
          /\ u.total = All(t) + t.output
          /\ u.cached = IF rows[i].dialect \in {"ollama", "rerank"} THEN 0 ELSE t.read

\* A response that was cut off is never recorded with more than was generated.
CutIsNoMore ==
  \A i \in DOMAIN rows :
    rows[i].phase = "open" =>
      /\ rows[i].usage.input <= All(rows[i].truth)
      /\ rows[i].usage.output <= rows[i].truth.output

\* What is recorded is what was generated, or the part of it that was reported
\* before the response broke off (extract_usage, accumulate_usage).
RecordedIsExact == CompleteIsExact /\ CutIsNoMore

\* What the tokens cost, if nothing is clamped
Charge(m, input, output, cached) ==
  LET p == PriceOf(m) IN (input - cached) * p.input + cached * p.input_cached + output * p.output

\* What a model costs does not depend on how its rows are grouped: pricing the
\* sums, as the model table does, and pricing the days one by one and adding
\* up, as the chart does, give the same, in every report that is answered, up
\* to costs that are not finite.
CostIsAdditive ==
  \A m \in Models :
    LET sum(field) == SumOf(Column(m, field))
        cost(i) == Cost(m, rows[i].usage.input, rows[i].usage.output, rows[i].usage.cached)
    IN  Answered /\ Charge(m, sum("input"), sum("output"), sum("cached")) <= MaxCost =>
          Cost(m, Stats(m, "input")[1], Stats(m, "output")[1], Stats(m, "cached")[1])
            = SumOf([i \in DOMAIN rows |-> IF rows[i].usage.model = m THEN cost(i) ELSE 0])

\* The grand total is that of the rows, in whatever order the models come, if
\* it is an i64; nothing checks that it is, and a larger one wraps.
TotalsAddUp ==
  LET all == SumOf([i \in DOMAIN rows |-> rows[i].usage.total]) IN
  all <= MaxInt =>
    /\ \A m \in Models : Stats(m, "total") # None
    /\ \A order \in Bijection(1..Cardinality(Models), Models) : GrandTotal(order) = all

\* Rows add up, in tokens and in money, whatever the provider sent: the second
\* depends on the first, because a row with more cached than input tokens would
\* cost nothing for them alone and less than nothing in a sum (Pricing::cost).
RowsAddUp == RecordedIsSane /\ CostIsAdditive /\ TotalsAddUp
=============================================================================
