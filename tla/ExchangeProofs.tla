--------------------------- MODULE ExchangeProofs ---------------------------
(***************************************************************************)
(* Proofs about one exchange with a backend: what of a client's request    *)
(* and of the answer crosses the proxy (Forwarding), what the stream picks *)
(* out of the answer's bytes however they are cut (AccountingStream), and  *)
(* what is read from its events and recorded (UsageParsing).               *)
(***************************************************************************)
EXTENDS UsageParsing, Forwarding, AccountingStream, FiniteSetTheorems,
        SequenceTheorems, NaturalsInduction, TLAPS

-----------------------------------------------------------------------------
(* Induction on the natural numbers, by a least counterexample.            *)

\* A nonempty set of naturals has a least element.
LEMMA LeastNatural ==
  ASSUME NEW T \in SUBSET Nat, T # {}
  PROVE  \E x \in T : \A y \in T : x <= y
<1> DEFINE R == OpToRel(<, Nat)
<1>1. IsWellFoundedOn(R, Nat)
  BY NatLessThanWellFounded
<1>2. PICK x \in T : \A y \in T : ~(<<y, x>> \in R)
  <2> HIDE DEF R
  <2> QED BY <1>1, WFMin
<1>3. \A y \in T : ~(y < x)
  BY <1>2 DEF OpToRel
<1> QED BY <1>3

\* So Min is what its name says.
LEMMA MinFacts ==
  ASSUME NEW T \in SUBSET Nat, T # {}
  PROVE  Min(T) \in T /\ \A y \in T : Min(T) <= y
<1>1. \E x \in T : \A y \in T : x <= y
  BY LeastNatural
<1> QED BY <1>1 DEF Min

\* A set of numbers with the first, and with the successor of each, is all.
LEMMA UpTo ==
  ASSUME NEW n \in Nat, NEW G, 0 \in G, \A k \in 0..(n - 1) : k \in G => k + 1 \in G
  PROVE  0..n \subseteq G
<1> DEFINE T == (0..n) \ G
<1> SUFFICES ASSUME T # {} PROVE FALSE
  OBVIOUS
<1>1. PICK x \in T : \A y \in T : x <= y
  <2>1. T \in SUBSET Nat
    OBVIOUS
  <2> HIDE DEF T
  <2> QED BY <2>1, LeastNatural
<1>2. x \in 0..n /\ x # 0
  BY <1>1
<1>3. x - 1 \in 0..(n - 1) /\ x - 1 \notin T
  BY <1>1, <1>2
<1>4. x - 1 \in G
  BY <1>2, <1>3
<1>5. (x - 1) + 1 \in G
  BY <1>3, <1>4
<1> QED BY <1>1, <1>2, <1>5

\* A step function, and its iterates
IsStep(n, S, start, F) == start \in S /\ F \in [S \X (1..n) -> S]
Iterated(n, S, start, F, f) ==
  /\ f \in [0..n -> S] /\ f[0] = start
  /\ \A k \in 1..n : f[k] = F[<<f[k - 1], k>>]

\* exist: what every recursive function below is.
LEMMA Iterates ==
  ASSUME NEW n \in Nat, NEW S, NEW start, NEW F, IsStep(n, S, start, F)
  PROVE  \E f : Iterated(n, S, start, F, f)
<1> USE DEF IsStep, Iterated
<1> DEFINE Runs(m, f) == /\ f \in [0..n -> S] /\ f[0] = start
                         /\ \A k \in 1..m : f[k] = F[<<f[k - 1], k>>]
           G == {m \in 0..n : \E f : Runs(m, f)}
<1>1. 0 \in G
  <2>1. Runs(0, [k \in 0..n |-> start])
    OBVIOUS
  <2> HIDE DEF Runs
  <2> QED BY <2>1
<1>2. ASSUME NEW m \in 0..(n - 1), m \in G
      PROVE  m + 1 \in G
  <2>1. PICK f : Runs(m, f)
    BY <1>2
  <2> DEFINE next == F[<<f[m], m + 1>>]
             g == [f EXCEPT ![m + 1] = next]
  <2>2. m \in 0..n /\ m + 1 \in 1..n /\ m + 1 \in 0..n /\ f[m] \in S
    BY <2>1
  <2>3. next \in S
    BY <2>2
  <2>4. g \in [0..n -> S] /\ g[m + 1] = next /\ \A k \in 0..m : g[k] = f[k]
    BY <2>1, <2>2, <2>3
  <2> HIDE DEF g
  <2>5. \A k \in 1..(m + 1) : g[k] = F[<<g[k - 1], k>>]
    <3> SUFFICES ASSUME NEW k \in 1..(m + 1) PROVE g[k] = F[<<g[k - 1], k>>]
      OBVIOUS
    <3>1. k - 1 \in 0..m /\ (k = m + 1 \/ (k \in 1..m /\ k \in 0..m))
      BY <2>2
    <3>2. CASE k = m + 1
      <4>1. g[k - 1] = f[m]
        BY <2>2, <2>4, <3>1, <3>2
      <4> QED BY <2>4, <3>2, <4>1
    <3>3. CASE k \in 1..m
      BY <2>1, <2>4, <3>1, <3>3
    <3> QED BY <3>1, <3>2, <3>3
  <2>6. g[0] = start
    BY <2>1, <2>2, <2>4
  <2> QED BY <2>2, <2>4, <2>5, <2>6
<1>3. n \in G
  <2> HIDE DEF G
  <2>1. 0..n \subseteq G
    BY <1>1, <1>2, UpTo
  <2> QED BY <2>1
<1> QED BY <1>3

-----------------------------------------------------------------------------
(* Numbers and options.                                                    *)

Optional == {None} \cup {Some(n) : n \in I64}

\* An i64 of an object, if it is there
LEMMA AsI64Facts ==
  ASSUME NEW o, NEW k
  PROVE  /\ IsObject(o) => AsI64(o, k) \in Optional
         /\ k \notin DOMAIN o => AsI64(o, k) = None
         /\ k \in DOMAIN o /\ o[k] \in I64 => AsI64(o, k) = Some(o[k])
<1>1. \A n \in I64 : n # Text
  BY UsageParsingAssumption DEF I64
<1> QED BY <1>1 DEF AsI64, IsObject, Optional

\* Option::unwrap_or
LEMMA OrFacts ==
  ASSUME NEW d
  PROVE  /\ Or(None, d) = d
         /\ \A n : Or(Some(n), d) = n /\ Some(n) # None
         /\ \A x \in Optional : d \in I64 => Or(x, d) \in I64
BY DEF Or, None, Some, Optional

\* Maximum, minimum and the saturating sum stay in range.
LEMMA RangeFacts ==
  /\ MaxInt \in Nat /\ 0 \in I64
  /\ \A n \in I64 : n \in Int /\ n <= MaxInt /\ Pos(n) \in 0..MaxInt /\ (n >= 0 => Pos(n) = n)
  /\ \A a, b \in 0..MaxInt :
       /\ Add(a, b) \in 0..MaxInt /\ Larger(a, b) \in 0..MaxInt /\ Smaller(a, b) \in 0..MaxInt
       /\ Smaller(a, b) <= b /\ Larger(a, b) >= a /\ Larger(a, b) >= b
       /\ a + b <= MaxInt => Add(a, b) = a + b
BY UsageParsingAssumption DEF I64, Pos, Larger, Smaller, Add

\* The first of several keys that holds an integer
LEMMA NumFacts ==
  ASSUME NEW o, NEW n \in Nat, NEW keys, DOMAIN keys = 1..n
  PROVE  /\ IsObject(o) => Num(o, keys) \in Optional
         /\ (\A i \in 1..n : AsI64(o, keys[i]) = None) => Num(o, keys) = None
         /\ (\E i \in 1..n : AsI64(o, keys[i]) # None) => Num(o, keys) # None
<1> DEFINE hits == {i \in DOMAIN keys : AsI64(o, keys[i]) # None}
<1>1. hits \in SUBSET Nat
  OBVIOUS
<1>2. hits # {} => Min(hits) \in hits
  <2> HIDE DEF hits
  <2> QED BY <1>1, MinFacts
<1>3. Num(o, keys) = IF hits = {} THEN None ELSE AsI64(o, keys[Min(hits)])
  BY DEF Num
<1>4. hits # {} => AsI64(o, keys[Min(hits)]) # None
  BY <1>2
<1>5. None \in Optional /\ (IsObject(o) => AsI64(o, keys[Min(hits)]) \in Optional)
  BY AsI64Facts DEF Optional
<1> QED BY <1>3, <1>4, <1>5

\* With two keys, the second is asked if the first has none.
LEMMA NumOfTwo ==
  ASSUME NEW o, NEW j, NEW k
  PROVE  Num(o, <<j, k>>) = IF AsI64(o, j) # None THEN AsI64(o, j) ELSE AsI64(o, k)
<1> DEFINE keys == <<j, k>>
           hits == {i \in DOMAIN keys : AsI64(o, keys[i]) # None}
<1>1. hits \in SUBSET Nat /\ DOMAIN keys = {1, 2} /\ keys[1] = j /\ keys[2] = k
  OBVIOUS
<1>2. hits # {} => Min(hits) \in hits /\ \A y \in hits : Min(hits) <= y
  <2> HIDE DEF hits
  <2> QED BY <1>1, MinFacts
<1>3. Num(o, keys) = IF hits = {} THEN None ELSE AsI64(o, keys[Min(hits)])
  BY DEF Num
<1> HIDE DEF keys
<1>4. CASE AsI64(o, j) # None
  <2>1. 1 \in hits
    BY <1>1, <1>4
  <2>2. Min(hits) = 1
    BY <1>1, <1>2, <2>1
  <2> QED BY <1>1, <1>3, <1>4, <2>1, <2>2 DEF keys
<1>5. CASE AsI64(o, j) = None /\ AsI64(o, k) # None
  <2>1. hits = {2}
    BY <1>1, <1>5
  <2>2. Min(hits) = 2
    BY <1>2, <2>1
  <2> QED BY <1>1, <1>3, <1>5, <2>1, <2>2 DEF keys
<1>6. CASE AsI64(o, j) = None /\ AsI64(o, k) = None
  <2>1. hits = {}
    BY <1>1, <1>6
  <2> QED BY <1>3, <1>6, <2>1 DEF keys
<1> QED BY <1>4, <1>5, <1>6

-----------------------------------------------------------------------------
(* What is read from one event.                                            *)

Usage(model, in, out, cached, total) ==
  [model |-> model, input |-> in, output |-> out, cached |-> cached, total |-> total]

\* The fields of a usage record
LEMMA UsageFields ==
  ASSUME NEW model, NEW in, NEW out, NEW cached, NEW total
  PROVE  LET u == Usage(model, in, out, cached, total) IN
         /\ u.model = model /\ u.input = in /\ u.output = out /\ u.cached = cached
         /\ u.total = total
         /\ u["input"] = in /\ u["output"] = out /\ u["cached"] = cached
BY DEF Usage

\* Counts in range, and the cached tokens part of the input
SaneCounts(in, out, cached, total) ==
  /\ in \in 0..MaxInt /\ out \in 0..MaxInt /\ total \in 0..MaxInt
  /\ cached \in 0..MaxInt /\ cached <= in

SaneUsages ==
  {u \in {Usage(model, in, out, cached, total) :
            model \in {Unnamed} \cup Names, in, out, cached, total \in 0..MaxInt} :
     u.cached <= u.input}

RawPrompt(o) == Num(o, <<"prompt_tokens", "input_tokens">>)
RawCompletion(o) == Num(o, <<"completion_tokens", "output_tokens">>)
TotalOnly(o, rerank) ==
  IF rerank /\ RawPrompt(o) = None /\ RawCompletion(o) = None
    THEN Pos(Or(AsI64(o, "total_tokens"), 0)) ELSE 0
PromptIn(o, rerank) == PromptOf(o, Pos(Or(RawPrompt(o), TotalOnly(o, rerank))))
CompletionIn(o) == Pos(Or(RawCompletion(o), 0))
TotalIn(o, prompt, completion) ==
  LET rawTotal == AsI64(o, "total_tokens") IN
  IF rawTotal # None /\ rawTotal[1] > 0 THEN rawTotal[1]
  ELSE IF rawTotal = Some(0) /\ prompt = 0 /\ completion = 0 THEN 0
  ELSE Add(prompt, completion)

\* usage_from_openai, in its parts
LEMMA OpenaiParts ==
  ASSUME NEW o, NEW model, NEW rerank
  PROVE  UsageFromOpenai(o, model, rerank)
           = IF Num(o, Recognized) = None /\ NestedCached(o) = None THEN None
             ELSE Some(Usage(model, PromptIn(o, rerank), CompletionIn(o),
                             CachedOf(o, PromptIn(o, rerank)),
                             TotalIn(o, PromptIn(o, rerank), CompletionIn(o))))
BY DEF UsageFromOpenai, Usage, PromptIn, CompletionIn, TotalIn, TotalOnly, RawPrompt, RawCompletion

\* A record with counts in range is a sane usage.
LEMMA SaneIntro ==
  ASSUME NEW model \in {Unnamed} \cup Names, NEW in, NEW out, NEW cached, NEW total,
         SaneCounts(in, out, cached, total)
  PROVE  Usage(model, in, out, cached, total) \in SaneUsages
BY UsageFields DEF SaneCounts, SaneUsages

\* And the other way round
LEMMA SaneElim ==
  ASSUME NEW u \in SaneUsages
  PROVE  /\ u = Usage(u.model, u.input, u.output, u.cached, u.total)
         /\ u.model \in {Unnamed} \cup Names
         /\ SaneCounts(u.input, u.output, u.cached, u.total)
<1>1. PICK model \in {Unnamed} \cup Names, in, out, cached, total \in 0..MaxInt :
        u = Usage(model, in, out, cached, total)
  BY DEF SaneUsages
<1>2. u.model = model /\ u.input = in /\ u.output = out /\ u.cached = cached /\ u.total = total
  BY <1>1, UsageFields
<1>3. u.cached <= u.input
  BY DEF SaneUsages
<1> QED BY <1>1, <1>2, <1>3 DEF SaneCounts

\* Whatever an object says, the prompt, the cached part and the total are in
\* range.
LEMMA PartsInRange ==
  ASSUME NEW o, IsObject(o)
  PROVE  /\ \A base \in 0..MaxInt : PromptOf(o, base) \in 0..MaxInt
         /\ \A prompt \in 0..MaxInt :
              CachedOf(o, prompt) \in 0..MaxInt /\ CachedOf(o, prompt) <= prompt
         /\ NestedCached(o) \in Optional
<1>1. \A k : AsI64(o, k) \in Optional
  BY AsI64Facts
<1>2. NestedCached(o) \in Optional
  BY <1>1 DEF NestedCached
<1>3. \A k : Or(AsI64(o, k), 0) \in I64
  BY <1>1, OrFacts, RangeFacts
<1>4. \A k : Pos(Or(AsI64(o, k), 0)) \in 0..MaxInt /\ Pos(Or(AsI64(o, k), 0)) \in I64
  BY <1>3, RangeFacts DEF I64
<1>5. ASSUME NEW base \in 0..MaxInt PROVE PromptOf(o, base) \in 0..MaxInt
  <2>1. Add(base, Pos(Or(AsI64(o, "cache_creation_input_tokens"), 0))) \in 0..MaxInt
    BY <1>4, RangeFacts
  <2> QED BY <1>4, <2>1, RangeFacts DEF PromptOf
<1>6. ASSUME NEW prompt \in 0..MaxInt
      PROVE  CachedOf(o, prompt) \in 0..MaxInt /\ CachedOf(o, prompt) <= prompt
  <2> DEFINE said == IF DOMAIN o \cap {"cache_creation_input_tokens", "cache_read_input_tokens"} # {}
                       THEN Pos(Or(AsI64(o, "cache_read_input_tokens"), 0))
                       ELSE Or(NestedCached(o), Or(AsI64(o, "prompt_cache_hit_tokens"), 0))
  <2>1. Or(NestedCached(o), Or(AsI64(o, "prompt_cache_hit_tokens"), 0)) \in I64
    BY <1>2, <1>3, OrFacts
  <2>2. said \in I64
    BY <1>4, <2>1
  <2>3. CachedOf(o, prompt) = Smaller(Pos(said), prompt)
    BY DEF CachedOf
  <2> HIDE DEF said
  <2> QED BY <2>2, <2>3, RangeFacts
<1> QED BY <1>2, <1>5, <1>6

\* usage_from_openai never records a count out of range.
LEMMA OpenaiSane ==
  ASSUME NEW o, IsObject(o), NEW model \in {Unnamed} \cup Names, NEW rerank,
         UsageFromOpenai(o, model, rerank) # None
  PROVE  \E u \in SaneUsages : UsageFromOpenai(o, model, rerank) = Some(u)
<1> DEFINE prompt == PromptIn(o, rerank)
           completion == CompletionIn(o)
           total == TotalIn(o, prompt, completion)
<1>1. RawPrompt(o) \in Optional /\ RawCompletion(o) \in Optional
  <2>1. DOMAIN <<"prompt_tokens", "input_tokens">> = 1..2
        /\ DOMAIN <<"completion_tokens", "output_tokens">> = 1..2
    OBVIOUS
  <2> QED BY <2>1, NumFacts DEF RawPrompt, RawCompletion
<1>2. AsI64(o, "total_tokens") \in Optional
  BY AsI64Facts
<1>3. Pos(Or(AsI64(o, "total_tokens"), 0)) \in I64
  <2>1. Or(AsI64(o, "total_tokens"), 0) \in I64
    BY <1>2, OrFacts, RangeFacts
  <2>2. Pos(Or(AsI64(o, "total_tokens"), 0)) \in 0..MaxInt
    BY <2>1, RangeFacts
  <2> QED BY <2>2, RangeFacts DEF I64
<1>4. TotalOnly(o, rerank) \in I64
  BY <1>3, RangeFacts DEF TotalOnly
<1>5. Or(RawPrompt(o), TotalOnly(o, rerank)) \in I64 /\ Or(RawCompletion(o), 0) \in I64
  BY <1>1, <1>4, OrFacts, RangeFacts
<1>6. prompt \in 0..MaxInt /\ completion \in 0..MaxInt
  BY <1>5, RangeFacts, PartsInRange DEF PromptIn, CompletionIn
<1>7. total \in 0..MaxInt
  <2> HIDE DEF prompt, completion
  <2>1. AsI64(o, "total_tokens") # None => AsI64(o, "total_tokens")[1] \in I64
    BY <1>2 DEF Optional, Some
  <2>2. Add(prompt, completion) \in 0..MaxInt
    BY <1>6, RangeFacts
  <2> DEFINE raw == AsI64(o, "total_tokens")
  <2>3. \/ total = raw[1] /\ raw # None /\ raw[1] > 0
        \/ total = 0
        \/ total = Add(prompt, completion)
    BY DEF TotalIn
  <2>4. MaxInt \in Nat
    BY UsageParsingAssumption
  <2>5. raw # None => raw[1] \in I64
    BY <2>1
  <2> HIDE DEF total, raw
  <2>6. raw # None /\ raw[1] > 0 => raw[1] \in 0..MaxInt
    BY <2>4, <2>5 DEF I64
  <2> QED BY <2>2, <2>3, <2>4, <2>6
<1>8. CachedOf(o, prompt) \in 0..MaxInt /\ CachedOf(o, prompt) <= prompt
  BY <1>6, PartsInRange
<1> HIDE DEF prompt, completion, total
<1>9. SaneCounts(prompt, completion, CachedOf(o, prompt), total)
  BY <1>6, <1>7, <1>8 DEF SaneCounts
<1>10. UsageFromOpenai(o, model, rerank)
         = Some(Usage(model, prompt, completion, CachedOf(o, prompt), total))
  BY OpenaiParts DEF prompt, completion, total
<1> QED BY <1>9, <1>10, SaneIntro

\* Nor does usage_from_counts.
LEMMA CountsSane ==
  ASSUME NEW o, IsObject(o), NEW model \in {Unnamed} \cup Names, NEW pk, NEW ck, NEW hk,
         UsageFromCounts(o, pk, ck, hk, model) # None
  PROVE  \E u \in SaneUsages : UsageFromCounts(o, pk, ck, hk, model) = Some(u)
<1> DEFINE prompt == Pos(Or(AsI64(o, pk), 0))
           completion == Pos(Or(AsI64(o, ck), 0))
           cached == Smaller(Pos(Or(AsI64(o, hk), 0)), prompt)
           total == Add(prompt, completion)
<1>1. \A k : Or(AsI64(o, k), 0) \in I64
  BY AsI64Facts, OrFacts, RangeFacts
<1>2. \A k : Pos(Or(AsI64(o, k), 0)) \in 0..MaxInt
  BY <1>1, RangeFacts
<1>3. SaneCounts(prompt, completion, cached, total)
  BY <1>2, RangeFacts DEF SaneCounts
<1>4. UsageFromCounts(o, pk, ck, hk, model)
        = IF AsI64(o, pk) = None /\ AsI64(o, ck) = None THEN None
          ELSE Some(Usage(model, prompt, completion, cached, total))
  BY DEF UsageFromCounts, Usage
<1> HIDE DEF prompt, completion, cached, total
<1> QED BY <1>3, <1>4, SaneIntro

SaneOptions == {None} \cup {Some(u) : u \in SaneUsages}

\* What scavenge_usage finds is sane too.
LEMMA ScavengeSane ==
  ASSUME NEW n \in Nat, NEW objects, DOMAIN objects = 1..n,
         \A i \in 1..n : IsObject(objects[i]), NEW model \in {Unnamed} \cup Names
  PROVE  ScavengeUsage(objects, model) \in SaneOptions
<1> DEFINE pr(o) == Num(o, PromptKeys)
           co(o) == Num(o, CompletionKeys)
           to(o) == Num(o, TotalKeys)
           hits == {i \in DOMAIN objects :
                      pr(objects[i]) # None \/ co(objects[i]) # None \/ to(objects[i]) # None}
           obj == objects[Min(hits)]
           in == Pos(Or(pr(obj), 0))
           out == Pos(Or(co(obj), 0))
           said == Or(Num(obj, CachedKeys), Or(NestedCached(obj), 0))
           cached == Smaller(Pos(said), in)
           sum == Pos(Or(to(obj), 0))
           total == IF sum > 0 THEN sum ELSE Add(in, out)
<1>1. ScavengeUsage(objects, model)
        = IF hits = {} THEN None ELSE Some(Usage(model, in, out, cached, total))
  BY DEF ScavengeUsage, Usage
<1>2. CASE hits # {}
  <2>1. hits \in SUBSET Nat
    OBVIOUS
  <2>2. Min(hits) \in 1..n
    <3>1. hits \subseteq 1..n
      OBVIOUS
    <3> HIDE DEF hits
    <3> QED BY <1>2, <2>1, <3>1, MinFacts
  <2>3. IsObject(obj)
    BY <2>2
  <2> HIDE DEF obj
  <2>4. /\ pr(obj) \in Optional /\ co(obj) \in Optional /\ to(obj) \in Optional
        /\ Num(obj, CachedKeys) \in Optional
    <3>1. /\ DOMAIN PromptKeys = 1..5 /\ DOMAIN CompletionKeys = 1..6
          /\ DOMAIN TotalKeys = 1..2 /\ DOMAIN CachedKeys = 1..3
      BY DEF PromptKeys, CompletionKeys, TotalKeys, CachedKeys
    <3> QED BY <2>3, <3>1, NumFacts
  <2> HIDE DEF pr, co, to
  <2>5. /\ Or(pr(obj), 0) \in I64 /\ Or(co(obj), 0) \in I64 /\ Or(to(obj), 0) \in I64
        /\ Or(NestedCached(obj), 0) \in I64
    BY <2>3, <2>4, OrFacts, RangeFacts, PartsInRange
  <2>6. said \in I64
    BY <2>4, <2>5, OrFacts
  <2> HIDE DEF said
  <2>7. in \in 0..MaxInt /\ out \in 0..MaxInt /\ sum \in 0..MaxInt /\ Pos(said) \in 0..MaxInt
    BY <2>5, <2>6, RangeFacts
  <2> HIDE DEF in, out, sum
  <2>8. SaneCounts(in, out, cached, total)
    BY <2>7, RangeFacts DEF SaneCounts
  <2> HIDE DEF cached, total, hits
  <2> QED BY <1>1, <1>2, <2>8, SaneIntro DEF SaneOptions
<1>3. CASE hits = {}
  BY <1>1, <1>3 DEF SaneOptions
<1> QED BY <1>2, <1>3

\* A container with a known name, and with an object if it has one
IsContainer(c) ==
  /\ Or(c.model, Unnamed) \in {Unnamed} \cup Names
  /\ c.usage # None => IsObject(c.usage[1])

\* extract_usage records counts in range, whatever the event.
LEMMA ExtractSane ==
  ASSUME NEW e, IsContainer(e.response), IsContainer(e.message), IsContainer(e.top),
         IsObject(e.native)
  PROVE  ExtractUsage(e, Unnamed) \in SaneOptions
<1> DEFINE root == Root(e)
           model == Or(root.model, Unnamed)
<1>0. IsContainer(root)
  BY DEF Root
<1> HIDE DEF root
<1>1. ASSUME NEW o, IsObject(o), NEW rerank
      PROVE  UsageFromOpenai(o, model, rerank) \in SaneOptions
  BY <1>0, <1>1, OpenaiSane DEF SaneOptions, IsContainer
<1>2. ASSUME NEW o, IsObject(o), NEW pk, NEW ck, NEW hk
      PROVE  UsageFromCounts(o, pk, ck, hk, model) \in SaneOptions
  BY <1>0, <1>2, CountsSane DEF SaneOptions, IsContainer
<1>3. None \in SaneOptions
  BY DEF SaneOptions
<1>4. CASE root.usage # None
  <2>1. ExtractUsage(e, Unnamed) = UsageFromOpenai(root.usage[1], model, e.rerank)
    BY <1>4, Zenon DEF ExtractUsage, root
  <2> QED BY <1>0, <1>1, <1>4, <2>1 DEF IsContainer
<1>5. CASE root.usage = None
  <2>1. ExtractUsage(e, Unnamed) \in
          {UsageFromCounts(e.native, "tokens_evaluated", "tokens_predicted", "tokens_cached", model),
           UsageFromCounts(e.native, "prompt_eval_count", "eval_count", "-", model), None}
    BY <1>5 DEF ExtractUsage, root
  <2> QED BY <1>2, <1>3, <2>1
<1> QED BY <1>4, <1>5

\* accumulate_usage, in its parts
LEMMA AccumulateParts ==
  ASSUME NEW c \in SaneUsages, NEW n \in SaneUsages
  PROVE  LET in == Larger(c.input, n.input)
             out == Larger(c.output, n.output)
         IN  /\ AccumulateUsage(Some(c), Some(n))
                  = Some(Usage(IF c.model = Unnamed THEN n.model ELSE c.model, in, out,
                               Larger(c.cached, n.cached),
                               Larger(Larger(c.total, n.total), Add(in, out))))
             /\ AccumulateUsage(Some(c), Some(n)) \in SaneOptions
<1> DEFINE in == Larger(c.input, n.input)
           out == Larger(c.output, n.output)
           cached == Larger(c.cached, n.cached)
           total == Larger(Larger(c.total, n.total), Add(in, out))
           model == IF c.model = Unnamed THEN n.model ELSE c.model
<1>1. Some(c) # None /\ Some(n) # None /\ Some(c)[1] = c /\ Some(n)[1] = n
  BY DEF Some, None
<1>2. AccumulateUsage(Some(c), Some(n)) = Some(Usage(model, in, out, cached, total))
  BY <1>1 DEF AccumulateUsage, Usage
<1>3. /\ SaneCounts(c.input, c.output, c.cached, c.total) /\ c.model \in {Unnamed} \cup Names
      /\ SaneCounts(n.input, n.output, n.cached, n.total) /\ n.model \in {Unnamed} \cup Names
  BY SaneElim
<1>4. in \in 0..MaxInt /\ out \in 0..MaxInt /\ cached \in 0..MaxInt /\ cached <= in
  <2>1. MaxInt \in Nat
    BY RangeFacts
  <2> QED BY <1>3, <2>1 DEF SaneCounts, Larger
<1>5. total \in 0..MaxInt
  <2>1. Larger(c.total, n.total) \in 0..MaxInt
    BY <1>3, RangeFacts DEF SaneCounts
  <2> HIDE DEF in, out
  <2>2. Add(in, out) \in 0..MaxInt
    BY <1>4, RangeFacts
  <2> QED BY <2>1, <2>2, RangeFacts
<1>6. model \in {Unnamed} \cup Names
  BY <1>3
<1> HIDE DEF in, out, cached, total, model
<1>7. Usage(model, in, out, cached, total) \in SaneUsages
  BY <1>4, <1>5, <1>6, SaneIntro DEF SaneCounts
<1> QED BY <1>2, <1>7 DEF in, out, cached, total, model, SaneOptions

\* What is kept is sane if what is read is.
LEMMA AccumulateSane ==
  ASSUME NEW x \in SaneOptions, NEW y \in SaneOptions
  PROVE  AccumulateUsage(x, y) \in SaneOptions
<1>1. CASE y = None \/ x = None
  BY <1>1 DEF AccumulateUsage, SaneOptions
<1>2. CASE y # None /\ x # None
  BY <1>2, AccumulateParts DEF SaneOptions
<1> QED BY <1>1, <1>2

-----------------------------------------------------------------------------
(* What is read from the events of a provider that is not broken.          *)

Truths == [fresh : 0..MaxPrompt, creation : 0..MaxPrompt, read : 0..MaxPrompt,
           output : 0..MaxOutput]

\* What a provider counts fits an i64.
LEMMA TruthFacts ==
  ASSUME NEW t \in Truths
  PROVE  /\ t.fresh \in 0..MaxInt /\ t.creation \in 0..MaxInt /\ t.read \in 0..MaxInt
         /\ t.output \in 0..MaxInt
         /\ All(t) = t.fresh + t.creation + t.read
         /\ All(t) \in 0..MaxInt /\ All(t) + t.output \in 0..MaxInt /\ t.read <= All(t)
         /\ MaxInt \in Nat
<1>1. /\ t.fresh \in 0..MaxPrompt /\ t.creation \in 0..MaxPrompt /\ t.read \in 0..MaxPrompt
      /\ t.output \in 0..MaxOutput
  BY DEF Truths
<1> DEFINE f == t.fresh
           c == t.creation
           r == t.read
           o == t.output
<1>2. All(t) = f + c + r
  BY DEF All
<1> HIDE DEF f, c, r, o
<1>3. f \in 0..MaxPrompt /\ c \in 0..MaxPrompt /\ r \in 0..MaxPrompt /\ o \in 0..MaxOutput
  BY <1>1 DEF f, c, r, o
<1>4. /\ f \in 0..MaxInt /\ c \in 0..MaxInt /\ r \in 0..MaxInt /\ o \in 0..MaxInt
      /\ f + c + r \in 0..MaxInt /\ f + c + r + o \in 0..MaxInt /\ r <= f + c + r
  BY <1>3, UsageParsingAssumption
<1> QED BY <1>2, <1>4, UsageParsingAssumption DEF f, c, r, o

\* An object that says: base, created and read input, c output tokens, of
\* which h were cached, and maybe the total
Says(o, rerank, base, cc, cr, c, h) ==
  /\ base \in Nat /\ cc \in Nat /\ cr \in Nat /\ c \in Nat /\ h \in Nat
  /\ base + cc + cr + c <= MaxInt /\ h <= base + cc + cr
  /\ Num(o, Recognized) # None
  /\ Or(RawPrompt(o), TotalOnly(o, rerank)) = base
  /\ Or(AsI64(o, "cache_creation_input_tokens"), 0) = cc
  /\ Or(AsI64(o, "cache_read_input_tokens"), 0) = cr
  /\ Or(RawCompletion(o), 0) = c
  /\ h = IF DOMAIN o \cap {"cache_creation_input_tokens", "cache_read_input_tokens"} # {}
           THEN cr ELSE Or(NestedCached(o), Or(AsI64(o, "prompt_cache_hit_tokens"), 0))
  /\ AsI64(o, "total_tokens") \in {None, Some(base + cc + cr + c)}

\* usage_from_openai on counts that fit: nothing is lost, added or clamped.
LEMMA OpenaiExact ==
  ASSUME NEW o, NEW rerank, NEW base, NEW cc, NEW cr, NEW c, NEW h,
         Says(o, rerank, base, cc, cr, c, h)
  PROVE  UsageFromOpenai(o, Unnamed, rerank)
           = Some(Usage(Unnamed, base + cc + cr, c, h, base + cc + cr + c))
<1> USE DEF Says
<1>0. MaxInt \in Nat
  BY UsageParsingAssumption
<1>1. \A n \in Nat : Pos(n) = n
  BY DEF Pos, Larger
<1>2. PromptIn(o, rerank) = base + cc + cr
  <2>1. PromptIn(o, rerank) = Add(Add(base, cc), cr)
    BY <1>1 DEF PromptIn, PromptOf
  <2>2. Add(base, cc) = base + cc
    BY <1>0 DEF Add, Smaller
  <2> QED BY <1>0, <2>1, <2>2 DEF Add, Smaller
<1>3. CompletionIn(o) = c
  BY <1>1 DEF CompletionIn
<1> DEFINE p == base + cc + cr
<1>4. CachedOf(o, p) = h
  <2>1. CachedOf(o, p) = Smaller(h, p)
    BY <1>1 DEF CachedOf
  <2> QED BY <2>1 DEF Smaller
<1>5. TotalIn(o, p, c) = p + c
  <2>1. Add(p, c) = p + c
    BY <1>0 DEF Add, Smaller
  <2>2. p + c \in Nat
    OBVIOUS
  <2>3. p + c = 0 => p = 0 /\ c = 0
    OBVIOUS
  <2>4. AsI64(o, "total_tokens") \in {None, Some(p + c)}
    OBVIOUS
  <2> HIDE DEF p
  <2>5. CASE AsI64(o, "total_tokens") = None
    <3>1. None # Some(0)
      BY OrFacts
    <3> QED BY <2>1, <2>5, <3>1 DEF TotalIn
  <2>6. CASE AsI64(o, "total_tokens") = Some(p + c)
    <3>1. Some(p + c)[1] = p + c /\ Some(p + c) # None
      BY DEF Some, None
    <3>2. Some(p + c) = Some(0) <=> p + c = 0
      BY DEF Some
    <3> QED BY <2>2, <2>3, <2>6, <3>1, <3>2 DEF TotalIn
  <2> QED BY <2>4, <2>5, <2>6
<1> QED BY <1>2, <1>3, <1>4, <1>5, OpenaiParts

\* One recognized count makes an object a usage object.
LEMMA IsRecognized ==
  ASSUME NEW o,
         \E k \in {"prompt_tokens", "input_tokens", "output_tokens", "total_tokens"} :
           AsI64(o, k) # None
  PROVE  Num(o, Recognized) # None
<1>1. DOMAIN Recognized = 1..8
  BY DEF Recognized
<1>2. /\ Recognized[1] = "prompt_tokens" /\ Recognized[2] = "input_tokens"
      /\ Recognized[4] = "output_tokens" /\ Recognized[5] = "total_tokens"
  BY DEF Recognized
<1>3. \E i \in 1..8 : AsI64(o, Recognized[i]) # None
  BY <1>2
<1> QED BY <1>1, <1>3, NumFacts

\* The parts of an event with one container
LEMMA WithinFields ==
  \A wrap \in {"response", "message", "top"} : \A c, rerank : c.has =>
    /\ Root(Within(wrap, c, rerank)) = c /\ Within(wrap, c, rerank).rerank = rerank
    /\ Within(wrap, c, rerank).stop = FALSE /\ Within(wrap, c, rerank).native = NoCounts
<1> TAKE wrap \in {"response", "message", "top"}
<1> TAKE c, rerank
<1> HAVE c.has
<1> DEFINE e == Within(wrap, c, rerank)
           r == IF "response" = wrap THEN c ELSE Empty
           m == IF "message" = wrap THEN c ELSE Empty
           t == IF "top" = wrap THEN c ELSE Empty
<1>1. ~Empty.has
  BY DEF Empty
<1>2. /\ e.response = r /\ e.message = m /\ e.top = t /\ e.rerank = rerank
      /\ e.stop = FALSE /\ e.native = NoCounts
  <2>1. e = Event(r, m, t, NoCounts, FALSE, rerank)
    BY DEF Within
  <2> HIDE DEF r, m, t, e
  <2> QED BY <2>1 DEF Event
<1>3. Root(e) = IF r.has THEN r ELSE IF m.has THEN m ELSE t
  <2> HIDE DEF r, m, t, e
  <2> QED BY <1>2 DEF Root
<1>4. Root(e) = c
  <2> HIDE DEF e
  <2> QED BY <1>1, <1>3
<1> QED BY <1>2, <1>4

\* extract_usage looks at the usage object of the container, wherever it is,
\* then at native counts.
LEMMA ExtractForms ==
  /\ \A wrap \in {"response", "message", "top"} : \A o, rerank :
       ExtractUsage(Within(wrap, Holding(Some(o)), rerank), Unnamed)
         = UsageFromOpenai(o, Unnamed, rerank)
  /\ \A wrap \in {"response", "message", "top"} : ExtractUsage(NullUsage(wrap), Unnamed) = None
  /\ ExtractUsage(NoEvent, Unnamed) = None
  /\ \A o : ExtractUsage(Native(o, TRUE), Unnamed)
              = UsageFromCounts(o, "tokens_evaluated", "tokens_predicted", "tokens_cached", Unnamed)
  /\ \A o : ExtractUsage(Native(o, FALSE), Unnamed)
              = IF DOMAIN o \cap {"prompt_eval_count", "eval_count"} # {}
                  THEN UsageFromCounts(o, "prompt_eval_count", "eval_count", "-", Unnamed)
                  ELSE None
<1>1. Or(None, Unnamed) = Unnamed
  BY OrFacts
<1>2. \A o : Some(o) # None /\ Some(o)[1] = o
  BY DEF Some, None
<1>3. \A x : Holding(x).has /\ Holding(x).usage = x /\ Holding(x).model = None
  BY DEF Holding
<1>4. DOMAIN NoCounts \cap {"prompt_eval_count", "eval_count"} = {}
  BY DEF NoCounts
<1>5. ASSUME NEW wrap \in {"response", "message", "top"}, NEW o, NEW rerank
      PROVE  ExtractUsage(Within(wrap, Holding(Some(o)), rerank), Unnamed)
               = UsageFromOpenai(o, Unnamed, rerank)
  <2> DEFINE c == Holding(Some(o))
             e == Within(wrap, c, rerank)
  <2>1. c.has /\ c.model = None /\ c.usage = Some(o)
    BY <1>3
  <2> HIDE DEF c
  <2>2. Root(e) = c /\ e.rerank = rerank
    BY <2>1, WithinFields
  <2> HIDE DEF e
  <2>3. c.usage # None /\ c.usage[1] = o /\ Or(c.model, Unnamed) = Unnamed
    BY <1>1, <1>2, <2>1
  <2>4. ExtractUsage(e, Unnamed) = UsageFromOpenai(c.usage[1], Or(c.model, Unnamed), e.rerank)
    BY <2>2, <2>3, Zenon DEF ExtractUsage
  <2>5. ExtractUsage(e, Unnamed) = UsageFromOpenai(o, Unnamed, rerank)
    BY <2>2, <2>3, <2>4, Zenon
  <2> QED BY <2>5 DEF e, c
<1>6. ASSUME NEW wrap \in {"response", "message", "top"}
      PROVE  ExtractUsage(NullUsage(wrap), Unnamed) = None
  <2> DEFINE c == Holding(None)
             no == FALSE
             e == Within(wrap, c, no)
  <2>1. c.has /\ c.usage = None
    BY <1>3
  <2> HIDE DEF c, no
  <2>2. Root(e) = c /\ e.stop = FALSE /\ e.native = NoCounts
    BY <2>1, WithinFields
  <2> HIDE DEF e
  <2>3. ExtractUsage(e, Unnamed) = None
    BY <1>4, <2>1, <2>2, Zenon DEF ExtractUsage
  <2> QED BY <2>3 DEF e, c, no, NullUsage
<1>7. ASSUME NEW o, NEW stop \in BOOLEAN
      PROVE  ExtractUsage(Native(o, stop), Unnamed)
               = IF stop
                 THEN UsageFromCounts(o, "tokens_evaluated", "tokens_predicted", "tokens_cached", Unnamed)
                 ELSE IF DOMAIN o \cap {"prompt_eval_count", "eval_count"} # {}
                      THEN UsageFromCounts(o, "prompt_eval_count", "eval_count", "-", Unnamed)
                      ELSE None
  <2> DEFINE e == Native(o, stop)
  <2>1. /\ e.response = Empty /\ e.message = Empty /\ e.top = Empty /\ e.native = o
        /\ e.stop = stop
    BY DEF Native, Event
  <2> HIDE DEF e
  <2>2. Root(e).usage = None /\ Root(e).model = None
    BY <2>1 DEF Root, Empty
  <2>3. ExtractUsage(e, Unnamed)
          = IF e.stop
            THEN UsageFromCounts(e.native, "tokens_evaluated", "tokens_predicted", "tokens_cached",
                                 Or(Root(e).model, Unnamed))
            ELSE IF DOMAIN e.native \cap {"prompt_eval_count", "eval_count"} # {}
                 THEN UsageFromCounts(e.native, "prompt_eval_count", "eval_count", "-",
                                      Or(Root(e).model, Unnamed))
                 ELSE None
    BY <2>2 DEF ExtractUsage
  <2>4. CASE stop
    <3>1. e.stop
      BY <2>1, <2>4, Zenon
    <3> QED BY <1>1, <2>1, <2>2, <2>3, <2>4, <3>1 DEF e
  <2>5. CASE ~stop
    <3>1. ~e.stop
      BY <2>1, <2>5, Zenon
    <3> QED BY <1>1, <2>1, <2>2, <2>3, <2>5, <3>1 DEF e
  <2> QED BY <2>4, <2>5
<1>8. ExtractUsage(NoEvent, Unnamed) = None
  <2>1. NoEvent = Native(NoCounts, FALSE)
    BY DEF NoEvent, Native
  <2> QED BY <1>4, <1>7, <2>1
<1> QED BY <1>5, <1>6, <1>7, <1>8

\* Only a rerank response may have nothing but a total.
LEMMA ExtractWithUsage ==
  ASSUME NEW o
  PROVE  /\ ExtractUsage(WithUsage("top", o), Unnamed) = UsageFromOpenai(o, Unnamed, FALSE)
         /\ ExtractUsage(WithUsage("message", o), Unnamed) = UsageFromOpenai(o, Unnamed, FALSE)
         /\ ExtractUsage(WithUsage("response", o), Unnamed) = UsageFromOpenai(o, Unnamed, FALSE)
         /\ ExtractUsage(Within("top", Holding(Some(o)), TRUE), Unnamed)
              = UsageFromOpenai(o, Unnamed, TRUE)
BY ExtractForms DEF WithUsage

\* usage_from_counts on counts that fit
LEMMA CountsExact ==
  ASSUME NEW o, NEW pk, NEW ck, NEW hk, NEW a \in Nat, NEW c \in Nat, NEW h \in Nat,
         a + c <= MaxInt, h <= a, AsI64(o, pk) = Some(a), AsI64(o, ck) = Some(c),
         Or(AsI64(o, hk), 0) = h
  PROVE  UsageFromCounts(o, pk, ck, hk, Unnamed) = Some(Usage(Unnamed, a, c, h, a + c))
<1>0. MaxInt \in Nat
  BY UsageParsingAssumption
<1>1. Pos(a) = a /\ Pos(c) = c /\ Pos(h) = h
  BY DEF Pos, Larger
<1>2. Smaller(h, a) = h /\ Add(a, c) = a + c
  BY <1>0 DEF Smaller, Add
<1>3. Some(a) # None /\ Or(Some(a), 0) = a /\ Or(Some(c), 0) = c
  BY OrFacts
<1> QED BY <1>1, <1>2, <1>3 DEF UsageFromCounts, Usage

\* message_start of Anthropic
LEMMA ReadAnthropicFirst ==
  ASSUME NEW t \in Truths
  PROVE  ExtractUsage(FirstEvent("anthropic", t), Unnamed)
           = Some(Usage(Unnamed, All(t), 0, t.read, All(t)))
<1> DEFINE f == t.fresh
           c == t.creation
           r == t.read
           o == [input_tokens |-> f, cache_creation_input_tokens |-> c,
                 cache_read_input_tokens |-> r]
<1>1. /\ f \in 0..MaxInt /\ c \in 0..MaxInt /\ r \in 0..MaxInt /\ f + c + r <= MaxInt
      /\ All(t) = f + c + r /\ MaxInt \in Nat
  BY TruthFacts
<1>2. ExtractUsage(FirstEvent("anthropic", t), Unnamed) = UsageFromOpenai(o, Unnamed, FALSE)
  BY ExtractWithUsage DEF FirstEvent
<1> HIDE DEF f, c, r
<1>3. /\ DOMAIN o = {"input_tokens", "cache_creation_input_tokens", "cache_read_input_tokens"}
      /\ o["input_tokens"] = f /\ o["cache_creation_input_tokens"] = c
      /\ o["cache_read_input_tokens"] = r
  OBVIOUS
<1> HIDE DEF o
<1>4. f \in I64 /\ c \in I64 /\ r \in I64
  BY <1>1 DEF I64
<1>5. /\ AsI64(o, "prompt_tokens") = None /\ AsI64(o, "input_tokens") = Some(f)
      /\ AsI64(o, "completion_tokens") = None /\ AsI64(o, "output_tokens") = None
      /\ AsI64(o, "cache_creation_input_tokens") = Some(c)
      /\ AsI64(o, "cache_read_input_tokens") = Some(r) /\ AsI64(o, "total_tokens") = None
  BY <1>3, <1>4, AsI64Facts
<1>6. RawPrompt(o) = Some(f) /\ RawCompletion(o) = None
  BY <1>5, NumOfTwo DEF RawPrompt, RawCompletion
<1>7. Num(o, Recognized) # None
  BY <1>5, OrFacts, IsRecognized
<1>8. DOMAIN o \cap {"cache_creation_input_tokens", "cache_read_input_tokens"} # {}
  BY <1>3
<1>9. UsageFromOpenai(o, Unnamed, FALSE) = Some(Usage(Unnamed, f + c + r, 0, r, f + c + r + 0))
  <2>1. /\ Or(RawPrompt(o), TotalOnly(o, FALSE)) = f
        /\ Or(AsI64(o, "cache_creation_input_tokens"), 0) = c
        /\ Or(AsI64(o, "cache_read_input_tokens"), 0) = r
        /\ Or(RawCompletion(o), 0) = 0
    BY <1>5, <1>6 DEF Or, Some, None
  <2>2. f \in Nat /\ c \in Nat /\ r \in Nat /\ f + c + r + 0 <= MaxInt /\ r <= f + c + r
    BY <1>1
  <2>3. Says(o, FALSE, f, c, r, 0, r)
    BY <1>5, <1>7, <1>8, <2>1, <2>2 DEF Says
  <2> DEFINE no == FALSE
             zero == 0
  <2>4. Says(o, no, f, c, r, zero, r)
    BY <2>3
  <2> HIDE DEF no, zero
  <2>5. UsageFromOpenai(o, Unnamed, no) = Some(Usage(Unnamed, f + c + r, zero, r, f + c + r + zero))
    BY <2>4, OpenaiExact
  <2> QED BY <2>5 DEF no, zero
<1>10. f + c + r + 0 = f + c + r
  BY <1>1
<1> QED BY <1>1, <1>2, <1>9, <1>10 DEF r

\* An object in OpenAI's form without Anthropic's names
SaysPlainly(o, a, c, h) ==
  /\ RawPrompt(o) = Some(a) /\ RawCompletion(o) = Some(c) /\ Num(o, Recognized) # None
  /\ DOMAIN o \cap {"cache_creation_input_tokens", "cache_read_input_tokens"} = {}
  /\ Or(NestedCached(o), Or(AsI64(o, "prompt_cache_hit_tokens"), 0)) = h
  /\ AsI64(o, "total_tokens") \in {None, Some(a + c)}

\* is read as what it says.
LEMMA ReadOpenai ==
  ASSUME NEW o, NEW a \in Nat, NEW c \in Nat, NEW h \in Nat, a + c <= MaxInt, h <= a,
         SaysPlainly(o, a, c, h)
  PROVE  UsageFromOpenai(o, Unnamed, FALSE) = Some(Usage(Unnamed, a, c, h, a + c))
<1>1. /\ AsI64(o, "cache_creation_input_tokens") = None
      /\ AsI64(o, "cache_read_input_tokens") = None
  BY AsI64Facts DEF SaysPlainly
<1>2. a + 0 + 0 = a /\ a + 0 + 0 + c = a + c
  OBVIOUS
<1>3. /\ Or(RawPrompt(o), TotalOnly(o, FALSE)) = a
      /\ Or(AsI64(o, "cache_creation_input_tokens"), 0) = 0
      /\ Or(AsI64(o, "cache_read_input_tokens"), 0) = 0
      /\ Or(RawCompletion(o), 0) = c
  BY <1>1 DEF Or, Some, None, SaysPlainly
<1>4. Says(o, FALSE, a, 0, 0, c, h)
  BY <1>2, <1>3 DEF Says, SaysPlainly
<1>5. UsageFromOpenai(o, Unnamed, FALSE)
        = Some(Usage(Unnamed, a + 0 + 0, c, h, a + 0 + 0 + c))
  <2> DEFINE no == FALSE
             zero == 0
  <2>1. Says(o, no, a, zero, zero, c, h)
    BY <1>4
  <2> HIDE DEF no, zero
  <2>2. UsageFromOpenai(o, Unnamed, no)
          = Some(Usage(Unnamed, a + zero + zero, c, h, a + zero + zero + c))
    BY <2>1, OpenaiExact
  <2> QED BY <2>2 DEF no, zero
<1> QED BY <1>2, <1>5, Zenon

\* The last chunk of OpenAI, vLLM, DeepSeek and of the Responses API, and each
\* chunk of vLLM
LEMMA ReadOpenaiForms ==
  ASSUME NEW a \in Nat, NEW c \in Nat, NEW h \in Nat, a + c <= MaxInt, h <= a
  PROVE  /\ UsageFromOpenai([prompt_tokens |-> a, completion_tokens |-> c, total_tokens |-> a + c],
                            Unnamed, FALSE)
              = Some(Usage(Unnamed, a, c, 0, a + c))
         /\ UsageFromOpenai([prompt_tokens |-> a, completion_tokens |-> c, total_tokens |-> a + c,
                             prompt_tokens_details |-> h], Unnamed, FALSE)
              = Some(Usage(Unnamed, a, c, h, a + c))
         /\ UsageFromOpenai([prompt_tokens |-> a, completion_tokens |-> c,
                             prompt_cache_hit_tokens |-> h], Unnamed, FALSE)
              = Some(Usage(Unnamed, a, c, h, a + c))
         /\ UsageFromOpenai([input_tokens |-> a, output_tokens |-> c,
                             input_tokens_details |-> h], Unnamed, FALSE)
              = Some(Usage(Unnamed, a, c, h, a + c))
<1>0. MaxInt \in Nat
  BY UsageParsingAssumption
<1>1. a \in I64 /\ c \in I64 /\ h \in I64 /\ a + c \in I64
  BY <1>0 DEF I64
<1> DEFINE s == a + c
<1>2. s \in I64 /\ s = a + c
  BY <1>1
<1> HIDE DEF s
<1>3. UsageFromOpenai([prompt_tokens |-> a, completion_tokens |-> c, total_tokens |-> s],
                      Unnamed, FALSE) = Some(Usage(Unnamed, a, c, 0, a + c))
  <2> DEFINE o == [prompt_tokens |-> a, completion_tokens |-> c, total_tokens |-> s]
  <2>1. /\ DOMAIN o = {"prompt_tokens", "completion_tokens", "total_tokens"}
        /\ o["prompt_tokens"] = a /\ o["completion_tokens"] = c /\ o["total_tokens"] = s
    OBVIOUS
  <2> HIDE DEF o
  <2>2. /\ AsI64(o, "prompt_tokens") = Some(a) /\ AsI64(o, "completion_tokens") = Some(c)
        /\ AsI64(o, "total_tokens") = Some(s) /\ AsI64(o, "input_tokens_details") = None
        /\ AsI64(o, "prompt_cache_hit_tokens") = None
    BY <1>1, <1>2, <2>1, AsI64Facts
  <2>3. RawPrompt(o) = Some(a) /\ RawCompletion(o) = Some(c) /\ NestedCached(o) = None
    BY <2>1, <2>2, NumOfTwo, OrFacts DEF RawPrompt, RawCompletion, NestedCached
  <2>4. Num(o, Recognized) # None
    BY <2>2, OrFacts, IsRecognized
  <2>5. /\ DOMAIN o \cap {"cache_creation_input_tokens", "cache_read_input_tokens"} = {}
        /\ AsI64(o, "total_tokens") \in {None, Some(a + c)}
    BY <1>2, <2>1, <2>2
  <2>6. Or(NestedCached(o), Or(AsI64(o, "prompt_cache_hit_tokens"), 0)) = 0
    BY <2>2, <2>3 DEF Or, Some, None
  <2>7. SaysPlainly(o, a, c, 0)
    BY <2>3, <2>4, <2>5, <2>6 DEF SaysPlainly
  <2>8. UsageFromOpenai(o, Unnamed, FALSE) = Some(Usage(Unnamed, a, c, 0, a + c))
    <3>1. 0 \in Nat /\ 0 <= a
      OBVIOUS
    <3> QED BY <2>7, <3>1, ReadOpenai, Zenon
  <2> QED BY <2>8 DEF o
<1>4. UsageFromOpenai([prompt_tokens |-> a, completion_tokens |-> c, total_tokens |-> s,
                       prompt_tokens_details |-> h], Unnamed, FALSE)
        = Some(Usage(Unnamed, a, c, h, a + c))
  <2> DEFINE o == [prompt_tokens |-> a, completion_tokens |-> c, total_tokens |-> s,
                   prompt_tokens_details |-> h]
  <2>1. /\ DOMAIN o = {"prompt_tokens", "completion_tokens", "total_tokens", "prompt_tokens_details"}
        /\ o["prompt_tokens"] = a /\ o["completion_tokens"] = c /\ o["total_tokens"] = s
        /\ o["prompt_tokens_details"] = h
    OBVIOUS
  <2> HIDE DEF o
  <2>2. /\ AsI64(o, "prompt_tokens") = Some(a) /\ AsI64(o, "completion_tokens") = Some(c)
        /\ AsI64(o, "total_tokens") = Some(s) /\ AsI64(o, "prompt_tokens_details") = Some(h)
    BY <1>1, <1>2, <2>1, AsI64Facts
  <2>3. RawPrompt(o) = Some(a) /\ RawCompletion(o) = Some(c) /\ NestedCached(o) = Some(h)
    BY <2>1, <2>2, NumOfTwo, OrFacts DEF RawPrompt, RawCompletion, NestedCached
  <2>4. Num(o, Recognized) # None
    BY <2>2, OrFacts, IsRecognized
  <2>5. /\ DOMAIN o \cap {"cache_creation_input_tokens", "cache_read_input_tokens"} = {}
        /\ AsI64(o, "total_tokens") \in {None, Some(a + c)}
    BY <1>2, <2>1, <2>2
  <2>6. Or(NestedCached(o), Or(AsI64(o, "prompt_cache_hit_tokens"), 0)) = h
    BY <2>2, <2>3 DEF Or, Some, None
  <2>7. SaysPlainly(o, a, c, h)
    BY <2>3, <2>4, <2>5, <2>6 DEF SaysPlainly
  <2>8. UsageFromOpenai(o, Unnamed, FALSE) = Some(Usage(Unnamed, a, c, h, a + c))
    BY <2>7, ReadOpenai
  <2> QED BY <2>8 DEF o
<1>5. UsageFromOpenai([prompt_tokens |-> a, completion_tokens |-> c,
                       prompt_cache_hit_tokens |-> h], Unnamed, FALSE)
        = Some(Usage(Unnamed, a, c, h, a + c))
  <2> DEFINE o == [prompt_tokens |-> a, completion_tokens |-> c, prompt_cache_hit_tokens |-> h]
  <2>1. /\ DOMAIN o = {"prompt_tokens", "completion_tokens", "prompt_cache_hit_tokens"}
        /\ o["prompt_tokens"] = a /\ o["completion_tokens"] = c
        /\ o["prompt_cache_hit_tokens"] = h
    OBVIOUS
  <2> HIDE DEF o
  <2>2. /\ AsI64(o, "prompt_tokens") = Some(a) /\ AsI64(o, "completion_tokens") = Some(c)
        /\ AsI64(o, "total_tokens") = None /\ AsI64(o, "input_tokens_details") = None
        /\ AsI64(o, "prompt_cache_hit_tokens") = Some(h)
    BY <1>1, <2>1, AsI64Facts
  <2>3. RawPrompt(o) = Some(a) /\ RawCompletion(o) = Some(c) /\ NestedCached(o) = None
    BY <2>1, <2>2, NumOfTwo, OrFacts DEF RawPrompt, RawCompletion, NestedCached
  <2>4. Num(o, Recognized) # None
    BY <2>2, OrFacts, IsRecognized
  <2>5. /\ DOMAIN o \cap {"cache_creation_input_tokens", "cache_read_input_tokens"} = {}
        /\ AsI64(o, "total_tokens") \in {None, Some(a + c)}
    BY <2>1, <2>2
  <2>6. Or(NestedCached(o), Or(AsI64(o, "prompt_cache_hit_tokens"), 0)) = h
    BY <2>2, <2>3 DEF Or, Some, None
  <2>7. SaysPlainly(o, a, c, h)
    BY <2>3, <2>4, <2>5, <2>6 DEF SaysPlainly
  <2>8. UsageFromOpenai(o, Unnamed, FALSE) = Some(Usage(Unnamed, a, c, h, a + c))
    BY <2>7, ReadOpenai
  <2> QED BY <2>8 DEF o
<1>6. UsageFromOpenai([input_tokens |-> a, output_tokens |-> c, input_tokens_details |-> h],
                      Unnamed, FALSE) = Some(Usage(Unnamed, a, c, h, a + c))
  <2> DEFINE o == [input_tokens |-> a, output_tokens |-> c, input_tokens_details |-> h]
  <2>1. /\ DOMAIN o = {"input_tokens", "output_tokens", "input_tokens_details"}
        /\ o["input_tokens"] = a /\ o["output_tokens"] = c /\ o["input_tokens_details"] = h
    OBVIOUS
  <2> HIDE DEF o
  <2>2. /\ AsI64(o, "prompt_tokens") = None /\ AsI64(o, "input_tokens") = Some(a)
        /\ AsI64(o, "completion_tokens") = None /\ AsI64(o, "output_tokens") = Some(c)
        /\ AsI64(o, "total_tokens") = None /\ AsI64(o, "input_tokens_details") = Some(h)
    BY <1>1, <2>1, AsI64Facts
  <2>3. RawPrompt(o) = Some(a) /\ RawCompletion(o) = Some(c) /\ NestedCached(o) = Some(h)
    BY <2>1, <2>2, NumOfTwo, OrFacts DEF RawPrompt, RawCompletion, NestedCached
  <2>4. Num(o, Recognized) # None
    BY <2>2, OrFacts, IsRecognized
  <2>5. /\ DOMAIN o \cap {"cache_creation_input_tokens", "cache_read_input_tokens"} = {}
        /\ AsI64(o, "total_tokens") \in {None, Some(a + c)}
    BY <2>1, <2>2
  <2>6. Or(NestedCached(o), Or(AsI64(o, "prompt_cache_hit_tokens"), 0)) = h
    BY <2>2, <2>3 DEF Or, Some, None
  <2>7. SaysPlainly(o, a, c, h)
    BY <2>3, <2>4, <2>5, <2>6 DEF SaysPlainly
  <2>8. UsageFromOpenai(o, Unnamed, FALSE) = Some(Usage(Unnamed, a, c, h, a + c))
    BY <2>7, ReadOpenai
  <2> QED BY <2>8 DEF o
<1> QED BY <1>2, <1>3, <1>4, <1>5, <1>6

\* message_delta of Anthropic has the output tokens alone.
LEMMA ReadAnthropicLast ==
  ASSUME NEW c \in 0..MaxInt
  PROVE  UsageFromOpenai([output_tokens |-> c], Unnamed, FALSE) = Some(Usage(Unnamed, 0, c, 0, c))
<1>0. MaxInt \in Nat /\ c \in I64 /\ c \in Nat /\ c <= MaxInt
  BY UsageParsingAssumption DEF I64
<1> DEFINE o == [output_tokens |-> c]
<1>1. DOMAIN o = {"output_tokens"} /\ o["output_tokens"] = c
  OBVIOUS
<1> HIDE DEF o
<1>2. /\ AsI64(o, "prompt_tokens") = None /\ AsI64(o, "input_tokens") = None
      /\ AsI64(o, "completion_tokens") = None /\ AsI64(o, "output_tokens") = Some(c)
      /\ AsI64(o, "cache_creation_input_tokens") = None
      /\ AsI64(o, "cache_read_input_tokens") = None /\ AsI64(o, "total_tokens") = None
      /\ AsI64(o, "input_tokens_details") = None /\ AsI64(o, "prompt_cache_hit_tokens") = None
  BY <1>0, <1>1, AsI64Facts
<1>3. RawPrompt(o) = None /\ RawCompletion(o) = Some(c) /\ NestedCached(o) = None
  BY <1>1, <1>2, NumOfTwo, OrFacts DEF RawPrompt, RawCompletion, NestedCached
<1>4. Num(o, Recognized) # None
  BY <1>2, OrFacts, IsRecognized
<1>5. DOMAIN o \cap {"cache_creation_input_tokens", "cache_read_input_tokens"} = {}
  BY <1>1
<1> DEFINE no == FALSE
           zero == 0
<1>6. TotalOnly(o, no) = 0
  BY DEF TotalOnly
<1> DEFINE only == TotalOnly(o, no)
<1>12. only = zero
  BY <1>6
<1> HIDE DEF only
<1>7. /\ Or(RawPrompt(o), only) = zero
      /\ Or(AsI64(o, "cache_creation_input_tokens"), 0) = zero
      /\ Or(AsI64(o, "cache_read_input_tokens"), 0) = zero
      /\ Or(RawCompletion(o), 0) = c
      /\ Or(NestedCached(o), Or(AsI64(o, "prompt_cache_hit_tokens"), 0)) = zero
  BY <1>2, <1>3, <1>12 DEF Or, Some, None
<1>8. zero \in Nat /\ zero + zero + zero + c <= MaxInt /\ zero <= zero + zero + zero
  BY <1>0
<1>9. Says(o, no, zero, zero, zero, c, zero)
  BY <1>0, <1>2, <1>4, <1>5, <1>7, <1>8 DEF Says, only
<1> HIDE DEF no, zero
<1>10. UsageFromOpenai(o, Unnamed, no)
         = Some(Usage(Unnamed, zero + zero + zero, c, zero, zero + zero + zero + c))
  BY <1>9, OpenaiExact
<1>11. zero = 0 /\ zero + zero + zero = 0 /\ zero + zero + zero + c = c
  BY <1>0 DEF zero
<1> QED BY <1>10, <1>11 DEF o, no

\* The total of a rerank response is its input.
LEMMA ReadRerank ==
  ASSUME NEW a \in 0..MaxInt
  PROVE  UsageFromOpenai([total_tokens |-> a], Unnamed, TRUE) = Some(Usage(Unnamed, a, 0, 0, a))
<1>0. MaxInt \in Nat /\ a \in I64 /\ a \in Nat /\ a <= MaxInt
  BY UsageParsingAssumption DEF I64
<1> DEFINE o == [total_tokens |-> a]
<1>1. DOMAIN o = {"total_tokens"} /\ o["total_tokens"] = a
  OBVIOUS
<1> HIDE DEF o
<1>2. /\ AsI64(o, "prompt_tokens") = None /\ AsI64(o, "input_tokens") = None
      /\ AsI64(o, "completion_tokens") = None /\ AsI64(o, "output_tokens") = None
      /\ AsI64(o, "cache_creation_input_tokens") = None
      /\ AsI64(o, "cache_read_input_tokens") = None /\ AsI64(o, "total_tokens") = Some(a)
      /\ AsI64(o, "input_tokens_details") = None /\ AsI64(o, "prompt_cache_hit_tokens") = None
  BY <1>0, <1>1, AsI64Facts
<1>3. RawPrompt(o) = None /\ RawCompletion(o) = None /\ NestedCached(o) = None
  BY <1>1, <1>2, NumOfTwo, OrFacts DEF RawPrompt, RawCompletion, NestedCached
<1>4. Num(o, Recognized) # None
  BY <1>2, OrFacts, IsRecognized
<1>5. DOMAIN o \cap {"cache_creation_input_tokens", "cache_read_input_tokens"} = {}
  BY <1>1
<1> DEFINE yes == TRUE
           zero == 0
<1>6. TotalOnly(o, yes) = a
  <2>1. Or(AsI64(o, "total_tokens"), 0) = a
    BY <1>2 DEF Or, Some, None
  <2>2. Pos(a) = a
    BY <1>0 DEF Pos, Larger
  <2> QED BY <1>3, <2>1, <2>2 DEF TotalOnly
<1>7. /\ Or(RawPrompt(o), TotalOnly(o, yes)) = a
      /\ Or(AsI64(o, "cache_creation_input_tokens"), 0) = zero
      /\ Or(AsI64(o, "cache_read_input_tokens"), 0) = zero
      /\ Or(RawCompletion(o), 0) = zero
      /\ Or(NestedCached(o), Or(AsI64(o, "prompt_cache_hit_tokens"), 0)) = zero
  BY <1>2, <1>3, <1>6 DEF Or, Some, None
<1>8. zero \in Nat /\ a + zero + zero + zero = a /\ zero <= a + zero + zero
  BY <1>0
<1>9. Says(o, yes, a, zero, zero, zero, zero)
  BY <1>0, <1>2, <1>4, <1>5, <1>7, <1>8 DEF Says
<1> HIDE DEF yes, zero
<1>10. UsageFromOpenai(o, Unnamed, yes)
         = Some(Usage(Unnamed, a + zero + zero, zero, zero, a + zero + zero + zero))
  BY <1>9, OpenaiExact
<1>11. zero = 0 /\ a + zero + zero = a /\ a + zero + zero + zero = a
  BY <1>0 DEF zero
<1> QED BY <1>10, <1>11 DEF o, yes

\* The native counts of llama.cpp and of Ollama
LEMMA ReadNative ==
  ASSUME NEW a \in 0..MaxInt, NEW c \in 0..MaxInt, NEW h \in 0..MaxInt, a + c <= MaxInt, h <= a
  PROVE  /\ ExtractUsage(Native([tokens_evaluated |-> a, tokens_predicted |-> c,
                                 tokens_cached |-> h], TRUE), Unnamed)
              = Some(Usage(Unnamed, a, c, h, a + c))
         /\ ExtractUsage(Native([prompt_eval_count |-> a, eval_count |-> c], FALSE), Unnamed)
              = Some(Usage(Unnamed, a, c, 0, a + c))
         /\ ExtractUsage(Native([tokens_predicted |-> c], FALSE), Unnamed) = None
<1>0. /\ MaxInt \in Nat /\ a \in I64 /\ c \in I64 /\ h \in I64 /\ a \in Nat /\ c \in Nat
      /\ h \in Nat
  BY UsageParsingAssumption DEF I64
<1>1. ExtractUsage(Native([tokens_evaluated |-> a, tokens_predicted |-> c,
                           tokens_cached |-> h], TRUE), Unnamed)
        = Some(Usage(Unnamed, a, c, h, a + c))
  <2> DEFINE o == [tokens_evaluated |-> a, tokens_predicted |-> c, tokens_cached |-> h]
  <2>1. /\ DOMAIN o = {"tokens_evaluated", "tokens_predicted", "tokens_cached"}
        /\ o["tokens_evaluated"] = a /\ o["tokens_predicted"] = c /\ o["tokens_cached"] = h
    OBVIOUS
  <2> HIDE DEF o
  <2>2. /\ AsI64(o, "tokens_evaluated") = Some(a) /\ AsI64(o, "tokens_predicted") = Some(c)
        /\ AsI64(o, "tokens_cached") = Some(h)
    BY <1>0, <2>1, AsI64Facts
  <2>3. Or(AsI64(o, "tokens_cached"), 0) = h
    BY <2>2 DEF Or, Some, None
  <2>4. UsageFromCounts(o, "tokens_evaluated", "tokens_predicted", "tokens_cached", Unnamed)
          = Some(Usage(Unnamed, a, c, h, a + c))
    BY <1>0, <2>2, <2>3, CountsExact
  <2> QED BY <2>4, ExtractForms DEF o
<1>2. ExtractUsage(Native([prompt_eval_count |-> a, eval_count |-> c], FALSE), Unnamed)
        = Some(Usage(Unnamed, a, c, 0, a + c))
  <2> DEFINE o == [prompt_eval_count |-> a, eval_count |-> c]
             zero == 0
  <2>1. /\ DOMAIN o = {"prompt_eval_count", "eval_count"}
        /\ o["prompt_eval_count"] = a /\ o["eval_count"] = c
    OBVIOUS
  <2> HIDE DEF o
  <2>2. /\ AsI64(o, "prompt_eval_count") = Some(a) /\ AsI64(o, "eval_count") = Some(c)
        /\ AsI64(o, "-") = None
    BY <1>0, <2>1, AsI64Facts
  <2>3. Or(AsI64(o, "-"), 0) = zero /\ zero \in Nat /\ zero <= a
    BY <1>0, <2>2 DEF Or, Some, None
  <2> HIDE DEF zero
  <2>4. UsageFromCounts(o, "prompt_eval_count", "eval_count", "-", Unnamed)
          = Some(Usage(Unnamed, a, c, zero, a + c))
    BY <1>0, <2>2, <2>3, CountsExact
  <2>5. ExtractUsage(Native(o, FALSE), Unnamed)
          = UsageFromCounts(o, "prompt_eval_count", "eval_count", "-", Unnamed)
    BY <2>1, ExtractForms
  <2> QED BY <2>4, <2>5 DEF o, zero
<1>3. ExtractUsage(Native([tokens_predicted |-> c], FALSE), Unnamed) = None
  <2> DEFINE o == [tokens_predicted |-> c]
  <2>1. DOMAIN o = {"tokens_predicted"}
    OBVIOUS
  <2> HIDE DEF o
  <2>2. ExtractUsage(Native(o, FALSE), Unnamed) = None
    BY <2>1, ExtractForms
  <2> QED BY <2>2 DEF o
<1> QED BY <1>1, <1>2, <1>3

-----------------------------------------------------------------------------
(* What is kept of the events of one response.                             *)

\* Two running totals of one response, and the larger counts
Merge(i1, o1, c1, t1, i2, o2, c2, t2, i, o, c) ==
  /\ {i1, o1, c1, t1, i2, o2, c2, t2, i, o, c} \subseteq Nat
  /\ i = Larger(i1, i2) /\ o = Larger(o1, o2) /\ c = Larger(c1, c2)
  /\ t1 <= i + o /\ t2 <= i + o /\ i + o <= MaxInt

\* accumulate_usage keeps those, and their sum.
LEMMA AccumulateExact ==
  ASSUME NEW i1, NEW o1, NEW c1, NEW t1, NEW i2, NEW o2, NEW c2, NEW t2, NEW i, NEW o, NEW c,
         Merge(i1, o1, c1, t1, i2, o2, c2, t2, i, o, c)
  PROVE  AccumulateUsage(Some(Usage(Unnamed, i1, o1, c1, t1)), Some(Usage(Unnamed, i2, o2, c2, t2)))
           = Some(Usage(Unnamed, i, o, c, i + o))
<1> USE DEF Merge
<1> DEFINE a == Usage(Unnamed, i1, o1, c1, t1)
           b == Usage(Unnamed, i2, o2, c2, t2)
<1>1. /\ a.model = Unnamed /\ a.input = i1 /\ a.output = o1 /\ a.cached = c1 /\ a.total = t1
      /\ b.model = Unnamed /\ b.input = i2 /\ b.output = o2 /\ b.cached = c2 /\ b.total = t2
  BY UsageFields
<1> HIDE DEF a, b
<1>2. Some(a) # None /\ Some(b) # None /\ Some(a)[1] = a /\ Some(b)[1] = b
  BY DEF Some, None
<1>3. AccumulateUsage(Some(a), Some(b))
        = Some(Usage(Unnamed, i, o, c, Larger(Larger(t1, t2), Add(i, o))))
  BY <1>1, <1>2 DEF AccumulateUsage, Usage
<1>4. MaxInt \in Nat
  BY UsageParsingAssumption
<1>5. Larger(Larger(t1, t2), Add(i, o)) = i + o
  BY <1>4 DEF Larger, Add, Smaller
<1> QED BY <1>3, <1>5 DEF a, b

\* What is kept while a response is open, and at its end
Interim(d, t) ==
  CASE d = "anthropic" -> {Some(Usage(Unnamed, All(t), 0, t.read, All(t)))}
    [] d = "vllm" -> {None, Some(Usage(Unnamed, All(t), t.output, 0, All(t) + t.output))}
    [] OTHER -> {None}
Exact(d, t) ==
  Usage(Unnamed, All(t), t.output, IF d \in {"ollama", "rerank"} THEN 0 ELSE t.read,
        All(t) + t.output)

\* None of these is out of range.
LEMMA KeptIsSane ==
  ASSUME NEW d, NEW t \in Truths
  PROVE  Interim(d, t) \subseteq SaneOptions /\ Exact(d, t) \in SaneUsages
<1>1. /\ All(t) \in 0..MaxInt /\ t.output \in 0..MaxInt /\ t.read \in 0..MaxInt
      /\ All(t) + t.output \in 0..MaxInt /\ t.read <= All(t) /\ MaxInt \in Nat
  BY TruthFacts
<1> DEFINE a == All(t)
           r == t.read
           o == t.output
           s == All(t) + t.output
           h == IF d \in {"ollama", "rerank"} THEN 0 ELSE r
           zero == 0
<1>2. /\ a \in 0..MaxInt /\ r \in 0..MaxInt /\ o \in 0..MaxInt /\ s \in 0..MaxInt /\ r <= a
      /\ MaxInt \in Nat
  BY <1>1
<1> HIDE DEF a, r, o, s
<1>3. /\ SaneCounts(a, zero, r, a) /\ SaneCounts(a, o, zero, s) /\ SaneCounts(a, o, h, s)
  BY <1>2 DEF SaneCounts
<1> HIDE DEF zero, h
<1>4. /\ Usage(Unnamed, a, zero, r, a) \in SaneUsages /\ Usage(Unnamed, a, o, zero, s) \in SaneUsages
      /\ Usage(Unnamed, a, o, h, s) \in SaneUsages
  BY <1>3, SaneIntro
<1>5. /\ Usage(Unnamed, All(t), 0, t.read, All(t)) \in SaneUsages
      /\ Usage(Unnamed, All(t), t.output, 0, All(t) + t.output) \in SaneUsages
      /\ Exact(d, t) \in SaneUsages
  BY <1>4 DEF a, r, o, s, zero, h, Exact
<1> QED BY <1>5 DEF Interim, SaneOptions

\* The first event
LEMMA KeepFirst ==
  ASSUME NEW d \in Dialects, NEW t \in Truths, t.output = 0
  PROVE  AccumulateUsage(None, ExtractUsage(FirstEvent(d, t), Unnamed)) \in Interim(d, t)
<1>1. CASE d = "anthropic"
  <2>1. Some(Usage(Unnamed, All(t), 0, t.read, All(t))) # None
    BY DEF Some, None
  <2> QED BY <1>1, <2>1, ReadAnthropicFirst DEF AccumulateUsage, Interim
<1>2. CASE d # "anthropic"
  <2>1. FirstEvent(d, t) \in {NoEvent, NullUsage("response")}
    BY <1>2 DEF FirstEvent
  <2>2. ExtractUsage(FirstEvent(d, t), Unnamed) = None
    BY <2>1, ExtractForms
  <2> QED BY <1>2, <2>2 DEF AccumulateUsage, Interim
<1> QED BY <1>1, <1>2

\* An event after each token
LEMMA KeepToken ==
  ASSUME NEW d \in Dialects, NEW t \in Truths, t.output < MaxOutput,
         NEW x \in Interim(d, t), NEW u, u = [t EXCEPT !.output = @ + 1]
  PROVE  u \in Truths /\ AccumulateUsage(x, ExtractUsage(TokenEvent(d, u), Unnamed)) \in Interim(d, u)
<1>1. /\ u \in Truths /\ u.output = t.output + 1 /\ All(u) = All(t) /\ u.read = t.read
  BY UsageParsingAssumption DEF Truths, All
<1>2. /\ All(t) \in 0..MaxInt /\ t.output \in 0..MaxInt /\ u.output \in 0..MaxInt
      /\ All(u) + u.output \in 0..MaxInt /\ MaxInt \in Nat
  BY <1>1, TruthFacts
<1>3. CASE d = "vllm"
  <2> DEFINE a == All(t)
             o == t.output
             p == u.output
             zero == 0
             next == Some(Usage(Unnamed, a, p, zero, a + p))
             last == Some(Usage(Unnamed, a, o, zero, a + o))
  <2>1. /\ a \in Nat /\ o \in Nat /\ p \in Nat /\ p = o + 1 /\ a + p <= MaxInt /\ All(u) = a
        /\ zero \in Nat /\ zero <= a
    BY <1>1, <1>2
  <2>2. TokenEvent(d, u) = WithUsage("top", [prompt_tokens |-> All(u), completion_tokens |-> u.output,
                                             total_tokens |-> All(u) + u.output])
    BY <1>3 DEF TokenEvent
  <2> HIDE DEF a, o, p
  <2>3. UsageFromOpenai([prompt_tokens |-> a, completion_tokens |-> p, total_tokens |-> a + p],
                        Unnamed, FALSE) = next
    <3> HIDE DEF zero
    <3> QED BY <2>1, ReadOpenaiForms DEF zero
  <2>4. ExtractUsage(TokenEvent(d, u), Unnamed) = next
    <3> DEFINE q == [prompt_tokens |-> a, completion_tokens |-> p, total_tokens |-> a + p]
    <3>1. TokenEvent(d, u) = WithUsage("top", q)
      BY <2>1, <2>2 DEF a, p
    <3>2. UsageFromOpenai(q, Unnamed, FALSE) = next
      BY <2>3
    <3> HIDE DEF q, next
    <3> QED BY <3>1, <3>2, ExtractWithUsage
  <2>5. x = None \/ x = last
    BY <1>3 DEF Interim, a, o
  <2>6. next \in Interim(d, u) /\ next # None
    BY <1>3, <2>1 DEF Interim, p, Some, None
  <2>7. CASE x = None
    <3> HIDE DEF next
    <3> QED BY <1>1, <2>4, <2>6, <2>7 DEF AccumulateUsage
  <2>8. CASE x = last
    <3>1. /\ a = Larger(a, a) /\ p = Larger(o, p) /\ zero = Larger(zero, zero)
          /\ a + o <= a + p /\ a + p <= a + p /\ a + o \in Nat /\ a + p \in Nat
      BY <2>1 DEF Larger
    <3>2. Merge(a, o, zero, a + o, a, p, zero, a + p, a, p, zero)
      BY <2>1, <3>1 DEF Merge
    <3> HIDE DEF zero
    <3>3. AccumulateUsage(last, next) = next
      BY <3>2, AccumulateExact
    <3> QED BY <1>1, <2>4, <2>6, <2>8, <3>3
  <2> QED BY <2>5, <2>7, <2>8
<1>4. CASE d = "llamacpp"
  <2>1. ExtractUsage(TokenEvent(d, u), Unnamed) = None
    <3> DEFINE p == u.output
               zero == 0
    <3>1. TokenEvent(d, u) = Native([tokens_predicted |-> p], FALSE)
      BY <1>4 DEF TokenEvent
    <3>2. p \in 0..MaxInt /\ zero \in 0..MaxInt /\ zero + p <= MaxInt /\ zero <= zero
      BY <1>2
    <3> HIDE DEF p, zero
    <3> QED BY <3>1, <3>2, ReadNative
  <2> QED BY <1>1, <1>4, <2>1 DEF AccumulateUsage, Interim
<1>5. CASE d \notin {"vllm", "llamacpp"}
  <2>1. TokenEvent(d, u) \in {NoEvent, NullUsage("top")}
    BY <1>5 DEF TokenEvent
  <2>2. ExtractUsage(TokenEvent(d, u), Unnamed) = None
    BY <2>1, ExtractForms
  <2> QED BY <1>1, <1>5, <2>2 DEF AccumulateUsage, Interim
<1> QED BY <1>1, <1>3, <1>4, <1>5

\* The last event: what is kept is what the provider counted.
LEMMA KeepLast ==
  ASSUME NEW d \in Dialects, NEW t \in Truths, NEW x \in Interim(d, t),
         d = "rerank" => t.output = 0
  PROVE  AccumulateUsage(x, ExtractUsage(LastEvent(d, t), Unnamed)) = Some(Exact(d, t))
<1> DEFINE a == All(t)
           o == t.output
           r == t.read
           e == ExtractUsage(LastEvent(d, t), Unnamed)
           zero == 0
<1>1. /\ a \in 0..MaxInt /\ o \in 0..MaxInt /\ r \in 0..MaxInt /\ a \in Nat /\ o \in Nat
      /\ r \in Nat /\ a + o <= MaxInt /\ r <= a /\ MaxInt \in Nat /\ a + o \in Nat
      /\ zero \in Nat /\ zero <= a
  BY TruthFacts
<1>2. \A y : Some(y) # None
  BY DEF Some, None
<1>3. ASSUME x = None, e = Some(Exact(d, t))
      PROVE  AccumulateUsage(x, e) = Some(Exact(d, t))
  <2> HIDE DEF e
  <2> QED BY <1>2, <1>3 DEF AccumulateUsage
<1>4. CASE d \in {"openai", "vllm"}
  <2> DEFINE q == [prompt_tokens |-> a, completion_tokens |-> o, total_tokens |-> a + o,
                   prompt_tokens_details |-> r]
             all == Some(Usage(Unnamed, a, o, r, a + o))
             last == Some(Usage(Unnamed, a, o, zero, a + o))
  <2>1. LastEvent(d, t) = WithUsage("top", q)
    BY <1>4 DEF LastEvent
  <2>2. all = Some(Exact(d, t)) /\ (x = None \/ x = last)
    BY <1>4 DEF Exact, Interim
  <2> HIDE DEF a, o, r
  <2>3. UsageFromOpenai(q, Unnamed, FALSE) = all
    BY <1>1, ReadOpenaiForms
  <2>4. e = all
    <3> HIDE DEF q, all
    <3> QED BY <2>1, <2>3, ExtractWithUsage DEF e
  <2>5. CASE x = last
    <3>1. /\ a = Larger(a, a) /\ o = Larger(o, o) /\ r = Larger(zero, r) /\ a + o <= a + o
      BY <1>1 DEF Larger
    <3>2. Merge(a, o, zero, a + o, a, o, r, a + o, a, o, r)
      BY <1>1, <3>1 DEF Merge
    <3> HIDE DEF zero, e
    <3>3. AccumulateUsage(last, all) = all
      BY <3>2, AccumulateExact
    <3> QED BY <2>2, <2>4, <2>5, <3>3 DEF e
  <2> QED BY <1>3, <2>2, <2>4, <2>5
<1>5. CASE d = "deepseek"
  <2> DEFINE q == [prompt_tokens |-> a, completion_tokens |-> o, prompt_cache_hit_tokens |-> r]
             all == Some(Usage(Unnamed, a, o, r, a + o))
  <2>1. LastEvent(d, t) = WithUsage("top", q)
    BY <1>5 DEF LastEvent
  <2>2. all = Some(Exact(d, t)) /\ x = None
    BY <1>5 DEF Exact, Interim
  <2> HIDE DEF a, o, r
  <2>3. UsageFromOpenai(q, Unnamed, FALSE) = all
    BY <1>1, ReadOpenaiForms
  <2>4. e = all
    <3> HIDE DEF q, all
    <3> QED BY <2>1, <2>3, ExtractWithUsage DEF e
  <2> QED BY <1>3, <2>2, <2>4
<1>6. CASE d = "responses"
  <2> DEFINE q == [input_tokens |-> a, output_tokens |-> o, input_tokens_details |-> r]
             all == Some(Usage(Unnamed, a, o, r, a + o))
  <2>1. LastEvent(d, t) = WithUsage("response", q)
    BY <1>6 DEF LastEvent
  <2>2. all = Some(Exact(d, t)) /\ x = None
    BY <1>6 DEF Exact, Interim
  <2> HIDE DEF a, o, r
  <2>3. UsageFromOpenai(q, Unnamed, FALSE) = all
    BY <1>1, ReadOpenaiForms
  <2>4. e = all
    <3> HIDE DEF q, all
    <3> QED BY <2>1, <2>3, ExtractWithUsage DEF e
  <2> QED BY <1>3, <2>2, <2>4
<1>7. CASE d = "anthropic"
  <2> DEFINE q == [output_tokens |-> o]
             first == Some(Usage(Unnamed, a, zero, r, a))
             all == Some(Usage(Unnamed, zero, o, zero, o))
  <2>1. LastEvent(d, t) = WithUsage("top", q)
    BY <1>7 DEF LastEvent
  <2>2. Some(Usage(Unnamed, a, o, r, a + o)) = Some(Exact(d, t)) /\ x = first
    BY <1>7 DEF Exact, Interim
  <2> HIDE DEF a, o, r
  <2>3. UsageFromOpenai(q, Unnamed, FALSE) = all
    BY <1>1, ReadAnthropicLast
  <2>4. e = all
    <3> HIDE DEF q, all
    <3> QED BY <2>1, <2>3, ExtractWithUsage DEF e
  <2>5. /\ a = Larger(a, zero) /\ o = Larger(zero, o) /\ r = Larger(r, zero) /\ a <= a + o
        /\ o <= a + o
    BY <1>1 DEF Larger
  <2>6. Merge(a, zero, r, a, zero, o, zero, o, a, o, r)
    BY <1>1, <2>5 DEF Merge
  <2> HIDE DEF zero, e
  <2>7. AccumulateUsage(first, all) = Some(Usage(Unnamed, a, o, r, a + o))
    BY <2>6, AccumulateExact
  <2> QED BY <2>2, <2>4, <2>7 DEF e
<1>8. CASE d = "llamacpp"
  <2>1. LastEvent(d, t) = Native([tokens_evaluated |-> a, tokens_predicted |-> o,
                                  tokens_cached |-> r], TRUE)
    BY <1>8 DEF LastEvent
  <2>2. Some(Usage(Unnamed, a, o, r, a + o)) = Some(Exact(d, t)) /\ x = None
    BY <1>8 DEF Exact, Interim
  <2> HIDE DEF a, o, r
  <2>3. e = Some(Usage(Unnamed, a, o, r, a + o))
    BY <1>1, <2>1, ReadNative
  <2> QED BY <1>3, <2>2, <2>3
<1>9. CASE d = "ollama"
  <2>1. LastEvent(d, t) = Native([prompt_eval_count |-> a, eval_count |-> o], FALSE)
    BY <1>9 DEF LastEvent
  <2>2. Some(Usage(Unnamed, a, o, 0, a + o)) = Some(Exact(d, t)) /\ x = None
    BY <1>9 DEF Exact, Interim
  <2> HIDE DEF a, o, r
  <2>3. e = Some(Usage(Unnamed, a, o, 0, a + o))
    BY <1>1, <2>1, ReadNative
  <2> QED BY <1>3, <2>2, <2>3
<1>10. CASE d = "rerank"
  <2> DEFINE q == [total_tokens |-> a]
             all == Some(Usage(Unnamed, a, 0, 0, a))
  <2>1. LastEvent(d, t) = Within("top", Holding(Some(q)), TRUE)
    BY <1>10 DEF LastEvent
  <2>2. all = Some(Exact(d, t)) /\ x = None
    <3>1. o = 0 /\ a + o = a /\ x = None
      BY <1>1, <1>10 DEF Interim
    <3>2. Exact(d, t) = Usage(Unnamed, a, o, 0, a + o)
      BY <1>10 DEF Exact
    <3> HIDE DEF a, o
    <3> QED BY <3>1, <3>2
  <2> HIDE DEF a, o, r
  <2>3. UsageFromOpenai(q, Unnamed, TRUE) = all
    BY <1>1, ReadRerank
  <2>4. e = all
    <3> HIDE DEF q, all
    <3> QED BY <2>1, <2>3, ExtractWithUsage DEF e
  <2> QED BY <1>3, <2>2, <2>4
<1> QED BY <1>4, <1>5, <1>6, <1>7, <1>8, <1>9, <1>10 DEF Dialects

-----------------------------------------------------------------------------
(* The recorded rows.                                                      *)

GoodRows ==
  {r \in [usage : SaneUsages, phase : {"open", "ended", "broken"}, dialect : Dialects,
          truth : Truths] :
     /\ r.phase = "open" => Some(r.usage) \in Interim(r.dialect, r.truth)
     /\ r.phase = "ended" => r.usage = Exact(r.dialect, r.truth)}

ParsingInv ==
  /\ reading \in {"idle", "open", "ended", "broken"}
  /\ dialect \in Dialects /\ truth \in Truths /\ counted \in SaneOptions
  /\ dialect = "rerank" => truth.output = 0
  /\ reading = "idle" => counted = None
  /\ reading = "open" => counted \in Interim(dialect, truth)
  /\ reading = "ended" => counted = Some(Exact(dialect, truth))
  /\ rows \in Seq(GoodRows)

\* At the start there is nothing.
LEMMA ParsingInitial == ParsingInit => ParsingInv
<1> SUFFICES ASSUME ParsingInit PROVE ParsingInv
  OBVIOUS
<1>1. Nothing \in Truths /\ Nothing.output = 0
  BY UsageParsingAssumption DEF Nothing, Truths
<1>2. None \in SaneOptions /\ "openai" \in Dialects
  BY DEF SaneOptions, Dialects
<1> QED BY <1>1, <1>2 DEF ParsingInit, ParsingInv

\* A broken provider's events are read to something in range, or to nothing.
LEMMA BrokenIsSane ==
  ASSUME NEW a \in Garbage, NEW b \in Garbage, NEW name \in {None} \cup {Some(n) : n \in Names}
  PROVE  /\ \A wrap \in {"response", "message", "top"}, rerank \in BOOLEAN :
              AccumulateUsage(ExtractUsage(Broken(wrap, name, a, b, rerank), Unnamed),
                              ExtractUsage(Native(b, TRUE), Unnamed)) \in SaneOptions
         /\ Finalize([NoEvent EXCEPT !.top.model = name], <<a, b>>, Unnamed) \in SaneOptions
<1> DEFINE model == Or(name, Unnamed)
           full == [model |-> name, has |-> TRUE, usage |-> Some(a)]
           other == Holding(Some(b))
           named == [model |-> name, has |-> FALSE, usage |-> None]
           y == Native(b, TRUE)
           z == [NoEvent EXCEPT !.top.model = name]
           two == <<a, b>>
<1>1. IsObject(a) /\ IsObject(b) /\ IsObject(NoCounts)
  BY UsageParsingAssumption DEF IsObject, NoCounts
<1>2. model \in {Unnamed} \cup Names /\ Or(None, Unnamed) = Unnamed
  BY DEF Or, Some, None
<1>3. \A o : Some(o)[1] = o
  BY DEF Some
<1>4. /\ IsContainer(Empty) /\ IsContainer(full) /\ IsContainer(other) /\ IsContainer(named)
  <2> DEFINE sa == Some(a)
             sb == Some(b)
  <2>1. sa[1] = a /\ sb[1] = b
    BY <1>3
  <2> HIDE DEF sa, sb
  <2>2. /\ Empty.model = None /\ Empty.usage = None
        /\ [model |-> name, has |-> TRUE, usage |-> sa].model = name
        /\ [model |-> name, has |-> TRUE, usage |-> sa].usage = sa
        /\ Holding(sb).model = None /\ Holding(sb).usage = sb
        /\ named.model = name /\ named.usage = None
    BY DEF Empty, Holding
  <2>3. /\ full = [model |-> name, has |-> TRUE, usage |-> sa] /\ other = Holding(sb)
    BY DEF sa, sb
  <2> HIDE DEF full, other, named
  <2>4. /\ full.model = name /\ full.usage = sa /\ other.model = None /\ other.usage = sb
    BY <2>2, <2>3
  <2> QED BY <1>1, <1>2, <2>1, <2>2, <2>4 DEF IsContainer
<1> HIDE DEF full, other
<1>5. ASSUME NEW wrap \in {"response", "message", "top"}, NEW rerank \in BOOLEAN
      PROVE  ExtractUsage(Broken(wrap, name, a, b, rerank), Unnamed) \in SaneOptions
  <2> DEFINE x == Broken(wrap, name, a, b, rerank)
             r == IF "response" = wrap THEN full ELSE Empty
             m == IF "message" = wrap THEN full ELSE Empty
             t == IF "top" = wrap THEN full ELSE other
             bad == {Empty, full, other}
  <2>1. x = Event(r, m, t, NoCounts, TRUE, rerank)
    BY DEF Broken, full, other
  <2>2. /\ x.response \in bad /\ x.message \in bad /\ x.top \in bad /\ x.native = NoCounts
    <3>1. r \in bad /\ m \in bad /\ t \in bad
      OBVIOUS
    <3> HIDE DEF r, m, t, x
    <3> QED BY <2>1, <3>1 DEF Event
  <2> HIDE DEF x
  <2>3. IsContainer(x.response) /\ IsContainer(x.message) /\ IsContainer(x.top)
    BY <1>4, <2>2
  <2>4. ExtractUsage(x, Unnamed) \in SaneOptions
    BY <1>1, <2>2, <2>3, ExtractSane
  <2> QED BY <2>4 DEF x
<1>6. /\ y.response = Empty /\ y.message = Empty /\ y.top = Empty /\ y.native = b
      /\ z.response = Empty /\ z.message = Empty /\ z.native = NoCounts
  BY DEF Native, NoEvent, Event
<1>7. z.top = named
  BY DEF NoEvent, Event, Empty
<1>8. named.model = name
  OBVIOUS
<1>9. DOMAIN two = 1..2 /\ \A i \in 1..2 : IsObject(two[i])
  BY <1>1
<1> HIDE DEF y, z, two, model, named
<1>10. ExtractUsage(y, Unnamed) \in SaneOptions
  BY <1>1, <1>4, <1>6, ExtractSane
<1>11. ExtractUsage(z, Unnamed) \in SaneOptions
  BY <1>1, <1>4, <1>6, <1>7, ExtractSane
<1>12. ScavengeUsage(two, model) \in SaneOptions
  BY <1>2, <1>9, ScavengeSane
<1>13. Finalize(z, two, Unnamed) \in SaneOptions
  BY <1>7, <1>8, <1>11, <1>12 DEF Finalize, model
<1>14. ASSUME NEW wrap \in {"response", "message", "top"}, NEW rerank \in BOOLEAN
       PROVE  AccumulateUsage(ExtractUsage(Broken(wrap, name, a, b, rerank), Unnamed),
                              ExtractUsage(y, Unnamed)) \in SaneOptions
  BY <1>5, <1>10, AccumulateSane
<1> QED BY <1>13, <1>14 DEF y, z, two

\* Every step keeps the invariant.
LEMMA ParsingStep == ParsingInv /\ [ParsingNext]_parsingVars => ParsingInv'
<1> SUFFICES ASSUME ParsingInv, [ParsingNext]_parsingVars PROVE ParsingInv'
  OBVIOUS
<1>1. ASSUME NEW d \in Dialects, NEW fresh \in 0..MaxPrompt, NEW creation \in 0..MaxPrompt,
             NEW read \in 0..MaxPrompt, Begin(d, fresh, creation, read)
      PROVE  ParsingInv'
  <2>1. /\ counted = None /\ dialect' = d /\ reading' = "open" /\ rows' = rows
        /\ counted' = AccumulateUsage(counted, ExtractUsage(FirstEvent(d, truth'), Unnamed))
        /\ truth' = [fresh |-> fresh, creation |-> creation, read |-> read, output |-> 0]
    BY <1>1 DEF Begin, Read, ParsingInv
  <2>2. truth' \in Truths /\ truth'.output = 0
    BY <2>1, UsageParsingAssumption DEF Truths
  <2>3. counted' \in Interim(d, truth')
    BY <2>1, <2>2, KeepFirst
  <2>4. counted' \in SaneOptions
    BY <2>2, <2>3, KeptIsSane
  <2> QED BY <2>1, <2>2, <2>3, <2>4 DEF ParsingInv
<1>2. ASSUME Token PROVE ParsingInv'
  <2>1. /\ counted \in Interim(dialect, truth) /\ truth' = [truth EXCEPT !.output = @ + 1]
        /\ dialect # "rerank" /\ truth.output < MaxOutput /\ dialect \in Dialects
        /\ truth \in Truths /\ reading = "open"
        /\ dialect' = dialect /\ reading' = reading /\ rows' = rows
        /\ counted' = AccumulateUsage(counted, ExtractUsage(TokenEvent(dialect, truth'), Unnamed))
    BY <1>2 DEF Token, Read, ParsingInv
  <2>2. truth' \in Truths /\ counted' \in Interim(dialect, truth')
    BY <2>1, KeepToken
  <2>3. counted' \in SaneOptions
    BY <2>2, KeptIsSane
  <2> QED BY <2>1, <2>2, <2>3 DEF ParsingInv
<1>3. ASSUME End PROVE ParsingInv'
  <2>1. /\ counted \in Interim(dialect, truth) /\ dialect \in Dialects /\ truth \in Truths
        /\ dialect = "rerank" => truth.output = 0
        /\ reading' = "ended" /\ dialect' = dialect /\ truth' = truth /\ rows' = rows
        /\ counted' = AccumulateUsage(counted, ExtractUsage(LastEvent(dialect, truth), Unnamed))
    BY <1>3 DEF End, Read, ParsingInv
  <2>2. counted' = Some(Exact(dialect, truth))
    BY <2>1, KeepLast
  <2>3. counted' \in SaneOptions
    BY <2>1, <2>2, KeptIsSane DEF SaneOptions
  <2> QED BY <2>1, <2>2, <2>3 DEF ParsingInv
<1>4. ASSUME BrokenEvent PROVE ParsingInv'
  <2>1. reading' = "broken" /\ dialect' = dialect /\ truth' = truth /\ rows' = rows
    BY <1>4 DEF BrokenEvent
  <2>2. counted' \in SaneOptions
    <3>1. PICK a \in Garbage, b \in Garbage, name \in {None} \cup {Some(n) : n \in Names} :
            \/ \E wrap \in {"response", "message", "top"}, rerank \in BOOLEAN :
                 counted' = AccumulateUsage(ExtractUsage(Broken(wrap, name, a, b, rerank), Unnamed),
                                            ExtractUsage(Native(b, TRUE), Unnamed))
            \/ counted' = Finalize([NoEvent EXCEPT !.top.model = name], <<a, b>>, Unnamed)
      BY <1>4, Zenon DEF BrokenEvent
    <3>2. /\ \A wrap \in {"response", "message", "top"}, rerank \in BOOLEAN :
               AccumulateUsage(ExtractUsage(Broken(wrap, name, a, b, rerank), Unnamed),
                               ExtractUsage(Native(b, TRUE), Unnamed)) \in SaneOptions
          /\ Finalize([NoEvent EXCEPT !.top.model = name], <<a, b>>, Unnamed) \in SaneOptions
      BY BrokenIsSane
    <3> QED BY <3>1, <3>2, Zenon
  <2> QED BY <2>1, <2>2 DEF ParsingInv
<1>5. ASSUME DropRecorder PROVE ParsingInv'
  <2>1. /\ reading' = "idle" /\ counted' = None /\ dialect' = "openai" /\ truth' = Nothing
        /\ reading \in {"open", "ended", "broken"}
        /\ rows' = IF counted = None THEN rows
                   ELSE Append(rows, [usage |-> counted[1], phase |-> reading, dialect |-> dialect,
                                      truth |-> truth])
    BY <1>5 DEF DropRecorder
  <2>2. Nothing \in Truths /\ "openai" \in Dialects /\ None \in SaneOptions
    BY UsageParsingAssumption DEF Nothing, Truths, Dialects, SaneOptions
  <2>3. rows' \in Seq(GoodRows)
    <3>1. CASE counted = None
      BY <2>1, <3>1 DEF ParsingInv
    <3>2. CASE counted # None
      <4>1. PICK u \in SaneUsages : counted = Some(u) /\ counted[1] = u
        BY <3>2 DEF ParsingInv, SaneOptions, Some
      <4> DEFINE row == [usage |-> u, phase |-> reading, dialect |-> dialect, truth |-> truth]
      <4>2. /\ row \in [usage : SaneUsages, phase : {"open", "ended", "broken"}, dialect : Dialects,
                        truth : Truths]
            /\ row.usage = u /\ row.phase = reading /\ row.dialect = dialect /\ row.truth = truth
        BY <2>1 DEF ParsingInv
      <4>3. reading = "open" => Some(u) \in Interim(dialect, truth)
        BY <4>1 DEF ParsingInv
      <4>4. reading = "ended" => u = Exact(dialect, truth)
        BY <4>1 DEF ParsingInv, Some
      <4>5. rows' = Append(rows, row)
        BY <2>1, <3>2, <4>1
      <4> HIDE DEF row
      <4>6. row \in GoodRows
        BY <4>2, <4>3, <4>4 DEF GoodRows
      <4> QED BY <4>5, <4>6 DEF ParsingInv
    <3> QED BY <3>1, <3>2
  <2> QED BY <2>1, <2>2, <2>3 DEF ParsingInv
<1>6. ASSUME UNCHANGED parsingVars PROVE ParsingInv'
  BY <1>6 DEF ParsingInv, parsingVars
<1> QED BY <1>1, <1>2, <1>3, <1>4, <1>5, <1>6 DEF ParsingNext

\* The invariant holds in every reachable state.
LEMMA ParsingInvariant == ParsingSpec => []ParsingInv
BY ParsingInitial, ParsingStep, PTL DEF ParsingSpec

\* Whatever dialect a provider speaks, a response that is read to its end is
\* recorded with exactly what the provider counted, and one that is cut off
\* with no more than that (extract_usage, accumulate_usage).
THEOREM UsageIsExact == ParsingSpec => []RecordedIsExact
<1>1. ParsingInv => RecordedIsExact
  <2> SUFFICES ASSUME ParsingInv, NEW i \in DOMAIN rows
               PROVE  /\ rows[i].phase = "ended" =>
                           /\ rows[i].usage.input = All(rows[i].truth)
                           /\ rows[i].usage.output = rows[i].truth.output
                           /\ rows[i].usage.total = All(rows[i].truth) + rows[i].truth.output
                           /\ rows[i].usage.cached = IF rows[i].dialect \in {"ollama", "rerank"}
                                                       THEN 0 ELSE rows[i].truth.read
                      /\ rows[i].phase = "open" =>
                           /\ rows[i].usage.input <= All(rows[i].truth)
                           /\ rows[i].usage.output <= rows[i].truth.output
    BY DEF RecordedIsExact, CompleteIsExact, CutIsNoMore
  <2> DEFINE r == rows[i]
             u == r.usage
             t == r.truth
  <2>1. r \in GoodRows
    BY DEF ParsingInv
  <2> HIDE DEF r
  <2>2. /\ t \in Truths
        /\ r.phase = "open" => Some(u) \in Interim(r.dialect, t)
        /\ r.phase = "ended" => u = Exact(r.dialect, t)
    BY <2>1 DEF GoodRows
  <2>3. All(t) \in 0..MaxInt /\ t.output \in 0..MaxInt /\ MaxInt \in Nat
    BY <2>2, TruthFacts
  <2> HIDE DEF u, t
  <2>4. r.phase = "ended" =>
          /\ u.input = All(t) /\ u.output = t.output /\ u.total = All(t) + t.output
          /\ u.cached = IF r.dialect \in {"ollama", "rerank"} THEN 0 ELSE t.read
    BY <2>2, UsageFields DEF Exact
  <2>5. r.phase = "open" => u.input <= All(t) /\ u.output <= t.output
    <3>1. \A v : Some(v) # None
      BY DEF Some, None
    <3>2. r.phase = "open" => \/ u = Usage(Unnamed, All(t), 0, t.read, All(t))
                              \/ u = Usage(Unnamed, All(t), t.output, 0, All(t) + t.output)
      BY <2>2, <3>1 DEF Interim, Some
    <3>3. u = Usage(Unnamed, All(t), 0, t.read, All(t)) => u.input = All(t) /\ u.output = 0
      BY UsageFields
    <3>4. u = Usage(Unnamed, All(t), t.output, 0, All(t) + t.output)
            => u.input = All(t) /\ u.output = t.output
      BY UsageFields
    <3> QED BY <2>3, <3>2, <3>3, <3>4
  <2> QED BY <2>4, <2>5 DEF r, u, t
<1> QED BY <1>1, ParsingInvariant, PTL

-----------------------------------------------------------------------------
(* Sums and costs.                                                         *)

\* SumOf is the last of the partial sums.
LEMMA SumFacts ==
  ASSUME NEW n \in Nat, NEW s \in [1..n -> Int]
  PROVE  \E f \in [0..n -> Int] : /\ f[0] = 0 /\ SumOf(s) = f[n]
                                  /\ \A k \in 1..n : f[k] = f[k - 1] + s[k]
<1> DEFINE F == [p \in Int \X (1..n) |-> p[1] + s[p[2]]]
           zero == 0
<1>1. F \in [Int \X (1..n) -> Int] /\ zero \in Int
  OBVIOUS
<1>2. \A a \in Int, k \in 1..n : F[<<a, k>>] = a + s[k]
  OBVIOUS
<1> HIDE DEF F, zero
<1>3. PICK g \in [0..n -> Int] : g[0] = zero /\ \A k \in 1..n : g[k] = F[<<g[k - 1], k>>]
  <2>1. IsStep(n, Int, zero, F)
    BY <1>1 DEF IsStep
  <2>2. \E g : Iterated(n, Int, zero, F, g)
    BY <2>1, Iterates
  <2> QED BY <2>2 DEF Iterated
<1>4. \A k \in 1..n : g[k] = g[k - 1] + s[k]
  <2> SUFFICES ASSUME NEW k \in 1..n PROVE g[k] = g[k - 1] + s[k]
    OBVIOUS
  <2>1. g[k - 1] \in Int
    OBVIOUS
  <2> QED BY <1>2, <1>3, <2>1
<1> DEFINE Sums(h) == h = [i \in 0..n |-> IF i = 0 THEN 0 ELSE h[i - 1] + s[i]]
           f == CHOOSE h : Sums(h)
<1>5. Sums(g)
  <2>1. \A i \in 0..n : g[i] = IF i = 0 THEN 0 ELSE g[i - 1] + s[i]
    <3> SUFFICES ASSUME NEW i \in 0..n PROVE g[i] = IF i = 0 THEN 0 ELSE g[i - 1] + s[i]
      OBVIOUS
    <3>1. CASE i = 0
      BY <1>3, <3>1 DEF zero
    <3>2. CASE i # 0
      <4>1. i \in 1..n
        BY <3>2
      <4> QED BY <1>4, <3>2, <4>1
    <3> QED BY <3>1, <3>2
  <2> QED BY <2>1
<1>6. Sums(f)
  <2> HIDE DEF Sums
  <2> QED BY <1>5
<1> DEFINE G == {k \in 0..n : f[k] = g[k]}
<1>7. f[0] = 0 /\ DOMAIN f = 0..n /\ \A k \in 1..n : f[k] = f[k - 1] + s[k]
  <2> HIDE DEF f
  <2> QED BY <1>6
<1> HIDE DEF f
<1>8. 0 \in G
  BY <1>3, <1>7 DEF zero
<1>9. ASSUME NEW k \in 0..(n - 1), k \in G PROVE k + 1 \in G
  <2>1. k + 1 \in 1..n /\ k + 1 \in 0..n /\ (k + 1) - 1 = k
    OBVIOUS
  <2>2. f[k + 1] = f[k] + s[k + 1] /\ g[k + 1] = g[k] + s[k + 1]
    BY <1>4, <1>7, <2>1
  <2> QED BY <1>9, <2>1, <2>2
<1>10. 0..n \subseteq G
  <2> HIDE DEF G
  <2> QED BY <1>8, <1>9, UpTo
<1>11. Len(s) = n
  <2>1. s \in Seq(Int)
    OBVIOUS
  <2> QED BY <2>1
<1>12. SumOf(s) = f[n]
  BY <1>11 DEF SumOf, f
<1>13. SumOf(s) = g[n]
  BY <1>10, <1>12
<1> QED BY <1>3, <1>4, <1>13 DEF zero

\* Two products distribute over a step of a sum.
LEMMA Distribute ==
  ASSUME NEW a \in Int, NEW b \in Int, NEW p \in Int
  PROVE  a * p \in Int /\ (a + b) * p = a * p + b * p
OBVIOUS

\* A sequence that is linear in three others
PricedBy(n, x, h, y, c, p, q, r) ==
  /\ x \in [1..n -> Nat] /\ h \in [1..n -> Nat] /\ y \in [1..n -> Nat] /\ c \in [1..n -> Int]
  /\ p \in Int /\ q \in Int /\ r \in Int
  /\ \A k \in 1..n : h[k] <= x[k] /\ c[k] = (x[k] - h[k]) * p + h[k] * q + y[k] * r

\* has a sum that is linear in theirs.
LEMMA SumIsLinear ==
  ASSUME NEW n \in Nat, NEW x, NEW h, NEW y, NEW c, NEW p, NEW q, NEW r,
         PricedBy(n, x, h, y, c, p, q, r)
  PROVE  /\ SumOf(x) \in Nat /\ SumOf(h) \in Nat /\ SumOf(y) \in Nat /\ SumOf(h) <= SumOf(x)
         /\ SumOf(c) = (SumOf(x) - SumOf(h)) * p + SumOf(h) * q + SumOf(y) * r
<1> USE DEF PricedBy
<1>0. x \in [1..n -> Int] /\ h \in [1..n -> Int] /\ y \in [1..n -> Int]
  OBVIOUS
<1>1. PICK X \in [0..n -> Int] : /\ X[0] = 0 /\ SumOf(x) = X[n]
                                 /\ \A k \in 1..n : X[k] = X[k - 1] + x[k]
  BY <1>0, SumFacts
<1>2. PICK H \in [0..n -> Int] : /\ H[0] = 0 /\ SumOf(h) = H[n]
                                 /\ \A k \in 1..n : H[k] = H[k - 1] + h[k]
  BY <1>0, SumFacts
<1>3. PICK Y \in [0..n -> Int] : /\ Y[0] = 0 /\ SumOf(y) = Y[n]
                                 /\ \A k \in 1..n : Y[k] = Y[k - 1] + y[k]
  BY <1>0, SumFacts
<1>4. PICK C \in [0..n -> Int] : /\ C[0] = 0 /\ SumOf(c) = C[n]
                                 /\ \A k \in 1..n : C[k] = C[k - 1] + c[k]
  BY SumFacts
<1> DEFINE Linear(k) == /\ X[k] \in Nat /\ H[k] \in Nat /\ Y[k] \in Nat /\ H[k] <= X[k]
                        /\ C[k] = (X[k] - H[k]) * p + H[k] * q + Y[k] * r
           G == {k \in 0..n : Linear(k)}
<1>5. 0 \in G
  <2>1. (0 - 0) * p + 0 * q + 0 * r = 0
    OBVIOUS
  <2>2. Linear(0)
    BY <1>1, <1>2, <1>3, <1>4, <2>1
  <2> QED BY <2>2
<1>6. ASSUME NEW k \in 0..(n - 1), k \in G PROVE k + 1 \in G
  <2>1. k \in 0..n /\ k + 1 \in 1..n /\ k + 1 \in 0..n /\ (k + 1) - 1 = k
    OBVIOUS
  <2> DEFINE j == k + 1
  <2>2. /\ X[j] = X[k] + x[j] /\ H[j] = H[k] + h[j] /\ Y[j] = Y[k] + y[j] /\ C[j] = C[k] + c[j]
    BY <1>1, <1>2, <1>3, <1>4, <2>1
  <2>3. Linear(k)
    BY <1>6
  <2>4. /\ h[j] <= x[j] /\ c[j] = (x[j] - h[j]) * p + h[j] * q + y[j] * r
        /\ x[j] \in Nat /\ h[j] \in Nat /\ y[j] \in Nat
    BY <2>1
  <2>5. j \in 0..n
    BY <2>1
  <2> DEFINE x0 == X[k]
             h0 == H[k]
             y0 == Y[k]
             x1 == x[j]
             h1 == h[j]
             y1 == y[j]
  <2>6. /\ x0 \in Nat /\ h0 \in Nat /\ y0 \in Nat /\ x1 \in Nat /\ h1 \in Nat /\ y1 \in Nat
        /\ h0 <= x0 /\ h1 <= x1
        /\ C[k] = (x0 - h0) * p + h0 * q + y0 * r
        /\ c[j] = (x1 - h1) * p + h1 * q + y1 * r
        /\ X[j] = x0 + x1 /\ H[j] = h0 + h1 /\ Y[j] = y0 + y1 /\ C[j] = C[k] + c[j]
    BY <2>2, <2>3, <2>4
  <2> HIDE DEF j, x0, h0, y0, x1, h1, y1, Linear
  <2>7. /\ ((x0 + x1) - (h0 + h1)) * p = (x0 - h0) * p + (x1 - h1) * p
        /\ (h0 + h1) * q = h0 * q + h1 * q /\ (y0 + y1) * r = y0 * r + y1 * r
        /\ (x0 - h0) * p \in Int /\ (x1 - h1) * p \in Int /\ h0 * q \in Int /\ h1 * q \in Int
        /\ y0 * r \in Int /\ y1 * r \in Int
    <3>1. (x0 + x1) - (h0 + h1) = (x0 - h0) + (x1 - h1) /\ x0 - h0 \in Int /\ x1 - h1 \in Int
      BY <2>6
    <3>2. ((x0 - h0) + (x1 - h1)) * p = (x0 - h0) * p + (x1 - h1) * p
      BY <3>1, Distribute
    <3>3. (h0 + h1) * q = h0 * q + h1 * q /\ (y0 + y1) * r = y0 * r + y1 * r
      BY <2>6, Distribute
    <3>4. /\ (x0 - h0) * p \in Int /\ (x1 - h1) * p \in Int /\ h0 * q \in Int /\ h1 * q \in Int
          /\ y0 * r \in Int /\ y1 * r \in Int
      BY <2>6, <3>1, Distribute
    <3> QED BY <3>1, <3>2, <3>3, <3>4
  <2>8. C[j] = ((x0 + x1) - (h0 + h1)) * p + (h0 + h1) * q + (y0 + y1) * r
    BY <2>6, <2>7
  <2>9. x0 + x1 \in Nat /\ h0 + h1 \in Nat /\ y0 + y1 \in Nat /\ h0 + h1 <= x0 + x1
    BY <2>6
  <2>10. Linear(j)
    BY <2>6, <2>8, <2>9 DEF Linear
  <2> QED BY <2>5, <2>10 DEF j
<1>7. n \in G
  <2> HIDE DEF G
  <2>1. 0..n \subseteq G
    BY <1>5, <1>6, UpTo
  <2> QED BY <2>1
<1> QED BY <1>1, <1>2, <1>3, <1>4, <1>7

\* The sum of two columns
LEMMA SumIsAdded ==
  ASSUME NEW n \in Nat, NEW x \in [1..n -> Nat], NEW y \in [1..n -> Nat], NEW z \in [1..n -> Nat],
         \A k \in 1..n : z[k] = x[k] + y[k]
  PROVE  SumOf(x) \in Nat /\ SumOf(y) \in Nat /\ SumOf(z) = SumOf(x) + SumOf(y)
<1> DEFINE none == [k \in 1..n |-> 0]
           one == 1
<1>1. none \in [1..n -> Nat] /\ \A k \in 1..n : none[k] = 0
  OBVIOUS
<1>2. one \in Int
  OBVIOUS
<1> HIDE DEF none, one
<1>3. PricedBy(n, x, none, y, z, one, one, one)
  <2>1. ASSUME NEW k \in 1..n
        PROVE  /\ none[k] <= x[k]
               /\ z[k] = (x[k] - none[k]) * one + none[k] * one + y[k] * one
    <3>1. x[k] \in Nat /\ y[k] \in Nat /\ none[k] = 0 /\ z[k] = x[k] + y[k]
      BY <1>1
    <3> QED BY <3>1 DEF one
  <2>2. z \in [1..n -> Int]
    OBVIOUS
  <2> QED BY <1>1, <1>2, <2>1, <2>2 DEF PricedBy
<1>4. /\ SumOf(x) \in Nat /\ SumOf(none) \in Nat /\ SumOf(y) \in Nat
      /\ SumOf(z) = (SumOf(x) - SumOf(none)) * one + SumOf(none) * one + SumOf(y) * one
  BY <1>3, SumIsLinear
<1>5. /\ (SumOf(x) - SumOf(none)) * one = SumOf(x) - SumOf(none)
      /\ SumOf(none) * one = SumOf(none) /\ SumOf(y) * one = SumOf(y)
  BY <1>4 DEF one
<1> QED BY <1>4, <1>5

\* None of the parts is larger than the sum.
LEMMA PartOfSum ==
  ASSUME NEW n \in Nat, NEW s \in [1..n -> Nat], NEW k \in 1..n
  PROVE  s[k] <= SumOf(s)
<1>1. s \in [1..n -> Int]
  OBVIOUS
<1>2. PICK f \in [0..n -> Int] : /\ f[0] = 0 /\ SumOf(s) = f[n]
                                 /\ \A j \in 1..n : f[j] = f[j - 1] + s[j]
  BY <1>1, SumFacts
<1> DEFINE G == {j \in 0..n : f[j] \in Nat /\ (j >= k => f[j] >= s[k])}
<1>3. 0 \in G
  BY <1>2
<1>4. ASSUME NEW j \in 0..(n - 1), j \in G PROVE j + 1 \in G
  <2>1. j + 1 \in 1..n /\ j + 1 \in 0..n /\ (j + 1) - 1 = j
    OBVIOUS
  <2>2. f[j + 1] = f[j] + s[j + 1] /\ s[j + 1] \in Nat /\ s[k] \in Nat
    BY <1>2, <2>1
  <2>3. f[j] \in Nat /\ (j >= k => f[j] >= s[k])
    BY <1>4
  <2>4. CASE j + 1 = k
    <3>1. s[j + 1] = s[k] /\ f[j + 1] \in Nat /\ f[j + 1] >= s[k]
      BY <2>2, <2>3, <2>4
    <3> QED BY <2>1, <3>1
  <2>5. CASE j + 1 # k
    BY <2>1, <2>2, <2>3, <2>5
  <2> QED BY <2>4, <2>5
<1>5. n \in G
  <2> HIDE DEF G
  <2>1. 0..n \subseteq G
    BY <1>3, <1>4, UpTo
  <2> QED BY <2>1
<1> QED BY <1>2, <1>5

\* A price is a number.
LEMMA PriceFacts ==
  ASSUME NEW m
  PROVE  PriceOf(m).input \in Nat /\ PriceOf(m).output \in Nat /\ PriceOf(m).input_cached \in Nat
<1>1. \A rate \in Int : NormalizeRate(rate) \in Nat
  BY UsageParsingAssumption DEF NormalizeRate, Clamp
<1> DEFINE name == IF m \in DOMAIN Prices THEN m ELSE BaseOf[m]
<1>2. CASE name \notin DOMAIN Prices
  BY <1>2 DEF PriceOf
<1>3. CASE name \in DOMAIN Prices
  <2>1. \A f \in {"input", "output", "input_cached"} : NormalizeRate(Prices[name][f]) \in Nat
    BY <1>1, <1>3, UsageParsingAssumption
  <2> QED BY <1>3, <2>1 DEF PriceOf
<1> QED BY <1>2, <1>3

\* The cost of counts that are in range is not clamped, if it is finite.
LEMMA CostFacts ==
  ASSUME NEW m, NEW x \in Nat, NEW y \in Nat, NEW h \in Nat, h <= x
  PROVE  /\ Charge(m, x, y, h)
              = (x - h) * PriceOf(m).input + h * PriceOf(m).input_cached + y * PriceOf(m).output
         /\ Charge(m, x, y, h) \in Nat
         /\ Charge(m, x, y, h) <= MaxCost => Cost(m, x, y, h) = Charge(m, x, y, h)
<1> DEFINE p == PriceOf(m).input
           q == PriceOf(m).input_cached
           r == PriceOf(m).output
           a == (x - h) * p
           b == h * q
           c == y * r
<1>1. Pos(x - h) = x - h /\ Pos(h) = h /\ Pos(y) = y
  BY DEF Pos, Larger
<1>2. p \in Nat /\ q \in Nat /\ r \in Nat
  BY PriceFacts
<1>3. Charge(m, x, y, h) = a + b + c
  BY DEF Charge
<1>4. Cost(m, x, y, h) = Clamp(Clamp(a) + Clamp(b) + Clamp(c))
  BY <1>1 DEF Cost
<1>5. a \in Nat /\ b \in Nat /\ c \in Nat
  <2> HIDE DEF p, q, r
  <2>1. x - h \in Nat
    OBVIOUS
  <2>2. \A i, j \in Nat : i * j \in Nat
    OBVIOUS
  <2> QED BY <1>2, <2>1, <2>2
<1> HIDE DEF a, b, c
<1>6. a + b + c \in Nat
  BY <1>5
<1>7. ASSUME a + b + c <= MaxCost PROVE Cost(m, x, y, h) = Charge(m, x, y, h)
  <2>1. Clamp(a) = a /\ Clamp(b) = b /\ Clamp(c) = c /\ Clamp(a + b + c) = a + b + c
    BY <1>5, <1>7, UsageParsingAssumption DEF Clamp
  <2> QED BY <1>3, <1>4, <2>1
<1> QED BY <1>3, <1>6, <1>7 DEF a, b, c

\* Rows that are in range add up in money.
LEMMA SaneAddsUp ==
  ASSUME NEW n \in Nat, DOMAIN rows = 1..n, \A i \in 1..n : rows[i].usage \in SaneUsages
  PROVE  CostIsAdditive
<1> SUFFICES ASSUME NEW m \in Models, Answered,
                    Charge(m, SumOf(Column(m, "input")), SumOf(Column(m, "output")),
                           SumOf(Column(m, "cached"))) <= MaxCost
             PROVE  Cost(m, Stats(m, "input")[1], Stats(m, "output")[1], Stats(m, "cached")[1])
                      = SumOf([i \in DOMAIN rows |->
                                 IF rows[i].usage.model = m
                                   THEN Cost(m, rows[i].usage.input, rows[i].usage.output,
                                             rows[i].usage.cached) ELSE 0])
  BY DEF CostIsAdditive
<1> DEFINE x == Column(m, "input")
           y == Column(m, "output")
           h == Column(m, "cached")
           charge(i) == Charge(m, rows[i].usage.input, rows[i].usage.output, rows[i].usage.cached)
           cost(i) == Cost(m, rows[i].usage.input, rows[i].usage.output, rows[i].usage.cached)
           d == [i \in DOMAIN rows |-> IF rows[i].usage.model = m THEN charge(i) ELSE 0]
           c == [i \in DOMAIN rows |-> IF rows[i].usage.model = m THEN cost(i) ELSE 0]
           p == PriceOf(m).input
           q == PriceOf(m).input_cached
           r == PriceOf(m).output
<1>1. p \in Int /\ q \in Int /\ r \in Int
  BY PriceFacts
<1>2. ASSUME NEW i \in 1..n
      PROVE  /\ rows[i].usage.input \in Nat /\ rows[i].usage.output \in Nat
             /\ rows[i].usage.cached \in Nat /\ rows[i].usage.cached <= rows[i].usage.input
             /\ charge(i) = (rows[i].usage.input - rows[i].usage.cached) * p
                            + rows[i].usage.cached * q + rows[i].usage.output * r
             /\ charge(i) \in Nat
             /\ charge(i) <= MaxCost => cost(i) = charge(i)
  <2> DEFINE u == rows[i].usage
             a == u.input
             b == u.output
             e == u.cached
  <2>1. a \in Nat /\ b \in Nat /\ e \in Nat /\ e <= a
    BY SaneElim, UsageParsingAssumption DEF SaneCounts
  <2> HIDE DEF a, b, e
  <2>2. /\ Charge(m, a, b, e) = (a - e) * p + e * q + b * r /\ Charge(m, a, b, e) \in Nat
        /\ Charge(m, a, b, e) <= MaxCost => Cost(m, a, b, e) = Charge(m, a, b, e)
    BY <2>1, CostFacts
  <2> QED BY <2>1, <2>2 DEF a, b, e
<1> HIDE DEF p, q, r, cost, charge
<1>3. /\ x \in [1..n -> Nat] /\ y \in [1..n -> Nat] /\ h \in [1..n -> Nat]
      /\ d \in [1..n -> Nat] /\ d \in [1..n -> Int]
  BY <1>2 DEF Column
<1>4. ASSUME NEW k \in 1..n
      PROVE  h[k] <= x[k] /\ d[k] = (x[k] - h[k]) * p + h[k] * q + y[k] * r
  <2>1. CASE rows[k].usage.model = m
    BY <1>2, <2>1 DEF Column
  <2>2. CASE rows[k].usage.model # m
    <3>1. x[k] = 0 /\ y[k] = 0 /\ h[k] = 0 /\ d[k] = 0
      BY <2>2 DEF Column
    <3>2. (0 - 0) * p + 0 * q + 0 * r = 0
      BY <1>1
    <3> HIDE DEF x, y, h, d
    <3> QED BY <3>1, <3>2
  <2> QED BY <2>1, <2>2
<1>5. DOMAIN d = 1..n /\ DOMAIN c = 1..n
  OBVIOUS
<1>6. \A k \in 1..n : rows[k].usage.model # m => c[k] = d[k]
  OBVIOUS
<1>7. \A k \in 1..n : rows[k].usage.model = m => c[k] = cost(k) /\ d[k] = charge(k)
  OBVIOUS
<1>8. c = [k \in 1..n |-> c[k]] /\ d = [k \in 1..n |-> d[k]]
  OBVIOUS
<1>9. Charge(m, SumOf(x), SumOf(y), SumOf(h)) <= MaxCost
  OBVIOUS
<1>10. /\ Stats(m, "input") # None /\ Stats(m, "output") # None /\ Stats(m, "cached") # None
  BY DEF Answered
<1>11. /\ Stats(m, "input")[1] = SumOf(x) /\ Stats(m, "output")[1] = SumOf(y)
       /\ Stats(m, "cached")[1] = SumOf(h)
  <2>1. \A s : SqlSum(s) # None => SqlSum(s)[1] = SumOf(s)
    BY DEF SqlSum, Some
  <2> HIDE DEF x, y, h
  <2> QED BY <1>10, <2>1 DEF Stats, x, y, h
<1> HIDE DEF x, y, h, c, d
<1>12. /\ SumOf(x) \in Nat /\ SumOf(h) \in Nat /\ SumOf(y) \in Nat /\ SumOf(h) <= SumOf(x)
       /\ SumOf(d) = (SumOf(x) - SumOf(h)) * p + SumOf(h) * q + SumOf(y) * r
  <2>1. PricedBy(n, x, h, y, d, p, q, r)
    BY <1>1, <1>3, <1>4 DEF PricedBy
  <2> QED BY <2>1, SumIsLinear
<1>13. /\ Charge(m, SumOf(x), SumOf(y), SumOf(h)) = SumOf(d)
       /\ Cost(m, SumOf(x), SumOf(y), SumOf(h)) = SumOf(d) /\ SumOf(d) <= MaxCost
       /\ SumOf(d) \in Nat
  <2> DEFINE X == SumOf(x)
             H == SumOf(h)
             Y == SumOf(y)
  <2>1. X \in Nat /\ H \in Nat /\ Y \in Nat /\ H <= X
    BY <1>12
  <2>2. SumOf(d) = (X - H) * p + H * q + Y * r
    BY <1>12
  <2>3. Charge(m, X, Y, H) <= MaxCost
    BY <1>9
  <2> HIDE DEF X, H, Y
  <2>4. /\ Charge(m, X, Y, H) = (X - H) * p + H * q + Y * r /\ Charge(m, X, Y, H) \in Nat
        /\ Charge(m, X, Y, H) <= MaxCost => Cost(m, X, Y, H) = Charge(m, X, Y, H)
    BY <2>1, CostFacts DEF p, q, r
  <2>5. SumOf(d) = Charge(m, X, Y, H)
    BY <2>2, <2>4
  <2> QED BY <2>3, <2>4, <2>5 DEF X, H, Y
<1>14. ASSUME NEW k \in 1..n PROVE c[k] = d[k]
  <2>1. CASE rows[k].usage.model = m
    <3>1. d[k] <= SumOf(d) /\ d[k] \in Nat
      BY <1>3, PartOfSum
    <3>2. charge(k) <= MaxCost
      BY <1>7, <1>13, <2>1, <3>1, UsageParsingAssumption
    <3> QED BY <1>2, <1>7, <2>1, <3>2
  <2> QED BY <1>6, <2>1
<1>15. c = d
  BY <1>8, <1>14
<1> QED BY <1>11, <1>13, <1>15 DEF c, cost

\* What fits is not wrapped.
LEMMA WrapFacts == \A v \in 0..MaxInt : Wrap(v) = v /\ v \in I64
<1>1. MaxInt \in Nat
  BY UsageParsingAssumption
<1>2. \A a, b \in Nat : a < b => a % b = a
  OBVIOUS
<1> TAKE v \in 0..MaxInt
<1>3. /\ v + MaxInt + 1 \in Nat /\ 2 * (MaxInt + 1) \in Nat
      /\ v + MaxInt + 1 < 2 * (MaxInt + 1)
  BY <1>1
<1>4. (v + MaxInt + 1) % (2 * (MaxInt + 1)) = v + MaxInt + 1
  BY <1>2, <1>3
<1> QED BY <1>1, <1>4 DEF Wrap, I64

\* The totals of the rows of the first k models
FirstModels(order, k) ==
  [i \in DOMAIN rows |->
     IF \E j \in 1..k : order[j] = rows[i].usage.model THEN rows[i].usage.total ELSE 0]

\* The sums of the models add up to the sum of the rows.
LEMMA SumOfSums ==
  ASSUME NEW n \in Nat, DOMAIN rows = 1..n, \A i \in 1..n : rows[i].usage.total \in Nat,
         NEW N \in Nat, NEW order, order \in Bijection(1..N, Models)
  PROVE  SumOf([k \in 1..N |-> SumOf(Column(order[k], "total"))])
           = SumOf([i \in DOMAIN rows |-> rows[i].usage.total])
<1> DEFINE t == [i \in DOMAIN rows |-> rows[i].usage.total]
           col(k) == Column(order[k], "total")
           first(k) == FirstModels(order, k)
           g == [k \in 1..N |-> SumOf(col(k))]
<1>1. /\ order \in [1..N -> Models] /\ \A m \in Models : \E k \in 1..N : order[k] = m
      /\ \A j, k \in 1..N : order[j] = order[k] => j = k
  BY DEF Bijection, Injection, Surjection, IsInjective
<1>2. /\ \A k : col(k) \in [1..n -> Nat] /\ first(k) \in [1..n -> Nat]
  BY DEF Column, FirstModels
<1>3. ASSUME NEW k \in 1..N, NEW i \in 1..n
      PROVE  first(k)[i] = first(k - 1)[i] + col(k)[i]
  <2> DEFINE m == rows[i].usage.model
             v == rows[i].usage.total
  <2>1. /\ first(k)[i] = IF \E j \in 1..k : order[j] = m THEN v ELSE 0
        /\ first(k - 1)[i] = IF \E j \in 1..(k - 1) : order[j] = m THEN v ELSE 0
        /\ col(k)[i] = (IF m = order[k] THEN v ELSE 0) /\ v \in Nat
    BY DEF Column, FirstModels
  <2> HIDE DEF m, v, first, col
  <2>2. CASE m = order[k]
    <3>1. ~(\E j \in 1..(k - 1) : order[j] = m)
      BY <1>1, <2>2
    <3>2. \E j \in 1..k : order[j] = m
      BY <2>2
    <3> QED BY <2>1, <2>2, <3>1, <3>2
  <2>3. CASE m # order[k]
    <3>1. (\E j \in 1..k : order[j] = m) <=> (\E j \in 1..(k - 1) : order[j] = m)
      BY <2>3
    <3> QED BY <2>1, <2>3, <3>1
  <2> QED BY <2>2, <2>3
<1>4. ASSUME NEW k \in 1..N
      PROVE  SumOf(first(k)) = SumOf(first(k - 1)) + SumOf(col(k))
  <2> DEFINE a == first(k)
             b == first(k - 1)
             c == col(k)
  <2>1. a \in [1..n -> Nat] /\ b \in [1..n -> Nat] /\ c \in [1..n -> Nat]
    BY <1>2
  <2>2. \A i \in 1..n : a[i] = b[i] + c[i]
    BY <1>3
  <2> HIDE DEF a, b, c
  <2>3. SumOf(a) = SumOf(b) + SumOf(c)
    BY <2>1, <2>2, SumIsAdded
  <2> QED BY <2>3 DEF a, b, c
<1>5. \A k : SumOf(col(k)) \in Nat /\ SumOf(first(k)) \in Nat
  <2> DEFINE none == [i \in 1..n |-> 0]
  <2>1. none \in [1..n -> Nat]
    OBVIOUS
  <2>2. ASSUME NEW x \in [1..n -> Nat] PROVE SumOf(x) \in Nat
    <3>1. \A i \in 1..n : x[i] = x[i] + none[i]
      OBVIOUS
    <3> HIDE DEF none
    <3> QED BY <2>1, <3>1, SumIsAdded
  <2> HIDE DEF col, first
  <2> QED BY <1>2, <2>2
<1>6. SumOf(first(0)) = 0
  <2> DEFINE none == first(0)
  <2>1. none \in [1..n -> Nat]
    BY <1>2
  <2>2. \A i \in 1..n : none[i] = none[i] + none[i]
    <3>1. \A i \in 1..n : none[i] = 0
      BY DEF FirstModels
    <3> QED BY <3>1
  <2> HIDE DEF none
  <2>3. SumOf(none) \in Nat /\ SumOf(none) = SumOf(none) + SumOf(none)
    BY <2>1, <2>2, SumIsAdded
  <2>4. SumOf(none) = 0
    BY <2>3
  <2> QED BY <2>4 DEF none
<1>7. first(N) = t
  <2>1. \A i \in 1..n : rows[i].usage.model \in Models
    BY DEF Models
  <2> QED BY <1>1, <2>1 DEF FirstModels
<1>8. g \in [1..N -> Int]
  <2> HIDE DEF col
  <2> QED BY <1>5
<1>9. \A k \in 1..N : g[k] = SumOf(col(k))
  OBVIOUS
<1> HIDE DEF g, col, first, t
<1>10. PICK f \in [0..N -> Int] : /\ f[0] = 0 /\ SumOf(g) = f[N]
                                  /\ \A k \in 1..N : f[k] = f[k - 1] + g[k]
  BY <1>8, SumFacts
<1> DEFINE G == {k \in 0..N : f[k] = SumOf(first(k))}
<1>11. 0 \in G
  BY <1>6, <1>10
<1>12. ASSUME NEW k \in 0..(N - 1), k \in G PROVE k + 1 \in G
  <2>1. k + 1 \in 1..N /\ k + 1 \in 0..N /\ (k + 1) - 1 = k
    OBVIOUS
  <2>2. f[k + 1] = f[k] + SumOf(col(k + 1)) /\ SumOf(first(k + 1)) = SumOf(first(k)) + SumOf(col(k + 1))
    BY <1>4, <1>9, <1>10, <2>1
  <2> QED BY <1>12, <2>1, <2>2
<1>13. N \in G
  <2> HIDE DEF G
  <2>1. 0..N \subseteq G
    BY <1>11, <1>12, UpTo
  <2> QED BY <2>1
<1>14. SumOf(g) = SumOf(t)
  BY <1>7, <1>10, <1>13
<1> QED BY <1>14 DEF g, t, col

\* The grand total of rows that are in range is right, if it fits.
LEMMA SaneTotals ==
  ASSUME NEW n \in Nat, DOMAIN rows = 1..n, \A i \in 1..n : rows[i].usage.total \in Nat
  PROVE  TotalsAddUp
<1> DEFINE t == [i \in DOMAIN rows |-> rows[i].usage.total]
<1> SUFFICES ASSUME SumOf(t) <= MaxInt
             PROVE  /\ \A m \in Models : Stats(m, "total") # None
                    /\ \A order \in Bijection(1..Cardinality(Models), Models) :
                         GrandTotal(order) = SumOf(t)
  BY DEF TotalsAddUp
<1>1. t \in [1..n -> Nat]
  OBVIOUS
<1>2. ASSUME NEW m
      PROVE  SumOf(Column(m, "total")) \in 0..MaxInt /\ SumOf(t) \in 0..MaxInt
  <2> DEFINE c == Column(m, "total")
             rest == [i \in 1..n |-> IF rows[i].usage.model = m THEN 0 ELSE rows[i].usage.total]
  <2>1. c \in [1..n -> Nat] /\ rest \in [1..n -> Nat]
    BY DEF Column
  <2>2. \A i \in 1..n : t[i] = c[i] + rest[i]
    BY DEF Column
  <2> HIDE DEF c, rest, t
  <2>3. SumOf(c) \in Nat /\ SumOf(rest) \in Nat /\ SumOf(t) = SumOf(c) + SumOf(rest)
    BY <1>1, <2>1, <2>2, SumIsAdded
  <2>4. SumOf(c) \in 0..MaxInt /\ SumOf(t) \in 0..MaxInt
    BY <2>3, UsageParsingAssumption
  <2> QED BY <2>4 DEF c, t
<1>3. ASSUME NEW m
      PROVE  Stats(m, "total") # None /\ Or(Stats(m, "total"), 0) = SumOf(Column(m, "total"))
  <2>1. Stats(m, "total") = Some(SumOf(Column(m, "total")))
    BY <1>2, WrapFacts DEF Stats, SqlSum
  <2> QED BY <2>1, OrFacts
<1>4. ASSUME NEW order \in Bijection(1..Cardinality(Models), Models)
      PROVE  GrandTotal(order) = SumOf(t)
  <2> DEFINE N == Cardinality(Models)
             g == [k \in 1..N |-> SumOf(Column(order[k], "total"))]
  <2>1. N \in Nat
    <3> DEFINE name == [i \in 1..n |-> rows[i].usage.model]
    <3>1. name \in Surjection(1..n, Models)
      BY DEF Surjection, Models
    <3>2. IsFiniteSet(1..n)
      <4>1. 1 \in Int /\ n \in Int
        OBVIOUS
      <4> HIDE DEF t, name
      <4> QED BY <4>1, FS_Interval, Zenon
    <3>3. IsFiniteSet(Models)
      <4> HIDE DEF name
      <4> QED BY <3>1, <3>2, FS_Surjection
    <3> QED BY <3>3, FS_CardinalityType
  <2> HIDE DEF N
  <2>2. DOMAIN order = 1..N
    BY DEF Bijection, Injection, N
  <2>3. [k \in DOMAIN order |-> Or(Stats(order[k], "total"), 0)] = g
    BY <1>3, <2>2
  <2>4. GrandTotal(order) = Wrap(SumOf(g))
    BY <2>3 DEF GrandTotal
  <2>5. SumOf(g) = SumOf(t)
    BY <2>1, SumOfSums DEF N
  <2> QED BY <1>2, <2>4, <2>5, WrapFacts
<1> QED BY <1>3, <1>4

\* Whatever a provider sends, no recorded count is negative or overflows, and
\* the cached tokens are part of the input. In every report that is answered,
\* pricing the sums of a model's rows gives the sum of their prices, if that is
\* finite, and the grand total is that of the rows, if it is an i64
\* (usage_from_openai, Db::stats, Pricing::cost).
THEOREM UsageAddsUp == ParsingSpec => []RowsAddUp
<1>1. ParsingInv => RowsAddUp
  <2> SUFFICES ASSUME ParsingInv PROVE RecordedIsSane /\ CostIsAdditive /\ TotalsAddUp
    BY DEF RowsAddUp
  <2>1. PICK n \in Nat : DOMAIN rows = 1..n
    BY DEF ParsingInv
  <2>2. \A i \in 1..n : rows[i].usage \in SaneUsages
    <3> SUFFICES ASSUME NEW i \in 1..n PROVE rows[i].usage \in SaneUsages
      OBVIOUS
    <3>1. rows[i] \in GoodRows
      BY <2>1 DEF ParsingInv
    <3> QED BY <3>1 DEF GoodRows
  <2>3. RecordedIsSane
    <3> SUFFICES ASSUME NEW i \in 1..n
                 PROVE  LET u == rows[i].usage IN
                        /\ 0 <= u.cached /\ u.cached <= u.input /\ u.input <= MaxInt
                        /\ u.output \in 0..MaxInt /\ u.total \in 0..MaxInt
      BY <2>1 DEF RecordedIsSane
    <3> DEFINE u == rows[i].usage
    <3>1. SaneCounts(u.input, u.output, u.cached, u.total)
      BY <2>2, SaneElim
    <3> QED BY <3>1, UsageParsingAssumption DEF SaneCounts
  <2>4. CostIsAdditive
    BY <2>1, <2>2, SaneAddsUp
  <2>5. TotalsAddUp
    <3>1. \A i \in 1..n : rows[i].usage.total \in Nat
      BY <2>2, SaneElim, UsageParsingAssumption DEF SaneCounts
    <3> QED BY <2>1, <3>1, SaneTotals
  <2> QED BY <2>3, <2>4, <2>5
<1> QED BY <1>1, ParsingInvariant, PTL

-----------------------------------------------------------------------------
(* What crosses the proxy (Forwarding).                                    *)

\* The request a backend is sent, built anew for each
Built ==
  [headers |-> Insert(ForwardRequestHeaders(client, KeyConsumed(client)), Injected(tried)),
   body |-> Rewrite(talk.endpoint, body)]

\* The conversation up to a turn, and its hash
UpToTurn(n) == SubSeq(talk.messages, 1, n)
Hashes == {ComputePrefixHash(p[1], p[2]) : p \in Endpoints \X Seq(Given.messages)}
Turns == [messages : Nat, value : Hashes]

ForwardingInv ==
  /\ case \in DOMAIN Cases
  /\ talk \in [endpoint : Endpoints, messages : Seq(Given.messages)]
  /\ body \in Given.bodies
  /\ stage \in {"idle", "routed", "waiting", "answered", "refused"}
  /\ stage \in {"routed", "waiting"} => client \in Given.headers
  /\ tried \in 0..Len(BackendHeaders)
  /\ stage = "waiting" => tried \in DOMAIN BackendHeaders /\ sent = Built
  /\ stage = "answered" => \E a : answer = SecurityHeaders(ForwardResponseHeaders(a))
  /\ hash \in Seq(Turns)
  /\ \A i \in DOMAIN hash :
       /\ hash[i].messages \in 1..Len(talk.messages)
       /\ hash[i].value = ComputePrefixHash(talk.endpoint, UpToTurn(hash[i].messages))

\* The prefixes of a sequence that grows
LEMMA PrefixFacts ==
  ASSUME NEW S, NEW s \in Seq(S), NEW x \in S
  PROVE  /\ Append(s, x) \in Seq(S) /\ Len(Append(s, x)) = Len(s) + 1
         /\ SubSeq(Append(s, x), 1, Len(s) + 1) = Append(s, x)
         /\ \A k \in 1..Len(s) : SubSeq(Append(s, x), 1, k) = SubSeq(s, 1, k)
         /\ \A k \in 1..Len(s) : SubSeq(s, 1, k) \in Seq(S)
<1>1. Append(s, x) \in Seq(S) /\ Len(Append(s, x)) = Len(s) + 1
  OBVIOUS
<1>2. SubSeq(Append(s, x), 1, Len(s) + 1) = Append(s, x)
  BY <1>1
<1>3. ASSUME NEW k \in 1..Len(s) PROVE SubSeq(Append(s, x), 1, k) = SubSeq(s, 1, k)
  OBVIOUS
<1>4. \A k \in 1..Len(s) : SubSeq(s, 1, k) \in Seq(S)
  OBVIOUS
<1> QED BY <1>1, <1>2, <1>3, <1>4

\* At the start nothing has been sent.
LEMMA ForwardingInitial == ForwardingInit => ForwardingInv
<1> SUFFICES ASSUME ForwardingInit PROVE ForwardingInv
  OBVIOUS
<1>1. /\ case \in DOMAIN Cases /\ body \in Given.bodies /\ stage = "idle" /\ tried = 0
      /\ hash = <<>>
  BY DEF ForwardingInit
<1>2. PICK e \in Endpoints : talk = [endpoint |-> e, messages |-> <<>>]
  BY DEF ForwardingInit
<1>3. talk \in [endpoint : Endpoints, messages : Seq(Given.messages)]
  BY <1>2
<1>4. hash \in Seq(Turns) /\ DOMAIN hash = {}
  BY <1>1
<1> QED BY <1>1, <1>3, <1>4, ForwardingAssumption DEF ForwardingInv

\* Every step keeps the invariant.
LEMMA ForwardingStep == ForwardingInv /\ [ForwardingNext]_forwardingVars => ForwardingInv'
<1> SUFFICES ASSUME ForwardingInv, [ForwardingNext]_forwardingVars PROVE ForwardingInv'
  OBVIOUS
<1> USE DEF Given
<1>1. ASSUME NEW m \in Given.messages, NEW h \in Given.headers, NEW b \in Given.bodies, Turn(m, h, b)
      PROVE  ForwardingInv'
  <2>1. /\ case' = case /\ talk' = [talk EXCEPT !.messages = Append(@, m)]
        /\ client' = h /\ body' = b /\ tried' = 0
        /\ stage' \in {"refused", "routed"}
        /\ \/ hash' = hash
           \/ hash' = Append(hash, [messages |-> Len(talk'.messages),
                                    value |-> ComputePrefixHash(talk.endpoint, talk'.messages)])
    BY <1>1 DEF Turn
  <2> DEFINE s == talk.messages
             e == talk.endpoint
  <2>2. s \in Seq(Given.messages) /\ e \in Endpoints /\ Len(s) \in Nat
    BY DEF ForwardingInv
  <2>3. /\ talk' \in [endpoint : Endpoints, messages : Seq(Given.messages)]
        /\ talk'.messages = Append(s, m) /\ talk'.endpoint = e
    <3> DEFINE S == Given.messages
    <3>1. talk \in [endpoint : Endpoints, messages : Seq(S)] /\ m \in S
      BY DEF ForwardingInv
    <3> HIDE DEF S
    <3>2. Append(talk.messages, m) \in Seq(S)
      BY <3>1
    <3> QED BY <2>1, <3>1, <3>2 DEF S
  <2> HIDE DEF s, e
  <2>4. /\ Append(s, m) \in Seq(Given.messages) /\ Len(Append(s, m)) = Len(s) + 1
        /\ SubSeq(Append(s, m), 1, Len(s) + 1) = Append(s, m)
        /\ \A k \in 1..Len(s) : SubSeq(Append(s, m), 1, k) = SubSeq(s, 1, k)
    BY <2>2, PrefixFacts
  <2>5. \A i \in DOMAIN hash :
          /\ hash[i].messages \in 1..(Len(s) + 1)
          /\ hash[i].value = ComputePrefixHash(e, SubSeq(Append(s, m), 1, hash[i].messages))
    <3> SUFFICES ASSUME NEW i \in DOMAIN hash
                 PROVE  /\ hash[i].messages \in 1..(Len(s) + 1)
                        /\ hash[i].value = ComputePrefixHash(e, SubSeq(Append(s, m), 1, hash[i].messages))
      OBVIOUS
    <3>1. /\ hash[i].messages \in 1..Len(s)
          /\ hash[i].value = ComputePrefixHash(e, SubSeq(s, 1, hash[i].messages))
      BY DEF ForwardingInv, UpToTurn, s, e
    <3>2. SubSeq(Append(s, m), 1, hash[i].messages) = SubSeq(s, 1, hash[i].messages)
      BY <2>4, <3>1
    <3>3. hash[i].messages \in 1..(Len(s) + 1)
      <4> DEFINE k == hash[i].messages
                 l == Len(s)
      <4>1. k \in 1..l /\ l \in Nat
        BY <2>2, <3>1
      <4> HIDE DEF k, l
      <4>2. k \in 1..(l + 1)
        BY <4>1
      <4> QED BY <4>2 DEF k, l
    <3> QED BY <3>1, <3>2, <3>3, Zenon
  <2> DEFINE turn == [messages |-> Len(s) + 1, value |-> ComputePrefixHash(e, Append(s, m))]
  <2>6. hash \in Seq(Turns) /\ turn \in Turns /\ Turns' = Turns
    <3>1. hash \in Seq(Turns)
      BY DEF ForwardingInv
    <3>2. turn \in Turns
      <4> DEFINE v == ComputePrefixHash(e, Append(s, m))
      <4>1. v \in Hashes
        <5> DEFINE q == Append(s, m)
                   p == <<e, q>>
        <5> HIDE DEF q
        <5>1. p \in Endpoints \X Seq(Given.messages) /\ p[1] = e /\ p[2] = q
          BY <2>2, <2>4 DEF q
        <5>2. v = ComputePrefixHash(p[1], p[2])
          BY <5>1 DEF q
        <5> HIDE DEF v, p
        <5> QED BY <5>1, <5>2, Zenon DEF Hashes
      <4>2. Len(s) + 1 \in Nat
        BY <2>2
      <4> HIDE DEF v
      <4>3. [messages |-> Len(s) + 1, value |-> v] \in Turns
        BY <4>1, <4>2 DEF Turns
      <4> QED BY <4>3 DEF v
    <3>3. Turns' = Turns
      BY <2>1 DEF Turns, Hashes
    <3> QED BY <3>1, <3>2, <3>3
  <2>7. turn.messages = Len(s) + 1 /\ turn.value = ComputePrefixHash(e, Append(s, m))
    OBVIOUS
  <2>8. hash' = hash \/ hash' = Append(hash, turn)
    BY <2>1, <2>3, <2>4 DEF e
  <2> HIDE DEF turn
  <2>9. /\ hash' \in Seq(Turns)
        /\ \A i \in DOMAIN hash' :
             /\ hash'[i].messages \in 1..(Len(s) + 1)
             /\ hash'[i].value = ComputePrefixHash(e, SubSeq(Append(s, m), 1, hash'[i].messages))
    <3>1. CASE hash' = hash
      BY <2>5, <2>6, <3>1
    <3>2. CASE hash' = Append(hash, turn)
      <4>1. /\ hash' \in Seq(Turns) /\ DOMAIN hash' = 1..(Len(hash) + 1) /\ Len(hash) \in Nat
            /\ DOMAIN hash = 1..Len(hash)
            /\ hash'[Len(hash) + 1] = turn /\ \A i \in 1..Len(hash) : hash'[i] = hash[i]
        BY <2>6, <3>2
      <4>2. /\ turn.messages \in 1..(Len(s) + 1)
            /\ turn.value = ComputePrefixHash(e, SubSeq(Append(s, m), 1, turn.messages))
        <5>1. Len(s) + 1 \in 1..(Len(s) + 1)
          BY <2>2
        <5> QED BY <2>4, <2>7, <5>1, Zenon
      <4>3. \A i \in DOMAIN hash' : i = Len(hash) + 1 \/ i \in 1..Len(hash)
        BY <4>1
      <4> QED BY <2>5, <4>1, <4>2, <4>3
    <3> QED BY <2>8, <3>1, <3>2
  <2>10. \A i \in DOMAIN hash' :
           /\ hash'[i].messages \in 1..Len(talk'.messages)
           /\ hash'[i].value = ComputePrefixHash(talk'.endpoint, SubSeq(talk'.messages, 1, hash'[i].messages))
    BY <2>3, <2>4, <2>9
  <2>11. hash' \in Seq(Turns')
    BY <2>6, <2>9
  <2>12. /\ case' \in DOMAIN Cases /\ body' \in Given'.bodies /\ client' \in Given'.headers
         /\ talk' \in [endpoint : Endpoints, messages : Seq(Given'.messages)]
         /\ tried' \in 0..Len(BackendHeaders)
    BY <2>1, <2>3, ForwardingAssumption DEF ForwardingInv
  <2> QED BY <2>1, <2>10, <2>11, <2>12 DEF ForwardingInv, UpToTurn
<1>2. ASSUME Attempt PROVE ForwardingInv'
  <2>1. /\ stage = "routed" /\ tried < Len(BackendHeaders) /\ tried' = tried + 1
        /\ stage' = "waiting" /\ case' = case /\ talk' = talk /\ hash' = hash /\ client' = client
        /\ body' = body
        /\ sent' = Built'
    BY <1>2 DEF Attempt, Built
  <2>2. tried' \in DOMAIN BackendHeaders /\ tried' \in 0..Len(BackendHeaders)
    BY <2>1, ForwardingAssumption DEF ForwardingInv
  <2> QED BY <2>1, <2>2 DEF ForwardingInv, Turns, Hashes, UpToTurn
<1>3. ASSUME ExecuteFails PROVE ForwardingInv'
  BY <1>3 DEF ExecuteFails, ForwardingInv, Turns, Hashes, UpToTurn
<1>4. ASSUME NEW a \in Given.answers, Respond(a) PROVE ForwardingInv'
  BY <1>4 DEF Respond, ForwardingInv, Turns, Hashes, UpToTurn
<1>5. ASSUME Done PROVE ForwardingInv'
  BY <1>5 DEF Done, ForwardingInv, Turns, Hashes, UpToTurn
<1>6. ASSUME UNCHANGED forwardingVars PROVE ForwardingInv'
  BY <1>6 DEF forwardingVars, ForwardingInv, Turns, Hashes, UpToTurn, Built
<1>7. ASSUME BuildFails PROVE ForwardingInv'
  <2>1. /\ tried < Len(BackendHeaders) /\ tried' = tried + 1 /\ stage' = "refused"
        /\ case' = case /\ talk' = talk /\ hash' = hash /\ body' = body
    BY <1>7 DEF BuildFails
  <2>2. tried' \in 0..Len(BackendHeaders)
    BY <2>1, ForwardingAssumption DEF ForwardingInv
  <2> QED BY <2>1, <2>2 DEF ForwardingInv, Turns, Hashes, UpToTurn
<1> QED BY <1>1, <1>2, <1>3, <1>4, <1>5, <1>6, <1>7 DEF ForwardingNext

\* The invariant holds in every reachable state.
LEMMA ForwardingInvariant == ForwardingSpec => []ForwardingInv
BY ForwardingInitial, ForwardingStep, PTL DEF ForwardingSpec

\* Where the first message of a role is does not depend on how much of the
\* conversation follows.
LEMMA FirstIsStable ==
  ASSUME NEW S, NEW s \in Seq(S), NEW k \in 1..Len(s), NEW n \in 1..Len(s), NEW role,
         \E i \in 1..k : s[i].role = role, \E i \in 1..n : s[i].role = role
  PROVE  /\ HasText(SubSeq(s, 1, k), role) = HasText(SubSeq(s, 1, n), role)
         /\ FirstOf(SubSeq(s, 1, k), role) = FirstOf(SubSeq(s, 1, n), role)
<1> DEFINE of(j) == {i \in 1..j : s[i].role = role}
<1>1. ASSUME NEW j \in 1..Len(s), \E i \in 1..j : s[i].role = role
      PROVE  LET q == SubSeq(s, 1, j) IN
             /\ OfRole(q, role) = of(j) /\ of(j) # {}
             /\ Min(of(j)) \in of(j) /\ \A y \in of(j) : Min(of(j)) <= y
             /\ q[Min(of(j))] = s[Min(of(j))]
  <2> DEFINE q == SubSeq(s, 1, j)
  <2>1. DOMAIN q = 1..j /\ \A i \in 1..j : q[i] = s[i]
    OBVIOUS
  <2> HIDE DEF q
  <2>2. OfRole(q, role) = of(j)
    BY <2>1 DEF OfRole
  <2>3. of(j) # {} /\ of(j) \in SUBSET Nat /\ of(j) \subseteq 1..j
    BY <1>1
  <2> HIDE DEF of
  <2>4. Min(of(j)) \in of(j) /\ \A y \in of(j) : Min(of(j)) <= y
    BY <2>3, MinFacts
  <2> QED BY <2>1, <2>2, <2>3, <2>4 DEF q
<1> DEFINE a == Min(of(k))
           b == Min(of(n))
<1>2. a = b
  <2>1. /\ a \in of(k) /\ \A y \in of(k) : a <= y
        /\ b \in of(n) /\ \A y \in of(n) : b <= y
    BY <1>1
  <2> HIDE DEF a, b
  <2>2. k <= n \/ n <= k
    OBVIOUS
  <2>3. CASE k <= n
    <3>1. a \in of(n) /\ b <= a
      BY <2>1, <2>3
    <3>2. b \in of(k)
      BY <2>1, <3>1
    <3> QED BY <2>1, <3>1, <3>2
  <2>4. CASE n <= k
    <3>1. b \in of(k) /\ a <= b
      BY <2>1, <2>4
    <3>2. a \in of(n)
      BY <2>1, <3>1
    <3> QED BY <2>1, <3>1, <3>2
  <2> QED BY <2>2, <2>3, <2>4
<1> DEFINE q == SubSeq(s, 1, k)
           r == SubSeq(s, 1, n)
<1>3. /\ OfRole(q, role) = of(k) /\ of(k) # {} /\ q[a] = s[a]
      /\ OfRole(r, role) = of(n) /\ of(n) # {} /\ r[b] = s[b]
  BY <1>1
<1> HIDE DEF q, r, of, a, b
<1>4. /\ Min(OfRole(q, role)) = a /\ Min(OfRole(r, role)) = b
  BY <1>3 DEF a, b
<1>5. HasText(q, role) = HasText(r, role)
  BY <1>2, <1>3, <1>4 DEF HasText
<1>6. FirstOf(q, role) = FirstOf(r, role)
  BY <1>2, <1>3, <1>4, <1>5 DEF FirstOf
<1> QED BY <1>5, <1>6 DEF q, r

\* From the turn on in which a conversation has its first system and its first
\* user message, all of its turns have the same hash, and so the same preferred
\* backend (compute_prefix_hash).
THEOREM ConversationIsSticky == ForwardingSpec => []ConversationKeepsHash
<1>1. ForwardingInv => ConversationKeepsHash
  <2> SUFFICES ASSUME ForwardingInv, NEW i \in DOMAIN hash, NEW j \in DOMAIN hash,
                      \E a, b \in 1..hash[i].messages : /\ talk.messages[a].role = "system"
                                                        /\ talk.messages[b].role = "user",
                      \E a, b \in 1..hash[j].messages : /\ talk.messages[a].role = "system"
                                                        /\ talk.messages[b].role = "user"
               PROVE  hash[i].value = hash[j].value
    BY DEF ConversationKeepsHash
  <2> DEFINE s == talk.messages
             k == hash[i].messages
             n == hash[j].messages
             q == SubSeq(s, 1, k)
             r == SubSeq(s, 1, n)
             S == Given.messages
  <2>1. /\ s \in Seq(S) /\ k \in 1..Len(s) /\ n \in 1..Len(s)
        /\ hash[i].value = ComputePrefixHash(talk.endpoint, q)
        /\ hash[j].value = ComputePrefixHash(talk.endpoint, r)
    BY DEF ForwardingInv, UpToTurn
  <2>2. /\ \E a \in 1..k : s[a].role = "system"
        /\ \E a \in 1..k : s[a].role = "user"
        /\ \E a \in 1..n : s[a].role = "system"
        /\ \E a \in 1..n : s[a].role = "user"
    OBVIOUS
  <2> HIDE DEF s, k, n, S
  <2>3. /\ HasText(q, "system") = HasText(r, "system") /\ HasText(q, "user") = HasText(r, "user")
        /\ FirstOf(q, "system") = FirstOf(r, "system") /\ FirstOf(q, "user") = FirstOf(r, "user")
    <3>1. ASSUME NEW role \in {"system", "user"}
          PROVE  HasText(q, role) = HasText(r, role) /\ FirstOf(q, role) = FirstOf(r, role)
      <4>1. (\E a \in 1..k : s[a].role = role) /\ (\E a \in 1..n : s[a].role = role)
        BY <2>2
      <4> QED BY <2>1, <4>1, FirstIsStable
    <3> HIDE DEF q, r
    <3> QED BY <3>1
  <2> HIDE DEF q, r
  <2>4. ComputePrefixHash(talk.endpoint, q) = ComputePrefixHash(talk.endpoint, r)
    BY <2>3 DEF ComputePrefixHash
  <2> QED BY <2>1, <2>4
<1> QED BY <1>1, ForwardingInvariant, PTL

\* skip_headers
LEMMA WithoutFacts ==
  ASSUME NEW headers, NEW names
  PROVE  /\ DOMAIN Without(headers, names) = DOMAIN headers \ names
         /\ \A n \in DOMAIN headers \ names : Without(headers, names)[n] = headers[n]
BY DEF Without

\* forward_request_headers: what is left of the client's headers
LEMMA RequestFacts ==
  ASSUME NEW h, NEW consumed \in BOOLEAN
  PROVE  LET f == ForwardRequestHeaders(h, consumed) IN
         /\ "accept-encoding" \in DOMAIN f /\ f["accept-encoding"] = <<"identity">>
         /\ \A n \in DOMAIN f \ {"accept-encoding"} :
              /\ n \in DOMAIN h /\ f[n] = h[n]
              /\ n \notin SKIP_REQUEST_HEADERS /\ n \notin ConnectionHeaderNames(h)
              /\ consumed => n \notin CLIENT_AUTH_HEADERS
<1> DEFINE f == ForwardRequestHeaders(h, consumed)
           auth == IF consumed THEN CLIENT_AUTH_HEADERS ELSE {}
           skip == SKIP_REQUEST_HEADERS \cup ConnectionHeaderNames(h) \cup auth
           kept == Without(h, skip)
           own == Identity
<1>1. f = Insert(kept, own)
  BY DEF ForwardRequestHeaders, SkipHeaders
<1>2. DOMAIN own = {"accept-encoding"} /\ own["accept-encoding"] = <<"identity">>
  BY DEF Identity
<1>3. consumed => auth = CLIENT_AUTH_HEADERS
  OBVIOUS
<1> HIDE DEF f, own, auth
<1>4. DOMAIN kept = DOMAIN h \ skip /\ \A n \in DOMAIN h \ skip : kept[n] = h[n]
  <2> HIDE DEF skip
  <2> QED BY WithoutFacts
<1> HIDE DEF kept
<1>5. /\ DOMAIN f = DOMAIN kept \cup DOMAIN own /\ \A n \in DOMAIN own : f[n] = own[n]
      /\ \A n \in DOMAIN kept \ DOMAIN own : f[n] = kept[n]
  BY <1>1 DEF Insert
<1>6. "accept-encoding" \in DOMAIN f /\ f["accept-encoding"] = <<"identity">>
  BY <1>2, <1>5
<1>7. ASSUME NEW n \in DOMAIN f \ {"accept-encoding"}
      PROVE  /\ n \in DOMAIN h /\ f[n] = h[n]
             /\ n \notin SKIP_REQUEST_HEADERS /\ n \notin ConnectionHeaderNames(h)
             /\ consumed => n \notin CLIENT_AUTH_HEADERS
  BY <1>2, <1>3, <1>4, <1>5
<1> QED BY <1>6, <1>7 DEF f

\* What a backend is sent has one of three origins.
LEMMA SentFacts ==
  ASSUME ForwardingInv, stage = "waiting"
  PROVE  LET B == Injected(tried)
             H == sent.headers
         IN  /\ \A n \in DOMAIN B : H[n] = B[n]
             /\ "accept-encoding" \in DOMAIN B \/ H["accept-encoding"] = <<"identity">>
             /\ \A n \in DOMAIN H :
                  \/ n \in DOMAIN B /\ H[n] = B[n]
                  \/ n = "accept-encoding" /\ H[n] = <<"identity">>
                  \/ /\ n \in DOMAIN client /\ H[n] = client[n] /\ n \notin SKIP_REQUEST_HEADERS
                     /\ n \notin ConnectionHeaderNames(client)
                     /\ KeyConsumed(client) => n \notin CLIENT_AUTH_HEADERS
<1> DEFINE B == Injected(tried)
           H == sent.headers
           f == ForwardRequestHeaders(client, KeyConsumed(client))
<1>1. H = Insert(f, B)
  BY DEF ForwardingInv, Built
<1>2. KeyConsumed(client) \in BOOLEAN
  BY DEF KeyConsumed
<1>3. /\ "accept-encoding" \in DOMAIN f /\ f["accept-encoding"] = <<"identity">>
      /\ \A n \in DOMAIN f \ {"accept-encoding"} :
           /\ n \in DOMAIN client /\ f[n] = client[n]
           /\ n \notin SKIP_REQUEST_HEADERS /\ n \notin ConnectionHeaderNames(client)
           /\ KeyConsumed(client) => n \notin CLIENT_AUTH_HEADERS
  BY <1>2, RequestFacts
<1> HIDE DEF B, H, f
<1>4. /\ DOMAIN H = DOMAIN f \cup DOMAIN B /\ \A n \in DOMAIN B : H[n] = B[n]
      /\ \A n \in DOMAIN f \ DOMAIN B : H[n] = f[n]
  BY <1>1 DEF Insert
<1>5. "accept-encoding" \in DOMAIN B \/ H["accept-encoding"] = <<"identity">>
  BY <1>3, <1>4
<1>6. ASSUME NEW n \in DOMAIN H
      PROVE  \/ n \in DOMAIN B /\ H[n] = B[n]
             \/ n = "accept-encoding" /\ H[n] = <<"identity">>
             \/ /\ n \in DOMAIN client /\ H[n] = client[n] /\ n \notin SKIP_REQUEST_HEADERS
                /\ n \notin ConnectionHeaderNames(client)
                /\ KeyConsumed(client) => n \notin CLIENT_AUTH_HEADERS
  BY <1>3, <1>4
<1> QED BY <1>4, <1>5, <1>6 DEF B, H

\* What a client gets
LEMMA AnswerFacts ==
  ASSUME NEW a
  PROVE  LET x == SecurityHeaders(ForwardResponseHeaders(a)) IN
         /\ DOMAIN x \cap (HopByHop \cup {"set-cookie"}) = {}
         /\ FirstLine(x, "content-type", "html") =>
              /\ \A n \in DOMAIN Sandbox : x[n] = <<"proxy">>
              /\ "content-security-policy-report-only" \notin DOMAIN x
<1> DEFINE r == ForwardResponseHeaders(a)
           x == SecurityHeaders(r)
           added == {"x-content-type-options", "x-frame-options", "referrer-policy"}
                    \cup (IF Tls THEN {"strict-transport-security"} ELSE {})
           more == [n \in added |-> <<"proxy">>]
           html == FirstLine(a, "content-type", "html")
           only == {"content-security-policy-report-only"}
           plain == Without(a, SKIP_RESPONSE_HEADERS \cup ConnectionHeaderNames(a) \cup {})
           paged == Without(a, SKIP_RESPONSE_HEADERS \cup ConnectionHeaderNames(a)
                               \cup (DOMAIN Sandbox \cup only))
<1>1. x = Insert(more, r)
  BY DEF SecurityHeaders, OrInsert
<1>2. r = IF html THEN Insert(paged, Sandbox) ELSE plain
  BY DEF ForwardResponseHeaders, SkipHeaders
<1>3. /\ DOMAIN plain = DOMAIN a \ (SKIP_RESPONSE_HEADERS \cup ConnectionHeaderNames(a))
      /\ \A n \in DOMAIN plain : plain[n] = a[n]
  BY DEF Without
<1>4. /\ DOMAIN paged = DOMAIN a \ (SKIP_RESPONSE_HEADERS \cup ConnectionHeaderNames(a)
                                    \cup DOMAIN Sandbox \cup only)
      /\ \A n \in DOMAIN paged : paged[n] = a[n]
  BY DEF Without
<1>5. DOMAIN more = added
  OBVIOUS
<1>6. /\ DOMAIN Sandbox = {"content-security-policy", "x-content-type-options", "content-disposition"}
      /\ \A n \in DOMAIN Sandbox : Sandbox[n] = <<"proxy">>
  BY DEF Sandbox
<1> HIDE DEF r, x, more, plain, paged
<1>7. /\ DOMAIN x = DOMAIN more \cup DOMAIN r
      /\ \A n \in DOMAIN r : x[n] = r[n]
  BY <1>1 DEF Insert
<1>8. /\ html => /\ DOMAIN r = DOMAIN paged \cup DOMAIN Sandbox
                 /\ \A n \in DOMAIN Sandbox : r[n] = Sandbox[n]
                 /\ \A n \in DOMAIN paged \ DOMAIN Sandbox : r[n] = paged[n]
      /\ ~html => r = plain
  BY <1>2 DEF Insert
<1>9. DOMAIN x \cap (HopByHop \cup {"set-cookie"}) = {}
  <2>1. DOMAIN r \cap (HopByHop \cup {"set-cookie"}) = {}
    <3>1. (HopByHop \cup {"set-cookie"}) \subseteq SKIP_RESPONSE_HEADERS
      BY DEF SKIP_RESPONSE_HEADERS
    <3>2. DOMAIN Sandbox \cap (HopByHop \cup {"set-cookie"}) = {}
      BY <1>6 DEF HopByHop
    <3> QED BY <1>3, <1>4, <1>8, <3>1, <3>2
  <2>2. DOMAIN more \cap (HopByHop \cup {"set-cookie"}) = {}
    BY <1>5 DEF HopByHop
  <2> QED BY <1>7, <2>1, <2>2
<1>10. ASSUME FirstLine(x, "content-type", "html")
       PROVE  /\ \A n \in DOMAIN Sandbox : x[n] = <<"proxy">>
              /\ "content-security-policy-report-only" \notin DOMAIN x
  <2>1. "content-type" \in DOMAIN r /\ r["content-type"][1] = "html"
    BY <1>5, <1>7, <1>10 DEF FirstLine
  <2>2. html
    BY <1>3, <1>8, <2>1 DEF FirstLine
  <2>3. \A n \in DOMAIN Sandbox : x[n] = <<"proxy">>
    BY <1>6, <1>7, <1>8, <2>2
  <2>4. "content-security-policy-report-only" \notin DOMAIN x
    BY <1>4, <1>5, <1>6, <1>7, <1>8, <2>2
  <2> QED BY <2>3, <2>4
<1> QED BY <1>9, <1>10 DEF x, r

\* A backend is sent its own legal headers and no other backend's, never the
\* dashboard's session, and no line of a key of this proxy when one was taken
\* from a first line; nothing of one connection crosses to another; an answer
\* whose first Content-Type is a page's is in the sandbox; a stream is asked for
\* its usage (forward_request_headers, forward_response_headers,
\* inject_include_usage).
THEOREM ForwardingIsSafe == ForwardingSpec => []OnlyWhatShouldCross
<1>1. ForwardingInv => CredentialsStayApart
  <2> DEFINE looked == \A n \in CLIENT_AUTH_HEADERS \cap DOMAIN client :
                         "twl" \in ToSet(client[n]) => client[n][1] = "twl"
             B == Injected(tried)
             H == sent.headers
             taken == KeyConsumed(client) \/ looked
  <2> SUFFICES ASSUME ForwardingInv, stage = "waiting"
               PROVE  /\ \A n \in DOMAIN B : H[n] = <<BackendHeaders[tried][n]>>
                      /\ "session" \notin Values(H)
                      /\ taken => "twl" \notin Values(H)
                      /\ \A k \in DOMAIN BackendHeaders \ {tried} : Values(H) \cap Credentials(k) = {}
                      /\ "accept-encoding" \in DOMAIN B \/ H["accept-encoding"] = <<"identity">>
    BY DEF CredentialsStayApart
  <2>1. /\ \A n \in DOMAIN B : H[n] = B[n]
        /\ "accept-encoding" \in DOMAIN B \/ H["accept-encoding"] = <<"identity">>
        /\ \A n \in DOMAIN H :
             \/ n \in DOMAIN B /\ H[n] = B[n]
             \/ n = "accept-encoding" /\ H[n] = <<"identity">>
             \/ /\ n \in DOMAIN client /\ H[n] = client[n] /\ n \notin SKIP_REQUEST_HEADERS
                /\ n \notin ConnectionHeaderNames(client)
                /\ KeyConsumed(client) => n \notin CLIENT_AUTH_HEADERS
    BY SentFacts
  <2>2. /\ tried \in DOMAIN BackendHeaders /\ case \in DOMAIN Cases
        /\ client \in Cases[case].headers
    BY DEF ForwardingInv, Given
  <2>3. /\ Credentials(tried) \cap {"twl", "session", "identity"} = {}
        /\ \A k \in DOMAIN BackendHeaders \ {tried} :
             /\ Credentials(tried) \cap Credentials(k) = {}
             /\ "identity" \notin Credentials(k)
        /\ \A k \in DOMAIN BackendHeaders : Values(client) \cap Credentials(k) = {}
        /\ \A n \in DOMAIN client \ {"connection"} :
             /\ "twl" \in ToSet(client[n]) => n \in {"authorization", "x-api-key"}
             /\ "session" \in ToSet(client[n]) => n = "cookie"
    BY <2>2, ForwardingAssumption
  <2>4. "cookie" \in SKIP_REQUEST_HEADERS /\ CLIENT_AUTH_HEADERS = {"authorization", "x-api-key"}
    BY DEF SKIP_REQUEST_HEADERS, CLIENT_AUTH_HEADERS
  <2>5. ASSUME looked, NEW n \in CLIENT_AUTH_HEADERS \cap DOMAIN client, "twl" \in ToSet(client[n])
        PROVE  KeyConsumed(client)
    BY <2>5 DEF KeyConsumed, FirstLine
  <2>6. \A n \in DOMAIN B : B[n] = <<BackendHeaders[tried][n]>>
                            /\ BackendHeaders[tried][n] \in Credentials(tried)
    BY DEF Injected, Credentials
  <2>7. ASSUME NEW n \in DOMAIN H \ {"connection"}, NEW v \in ToSet(H[n])
        PROVE  \/ v \in Credentials(tried)
               \/ v = "identity"
               \/ v \in Values(client) /\ (taken => v # "twl") /\ v # "session"
    <3> HIDE DEF B, H
    <3>1. CASE n \in DOMAIN B /\ H[n] = B[n]
      <4>1. H[n] = <<BackendHeaders[tried][n]>> /\ BackendHeaders[tried][n] \in Credentials(tried)
        BY <2>6, <3>1
      <4> QED BY <2>7, <4>1 DEF ToSet
    <3>2. CASE n = "accept-encoding" /\ H[n] = <<"identity">>
      BY <2>7, <3>2 DEF ToSet
    <3>3. CASE /\ n \in DOMAIN client /\ H[n] = client[n] /\ n \notin SKIP_REQUEST_HEADERS
               /\ KeyConsumed(client) => n \notin CLIENT_AUTH_HEADERS
      <4>1. v \in Values(client)
        BY <2>7, <3>3 DEF Values
      <4>2. v # "session"
        BY <2>3, <2>4, <2>7, <3>3
      <4>3. taken => v # "twl"
        <5> SUFFICES ASSUME taken, v = "twl" PROVE FALSE
          OBVIOUS
        <5>1. n \in CLIENT_AUTH_HEADERS \cap DOMAIN client /\ "twl" \in ToSet(client[n])
          BY <2>3, <2>4, <2>7, <3>3
        <5>2. KeyConsumed(client)
          <6> HIDE DEF looked
          <6>1. CASE KeyConsumed(client)
            BY <6>1
          <6>2. CASE looked
            BY <2>5, <5>1, <6>2
          <6> QED BY <6>1, <6>2
        <5> QED BY <3>3, <5>1, <5>2
      <4> QED BY <4>1, <4>2, <4>3
    <3> QED BY <2>1, <3>1, <3>2, <3>3
  <2> HIDE DEF B, H, taken
  <2>8. ASSUME NEW v \in Values(H)
        PROVE  \/ v \in Credentials(tried)
               \/ v = "identity"
               \/ v \in Values(client) /\ (taken => v # "twl") /\ v # "session"
    <3>1. PICK n \in DOMAIN H \ {"connection"} : v \in ToSet(H[n])
      BY <2>8 DEF Values
    <3> QED BY <2>7, <3>1
  <2>9. "session" \notin Values(H) /\ (taken => "twl" \notin Values(H))
    BY <2>3, <2>8
  <2>10. ASSUME NEW k \in DOMAIN BackendHeaders \ {tried}
         PROVE  Values(H) \cap Credentials(k) = {}
    BY <2>3, <2>8
  <2> QED BY <2>1, <2>6, <2>9, <2>10
<1>2. ForwardingInv => NothingHopByHop
  <2> SUFFICES ASSUME ForwardingInv PROVE NothingHopByHop
    OBVIOUS
  <2>1. ASSUME stage = "waiting"
        PROVE  (DOMAIN sent.headers \ (DOMAIN Injected(tried) \cup {"accept-encoding"}))
                 \cap (HopByHop \cup ConnectionHeaderNames(client)) = {}
    <3> DEFINE B == Injected(tried)
               H == sent.headers
    <3>1. \A n \in DOMAIN H :
             \/ n \in DOMAIN B
             \/ n = "accept-encoding"
             \/ n \notin SKIP_REQUEST_HEADERS /\ n \notin ConnectionHeaderNames(client)
      BY <2>1, SentFacts
    <3>2. HopByHop \subseteq SKIP_REQUEST_HEADERS
      BY DEF SKIP_REQUEST_HEADERS
    <3> HIDE DEF B, H
    <3>3. (DOMAIN H \ (DOMAIN B \cup {"accept-encoding"}))
            \cap (HopByHop \cup ConnectionHeaderNames(client)) = {}
      BY <3>1, <3>2
    <3> QED BY <3>3 DEF B, H
  <2>2. ASSUME stage = "answered" PROVE DOMAIN answer \cap (HopByHop \cup {"set-cookie"}) = {}
    <3>1. PICK a : answer = SecurityHeaders(ForwardResponseHeaders(a))
      BY <2>2 DEF ForwardingInv
    <3> QED BY <3>1, AnswerFacts
  <2> QED BY <2>1, <2>2 DEF NothingHopByHop
<1>3. ForwardingInv => ActiveContentSandboxed
  <2> SUFFICES ASSUME ForwardingInv, stage = "answered" PROVE ActiveContentSandboxed
    BY DEF ActiveContentSandboxed
  <2>1. PICK a : answer = SecurityHeaders(ForwardResponseHeaders(a))
    BY DEF ForwardingInv
  <2>2. FirstLine(answer, "content-type", "html") =>
          /\ \A n \in DOMAIN Sandbox : answer[n] = <<"proxy">>
          /\ "content-security-policy-report-only" \notin DOMAIN answer
    BY <2>1, AnswerFacts
  <2> QED BY <2>2 DEF ActiveContentSandboxed
<1>4. ForwardingInv => UsageAskedFor
  <2> SUFFICES ASSUME ForwardingInv, stage = "waiting" PROVE UsageAskedFor
    BY DEF UsageAskedFor
  <2>1. /\ body \in [json : BOOLEAN, stream : BOOLEAN,
                     options : {"absent", "text", "other", "other-usage", "usage"}]
        /\ sent.body = Rewrite(talk.endpoint, body)
    BY ForwardingAssumption DEF ForwardingInv, Given, Built
  <2> DEFINE o == IF body.options \in {"other", "other-usage"} THEN "other-usage" ELSE "usage"
  <2>2. CASE body.json /\ body.stream /\ Tracked(talk.endpoint)
    <3>1. sent.body = [body EXCEPT !.options = o]
      BY <2>1, <2>2 DEF Rewrite
    <3>2. sent.body.options = o /\ [sent.body EXCEPT !.options = body.options] = body
      BY <2>1, <3>1
    <3> QED BY <3>2 DEF UsageAskedFor
  <2>3. CASE ~(body.json /\ body.stream /\ Tracked(talk.endpoint))
    <3>1. sent.body = body
      BY <2>1, <2>3 DEF Rewrite
    <3>2. [sent.body EXCEPT !.options = body.options] = body
      BY <2>1, <3>1
    <3> QED BY <2>3, <3>1, <3>2 DEF UsageAskedFor
  <2> QED BY <2>2, <2>3
<1> QED BY <1>1, <1>2, <1>3, <1>4, ForwardingInvariant, PTL DEF OnlyWhatShouldCross

-----------------------------------------------------------------------------
(* What a stream learns from the bytes of a response (AccountingStream).   *)

\* A number of a set that no other exceeds is its maximum.
LEMMA MaxIs ==
  ASSUME NEW T \in SUBSET Nat, NEW x \in T, \A y \in T : x >= y
  PROVE  Max(T) = x
<1>1. \E z \in T : \A y \in T : z >= y
  OBVIOUS
<1>2. Max(T) \in T /\ \A y \in T : Max(T) >= y
  BY <1>1 DEF Max
<1> DEFINE m == Max(T)
<1>3. m \in Nat /\ x \in Nat /\ m >= x /\ x >= m
  BY <1>2
<1> HIDE DEF m
<1>4. m = x
  BY <1>3
<1> QED BY <1>4 DEF m

\* The maximum of two
LEMMA MaxOfTwo ==
  ASSUME NEW a \in Nat, NEW b \in Nat
  PROVE  Max({a, b}) = IF a >= b THEN a ELSE b
<1>1. {a, b} \in SUBSET Nat
  OBVIOUS
<1>2. CASE a >= b
  <2>1. a \in {a, b} /\ \A y \in {a, b} : a >= y
    BY <1>2
  <2> DEFINE T == {a, b}
  <2> HIDE DEF T
  <2>2. Max(T) = a
    BY <1>1, <2>1, MaxIs DEF T
  <2> QED BY <1>2, <2>2 DEF T
<1>3. CASE ~(a >= b)
  <2>1. b \in {a, b} /\ \A y \in {a, b} : b >= y
    BY <1>3
  <2> DEFINE T == {a, b}
  <2> HIDE DEF T
  <2>2. Max(T) = b
    BY <1>1, <2>1, MaxIs DEF T
  <2> QED BY <1>3, <2>2 DEF T
<1> QED BY <1>2, <1>3

\* A family of numbers with finitely many members has a maximum.
LEMMA MaxOfFamily ==
  ASSUME NEW n \in Nat, NEW D \in SUBSET (1..n), D # {}, NEW g \in [D -> Nat]
  PROVE  LET T == {g[k] : k \in D} IN
         /\ T \in SUBSET Nat /\ Max(T) \in T /\ Max(T) \in Nat /\ \A y \in T : Max(T) >= y
<1> DEFINE Greatest(m, x) == x \in D /\ x <= m /\ \A k \in D : k <= m => g[x] >= g[k]
           G == {m \in 0..n : (\A k \in D : k > m) \/ \E x \in D : Greatest(m, x)}
<1>1. 0 \in G
  OBVIOUS
<1>2. ASSUME NEW m \in 0..(n - 1), m \in G PROVE m + 1 \in G
  <2>1. m + 1 \in 0..n /\ m \in Nat
    OBVIOUS
  <2>2. CASE m + 1 \notin D
    <3>1. \A k \in D : (k <= m + 1 <=> k <= m) /\ (k > m => k > m + 1)
      BY <2>2
    <3> QED BY <1>2, <2>1, <3>1
  <2>3. CASE m + 1 \in D
    <3>1. \A k \in D : k <= m + 1 => k <= m \/ k = m + 1
      OBVIOUS
    <3>2. CASE \A k \in D : k > m
      <4>1. Greatest(m + 1, m + 1)
        BY <2>3, <3>1, <3>2
      <4> QED BY <2>1, <2>3, <4>1
    <3>3. CASE \E x \in D : Greatest(m, x)
      <4>1. PICK x \in D : Greatest(m, x)
        BY <3>3
      <4>2. CASE g[x] >= g[m + 1]
        <5>1. Greatest(m + 1, x)
          BY <2>1, <2>3, <3>1, <4>1, <4>2
        <5> QED BY <2>1, <5>1
      <4>3. CASE ~(g[x] >= g[m + 1])
        <5>1. Greatest(m + 1, m + 1)
          BY <2>1, <2>3, <3>1, <4>1, <4>3
        <5> QED BY <2>1, <2>3, <5>1
      <4> QED BY <4>2, <4>3
    <3> QED BY <1>2, <3>2, <3>3
  <2> QED BY <2>2, <2>3
<1>3. n \in G
  <2> HIDE DEF G
  <2>1. 0..n \subseteq G
    BY <1>1, <1>2, UpTo
  <2> QED BY <2>1
<1>4. PICK x \in D : \A k \in D : g[x] >= g[k]
  <2>1. \A k \in D : k <= n /\ ~(k > n)
    OBVIOUS
  <2> QED BY <1>3, <2>1
<1> DEFINE T == {g[k] : k \in D}
<1>5. T \in SUBSET Nat /\ g[x] \in T /\ \A y \in T : g[x] >= y
  BY <1>4
<1> HIDE DEF T
<1>6. Max(T) = g[x]
  BY <1>5, MaxIs
<1> QED BY <1>5, <1>6 DEF T

\* Adding a number to a set with a maximum
LEMMA MaxOfMore ==
  ASSUME NEW T \in SUBSET Nat, NEW m \in T, \A y \in T : m >= y, NEW x \in Nat
  PROVE  Max(T \cup {x}) = Max({m, x}) /\ Max({m, x}) \in Nat
<1> DEFINE U == T \cup {x}
<1>1. U \in SUBSET Nat /\ m \in U /\ x \in U
  OBVIOUS
<1>2. CASE m >= x
  <2>1. \A y \in U : m >= y
    BY <1>2
  <2> HIDE DEF U
  <2>2. Max(U) = m
    BY <1>1, <2>1, MaxIs
  <2> QED BY <1>2, <2>2, MaxOfTwo DEF U
<1>3. CASE ~(m >= x)
  <2>1. \A y \in U : x >= y
    BY <1>3
  <2> HIDE DEF U
  <2>2. Max(U) = x
    BY <1>1, <2>1, MaxIs
  <2> QED BY <1>3, <2>2, MaxOfTwo DEF U
<1> QED BY <1>2, <1>3

UsageOptions == Usages \cup {NoUsage}

Seen(f) == {k \in DOMAIN f : f[k] # NoUsage}
KnownIn(f) == {k \in Seen(f) : f[k].model # Unknown}
Inputs(f) == {f[k].input : k \in Seen(f)}
Outputs(f) == {f[k].output : k \in Seen(f)}
Totals(f) == {f[k].total : k \in Seen(f)}
ModelIn(f) == IF KnownIn(f) = {} THEN Unknown ELSE f[Min(KnownIn(f))].model
Both(f) == IF \E k \in Seen(f) : Seen(f) = {k} THEN 0 ELSE Max(Inputs(f)) + Max(Outputs(f))
Counted(model, in, out, total) == [model |-> model, input |-> in, output |-> out, total |-> total]

\* m is the maximum of T.
Tops(m, T) == T \in SUBSET Nat /\ m \in T /\ m \in Nat /\ \A y \in T : m >= y

\* Adding a number to a set whose maximum is named
LEMMA TopsMore ==
  ASSUME NEW T, NEW m, NEW x \in Nat, Tops(m, T)
  PROVE  Max(T \cup {x}) = Max({m, x}) /\ Max({m, x}) \in Nat
BY MaxOfMore DEF Tops

\* The fields of such a record
LEMMA CountedFields ==
  ASSUME NEW model, NEW in, NEW out, NEW total
  PROVE  LET u == Counted(model, in, out, total) IN
         u.model = model /\ u.input = in /\ u.output = out /\ u.total = total
BY DEF Counted

\* A usage is its fields.
LEMMA UsagesFacts ==
  ASSUME NEW u
  PROVE  /\ u \in Usages => /\ u.model \in Bytes \cup {Unknown} /\ u.input \in Nat
                            /\ u.output \in Nat /\ u.total \in Nat /\ u # NoUsage
                            /\ u = Counted(u.model, u.input, u.output, u.total)
         /\ \A model \in Bytes \cup {Unknown}, in, out, total \in Nat :
              Counted(model, in, out, total) \in Usages
<1>1. NoUsage \notin Usages
  BY AccountingStreamAssumption
<1>2. u \in Usages => /\ u.model \in Bytes \cup {Unknown} /\ u.input \in Nat
                      /\ u.output \in Nat /\ u.total \in Nat /\ u # NoUsage
  BY <1>1 DEF Usages
<1>3. u \in Usages => u = Counted(u.model, u.input, u.output, u.total)
  BY DEF Usages, Counted
<1>4. \A model \in Bytes \cup {Unknown}, in, out, total \in Nat :
        Counted(model, in, out, total) \in Usages
  BY DEF Usages, Counted
<1> QED BY <1>2, <1>3, <1>4

\* The parts of what is merged from observations at 1..n
LEMMA MergedFacts ==
  ASSUME NEW n \in Nat, NEW D \in SUBSET (1..n), NEW f \in [D -> UsageOptions], Seen(f) # {}
  PROVE  /\ Tops(Max(Inputs(f)), Inputs(f)) /\ Tops(Max(Outputs(f)), Outputs(f))
         /\ Tops(Max(Totals(f)), Totals(f))
         /\ Both(f) \in Nat /\ ModelIn(f) \in Bytes \cup {Unknown}
         /\ KnownIn(f) # {} => Min(KnownIn(f)) \in KnownIn(f) /\ \A y \in KnownIn(f) : Min(KnownIn(f)) <= y
         /\ Merged(f) = Counted(ModelIn(f), Max(Inputs(f)), Max(Outputs(f)),
                                Max(Totals(f) \cup {Both(f)}))
         /\ Max(Totals(f) \cup {Both(f)}) = Max({Max(Totals(f)), Both(f)})
         /\ Max({Max(Totals(f)), Both(f)}) \in Nat
         /\ Merged(f) \in Usages
<1> DEFINE S == Seen(f)
<1>1. S \in SUBSET (1..n) /\ S # {} /\ S \subseteq D /\ \A k \in S : f[k] \in Usages
  BY DEF Seen, UsageOptions
<1>2. \A k \in S : /\ f[k].model \in Bytes \cup {Unknown} /\ f[k].input \in Nat
                   /\ f[k].output \in Nat /\ f[k].total \in Nat
  BY <1>1, UsagesFacts
<1> HIDE DEF S
<1>3. Tops(Max(Inputs(f)), Inputs(f))
  <2> DEFINE g == [k \in S |-> f[k].input]
  <2>1. g \in [S -> Nat] /\ Inputs(f) = {g[k] : k \in S}
    BY <1>2 DEF Inputs, S
  <2> HIDE DEF g
  <2> QED BY <1>1, <2>1, MaxOfFamily DEF Tops
<1>4. Tops(Max(Outputs(f)), Outputs(f))
  <2> DEFINE g == [k \in S |-> f[k].output]
  <2>1. g \in [S -> Nat] /\ Outputs(f) = {g[k] : k \in S}
    BY <1>2 DEF Outputs, S
  <2> HIDE DEF g
  <2> QED BY <1>1, <2>1, MaxOfFamily DEF Tops
<1>5. Tops(Max(Totals(f)), Totals(f))
  <2> DEFINE g == [k \in S |-> f[k].total]
  <2>1. g \in [S -> Nat] /\ Totals(f) = {g[k] : k \in S}
    BY <1>2 DEF Totals, S
  <2> HIDE DEF g
  <2> QED BY <1>1, <2>1, MaxOfFamily DEF Tops
<1>6. Both(f) \in Nat
  BY <1>3, <1>4 DEF Both, Tops
<1>7. KnownIn(f) # {} => Min(KnownIn(f)) \in KnownIn(f) /\ \A y \in KnownIn(f) : Min(KnownIn(f)) <= y
  <2>1. KnownIn(f) \in SUBSET Nat
    BY <1>1 DEF KnownIn, S
  <2> QED BY <2>1, MinFacts
<1>8. ModelIn(f) \in Bytes \cup {Unknown}
  <2>1. \A k \in KnownIn(f) : k \in S
    BY DEF KnownIn, S
  <2> QED BY <1>2, <1>7, <2>1 DEF ModelIn
<1>9. Merged(f) = Counted(ModelIn(f), Max(Inputs(f)), Max(Outputs(f)), Max(Totals(f) \cup {Both(f)}))
  BY <1>1 DEF Merged, Counted, ModelIn, KnownIn, Inputs, Outputs, Totals, Both, Seen, S
<1>10. /\ Max(Totals(f) \cup {Both(f)}) = Max({Max(Totals(f)), Both(f)})
       /\ Max({Max(Totals(f)), Both(f)}) \in Nat
  BY <1>5, <1>6, MaxOfMore DEF Tops
<1>11. Merged(f) \in Usages
  BY <1>3, <1>4, <1>8, <1>9, <1>10, UsagesFacts DEF Tops
<1> QED BY <1>3, <1>4, <1>5, <1>6, <1>7, <1>8, <1>9, <1>10, <1>11

\* With nothing seen, nothing is merged.
LEMMA MergedNone ==
  ASSUME NEW f, Seen(f) = {}
  PROVE  Merged(f) = NoUsage
BY DEF Merged, Seen

\* One more observation, after all the others
Extended(n, D, f, e, x, g) ==
  /\ D \in SUBSET (1..n) /\ f \in [D -> UsageOptions] /\ e \in Nat /\ e > n /\ x \in UsageOptions
  /\ g \in [D \cup {e} -> UsageOptions] /\ g[e] = x /\ \A k \in D : g[k] = f[k]

\* is merged as accumulate_usage does.
LEMMA MergeStep ==
  ASSUME NEW n \in Nat, NEW D, NEW f, NEW e, NEW x, NEW g, Extended(n, D, f, e, x, g)
  PROVE  Merged(g) = IF x = NoUsage THEN Merged(f) ELSE Accumulate(Merged(f), x)
<1> USE DEF Extended
<1>0. e \notin D /\ DOMAIN g = D \cup {e} /\ DOMAIN f = D /\ D \cup {e} \in SUBSET (1..e)
  OBVIOUS
<1>1. CASE x = NoUsage
  <2>1. Seen(g) = Seen(f) /\ \A k \in Seen(f) : g[k] = f[k]
    BY <1>0, <1>1 DEF Seen
  <2>2. CASE Seen(f) = {}
    BY <1>1, <2>1, <2>2, MergedNone
  <2>3. CASE Seen(f) # {}
    <3>1. /\ Inputs(g) = Inputs(f) /\ Outputs(g) = Outputs(f) /\ Totals(g) = Totals(f)
          /\ KnownIn(g) = KnownIn(f)
      BY <2>1 DEF Inputs, Outputs, Totals, KnownIn
    <3>2. Both(g) = Both(f)
      BY <2>1, <3>1 DEF Both
    <3>3. ModelIn(g) = ModelIn(f)
      <4>1. KnownIn(f) # {} => Min(KnownIn(f)) \in Seen(f)
        <5>1. KnownIn(f) # {} => Min(KnownIn(f)) \in KnownIn(f)
          BY <2>3, MergedFacts
        <5> QED BY <5>1 DEF KnownIn
      <4> QED BY <2>1, <3>1, <4>1 DEF ModelIn
    <3>4. Merged(f) = Counted(ModelIn(f), Max(Inputs(f)), Max(Outputs(f)), Max(Totals(f) \cup {Both(f)}))
      BY <2>3, MergedFacts
    <3>5. Merged(g) = Counted(ModelIn(g), Max(Inputs(g)), Max(Outputs(g)), Max(Totals(g) \cup {Both(g)}))
      BY <1>0, <2>1, <2>3, MergedFacts
    <3> QED BY <1>1, <3>1, <3>2, <3>3, <3>4, <3>5
  <2> QED BY <2>2, <2>3
<1>2. CASE x # NoUsage
  <2>1. /\ Seen(g) = Seen(f) \cup {e} /\ e \notin Seen(f) /\ \A k \in Seen(f) : g[k] = f[k]
        /\ Seen(g) # {}
    BY <1>0, <1>2 DEF Seen
  <2>2. /\ Inputs(g) = Inputs(f) \cup {x.input} /\ Outputs(g) = Outputs(f) \cup {x.output}
        /\ Totals(g) = Totals(f) \cup {x.total}
        /\ KnownIn(g) = KnownIn(f) \cup (IF x.model # Unknown THEN {e} ELSE {})
    BY <2>1 DEF Inputs, Outputs, Totals, KnownIn
  <2>3. /\ x \in Usages /\ x.model \in Bytes \cup {Unknown} /\ x.input \in Nat /\ x.output \in Nat
        /\ x.total \in Nat /\ x = Counted(x.model, x.input, x.output, x.total)
    BY <1>2, UsagesFacts DEF UsageOptions
  <2>4. /\ Merged(g) = Counted(ModelIn(g), Max(Inputs(g)), Max(Outputs(g)), Max({Max(Totals(g)), Both(g)}))
        /\ Both(g) \in Nat
        /\ KnownIn(g) # {} => Min(KnownIn(g)) \in KnownIn(g) /\ \A y \in KnownIn(g) : Min(KnownIn(g)) <= y
    BY <1>0, <2>1, MergedFacts
  <2>5. CASE Seen(f) = {}
    <3>1. /\ Inputs(f) = {} /\ Outputs(f) = {} /\ Totals(f) = {} /\ KnownIn(f) = {}
      BY <2>5 DEF Inputs, Outputs, Totals, KnownIn
    <3>2. ASSUME NEW y \in Nat PROVE Max({} \cup {y}) = y
      <4>1. {} \cup {y} = {y, y}
        OBVIOUS
      <4> QED BY <4>1, MaxOfTwo
    <3>3. Max(Inputs(g)) = x.input /\ Max(Outputs(g)) = x.output /\ Max(Totals(g)) = x.total
      BY <2>2, <2>3, <3>1, <3>2
    <3>4. Both(g) = 0
      BY <2>1, <2>5 DEF Both
    <3>5. ModelIn(g) = x.model
      <4>1. CASE x.model = Unknown
        BY <2>2, <3>1, <4>1 DEF ModelIn
      <4>2. CASE x.model # Unknown
        <5>1. KnownIn(g) = {e}
          BY <2>2, <3>1, <4>2
        <5>2. Min(KnownIn(g)) = e
          BY <2>4, <5>1
        <5> QED BY <5>1, <5>2 DEF ModelIn
      <4> QED BY <4>1, <4>2
    <3>6. Max({x.total, 0}) = x.total
      <4> DEFINE y == x.total
                 zero == 0
      <4>1. y \in Nat /\ zero \in Nat /\ y >= zero
        BY <2>3
      <4> HIDE DEF y, zero
      <4>2. Max({y, zero}) = y
        BY <4>1, MaxOfTwo
      <4> QED BY <4>2 DEF y, zero
    <3>7. Merged(g) = x
      BY <2>3, <2>4, <3>3, <3>4, <3>5, <3>6
    <3>8. Merged(f) = NoUsage
      BY <2>5, MergedNone
    <3> QED BY <1>2, <3>7, <3>8 DEF Accumulate
  <2>6. CASE Seen(f) # {}
    <3> DEFINE c == Merged(f)
               i == Max(Inputs(f))
               o == Max(Outputs(f))
               t == Max(Totals(f))
               b == Both(f)
               in == Max({i, x.input})
               out == Max({o, x.output})
    <3>1. /\ Tops(i, Inputs(f)) /\ Tops(o, Outputs(f)) /\ Tops(t, Totals(f)) /\ b \in Nat
          /\ c = Counted(ModelIn(f), i, o, Max({t, b})) /\ c \in Usages
          /\ KnownIn(f) # {} => Min(KnownIn(f)) \in KnownIn(f) /\ \A y \in KnownIn(f) : Min(KnownIn(f)) <= y
      BY <2>6, MergedFacts
    <3>2. /\ c.model = ModelIn(f) /\ c.input = i /\ c.output = o /\ c.total = Max({t, b})
          /\ c # NoUsage
      BY <3>1, CountedFields, UsagesFacts
    <3>t. /\ Max(Inputs(f) \cup {x.input}) = in /\ in \in Nat
          /\ Max(Outputs(f) \cup {x.output}) = out /\ out \in Nat
          /\ Max(Totals(f) \cup {x.total}) = Max({t, x.total}) /\ Max({t, x.total}) \in Nat
      <4> DEFINE xi == x.input
                 xo == x.output
                 xt == x.total
      <4>1. xi \in Nat /\ xo \in Nat /\ xt \in Nat
        BY <2>3
      <4>2. Tops(i, Inputs(f)) /\ Tops(o, Outputs(f)) /\ Tops(t, Totals(f))
        BY <3>1
      <4> HIDE DEF xi, xo, xt, i, o, t, Extended
      <4>3. Max(Inputs(f) \cup {xi}) = Max({i, xi}) /\ Max({i, xi}) \in Nat
        BY <4>1, <4>2, TopsMore
      <4>4. Max(Outputs(f) \cup {xo}) = Max({o, xo}) /\ Max({o, xo}) \in Nat
        BY <4>1, <4>2, TopsMore
      <4>5. Max(Totals(f) \cup {xt}) = Max({t, xt}) /\ Max({t, xt}) \in Nat
        BY <4>1, <4>2, TopsMore
      <4> QED BY <4>3, <4>4, <4>5 DEF xi, xo, xt
    <3>3. Max(Inputs(g)) = in /\ in \in Nat /\ Max(Outputs(g)) = out /\ out \in Nat
      BY <2>2, <3>t
    <3>4. Max(Totals(g)) = Max({t, x.total}) /\ Max({t, x.total}) \in Nat
      BY <2>2, <3>t
    <3>5. Both(g) = in + out
      <4>1. ~ \E k \in Seen(g) : Seen(g) = {k}
        BY <2>1, <2>6
      <4> QED BY <3>3, <4>1 DEF Both
    <3>6. b <= in + out
      <4>1. b = 0 \/ b = i + o
        BY DEF Both
      <4>2. i \in Nat /\ o \in Nat
        BY <3>1 DEF Tops
      <4> HIDE DEF b, i, o
      <4>3. i <= in /\ o <= out
        BY <2>3, <4>2, MaxOfTwo
      <4> HIDE DEF in, out
      <4> QED BY <3>3, <4>1, <4>2, <4>3
    <3>7. Max({Max(Totals(g)), Both(g)}) = Max({c.total, x.total, in + out})
      <4> DEFINE y == x.total
                 s == in + out
                 tb == Max({t, b})
                 ty == Max({t, y})
                 T == {tb, y, s}
      <4>1. t \in Nat /\ y \in Nat /\ s \in Nat /\ b \in Nat /\ b <= s
        <5>1. t \in Nat /\ b \in Nat
          BY <3>1 DEF Tops
        <5> QED BY <2>3, <3>3, <3>6, <5>1
      <4> HIDE DEF t, y, s, b
      <4>2. /\ tb = (IF t >= b THEN t ELSE b) /\ ty = (IF t >= y THEN t ELSE y)
        BY <4>1, MaxOfTwo
      <4>3. tb \in Nat /\ ty \in Nat
        BY <4>1, <4>2
      <4> HIDE DEF tb, ty
      <4>4. Max({ty, s}) = IF ty >= s THEN ty ELSE s
        BY <4>1, <4>3, MaxOfTwo
      <4> DEFINE m == IF ty >= s THEN ty ELSE s
      <4>5. T \in SUBSET Nat /\ m \in T /\ \A z \in T : m >= z
        BY <4>1, <4>2, <4>3
      <4> HIDE DEF m, T
      <4>6. Max(T) = m
        BY <4>5, MaxIs
      <4>7. Max({ty, s}) = Max({tb, y, s})
        BY <4>4, <4>6 DEF m, T
      <4> QED BY <3>2, <3>4, <3>5, <4>7 DEF ty, tb, y, s
    <3>8. ModelIn(g) = IF c.model = Unknown THEN x.model ELSE c.model
      <4>1. CASE KnownIn(f) = {}
        <5>1. c.model = Unknown
          BY <3>2, <4>1 DEF ModelIn
        <5>2. CASE x.model = Unknown
          BY <2>2, <4>1, <5>1, <5>2 DEF ModelIn
        <5>3. CASE x.model # Unknown
          <6>1. KnownIn(g) = {e}
            BY <2>2, <4>1, <5>3
          <6>2. Min(KnownIn(g)) = e
            BY <2>4, <6>1
          <6> QED BY <5>1, <6>1, <6>2 DEF ModelIn
        <5> QED BY <5>2, <5>3
      <4>2. CASE KnownIn(f) # {}
        <5> DEFINE p == Min(KnownIn(f))
                   q == Min(KnownIn(g))
        <5>1. p \in KnownIn(f) /\ (\A y \in KnownIn(f) : p <= y) /\ KnownIn(g) # {}
          BY <2>2, <3>1, <4>2
        <5>2. q \in KnownIn(g) /\ \A y \in KnownIn(g) : q <= y
          BY <2>4, <5>1
        <5>3. KnownIn(f) \subseteq KnownIn(g) /\ KnownIn(g) \subseteq KnownIn(f) \cup {e}
          BY <2>2
        <5>4. \A y \in KnownIn(f) : y \in 1..n /\ y \in Seen(f) /\ f[y].model # Unknown
          BY <1>0 DEF KnownIn, Seen
        <5> HIDE DEF p, q
        <5>5. q <= p /\ p <= n /\ p \in Nat
          BY <5>1, <5>2, <5>3, <5>4
        <5>6. q # e
          BY <5>5
        <5>7. q \in KnownIn(f) /\ p <= q /\ q \in Nat
          BY <5>1, <5>2, <5>3, <5>4, <5>6
        <5>8. p = q
          BY <5>5, <5>7
        <5>9. c.model = f[p].model /\ ModelIn(g) = g[q].model
          BY <3>2, <4>2, <5>1 DEF ModelIn, p, q
        <5> QED BY <2>1, <5>1, <5>4, <5>8, <5>9
      <4> QED BY <4>1, <4>2
    <3>9. Accumulate(c, x)
            = Counted(IF c.model = Unknown THEN x.model ELSE c.model, in, out,
                      Max({c.total, x.total, in + out}))
      BY <3>2 DEF Accumulate, Counted
    <3>10. Merged(g) = Accumulate(c, x)
      <4> HIDE DEF c, in, out
      <4> QED BY <2>4, <3>3, <3>7, <3>8, <3>9
    <3> QED BY <1>2, <3>10
  <2> QED BY <2>5, <2>6
<1> QED BY <1>1, <1>2

-----------------------------------------------------------------------------
(* Lines of a byte sequence.                                               *)

\* A nonempty set of numbers with a bound has a maximum.
LEMMA MaxOfBounded ==
  ASSUME NEW n \in Nat, NEW T \in SUBSET (0..n), T # {}
  PROVE  Tops(Max(T), T)
<1> DEFINE U == {n - x : x \in T}
<1>0. \A x \in T : n - x \in Nat
  OBVIOUS
<1>1. U \in SUBSET Nat /\ U # {}
  BY <1>0
<1>2. PICK u \in U : \A y \in U : u <= y
  <2> HIDE DEF U
  <2> QED BY <1>1, LeastNatural
<1>3. PICK x \in T : u = n - x
  BY <1>2
<1>4. \A y \in T : n - x <= n - y
  BY <1>2, <1>3
<1>5. T \in SUBSET Nat /\ \A y \in T : x >= y
  BY <1>4
<1>6. Max(T) = x
  BY <1>5, MaxIs
<1> QED BY <1>5, <1>6 DEF Tops

\* l is where the last line end before m is, or 0.
IsLast(s, m, l) ==
  /\ l \in Nat /\ (l = 0 \/ (l \in Ends(s) /\ l < m))
  /\ \A e \in Ends(s) : e < m => e <= l

\* LastEnd is that
LEMMA LastEndFacts ==
  ASSUME NEW s \in Seq(Bytes), NEW m \in Nat
  PROVE  IsLast(s, m, LastEnd(s, m)) /\ LastEnd(s, m) \in 0..Len(s)
<1> DEFINE T == {0} \cup {e \in Ends(s) : e < m}
           n == Len(s)
<1>1. n \in Nat /\ T \in SUBSET (0..n) /\ T # {}
  BY DEF Ends
<1>2. LastEnd(s, m) = Max(T)
  BY DEF LastEnd
<1>3. Tops(Max(T), T)
  <2> HIDE DEF T, n
  <2> QED BY <1>1, MaxOfBounded
<1>4. Max(T) \in T /\ Max(T) \in 0..n /\ \A e \in T : e <= Max(T)
  <2> HIDE DEF T
  <2> QED BY <1>1, <1>3 DEF Tops
<1> DEFINE l == Max(T)
<1>5. l \in T /\ l \in 0..n /\ \A e \in T : e <= l
  BY <1>4
<1>6. l = LastEnd(s, m) /\ l \in 0..Len(s) /\ l \in Nat
  BY <1>2, <1>5
<1> HIDE DEF l
<1>7. l = 0 \/ (l \in Ends(s) /\ l < m)
  BY <1>5
<1>8. \A e \in Ends(s) : e < m => e <= l
  BY <1>5
<1>9. IsLast(s, m, l)
  BY <1>6, <1>7, <1>8 DEF IsLast
<1> QED BY <1>6, <1>9

\* and nothing else is.
LEMMA LastEndIs ==
  ASSUME NEW s \in Seq(Bytes), NEW m \in Nat, NEW l, IsLast(s, m, l)
  PROVE  LastEnd(s, m) = l
<1> DEFINE k == LastEnd(s, m)
<1>1. IsLast(s, m, k)
  BY LastEndFacts
<1> HIDE DEF k
<1>2. k <= l /\ l <= k /\ k \in Nat /\ l \in Nat
  BY <1>1 DEF IsLast, Ends
<1>3. k = l
  BY <1>2
<1> QED BY <1>3 DEF k

\* A slice of a sequence
LEMMA SliceFacts ==
  ASSUME NEW s \in Seq(Bytes), NEW m \in Nat, NEW n \in Nat, m <= n, n <= Len(s)
  PROVE  /\ SubSeq(s, m + 1, n) \in Seq(Bytes) /\ Len(SubSeq(s, m + 1, n)) = n - m
         /\ \A i \in 1..(n - m) : SubSeq(s, m + 1, n)[i] = s[m + i]
<1> DEFINE a == m + 1
<1>1. a \in Int /\ n \in Int /\ \A i \in a..n : s[i] \in Bytes
  OBVIOUS
<1>2. n - a + 1 = n - m /\ (a <= n \/ n - m = 0) /\ \A i \in 1..(n - m) : a + i - 1 = m + i
  OBVIOUS
<1> HIDE DEF a
<1>3. /\ SubSeq(s, a, n) \in Seq(Bytes)
      /\ Len(SubSeq(s, a, n)) = IF a <= n THEN n - a + 1 ELSE 0
      /\ \A i \in 1..(n - a + 1) : SubSeq(s, a, n)[i] = s[a + i - 1]
  BY <1>1, SubSeqProperties
<1>4. Len(SubSeq(s, a, n)) = n - m
  BY <1>1, <1>2, <1>3
<1>5. \A i \in 1..(n - m) : SubSeq(s, a, n)[i] = s[m + i]
  BY <1>2, <1>3
<1> QED BY <1>3, <1>4, <1>5 DEF a

\* p is the slice of s after m, up to n.
IsSlice(s, m, n, p) ==
  /\ m \in Nat /\ n \in Nat /\ m <= n /\ n <= Len(s)
  /\ p \in Seq(Bytes) /\ Len(p) = n - m /\ \A i \in 1..(n - m) : p[i] = s[m + i]

\* Slices with the same bytes are the same.
LEMMA SliceIs ==
  ASSUME NEW s \in Seq(Bytes), NEW m, NEW n, NEW p, IsSlice(s, m, n, p)
  PROVE  SubSeq(s, m + 1, n) = p
<1>1. /\ SubSeq(s, m + 1, n) \in Seq(Bytes) /\ Len(SubSeq(s, m + 1, n)) = n - m
      /\ \A i \in 1..(n - m) : SubSeq(s, m + 1, n)[i] = s[m + i]
  BY SliceFacts DEF IsSlice
<1> DEFINE q == SubSeq(s, m + 1, n)
<1>2. q \in Seq(Bytes) /\ p \in Seq(Bytes) /\ Len(p) = Len(q) /\ \A i \in 1..Len(p) : p[i] = q[i]
  BY <1>1 DEF IsSlice
<1> HIDE DEF q
<1>3. p = q
  BY <1>2, SeqEqual
<1> QED BY <1>3 DEF q

\* A line, and what follows the last one, are slices.
LEMMA LineFacts ==
  ASSUME NEW s \in Seq(Bytes)
  PROVE  /\ \A e \in 1..Len(s) : IsSlice(s, LastEnd(s, e), e, Line(s, e))
         /\ IsSlice(s, LastEnd(s, Len(s) + 1), Len(s), Rest(s))
<1>1. ASSUME NEW e \in 1..Len(s) PROVE IsSlice(s, LastEnd(s, e), e, Line(s, e))
  <2> DEFINE l == LastEnd(s, e)
  <2>1. l \in Nat /\ e \in Nat /\ l <= e /\ e <= Len(s)
    BY LastEndFacts DEF IsLast
  <2>2. Line(s, e) = SubSeq(s, l + 1, e)
    BY DEF Line
  <2> HIDE DEF l
  <2>3. IsSlice(s, l, e, Line(s, e))
    BY <2>1, <2>2, SliceFacts DEF IsSlice
  <2> QED BY <2>3 DEF l
<1>2. IsSlice(s, LastEnd(s, Len(s) + 1), Len(s), Rest(s))
  <2> DEFINE l == LastEnd(s, Len(s) + 1)
             n == Len(s)
  <2>1. l \in Nat /\ l <= n /\ n \in Nat /\ n <= Len(s)
    BY LastEndFacts DEF IsLast
  <2>2. Rest(s) = SubSeq(s, l + 1, n)
    BY DEF Rest
  <2> HIDE DEF l, n
  <2>3. IsSlice(s, l, n, Rest(s))
    BY <2>1, <2>2, SliceFacts DEF IsSlice
  <2> QED BY <2>3 DEF l, n
<1> QED BY <1>1, <1>2

\* What a line that fits says is a usage or none.
LEMMA ParseFacts ==
  ASSUME NEW line \in Seq(Bytes), Fits(line)
  PROVE  Parse(line) \in UsageOptions
<1> DEFINE n == Len(line)
<1>1. n \in 0..MaxLine /\ line \in [1..n -> Bytes]
  BY AccountingStreamAssumption DEF Fits
<1> HIDE DEF n
<1> QED BY <1>1, AccountingStreamAssumption DEF UsageOptions

\* r ends with t, which starts a line.
Aligned(r, off, t) ==
  /\ r \in Seq(Bytes) /\ t \in Seq(Bytes) /\ off \in Nat /\ Len(r) = off + Len(t)
  /\ \A i \in 1..Len(t) : r[off + i] = t[i]
  /\ off = 0 \/ off \in Ends(r)

\* So the line ends after off are those of t,
LEMMA AlignedEnds ==
  ASSUME NEW r, NEW off, NEW t, Aligned(r, off, t)
  PROVE  \A i \in 1..Len(t) : off + i \in 1..Len(r) /\ (off + i \in Ends(r) <=> i \in Ends(t))
BY DEF Aligned, Ends

\* and each line of t is one of r,
LEMMA AlignedLast ==
  ASSUME NEW r, NEW off, NEW t, Aligned(r, off, t), NEW e \in 1..(Len(t) + 1)
  PROVE  LastEnd(r, off + e) = off + LastEnd(t, e)
<1> DEFINE l == LastEnd(t, e)
<1>1. /\ r \in Seq(Bytes) /\ t \in Seq(Bytes) /\ off \in Nat /\ e \in Nat /\ off + e \in Nat
      /\ Len(r) = off + Len(t) /\ Len(t) \in Nat
  BY DEF Aligned
<1>2. IsLast(t, e, l)
  BY <1>1, LastEndFacts
<1> HIDE DEF l
<1>3. l \in Nat /\ off + l \in Nat /\ (l # 0 => l \in Ends(t) /\ l \in 1..Len(t) /\ l < e)
  BY <1>1, <1>2 DEF IsLast, Ends
<1>4. off + l = 0 \/ (off + l \in Ends(r) /\ off + l < off + e)
  <2>1. CASE l = 0
    BY <1>1, <1>3, <2>1 DEF Aligned
  <2>2. CASE l # 0
    BY <1>1, <1>3, <2>2, AlignedEnds
  <2> QED BY <2>1, <2>2
<1>5. ASSUME NEW k \in Ends(r), k < off + e PROVE k <= off + l
  <2> SUFFICES ASSUME k > off PROVE k <= off + l
    BY <1>1, <1>3 DEF Ends
  <2> DEFINE i == k - off
  <2>1. k \in Nat /\ k <= Len(r)
    BY <1>1 DEF Ends
  <2>2. i \in 1..Len(t) /\ off + i = k /\ i < e
    BY <1>1, <1>5, <2>1
  <2> HIDE DEF i
  <2>3. i \in Ends(t)
    BY <2>2, AlignedEnds
  <2>4. i <= l
    BY <1>2, <2>2, <2>3 DEF IsLast
  <2> QED BY <1>1, <1>3, <2>2, <2>4
<1>6. IsLast(r, off + e, off + l)
  BY <1>3, <1>4, <1>5 DEF IsLast
<1>7. LastEnd(r, off + e) = off + l
  BY <1>1, <1>6, LastEndIs
<1> QED BY <1>7 DEF l

\* A slice of t is a slice of r.
LEMMA AlignedSlice ==
  ASSUME NEW r, NEW off, NEW t, Aligned(r, off, t), NEW m, NEW n, NEW p, IsSlice(t, m, n, p)
  PROVE  IsSlice(r, off + m, off + n, p)
<1>1. /\ r \in Seq(Bytes) /\ t \in Seq(Bytes) /\ off \in Nat
      /\ Len(r) = off + Len(t) /\ Len(t) \in Nat
  BY DEF Aligned
<1>2. /\ m \in Nat /\ n \in Nat /\ m <= n /\ n <= Len(t)
      /\ p \in Seq(Bytes) /\ Len(p) = n - m
  BY DEF IsSlice
<1>3. ASSUME NEW i \in 1..((off + n) - (off + m)) PROVE p[i] = r[(off + m) + i]
  <2> DEFINE k == m + i
  <2>1. i \in 1..(n - m) /\ k \in 1..Len(t) /\ (off + m) + i = off + k
    BY <1>1, <1>2
  <2>2. p[i] = t[k]
    BY <2>1 DEF IsSlice
  <2> HIDE DEF k
  <2>3. r[off + k] = t[k]
    BY <2>1 DEF Aligned
  <2> QED BY <2>1, <2>2, <2>3
<1>4. off + m \in Nat /\ off + n \in Nat /\ off + m <= off + n /\ off + n <= Len(r)
      /\ Len(p) = (off + n) - (off + m)
  BY <1>1, <1>2
<1> QED BY <1>2, <1>3, <1>4 DEF IsSlice

\* The lines of t, and what follows the last one, are those of r.
LEMMA AlignedLines ==
  ASSUME NEW r, NEW off, NEW t, Aligned(r, off, t)
  PROVE  /\ \A e \in 1..Len(t) : Line(r, off + e) = Line(t, e)
         /\ Rest(r) = Rest(t)
<1>1. /\ r \in Seq(Bytes) /\ t \in Seq(Bytes) /\ off \in Nat
      /\ Len(r) = off + Len(t) /\ Len(t) \in Nat
  BY DEF Aligned
<1>2. ASSUME NEW e \in 1..Len(t) PROVE Line(r, off + e) = Line(t, e)
  <2> DEFINE l == LastEnd(t, e)
             p == Line(t, e)
  <2>1. IsSlice(t, l, e, p)
    BY <1>1, LineFacts
  <2>2. LastEnd(r, off + e) = off + l
    BY <1>1, AlignedLast
  <2> HIDE DEF l, p
  <2>3. IsSlice(r, off + l, off + e, p)
    BY <2>1, AlignedSlice
  <2>4. SubSeq(r, off + l + 1, off + e) = p
    BY <1>1, <2>3, SliceIs
  <2> QED BY <2>2, <2>4 DEF Line, p
<1>3. Rest(r) = Rest(t)
  <2> DEFINE n == Len(t)
             e == n + 1
             l == LastEnd(t, e)
             p == Rest(t)
  <2>1. IsSlice(t, l, n, p)
    BY <1>1, LineFacts
  <2>2. LastEnd(r, off + e) = off + l
    <3>1. e \in 1..(Len(t) + 1)
      BY <1>1
    <3> HIDE DEF e
    <3> QED BY <3>1, AlignedLast
  <2>3. off + e = Len(r) + 1 /\ off + n = Len(r)
    BY <1>1
  <2> HIDE DEF l, p, n, e
  <2>4. IsSlice(r, off + l, off + n, p)
    BY <2>1, AlignedSlice
  <2>5. SubSeq(r, off + l + 1, off + n) = p
    BY <1>1, <2>4, SliceIs
  <2> QED BY <2>2, <2>3, <2>5 DEF Rest, p
<1> QED BY <1>2, <1>3

\* r is the beginning of q.
Begins(r, q) ==
  /\ r \in Seq(Bytes) /\ q \in Seq(Bytes) /\ Len(r) <= Len(q)
  /\ \A i \in 1..Len(r) : q[i] = r[i]

\* The lines that end in r are the same in q.
LEMMA BeginsLines ==
  ASSUME NEW r, NEW q, Begins(r, q)
  PROVE  /\ \A e \in 1..(Len(r) + 1) : LastEnd(q, e) = LastEnd(r, e)
         /\ \A e \in 1..Len(r) : Line(q, e) = Line(r, e) /\ (e \in Ends(q) <=> e \in Ends(r))
<1>1. /\ r \in Seq(Bytes) /\ q \in Seq(Bytes) /\ Len(r) <= Len(q) /\ Len(r) \in Nat /\ Len(q) \in Nat
      /\ \A i \in 1..Len(r) : q[i] = r[i] /\ i \in 1..Len(q)
  BY DEF Begins
<1>2. \A e \in 1..Len(r) : e \in Ends(q) <=> e \in Ends(r)
  BY <1>1 DEF Ends
<1>3. ASSUME NEW e \in 1..(Len(r) + 1) PROVE LastEnd(q, e) = LastEnd(r, e)
  <2> DEFINE l == LastEnd(r, e)
  <2>1. e \in Nat
    BY <1>1
  <2>2. IsLast(r, e, l)
    BY <1>1, <2>1, LastEndFacts
  <2> HIDE DEF l
  <2>3. l \in Nat /\ (l # 0 => l \in Ends(r) /\ l < e /\ l \in 1..Len(r))
    BY <2>2 DEF IsLast, Ends
  <2>4. \A k \in Ends(q) : k < e => k \in 1..Len(r)
    BY <1>1, <2>1 DEF Ends
  <2>5. \A k \in Ends(q) : k < e => k <= l
    BY <1>2, <2>2, <2>4 DEF IsLast
  <2>6. IsLast(q, e, l)
    BY <1>2, <2>3, <2>5 DEF IsLast
  <2>7. LastEnd(q, e) = l
    BY <1>1, <2>1, <2>6, LastEndIs
  <2> QED BY <2>7 DEF l
<1>4. ASSUME NEW e \in 1..Len(r) PROVE Line(q, e) = Line(r, e)
  <2> DEFINE l == LastEnd(r, e)
             p == Line(r, e)
  <2>1. IsSlice(r, l, e, p)
    BY <1>1, LineFacts
  <2>2. LastEnd(q, e) = l
    BY <1>1, <1>3
  <2> HIDE DEF l, p
  <2>3. \A i \in 1..(e - l) : l + i \in 1..Len(r)
    BY <1>1, <2>1 DEF IsSlice
  <2>4. e <= Len(q)
    BY <1>1
  <2>5. IsSlice(q, l, e, p)
    BY <1>1, <2>1, <2>3, <2>4 DEF IsSlice
  <2>6. SubSeq(q, l + 1, e) = p
    BY <1>1, <2>5, SliceIs
  <2> QED BY <2>2, <2>6 DEF Line, p
<1> QED BY <1>2, <1>3, <1>4

\* The line ends up to k
EndsTo(s, k) == {e \in Ends(s) : e <= k}

\* What the line that ends at e says
SaidAt(s, e) == IF Fits(Line(s, e)) THEN Parse(Line(s, e)) ELSE NoUsage

\* What is said at some positions is a usage or none,
LEMMA SaidFacts ==
  ASSUME NEW s \in Seq(Bytes), NEW D \in SUBSET (1..Len(s))
  PROVE  /\ Said(s, D) \in [D -> UsageOptions]
         /\ \A e \in D : Said(s, D)[e] = SaidAt(s, e) /\ SaidAt(s, e) \in UsageOptions
<1>1. ASSUME NEW e \in D PROVE SaidAt(s, e) \in UsageOptions
  <2>1. Line(s, e) \in Seq(Bytes)
    BY LineFacts DEF IsSlice
  <2>2. NoUsage \in UsageOptions
    BY DEF UsageOptions
  <2> QED BY <2>1, <2>2, ParseFacts DEF SaidAt
<1>2. Said(s, D) = [e \in D |-> SaidAt(s, e)]
  BY DEF Said, SaidAt
<1> QED BY <1>1, <1>2

\* and so is what it comes to.
LEMMA MergedType ==
  ASSUME NEW s \in Seq(Bytes), NEW D \in SUBSET (1..Len(s))
  PROVE  Merged(Said(s, D)) \in UsageOptions
<1> DEFINE f == Said(s, D)
           n == Len(s)
<1>1. n \in Nat /\ D \in SUBSET (1..n) /\ f \in [D -> UsageOptions]
  BY SaidFacts
<1> HIDE DEF f, n
<1>2. CASE Seen(f) = {}
  BY <1>2, MergedNone DEF UsageOptions, f
<1>3. CASE Seen(f) # {}
  <2>1. Merged(f) \in Usages
    BY <1>1, <1>3, MergedFacts
  <2> QED BY <2>1 DEF UsageOptions, f
<1> QED BY <1>2, <1>3

\* A line after all the others is added as the on_line callback does.
LEMMA SaidMore ==
  ASSUME NEW s \in Seq(Bytes), NEW e \in 1..Len(s), NEW D \in SUBSET (1..(e - 1))
  PROVE  Merged(Said(s, D \cup {e}))
           = IF Fits(Line(s, e)) THEN Observe(Merged(Said(s, D)), Line(s, e)) ELSE Merged(Said(s, D))
<1> DEFINE n == e - 1
           E == D \cup {e}
           f == Said(s, D)
           g == Said(s, E)
           x == SaidAt(s, e)
<1>1. n \in Nat /\ e > n /\ e \in Nat /\ D \in SUBSET (1..Len(s)) /\ E \in SUBSET (1..Len(s)) /\ e \in E
  OBVIOUS
<1>2. /\ f \in [D -> UsageOptions] /\ g \in [E -> UsageOptions]
      /\ \A k \in D : f[k] = SaidAt(s, k)
      /\ \A k \in E : g[k] = SaidAt(s, k) /\ SaidAt(s, k) \in UsageOptions
  <2> HIDE DEF E
  <2> QED BY <1>1, SaidFacts
<1>3. Extended(n, D, f, e, x, g)
  <2> HIDE DEF f, g, x
  <2> QED BY <1>1, <1>2 DEF Extended, x
<1>4. Merged(g) = IF x = NoUsage THEN Merged(f) ELSE Accumulate(Merged(f), x)
  <2> HIDE DEF f, g, x, n
  <2> QED BY <1>1, <1>3, MergeStep
<1> QED BY <1>4 DEF SaidAt, Observe

\* One byte further
LEMMA SaidStep ==
  ASSUME NEW s \in Seq(Bytes), NEW k \in Nat, k + 1 <= Len(s)
  PROVE  Merged(Said(s, EndsTo(s, k + 1)))
           = IF s[k + 1] = NL /\ Fits(Line(s, k + 1))
             THEN Observe(Merged(Said(s, EndsTo(s, k))), Line(s, k + 1))
             ELSE Merged(Said(s, EndsTo(s, k)))
<1> DEFINE e == k + 1
           D == EndsTo(s, k)
<1>1. e \in 1..Len(s) /\ D \in SUBSET (1..(e - 1))
  BY DEF EndsTo, Ends
<1>2. CASE s[e] = NL
  <2>1. EndsTo(s, e) = D \cup {e}
    BY <1>1, <1>2 DEF EndsTo, Ends
  <2> HIDE DEF e, D
  <2>2. Merged(Said(s, D \cup {e}))
          = IF Fits(Line(s, e)) THEN Observe(Merged(Said(s, D)), Line(s, e)) ELSE Merged(Said(s, D))
    BY <1>1, SaidMore
  <2> QED BY <1>2, <2>1, <2>2 DEF e, D
<1>3. CASE s[e] # NL
  <2>1. EndsTo(s, e) = D
    BY <1>1, <1>3 DEF EndsTo, Ends
  <2> QED BY <1>3, <2>1
<1> QED BY <1>2, <1>3

\* The scan of t, from what the lines before it said, comes to what all the
\* lines of r say.
LEMMA ScanIsMerged ==
  ASSUME NEW r, NEW off, NEW t, Aligned(r, off, t)
  PROVE  ScanLines(Merged(Said(r, EndsTo(r, off))), t) = Merged(Said(r, Ends(r)))
<1> DEFINE n == Len(t)
           u == Merged(Said(r, EndsTo(r, off)))
           f == [i \in 0..n |-> Merged(Said(r, EndsTo(r, off + i)))]
           Step(h, i) == IF i = 0 THEN u
                         ELSE IF t[i] = NL /\ Fits(Line(t, i)) THEN Observe(h[i - 1], Line(t, i))
                         ELSE h[i - 1]
           Scans(h) == h = [i \in 0..n |-> Step(h, i)]
           at == CHOOSE h : Scans(h)
<1>1. /\ r \in Seq(Bytes) /\ t \in Seq(Bytes) /\ off \in Nat
      /\ Len(r) = off + n /\ n \in Nat
  BY DEF Aligned
<1>2. ASSUME NEW i \in 0..n PROVE f[i] = Step(f, i)
  <2>1. CASE i = 0
    <3>1. off + i = off
      BY <1>1, <2>1
    <3> QED BY <2>1, <3>1
  <2>2. CASE i # 0
    <3> DEFINE k == off + (i - 1)
    <3>1. k \in Nat /\ k + 1 <= Len(r) /\ k + 1 = off + i /\ i - 1 \in 0..n /\ i \in 1..n
      BY <1>1, <2>2
    <3>2. f[i - 1] = Merged(Said(r, EndsTo(r, k))) /\ f[i] = Merged(Said(r, EndsTo(r, k + 1)))
      BY <3>1
    <3>3. r[k + 1] = t[i] /\ Line(r, k + 1) = Line(t, i)
      <4> HIDE DEF f, k, Step, Scans, at, u
      <4>1. r[off + i] = t[i]
        BY <3>1 DEF Aligned
      <4>2. Line(r, off + i) = Line(t, i)
        BY <3>1, AlignedLines
      <4> QED BY <3>1, <4>1, <4>2
    <3> HIDE DEF k, f
    <3>4. f[i] = IF r[k + 1] = NL /\ Fits(Line(r, k + 1))
                 THEN Observe(f[i - 1], Line(r, k + 1)) ELSE f[i - 1]
      BY <1>1, <3>1, <3>2, SaidStep
    <3> QED BY <2>2, <3>3, <3>4
  <2> QED BY <2>1, <2>2
<1>3. Scans(f)
  <2>1. f = [i \in 0..n |-> f[i]]
    OBVIOUS
  <2> HIDE DEF f, Step
  <2> QED BY <1>2, <2>1
<1>4. Scans(at)
  <2> HIDE DEF Scans
  <2> QED BY <1>3
<1>5. \A i \in 0..n : at[i] = Step(at, i)
  <2> HIDE DEF at, Step
  <2> QED BY <1>4
<1>6. ScanLines(u, t) = at[n]
  BY DEF ScanLines
<1> HIDE DEF at, f, u
<1> DEFINE G == {i \in 0..n : at[i] = f[i]}
<1>7. 0 \in G
  BY <1>1, <1>2, <1>5
<1>8. ASSUME NEW k \in 0..(n - 1), k \in G PROVE k + 1 \in G
  <2>1. k + 1 \in 0..n /\ k + 1 # 0 /\ (k + 1) - 1 = k
    BY <1>1
  <2>2. Step(at, k + 1) = Step(f, k + 1)
    BY <1>8, <2>1
  <2> HIDE DEF Step
  <2> QED BY <1>2, <1>5, <2>1, <2>2
<1>9. 0..n \subseteq G
  <2> HIDE DEF G, n
  <2> QED BY <1>1, <1>7, <1>8, UpTo
<1>10. at[n] = f[n]
  BY <1>1, <1>9
<1>11. f[n] = Merged(Said(r, EndsTo(r, off + n)))
  BY <1>1 DEF f
<1>12. EndsTo(r, off + n) = Ends(r)
  BY <1>1 DEF EndsTo, Ends
<1> QED BY <1>6, <1>10, <1>11, <1>12 DEF u

\* What the complete lines of a response have said so far
SaidSoFar(r) == Merged(Said(r, Ends(r)))

\* Adding bytes changes nothing of what was said before.
LEMMA SaidBefore ==
  ASSUME NEW r, NEW q, Begins(r, q)
  PROVE  /\ EndsTo(q, Len(r)) = Ends(r)
         /\ Said(q, Ends(r)) = Said(r, Ends(r))
<1>1. \A e \in 1..Len(r) : Line(q, e) = Line(r, e) /\ (e \in Ends(q) <=> e \in Ends(r))
  BY BeginsLines
<1>2. r \in Seq(Bytes) /\ q \in Seq(Bytes) /\ Len(r) \in Nat
  BY DEF Begins
<1>3. EndsTo(q, Len(r)) = Ends(r)
  <2>1. \A e \in Ends(q) : e <= Len(r) => e \in 1..Len(r)
    BY <1>2 DEF Ends
  <2>2. \A e \in Ends(r) : e \in 1..Len(r) /\ e <= Len(r)
    BY <1>2 DEF Ends
  <2> QED BY <1>1, <2>1, <2>2 DEF EndsTo
<1>4. \A e \in Ends(r) : Line(q, e) = Line(r, e)
  BY <1>1 DEF Ends
<1> QED BY <1>3, <1>4 DEF Said

\* A response and its next chunk
LEMMA Appended ==
  ASSUME NEW r \in Seq(Bytes), NEW t \in Seq(Bytes)
  PROVE  /\ r \o t \in Seq(Bytes) /\ Len(r \o t) = Len(r) + Len(t) /\ Begins(r, r \o t)
         /\ \A i \in 1..Len(t) : (r \o t)[Len(r) + i] = t[i]
<1>1. /\ r \o t \in Seq(Bytes) /\ Len(r \o t) = Len(r) + Len(t)
      /\ \A i \in 1..(Len(r) + Len(t)) : (r \o t)[i] = IF i <= Len(r) THEN r[i] ELSE t[i - Len(r)]
  BY ConcatProperties
<1>2. Len(r) \in Nat /\ Len(t) \in Nat
  OBVIOUS
<1> DEFINE q == r \o t
           a == Len(r)
           c == Len(t)
<1>3. /\ q \in Seq(Bytes) /\ Len(q) = a + c /\ a \in Nat /\ c \in Nat
      /\ \A i \in 1..(a + c) : q[i] = IF i <= a THEN r[i] ELSE t[i - a]
  BY <1>1, <1>2
<1> HIDE DEF q, a, c
<1>4. a <= a + c /\ \A i \in 1..a : q[i] = r[i]
  BY <1>3
<1>5. \A i \in 1..c : q[a + i] = t[i]
  <2> SUFFICES ASSUME NEW i \in 1..c PROVE q[a + i] = t[i]
    OBVIOUS
  <2>1. a + i \in 1..(a + c) /\ ~(a + i <= a) /\ (a + i) - a = i
    BY <1>3
  <2> QED BY <1>3, <2>1
<1> QED BY <1>3, <1>4, <1>5 DEF q, a, c, Begins

\* What is kept of an unfinished line, and the next chunk, start a line.
LEMMA KeptIsAligned ==
  ASSUME NEW r \in Seq(Bytes), NEW t \in Seq(Bytes)
  PROVE  LET off == LastEnd(r, Len(r) + 1) IN
         /\ Aligned(r \o t, off, Rest(r) \o t) /\ EndsTo(r \o t, off) = Ends(r)
<1> DEFINE off == LastEnd(r, Len(r) + 1)
           a == Len(r)
           p == Rest(r)
           q == r \o t
           w == p \o t
<1>1. a \in Nat /\ Len(r) = a /\ a + 1 \in Nat
  OBVIOUS
<1>2. IsLast(r, a + 1, off) /\ off \in 0..a
  BY <1>1, LastEndFacts
<1>3. IsSlice(r, off, a, p)
  BY LineFacts
<1> HIDE DEF off, a, p
<1>4. off \in Nat /\ p \in Seq(Bytes) /\ Len(p) = a - off /\ \A i \in 1..(a - off) : p[i] = r[off + i]
  BY <1>3 DEF IsSlice
<1>5. /\ q \in Seq(Bytes) /\ Len(q) = a + Len(t) /\ Begins(r, q) /\ \A i \in 1..Len(t) : q[a + i] = t[i]
  BY <1>1, Appended
<1>6. /\ w \in Seq(Bytes) /\ Len(w) = Len(p) + Len(t) /\ Begins(p, w)
      /\ \A i \in 1..Len(t) : w[Len(p) + i] = t[i]
  BY <1>4, Appended
<1>7. Len(t) \in Nat
  OBVIOUS
<1> HIDE DEF q, w
<1>8. ASSUME NEW i \in 1..Len(w) PROVE q[off + i] = w[i]
  <2>1. CASE i <= a - off
    <3>1. i \in 1..(a - off) /\ off + i \in 1..a
      BY <1>1, <1>2, <1>4, <2>1
    <3>2. w[i] = p[i] /\ q[off + i] = r[off + i]
      BY <1>1, <1>4, <1>5, <1>6, <3>1 DEF Begins
    <3> QED BY <1>4, <3>1, <3>2
  <2>2. CASE ~(i <= a - off)
    <3> DEFINE j == i - (a - off)
    <3>1. j \in 1..Len(t) /\ (a - off) + j = i /\ a + j = off + i
      <4> DEFINE c == Len(t)
                 d == Len(w)
      <4>1. c \in Nat /\ d = (a - off) + c /\ i \in 1..d
        BY <1>4, <1>6, <1>7
      <4> HIDE DEF c, d
      <4>2. j \in 1..c /\ (a - off) + j = i /\ a + j = off + i
        BY <1>1, <1>2, <1>4, <2>2, <4>1
      <4> QED BY <4>2 DEF c
    <3> HIDE DEF j
    <3>2. w[i] = t[j] /\ q[off + i] = t[j]
      BY <1>4, <1>5, <1>6, <3>1
    <3> QED BY <3>2
  <2> QED BY <2>1, <2>2
<1>9. off = 0 \/ off \in Ends(q)
  <2>1. off = 0 \/ (off \in Ends(r) /\ off \in 1..Len(r))
    BY <1>2 DEF IsLast, Ends
  <2> QED BY <1>5, <2>1, BeginsLines
<1>10. Len(q) = off + Len(w)
  BY <1>1, <1>4, <1>5, <1>6, <1>7
<1>11. Aligned(q, off, w)
  BY <1>4, <1>5, <1>6, <1>8, <1>9, <1>10 DEF Aligned
<1>12. EndsTo(q, off) = Ends(r)
  <2>1. EndsTo(q, a) = Ends(r)
    BY <1>1, <1>5, SaidBefore
  <2>2. \A e \in Ends(r) : e <= off
    <3>1. \A e \in Ends(r) : e < a + 1
      BY <1>1 DEF Ends
    <3> QED BY <1>2, <3>1 DEF IsLast
  <2>3. \A e \in Ends(q) : e \in Nat
    BY DEF Ends
  <2>4. \A e \in Ends(q) : e <= off => e <= a
    BY <1>1, <1>2, <2>3
  <2> QED BY <2>1, <2>2, <2>4 DEF EndsTo
<1> QED BY <1>11, <1>12 DEF off, q, w, p, a

\* Through a chunk with no line end, the unfinished line grows
LEMMA RestGrows ==
  ASSUME NEW r \in Seq(Bytes), NEW t \in Seq(Bytes), Ends(t) = {}
  PROVE  Ends(r \o t) = Ends(r) /\ Len(Rest(r \o t)) = Len(Rest(r)) + Len(t)
<1> DEFINE a == Len(r)
           c == Len(t)
           q == r \o t
           l == LastEnd(r, a + 1)
<1>1. a \in Nat /\ c \in Nat /\ a + 1 \in Nat /\ a + c + 1 \in Nat
  OBVIOUS
<1>2. /\ q \in Seq(Bytes) /\ Len(q) = a + c /\ Begins(r, q) /\ \A i \in 1..c : q[a + i] = t[i]
  BY Appended
<1>3. \A i \in 1..c : t[i] # NL
  BY DEF Ends
<1>4. ASSUME NEW e \in Ends(q) PROVE e <= a
  <2> SUFFICES ASSUME ~(e <= a) PROVE FALSE
    OBVIOUS
  <2> DEFINE i == e - a
  <2>1. e \in 1..Len(q) /\ q[e] = NL
    BY DEF Ends
  <2> HIDE DEF q, a, c
  <2>2. i \in 1..c /\ a + i = e
    BY <1>1, <1>2, <2>1
  <2> HIDE DEF i
  <2> QED BY <1>2, <1>3, <2>1, <2>2
<1>5. EndsTo(q, a) = Ends(r)
  BY <1>2, SaidBefore
<1>6. Ends(q) = Ends(r)
  BY <1>4, <1>5 DEF EndsTo
<1>7. IsLast(r, a + 1, l)
  BY <1>1, LastEndFacts
<1> HIDE DEF l, q
<1>8. \A e \in Ends(r) : e < a + 1 /\ e < a + c + 1
  BY <1>1 DEF Ends
<1>9. IsLast(q, a + c + 1, l)
  BY <1>6, <1>7, <1>8 DEF IsLast
<1>10. LastEnd(q, a + c + 1) = l
  BY <1>1, <1>2, <1>9, LastEndIs
<1>11. Len(Rest(q)) = (a + c) - l
  <2>1. IsSlice(q, LastEnd(q, Len(q) + 1), Len(q), Rest(q))
    BY <1>2, LineFacts
  <2> QED BY <1>2, <1>10, <2>1 DEF IsSlice
<1>12. Len(Rest(r)) = a - l
  <2>1. IsSlice(r, LastEnd(r, a + 1), a, Rest(r))
    BY LineFacts
  <2> QED BY <2>1 DEF IsSlice, l
<1>13. l \in Nat
  BY <1>7 DEF IsLast
<1>14. Len(Rest(q)) = Len(Rest(r)) + c
  <2> HIDE DEF a, c
  <2> QED BY <1>1, <1>11, <1>12, <1>13
<1> QED BY <1>6, <1>14 DEF q

\* Skipping through the first line end after an oversized line: what follows
\* starts a line, and the skipped line says nothing.
LEMMA SkippedIsAligned ==
  ASSUME NEW r \in Seq(Bytes), NEW t \in Seq(Bytes), NEW p \in Seq(Bytes),
         Ends(p) = {}, ~Fits(Rest(r)), Ends(p \o t) # {}
  PROVE  LET m == Min(Ends(p \o t))
             off == Len(r) + (m - Len(p))
         IN  /\ Aligned(r \o t, off, SubSeq(p \o t, m + 1, Len(p \o t)))
             /\ Merged(Said(r \o t, EndsTo(r \o t, off))) = SaidSoFar(r)
<1> DEFINE a == Len(r)
           c == Len(t)
           d == Len(p)
           q == r \o t
           w == p \o t
           m == Min(Ends(w))
           j == m - d
           off == a + j
           x == SubSeq(w, m + 1, Len(w))
<1>1. a \in Nat /\ c \in Nat /\ d \in Nat
  OBVIOUS
<1>2. /\ q \in Seq(Bytes) /\ Len(q) = a + c /\ Begins(r, q) /\ \A i \in 1..c : q[a + i] = t[i]
  BY Appended
<1>3. /\ w \in Seq(Bytes) /\ Len(w) = d + c /\ Begins(p, w) /\ \A i \in 1..c : w[d + i] = t[i]
  BY Appended
<1> HIDE DEF q, w, a, c, d
<1>4. Ends(w) \in SUBSET Nat /\ Ends(w) # {}
  BY DEF Ends, w
<1>5. m \in Ends(w) /\ \A e \in Ends(w) : m <= e
  BY <1>4, MinFacts
<1> HIDE DEF m
<1>6. m \in 1..(d + c) /\ w[m] = NL
  BY <1>3, <1>5 DEF Ends
<1>7. m > d
  <2>1. m \in 1..Len(p) => m \in Ends(p)
    BY <1>3, <1>5, BeginsLines
  <2> QED BY <1>1, <1>6, <2>1 DEF d
<1>8. j \in 1..c /\ d + j = m /\ off \in Nat /\ off > a /\ off <= a + c
  BY <1>1, <1>6, <1>7
<1> HIDE DEF j
<1>9. t[j] = NL /\ \A i \in 1..c : i < j => t[i] # NL
  <2>1. t[j] = NL
    BY <1>3, <1>6, <1>8
  <2>2. ASSUME NEW i \in 1..c, i < j, t[i] = NL PROVE FALSE
    <3> DEFINE e == d + i
    <3>1. w[e] = NL
      BY <1>3, <2>2
    <3>2. e \in 1..(d + c) /\ ~(m <= e)
      BY <1>1, <1>8, <2>2
    <3> HIDE DEF e
    <3>3. e \in Ends(w)
      BY <1>3, <3>1, <3>2 DEF Ends
    <3> QED BY <1>5, <3>2, <3>3
  <2> QED BY <2>1, <2>2
<1>10. off \in Ends(q)
  <2>1. q[a + j] = NL
    BY <1>2, <1>8, <1>9
  <2>2. off \in 1..(a + c)
    BY <1>1, <1>8
  <2> QED BY <1>2, <2>1, <2>2 DEF Ends
<1>11. Aligned(q, off, x)
  <2> DEFINE n == Len(w)
  <2>1. n = d + c /\ n \in Nat /\ m \in Nat /\ m <= n /\ n <= Len(w)
    BY <1>1, <1>3, <1>6
  <2> HIDE DEF n
  <2>2. /\ SubSeq(w, m + 1, n) \in Seq(Bytes) /\ Len(SubSeq(w, m + 1, n)) = n - m
        /\ \A i \in 1..(n - m) : SubSeq(w, m + 1, n)[i] = w[m + i]
    BY <1>3, <2>1, SliceFacts
  <2>3. x \in Seq(Bytes) /\ Len(x) = n - m /\ \A i \in 1..(n - m) : x[i] = w[m + i]
    BY <2>2 DEF n
  <2> HIDE DEF x
  <2>4. ASSUME NEW i \in 1..(n - m) PROVE q[off + i] = x[i]
    <3> DEFINE k == j + i
    <3>1. k \in 1..c /\ d + k = m + i /\ a + k = off + i
      BY <1>1, <1>8, <2>1
    <3> HIDE DEF k, off
    <3>2. w[m + i] = t[k] /\ q[off + i] = t[k]
      BY <1>2, <1>3, <3>1
    <3> QED BY <2>3, <3>2
  <2>5. Len(q) = off + Len(x)
    BY <1>1, <1>2, <1>8, <2>1, <2>3
  <2> HIDE DEF off
  <2> QED BY <1>2, <1>8, <1>10, <2>3, <2>4, <2>5 DEF Aligned
<1> DEFINE l == LastEnd(r, a + 1)
<1>12. IsLast(r, a + 1, l) /\ Len(Rest(r)) = a - l
  <2>1. a + 1 \in Nat
    BY <1>1
  <2>2. IsSlice(r, LastEnd(r, a + 1), a, Rest(r))
    BY LineFacts DEF a
  <2> QED BY <2>1, <2>2, LastEndFacts DEF IsSlice
<1> HIDE DEF l
<1>13. EndsTo(q, a) = Ends(r)
  BY <1>2, SaidBefore DEF a
<1>14. \A e \in Ends(q) : e < off => e <= a
  <2> SUFFICES ASSUME NEW e \in Ends(q), e < off, ~(e <= a) PROVE FALSE
    OBVIOUS
  <2> DEFINE i == e - a
  <2>1. e \in 1..(a + c) /\ q[e] = NL
    BY <1>2 DEF Ends
  <2>2. i \in 1..c /\ a + i = e /\ i < j
    BY <1>1, <1>8, <2>1
  <2> HIDE DEF i
  <2> QED BY <1>2, <1>9, <2>1, <2>2
<1>15. \A e \in Ends(q) : e \in Nat
  BY DEF Ends
<1>16. \A e \in Ends(r) : e \in 1..a /\ e \in Ends(q)
  BY <1>13 DEF EndsTo, Ends, a
<1> HIDE DEF off
<1>17. LastEnd(q, off) = l
  <2>1. l \in Nat /\ (l = 0 \/ (l \in Ends(q) /\ l < off))
    BY <1>1, <1>8, <1>12, <1>16 DEF IsLast
  <2>2. \A e \in Ends(q) : e < off => e <= l
    <3>1. \A e \in Ends(q) : e < off => e \in Ends(r) /\ e < a + 1
      BY <1>1, <1>13, <1>14, <1>15 DEF EndsTo
    <3> QED BY <1>12, <3>1 DEF IsLast
  <2>3. IsLast(q, off, l)
    BY <2>1, <2>2 DEF IsLast
  <2> QED BY <1>2, <1>8, <2>3, LastEndIs
<1>18. off \in 1..Len(q)
  BY <1>10 DEF Ends
<1>19. ~Fits(Line(q, off))
  <2>1. IsSlice(q, l, off, Line(q, off))
    BY <1>2, <1>17, <1>18, LineFacts
  <2>2. Len(Line(q, off)) = off - l /\ l \in Nat
    BY <2>1 DEF IsSlice
  <2>3. MaxLine \in Nat /\ ~(a - l <= MaxLine)
    BY <1>12, AccountingStreamAssumption DEF Fits
  <2>4. ~(off - l <= MaxLine)
    BY <1>1, <1>8, <2>2, <2>3
  <2> QED BY <2>2, <2>4 DEF Fits
<1>20. EndsTo(q, off) = Ends(r) \cup {off}
  <2>1. \A e \in Ends(q) : e <= off => e = off \/ e < off
    BY <1>8, <1>15
  <2>2. \A e \in Ends(q) : e <= a => e <= off
    BY <1>1, <1>8, <1>15
  <2>3. off <= off
    BY <1>8
  <2> QED BY <1>10, <1>13, <1>14, <2>1, <2>2, <2>3 DEF EndsTo
<1>21. Ends(r) \in SUBSET (1..(off - 1))
  BY <1>1, <1>8, <1>16
<1> DEFINE D == Ends(r)
<1>22. Merged(Said(q, D \cup {off})) = Merged(Said(q, D))
  <2> HIDE DEF D
  <2>1. D \in SUBSET (1..(off - 1))
    BY <1>21 DEF D
  <2> QED BY <1>2, <1>18, <1>19, <2>1, SaidMore
<1>23. Said(q, Ends(r)) = Said(r, Ends(r))
  BY <1>2, SaidBefore
<1>24. Merged(Said(q, EndsTo(q, off))) = SaidSoFar(r)
  BY <1>20, <1>22, <1>23 DEF SaidSoFar
<1> QED BY <1>11, <1>24 DEF off, j, m, w, q, a, d

\* The inductive invariant. Of an open stream: the complete lines so far are
\* accounted for, and the buffer holds the unfinished one, or is behind an
\* oversized one; the buffered body is all of the response or has overflowed.
LinesRead ==
  /\ usage = SaidSoFar(received)
  /\ Fits(buf)
  /\ discarding => ~Fits(Rest(received)) /\ Ends(buf) = {}
  /\ ~discarding => buf = Rest(received)

BodyHeld ==
  /\ usage = NoUsage
  /\ overflowed <=> Len(received) > MaxBody
  /\ buf = IF overflowed THEN <<>> ELSE received

StreamInv ==
  /\ TypeOK
  /\ phase = "open" => /\ kind = "line" => LinesRead
                       /\ kind = "buffered" => BodyHeld
                       /\ kind = "opaque" => usage = NoUsage
  /\ RecordsWhatWasSent

\* Before the first byte
LEMMA EmptyFacts ==
  /\ <<>> \in Seq(Bytes) /\ Len(<<>>) = 0 /\ Ends(<<>>) = {} /\ Rest(<<>>) = <<>>
  /\ Fits(<<>>) /\ SaidSoFar(<<>>) = NoUsage
<1> DEFINE e == <<>>
<1>1. e \in Seq(Bytes) /\ Len(e) = 0 /\ Ends(e) = {}
  BY DEF Ends
<1>2. Fits(e)
  BY <1>1, AccountingStreamAssumption DEF Fits
<1>3. SaidSoFar(e) = NoUsage
  <2>1. Seen(Said(e, Ends(e))) = {}
    BY <1>1 DEF Seen, Said
  <2> QED BY <2>1, MergedNone DEF SaidSoFar
<1>4. Rest(e) = e
  <2> HIDE DEF e
  <2>1. Rest(e) \in Seq(Bytes) /\ Len(Rest(e)) = 0
    <3>1. IsSlice(e, LastEnd(e, Len(e) + 1), Len(e), Rest(e))
      BY <1>1, LineFacts
    <3>2. LastEnd(e, Len(e) + 1) \in Nat /\ LastEnd(e, Len(e) + 1) <= 0
      BY <1>1, <3>1 DEF IsSlice
    <3> QED BY <1>1, <3>1, <3>2 DEF IsSlice
  <2>2. Len(Rest(e)) = Len(e) /\ \A i \in 1..Len(e) : e[i] = Rest(e)[i]
    BY <1>1, <2>1
  <2> QED BY <1>1, <2>1, <2>2, SeqEqual
<1> QED BY <1>1, <1>2, <1>3, <1>4

\* It holds before the first byte.
LEMMA StreamInitial == Init => StreamInv
<1> SUFFICES ASSUME Init PROVE StreamInv
  OBVIOUS
<1>1. /\ kind \in {"line", "buffered", "opaque"}
      /\ received = <<>> /\ buf = <<>> /\ discarding = FALSE /\ overflowed = FALSE
      /\ usage = NoUsage /\ phase = "open" /\ recorded = NoUsage
  BY DEF Init
<1>2. TypeOK
  <2>1. Len(buf) <= IF kind = "line" THEN MaxLine ELSE MaxBody
    <3>1. 0 <= MaxLine /\ 0 <= MaxBody
      BY AccountingStreamAssumption
    <3> QED BY <1>1, <3>1, EmptyFacts
  <2>2. received \in Seq(Bytes) /\ buf \in Seq(Bytes)
    BY <1>1, EmptyFacts
  <2> QED BY <1>1, <2>1, <2>2 DEF TypeOK
<1>3. LinesRead
  BY <1>1, EmptyFacts DEF LinesRead
<1>4. BodyHeld
  <2>1. ~(Len(received) > MaxBody)
    <3>1. ~(0 > MaxBody)
      BY AccountingStreamAssumption
    <3> QED BY <1>1, <3>1, EmptyFacts
  <2> QED BY <1>1, <2>1 DEF BodyHeld
<1>5. RecordsWhatWasSent
  BY <1>1 DEF RecordsWhatWasSent
<1> QED BY <1>1, <1>2, <1>3, <1>4, <1>5 DEF StreamInv

\* The scan accounts for the lines of what it is given.
LEMMA ScanStep ==
  ASSUME NEW q, NEW off, NEW w, Aligned(q, off, w), usage = Merged(Said(q, EndsTo(q, off))),
         Scan(w), received' = q
  PROVE  /\ LinesRead' /\ buf' \in Seq(Bytes) /\ discarding' \in BOOLEAN /\ usage' \in UsageOptions
<1>1. usage' = SaidSoFar(q)
  BY ScanIsMerged DEF Scan, SaidSoFar
<1>2. q \in Seq(Bytes) /\ w \in Seq(Bytes)
  BY DEF Aligned
<1>3. Rest(w) = Rest(q) /\ Rest(w) \in Seq(Bytes)
  <2>1. Rest(w) \in Seq(Bytes)
    BY <1>2, LineFacts DEF IsSlice
  <2> QED BY <2>1, AlignedLines
<1>4. /\ buf' = (IF Fits(Rest(q)) THEN Rest(q) ELSE <<>>)
      /\ discarding' = ~Fits(Rest(q))
  BY <1>3 DEF Scan
<1>5. usage' \in UsageOptions
  <2>1. Ends(q) \in SUBSET (1..Len(q))
    BY DEF Ends
  <2> QED BY <1>1, <1>2, <2>1, MergedType DEF SaidSoFar
<1>6. LinesRead'
  <2>1. usage' = SaidSoFar(received')
    BY <1>1
  <2>2. CASE Fits(Rest(q))
    <3>1. buf' = Rest(received') /\ Fits(buf') /\ discarding' = FALSE
      BY <1>4, <2>2
    <3> QED BY <2>1, <3>1 DEF LinesRead
  <2>3. CASE ~Fits(Rest(q))
    <3>1. buf' = <<>> /\ ~Fits(Rest(received')) /\ discarding' = TRUE
      BY <1>4, <2>3
    <3>2. Fits(buf') /\ Ends(buf') = {}
      BY <3>1, EmptyFacts
    <3> QED BY <2>1, <3>1, <3>2 DEF LinesRead
  <2> QED BY <2>2, <2>3
<1> QED BY <1>3, <1>4, <1>5, <1>6, EmptyFacts

\* A chunk of a line-framed response
LEMMA PushLineStep ==
  ASSUME StreamInv, NEW chunk \in Seq(Bytes), PushLine(chunk)
  PROVE  StreamInv'
<1> DEFINE q == received \o chunk
           w == buf \o chunk
<1>1. /\ kind = "line" /\ phase = "open" /\ received' = q /\ kind' = kind /\ phase' = phase
      /\ recorded' = recorded /\ overflowed' = overflowed
  BY DEF PushLine, Forward
<1>2. /\ LinesRead /\ received \in Seq(Bytes) /\ buf \in Seq(Bytes) /\ discarding \in BOOLEAN
      /\ overflowed \in BOOLEAN /\ recorded \in Usages \cup {NoUsage} /\ usage \in Usages \cup {NoUsage}
  BY <1>1 DEF StreamInv, TypeOK
<1>3. q \in Seq(Bytes) /\ Begins(received, q)
  BY <1>2, Appended
<1>4. /\ LinesRead' /\ buf' \in Seq(Bytes) /\ discarding' \in BOOLEAN /\ usage' \in UsageOptions
  <2>1. CASE ~discarding
    <3> DEFINE off == LastEnd(received, Len(received) + 1)
    <3>1. Scan(w) /\ buf = Rest(received)
      BY <1>2, <2>1 DEF PushLine, LinesRead
    <3>2. Aligned(q, off, w) /\ EndsTo(q, off) = Ends(received)
      BY <1>2, <3>1, KeptIsAligned
    <3>3. usage = Merged(Said(q, EndsTo(q, off)))
      BY <1>2, <1>3, <3>2, SaidBefore DEF LinesRead, SaidSoFar
    <3> HIDE DEF q, w, off
    <3> QED BY <1>1, <3>1, <3>2, <3>3, ScanStep
  <2>2. CASE discarding /\ Ends(w) # {}
    <3> DEFINE m == Min(Ends(w))
               off == Len(received) + (m - Len(buf))
               x == SubSeq(w, m + 1, Len(w))
    <3>1. Scan(x)
      BY <2>2 DEF PushLine, SkipLine
    <3>2. Ends(buf) = {} /\ ~Fits(Rest(received))
      BY <1>2, <2>2 DEF LinesRead
    <3>3. Aligned(q, off, x) /\ Merged(Said(q, EndsTo(q, off))) = SaidSoFar(received)
      BY <1>2, <2>2, <3>2, SkippedIsAligned
    <3>4. usage = Merged(Said(q, EndsTo(q, off)))
      BY <1>2, <3>3 DEF LinesRead
    <3> HIDE DEF q, x, off
    <3> QED BY <1>1, <3>1, <3>3, <3>4, ScanStep
  <2>3. CASE discarding /\ Ends(w) = {}
    <3>1. /\ buf' = (IF Fits(w) THEN w ELSE <<>>) /\ discarding' = discarding /\ usage' = usage
      BY <2>3 DEF PushLine, SkipLine
    <3>2. w \in Seq(Bytes) /\ Len(w) = Len(buf) + Len(chunk)
          /\ \A i \in 1..Len(chunk) : w[Len(buf) + i] = chunk[i]
      BY <1>2, Appended
    <3>3. Fits(buf') /\ Ends(buf') = {} /\ buf' \in Seq(Bytes)
      BY <2>3, <3>1, <3>2, EmptyFacts
    <3>4. Ends(chunk) = {}
      <4> SUFFICES ASSUME NEW i \in Ends(chunk) PROVE FALSE
        OBVIOUS
      <4> DEFINE e == Len(buf) + i
      <4>1. i \in 1..Len(chunk) /\ chunk[i] = NL /\ Len(buf) \in Nat /\ Len(chunk) \in Nat
        BY <1>2 DEF Ends
      <4>2. e \in 1..Len(w) /\ w[e] = NL
        BY <3>2, <4>1
      <4> QED BY <2>3, <4>2 DEF Ends
    <3>5. Ends(q) = Ends(received) /\ Len(Rest(q)) = Len(Rest(received)) + Len(chunk)
      BY <1>2, <3>4, RestGrows
    <3>6. ~Fits(Rest(q))
      <4>1. ~(Len(Rest(received)) <= MaxLine) /\ Len(Rest(received)) \in Nat
        <5>1. Rest(received) \in Seq(Bytes)
          BY <1>2, LineFacts DEF IsSlice
        <5> QED BY <1>2, <2>3, <5>1 DEF LinesRead, Fits
      <4>2. Len(chunk) \in Nat /\ MaxLine \in Nat
        BY AccountingStreamAssumption
      <4> DEFINE y == Len(Rest(received))
                 z == Len(chunk)
      <4> HIDE DEF y, z
      <4>3. ~(y + z <= MaxLine)
        BY <4>1, <4>2 DEF y, z
      <4> QED BY <3>5, <4>3 DEF Fits, y, z
    <3>7. SaidSoFar(q) = SaidSoFar(received)
      BY <1>3, <3>5, SaidBefore DEF SaidSoFar
    <3>8. LinesRead'
      BY <1>1, <1>2, <2>3, <3>1, <3>3, <3>6, <3>7 DEF LinesRead
    <3> QED BY <1>2, <3>1, <3>3, <3>8 DEF UsageOptions
  <2> QED BY <1>2, <2>1, <2>2, <2>3
<1>5. TypeOK'
  <2>1. Len(buf') <= MaxLine
    BY <1>4 DEF LinesRead, Fits
  <2> HIDE DEF q
  <2> QED BY <1>1, <1>2, <1>3, <1>4, <2>1 DEF TypeOK, UsageOptions
<1>6. RecordsWhatWasSent'
  BY <1>1 DEF RecordsWhatWasSent
<1> QED BY <1>1, <1>4, <1>5, <1>6 DEF StreamInv

\* A chunk of a buffered response
LEMMA PushBodyStep ==
  ASSUME StreamInv, NEW chunk \in Seq(Bytes), PushBody(chunk)
  PROVE  StreamInv'
<1> DEFINE q == received \o chunk
           w == buf \o chunk
           a == Len(received)
           c == Len(chunk)
<1>1. /\ kind = "buffered" /\ phase = "open" /\ received' = q /\ kind' = kind /\ phase' = phase
      /\ recorded' = recorded /\ discarding' = discarding /\ usage' = usage
      /\ overflowed' = (overflowed \/ Len(buf) + Len(chunk) > MaxBody)
      /\ buf' = IF overflowed' THEN <<>> ELSE w
  BY DEF PushBody, Forward
<1>2. /\ BodyHeld /\ received \in Seq(Bytes) /\ buf \in Seq(Bytes) /\ discarding \in BOOLEAN
      /\ overflowed \in BOOLEAN /\ recorded \in Usages \cup {NoUsage} /\ usage \in Usages \cup {NoUsage}
  BY <1>1 DEF StreamInv, TypeOK
<1>3. q \in Seq(Bytes) /\ Len(q) = a + c /\ a \in Nat /\ c \in Nat /\ MaxBody \in Nat
  BY <1>2, Appended, AccountingStreamAssumption
<1>4. overflowed' \in BOOLEAN
  BY <1>1
<1>5. overflowed' <=> Len(q) > MaxBody
  <2>1. CASE overflowed
    <3>1. a > MaxBody
      BY <1>2, <2>1 DEF BodyHeld
    <3> HIDE DEF a, c
    <3>2. a + c > MaxBody
      BY <1>3, <3>1
    <3> QED BY <1>1, <1>3, <2>1, <3>2
  <2>2. CASE ~overflowed
    <3>1. Len(buf) = a
      BY <1>2, <2>2 DEF BodyHeld
    <3> HIDE DEF a
    <3> QED BY <1>1, <1>3, <2>2, <3>1
  <2> QED BY <2>1, <2>2
<1>6. buf' = IF overflowed' THEN <<>> ELSE q
  <2>1. CASE overflowed'
    BY <1>1, <2>1
  <2>2. CASE ~overflowed'
    <3>1. ~overflowed
      BY <1>1, <2>2
    <3>2. buf = received
      BY <1>2, <3>1 DEF BodyHeld
    <3> QED BY <1>1, <2>2, <3>2
  <2> QED BY <2>1, <2>2
<1>7. BodyHeld'
  <2> HIDE DEF q
  <2> QED BY <1>1, <1>2, <1>5, <1>6 DEF BodyHeld
<1>8. TypeOK'
  <2>1. buf' \in Seq(Bytes) /\ Len(buf') <= MaxBody
    <3> HIDE DEF q, a, c
    <3>1. CASE overflowed'
      <4>1. buf' = <<>> /\ 0 <= MaxBody
        BY <1>3, <1>6, <3>1
      <4> QED BY <4>1, EmptyFacts
    <3>2. CASE ~overflowed'
      <4>1. buf' = q /\ ~(a + c > MaxBody)
        BY <1>3, <1>5, <1>6, <3>2
      <4> QED BY <1>3, <4>1
    <3> QED BY <3>1, <3>2
  <2> HIDE DEF q
  <2> QED BY <1>1, <1>2, <1>3, <1>4, <2>1 DEF TypeOK
<1>9. RecordsWhatWasSent'
  BY <1>1 DEF RecordsWhatWasSent
<1> QED BY <1>1, <1>7, <1>8, <1>9 DEF StreamInv

\* A chunk of a response that is only forwarded
LEMMA PushOpaqueStep ==
  ASSUME StreamInv, NEW chunk \in Seq(Bytes), PushOpaque(chunk)
  PROVE  StreamInv'
<1>1. /\ kind = "opaque" /\ phase = "open" /\ received' = received \o chunk /\ kind' = kind
      /\ phase' = phase /\ recorded' = recorded /\ buf' = buf /\ discarding' = discarding
      /\ overflowed' = overflowed /\ usage' = usage
  BY DEF PushOpaque, Forward
<1>2. received' \in Seq(Bytes)
  BY <1>1, Appended DEF StreamInv, TypeOK
<1>3. TypeOK'
  BY <1>1, <1>2 DEF StreamInv, TypeOK
<1>4. RecordsWhatWasSent'
  BY <1>1 DEF RecordsWhatWasSent
<1> QED BY <1>1, <1>3, <1>4 DEF StreamInv

\* The flush at the end accounts for the unfinished last line.
LEMMA FlushFacts ==
  ASSUME LinesRead, received \in Seq(Bytes)
  PROVE  Observe(usage, Remainder) = Merged(Said(received, AllEnds(received)))
<1> DEFINE r == received
           n == Len(r)
           u == SaidSoFar(r)
<1>1. n \in Nat /\ usage = u /\ Fits(buf)
  BY DEF LinesRead
<1>2. Observe(u, <<>>) = u
  BY AccountingStreamAssumption DEF Observe
<1>3. IsSlice(r, LastEnd(r, n + 1), n, Rest(r))
  BY LineFacts
<1>4. IsLast(r, n + 1, LastEnd(r, n + 1))
  BY <1>1, LastEndFacts
<1> HIDE DEF n
<1>5. CASE n = 0 \/ n \in Ends(r)
  <2>1. AllEnds(r) = Ends(r)
    BY <1>5 DEF AllEnds, n
  <2>2. LastEnd(r, n + 1) = n
    <3> DEFINE l == LastEnd(r, n + 1)
    <3> HIDE DEF l
    <3>1. l \in Nat /\ l <= n
      BY <1>3 DEF IsSlice, l
    <3>2. n = 0 \/ n <= l
      <4>1. n < n + 1
        BY <1>1
      <4> QED BY <1>4, <1>5, <4>1 DEF IsLast, l
    <3>3. l = n
      BY <1>1, <3>1, <3>2
    <3> QED BY <3>3 DEF l
  <2>3. Rest(r) = <<>>
    <3>1. Rest(r) \in Seq(Bytes) /\ Len(Rest(r)) = 0
      BY <1>1, <1>3, <2>2 DEF IsSlice
    <3> QED BY <3>1
  <2>4. ~discarding /\ buf = <<>>
    BY <2>3, EmptyFacts DEF LinesRead
  <2> QED BY <1>1, <1>2, <2>1, <2>4 DEF Remainder, SaidSoFar
<1>6. CASE ~(n = 0 \/ n \in Ends(r))
  <2> DEFINE D == Ends(r)
             l == LastEnd(r, n + 1)
  <2>1. AllEnds(r) = D \cup {n}
    BY <1>6 DEF AllEnds, n
  <2>2. n \in 1..Len(r) /\ D \in SUBSET (1..(n - 1))
    BY <1>1, <1>6 DEF Ends, n
  <2>3. Line(r, n) = Rest(r)
    <3>1. \A e \in D : e < n + 1 /\ e < n /\ e \in Nat
      BY <1>1, <2>2
    <3>2. IsLast(r, n, l)
      BY <1>4, <3>1 DEF IsLast
    <3>3. LastEnd(r, n) = l
      <4> HIDE DEF l
      <4> QED BY <1>1, <3>2, LastEndIs
    <3> QED BY <3>3 DEF Line, Rest, n
  <2> HIDE DEF D, l
  <2>4. Merged(Said(r, D \cup {n}))
          = IF Fits(Line(r, n)) THEN Observe(Merged(Said(r, D)), Line(r, n)) ELSE Merged(Said(r, D))
    BY <2>2, SaidMore
  <2>5. Merged(Said(r, AllEnds(r))) = IF Fits(Rest(r)) THEN Observe(u, Rest(r)) ELSE u
    BY <2>1, <2>3, <2>4 DEF SaidSoFar, D
  <2>6. CASE discarding
    <3>1. Remainder = <<>> /\ ~Fits(Rest(r))
      BY <2>6 DEF Remainder, LinesRead
    <3> QED BY <1>1, <1>2, <2>5, <3>1
  <2>7. CASE ~discarding
    <3>1. Remainder = Rest(r) /\ Fits(Rest(r))
      BY <1>1, <2>7 DEF Remainder, LinesRead
    <3> QED BY <1>1, <2>5, <3>1
  <2> QED BY <2>6, <2>7
<1> QED BY <1>5, <1>6

\* The end of the response
LEMMA FinishStep ==
  ASSUME StreamInv, Finish
  PROVE  StreamInv'
<1>1. /\ phase = "open" /\ phase' = "finished" /\ recorded' = usage' /\ kind' = kind
      /\ received' = received /\ buf' = buf /\ discarding' = discarding /\ overflowed' = overflowed
      /\ usage' = CASE kind = "line" -> Observe(usage, Remainder)
                    [] kind = "buffered" /\ ~overflowed -> ParseBody(buf)
                    [] OTHER -> usage
  BY DEF Finish
<1>2. /\ kind \in {"line", "buffered", "opaque"} /\ received \in Seq(Bytes) /\ usage \in UsageOptions
      /\ overflowed \in BOOLEAN
  BY DEF StreamInv, TypeOK, UsageOptions
<1> DEFINE out == CASE kind = "line" -> Merged(Said(received, AllEnds(received)))
                    [] kind = "buffered" /\ Len(received) <= MaxBody -> ParseBody(received)
                    [] OTHER -> NoUsage
<1>3. usage' = out /\ usage' \in UsageOptions
  <2>1. CASE kind = "line"
    <3>1. usage' = Merged(Said(received, AllEnds(received)))
      BY <1>1, <1>2, <2>1, FlushFacts DEF StreamInv
    <3>2. AllEnds(received) \in SUBSET (1..Len(received))
      BY <1>2 DEF AllEnds, Ends
    <3> QED BY <1>2, <2>1, <3>1, <3>2, MergedType
  <2>2. CASE kind = "buffered"
    <3>1. BodyHeld
      BY <1>1, <2>2 DEF StreamInv
    <3> DEFINE n == Len(received)
    <3>2. n \in Nat /\ MaxBody \in Nat
      BY <1>2, AccountingStreamAssumption
    <3>3. CASE overflowed
      <4>1. ~(Len(received) <= MaxBody) /\ usage = NoUsage
        BY <3>1, <3>2, <3>3 DEF BodyHeld
      <4> QED BY <1>1, <1>2, <2>2, <3>3, <4>1
    <3>4. CASE ~overflowed
      <4>1. n <= MaxBody /\ buf = received
        BY <3>1, <3>2, <3>4 DEF BodyHeld
      <4>2. ParseBody(received) \in UsageOptions
        <5>1. n \in 0..MaxBody /\ received \in [1..n -> Bytes]
          BY <1>2, <3>2, <4>1
        <5> HIDE DEF n
        <5> QED BY <5>1, AccountingStreamAssumption DEF UsageOptions
      <4> QED BY <1>1, <2>2, <3>4, <4>1, <4>2
    <3> QED BY <1>2, <3>3, <3>4
  <2>3. CASE kind = "opaque"
    BY <1>1, <1>2, <2>3 DEF StreamInv
  <2> QED BY <1>2, <2>1, <2>2, <2>3
<1>4. TypeOK'
  <2> HIDE DEF out
  <2> QED BY <1>1, <1>3 DEF StreamInv, TypeOK, UsageOptions
<1>5. RecordsWhatWasSent'
  BY <1>1, <1>3 DEF RecordsWhatWasSent
<1> QED BY <1>1, <1>4, <1>5 DEF StreamInv

\* The client leaves.
LEMMA CutStep ==
  ASSUME StreamInv, Cut
  PROVE  StreamInv'
<1>1. /\ phase = "open" /\ phase' = "cut" /\ recorded' = usage /\ kind' = kind /\ usage' = usage
      /\ received' = received /\ buf' = buf /\ discarding' = discarding /\ overflowed' = overflowed
  BY DEF Cut
<1>2. TypeOK'
  BY <1>1 DEF StreamInv, TypeOK
<1>3. usage = IF kind = "line" THEN Merged(Said(received, Ends(received))) ELSE NoUsage
  BY <1>1 DEF StreamInv, TypeOK, LinesRead, BodyHeld, SaidSoFar
<1>4. RecordsWhatWasSent'
  BY <1>1, <1>3 DEF RecordsWhatWasSent
<1> QED BY <1>1, <1>2, <1>4 DEF StreamInv

\* Every step preserves the invariant.
LEMMA StreamStep == StreamInv /\ [Next]_vars => StreamInv'
<1> SUFFICES ASSUME StreamInv, [Next]_vars PROVE StreamInv'
  OBVIOUS
<1>1. ASSUME NEW n \in 1..(MaxReceived - Len(received)), NEW chunk \in [1..n -> Bytes],
             PushLine(chunk) \/ PushBody(chunk) \/ PushOpaque(chunk)
      PROVE  StreamInv'
  <2>1. n \in Nat
    OBVIOUS
  <2>2. chunk \in Seq(Bytes)
    BY <2>1, IsASeq
  <2> QED BY <1>1, <2>2, PushLineStep, PushBodyStep, PushOpaqueStep
<1>2. CASE UNCHANGED vars
  <2>1. TypeOK'
    BY <1>2 DEF StreamInv, TypeOK, vars
  <2>2. (LinesRead => LinesRead') /\ (BodyHeld => BodyHeld')
    BY <1>2 DEF LinesRead, BodyHeld, vars
  <2>3. RecordsWhatWasSent'
    BY <1>2 DEF StreamInv, RecordsWhatWasSent, vars
  <2> QED BY <1>2, <2>1, <2>2, <2>3 DEF StreamInv, vars
<1> QED BY <1>1, <1>2, FinishStep, CutStep DEF Next

\* It holds in every behaviour.
LEMMA StreamInvariant == Spec => []StreamInv
<1>1. StreamInv /\ [Next]_vars => StreamInv'
  BY StreamStep
<1> QED BY <1>1, StreamInitial, PTL DEF Spec

\* Whatever the cuts between the chunks, no parse buffer outgrows its limit
\* (LineBuffer, BoundedBuffer) and what is kept is well formed.
THEOREM StreamBuffersAreBounded == Spec => []TypeOK
<1>1. StreamInv => TypeOK
  BY DEF StreamInv
<1> QED BY <1>1, StreamInvariant, PTL

\* What UsageRecorder::drop queues is what the response said in the lines or
\* the body that fit, however the network cut it into chunks and whether the
\* response ended or the client left.
THEOREM StreamRecordsWhatWasSent == Spec => []RecordsWhatWasSent
<1>1. StreamInv => RecordsWhatWasSent
  BY DEF StreamInv
<1> QED BY <1>1, StreamInvariant, PTL

=============================================================================
