-------------------------------- MODULE Usage ---------------------------------
(***************************************************************************)
(* What a model call is billed for (harness/cassette.py, llm.py and        *)
(* tokens.py).  Providers report tokens under fields of their own: OpenAI  *)
(* counts what the cache served in prompt_tokens, Anthropic leaves it out  *)
(* of input_tokens.  A report is a function from the fields that are in    *)
(* it; details.cached_tokens is one field, "cached_tokens".                *)
(***************************************************************************)
EXTENDS Integers

OpenAIFields == {"prompt_tokens", "completion_tokens", "cached_tokens"}
AnthropicFields ==
    {"input_tokens", "output_tokens", "cache_read_input_tokens", "cache_creation_input_tokens"}

Has(raw, field) == field \in DOMAIN raw
OrZero(raw, field) == IF Has(raw, field) THEN raw[field] ELSE 0

\* prompt_includes_cache; normalize_usage takes its branch by the same test.
prompt_includes_cache(raw) == Has(raw, "prompt_tokens") \/ Has(raw, "completion_tokens")

\* normalize_usage raises CassetteError on any other report.
IsAccepted(raw) ==
    /\ Has(raw, "prompt_tokens") \/ Has(raw, "input_tokens")
    /\ IF prompt_includes_cache(raw) THEN Has(raw, "completion_tokens") ELSE Has(raw, "output_tokens")

normalize_usage(raw) ==
    IF prompt_includes_cache(raw)
    THEN [prompt |-> OrZero(raw, "prompt_tokens"), completion |-> raw["completion_tokens"],
          read |-> OrZero(raw, "cached_tokens"), write |-> 0]
    ELSE [prompt |-> OrZero(raw, "input_tokens"), completion |-> raw["output_tokens"],
          read |-> OrZero(raw, "cache_read_input_tokens"),
          write |-> OrZero(raw, "cache_creation_input_tokens")]

\* The recorder calls it with the report, the replay with the recorded copy.
total_input_tokens(segments, raw) ==
    IF prompt_includes_cache(raw) THEN segments.prompt
    ELSE segments.prompt + segments.read + segments.write

\* What is billed at the full price of an input token.
billed_input_tokens(raw) ==
    LET segments == normalize_usage(raw)
        uncached == total_input_tokens(segments, raw) - segments.read - segments.write
    IN  IF uncached < 0 THEN 0 ELSE uncached
=============================================================================
