------------------------------ MODULE LlmClient ------------------------------
(***************************************************************************)
(* The LLM client of a process: which settings it can be built from, and   *)
(* how a call to it may end.  Prompts and texts are left out.              *)
(***************************************************************************)

\* llm_provider and whether openai_api_key is set; other stands for a name
\* the code does not know.
LlmSettings == [provider : {"mock", "openai", "bedrock", "other"}, key : BOOLEAN]

\* LLMClient.__init__ finds a provider; for the others it raises
\* LLMProviderConfigurationError.
Builds(s) == s.provider = "mock" \/ (s.provider = "openai" /\ s.key)

\* The mock answers from its arguments.  OpenAI's errors of connection, time
\* and status, and an output that does not fit the schema, become
\* LLMProviderInvocationError; any other error of its library passes through.
Endings(s) ==
    IF s.provider = "mock" THEN {"result"} ELSE {"result", "refused", "escaped"}
=============================================================================
