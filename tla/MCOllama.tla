------------------------------ MODULE MCOllama ------------------------------
(***************************************************************************)
(* Models for OllamaParts: those that are embedded with and those that are *)
(* recommended.                                                            *)
(***************************************************************************)
EXTENDS OllamaParts, MCEmbeddingModel

\* Models by the words in their names ...
Names ==
    [nomic_embed_code |-> {"nomic", "embed", "code"},
     nomic_embed_text |-> {"nomic", "embed", "nomic-embed-text"},
     e5_8k |-> {"e5-", "8k"},
     deepseek_r1 |-> {"deepseek", "r1"},
     marco_o1_128k |-> {"o1", "128k", "8k"},
     qwen_coder_32 |-> {"qwen", "coder", "code", "32"},
     starcoder |-> {"coder", "code"},
     qwen_max_32k |-> {"qwen", "max", "32k"},
     llama_32 |-> {"32"}]

\* ... and the sizes in them: as in Ollama's library, and one file that its
\* author named.
Units ==
    [m \in DOMAIN Names |->
        CASE m = "llama_32" -> "B"
          [] m \in {"qwen_coder_32", "deepseek_r1"} -> "b"
          [] OTHER -> ""]
=============================================================================
