CONSTANTS
    nomic = nomic
    other = other
    large = large
    Models = {nomic, other, large}
    Configured = nomic
    Repos = {r1, r2}
    ListLimit = 1
    NumFiles = 2
    Calls = {c1, c2}
    MaxFaults = 1
    MaxRestarts = 1
    Dim <- Lengths
    Library = {"nomic_embed_code", "nomic_embed_text", "e5_8k", "deepseek_r1",
               "marco_o1_128k", "qwen_coder_32", "starcoder", "qwen_max_32k",
               "llama_32"}
    Words <- Names
    Unit <- Units
    MaxChanges = 2
CHECK_DEADLOCK FALSE
SPECIFICATION FairPartsSpec
INVARIANTS
    NoForgottenChunk
    NameMatchesClient
PROPERTIES
    Replaced
    MoreModelsNoWorse
