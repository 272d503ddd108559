---------------------------- MODULE MCModelFiles ----------------------------
(***************************************************************************)
(* What a model pack goes through until the first prompt, on small         *)
(* instances.  The parts share no state: a behaviour carries out one task, *)
(* and the variables of the others stay, those of Budget and ChatTemplate  *)
(* in an initial state, for which their properties hold.                   *)
(*                                                                         *)
(*   "manifest"  the members of a manifest in every order, the artifacts   *)
(*               before, between or behind them, with optional members and *)
(*               without one of those that must be there                   *)
(*   "gguf"      files of up to three entries in every order, with none,   *)
(*               one or two tensors, cut off at every length               *)
(*   "budget"    loads and requests on a hybrid file, one whose cache for  *)
(*               four positions is SIZE_MAX + 1 bytes, and one without     *)
(*               block names, with a size_t of 12 bits                     *)
(*   "chat"      all templates of up to four symbols and the shapes models *)
(*               ship; "t" is other text, and a content with a mark in it  *)
(*               is a user who wrote it                                    *)
(***************************************************************************)
EXTENDS Manifest, GgufLoad, Budget, ChatTemplate, TLC

VARIABLE task

-----------------------------------------------------------------------------
(* Manifests.                                                              *)

Member(key, value) == [key |-> key, value |-> value]

TopList == << Member("model_id", Text("m")), Member("family", Text("f")),
              Member("parameter_size", Text("4B")), Member("context_length", Number("8192")),
              Member("fallback_policy", Text("cpu.native")) >>
OptionalList == << Member("name", Text("n")), Member("memory_required_mb", Null),
                   Member("chat_template", Text("t")) >>
Top == ToSet(TopList)
Optional == ToSet(OptionalList)

Artifact == { Member("backend", Text("cpu.native")), Member("format", Text("gguf")) }
Paths == {Member("path", Text("m.gguf")), Member("path", Text("/m.gguf")),
          Member("path", Text("long.gguf"))}
Extra == {Member("quantization", Text("q4")), Member("command", Text("llama"))}
Usual == <<Member("path", Text("m.gguf")), Member("command", Text("llama")),
           Member("backend", Text("cpu.native")), Member("format", Text("gguf"))>>

WithoutOne(set) == {set} \union {set \ {x} : x \in set}

Split(list, artifacts) ==
  {[before |-> SubSeq(list, 1, k), artifacts |-> artifacts,
    after |-> SubSeq(list, k + 1, Len(list))] : k \in {0, 3, Len(list)}}

Permutation == [n \in 0 .. 5 |-> SetToSeqs(1 .. n)]
Orders(sets) ==
  UNION {{[i \in DOMAIN p |-> list[p[i]]] : p \in Permutation[Len(list)]} :
           list \in {SetToSeq(set) : set \in sets}}

Tops ==
  Orders(WithoutOne(Top))
  \union {<<o>> \o list : o \in Optional, list \in Orders({Top})}
  \union {Append(list, o) : o \in Optional, list \in Orders({Top})}
Artifacts ==
  Orders(UNION {WithoutOne(Artifact \union {p} \union e) : p \in Paths, e \in {{}, Extra}})

OneArtifact ==
  UNION {Split(list, <<Usual>>) : list \in Tops}
  \union UNION {Split(OptionalList \o TopList, <<artifact>>) : artifact \in Artifacts}

\* The artifact of a model that needs no command.
NullCommand ==
  {[d EXCEPT !.artifacts = <<<<Usual[1], Usual[3], Usual[4], Member("command", Null)>>>>] :
     d \in Split(TopList, <<Usual>>)}

\* A second artifact for another backend, with a command of its own.
TwoArtifacts ==
  {[d EXCEPT !.artifacts = <<<<Usual[1], Usual[3], Usual[4]>>, Usual>>] :
     d \in Split(TopList, <<Usual>>)}

-----------------------------------------------------------------------------
(* GGUF files.                                                             *)

Entry(key, type, value) == [key |-> key, type |-> type, value |-> value]

\* The names of the fields in the keys that occur in the instances; the last
\* key is one of models with a scaled context.
Names ==
  [key \in {"block_count", "context_length", "attention.head_count", "eos_token_id",
            "rope.freq_base", "tokenizer.ggml.tokens", "general.name",
            "tokenizer.ggml.add_bos_token", "other", "another"} |-> {key}]
  @@ "qwen35.rope.dimension_sections" :>
       {"qwen35.rope.dimension_sections", "rope.dimension_sections"}
  @@ "attention.head_count_kv" :> {"attention.head_count_kv", "attention.head_count"}
  @@ "rope.scaling.original_context_length" :>
       {"rope.scaling.original_context_length", "context_length"}

UsualEntries ==
  { Entry("context_length", "u32", 5), Entry("context_length", "u64", 12),
    Entry("attention.head_count", "u32", 4), Entry("attention.head_count_kv", "u32", 2),
    Entry("block_count", "u64", 3), Entry("rope.freq_base", "f32", 7),
    Entry("tokenizer.ggml.tokens", "strings", <<1, 3, 6>>),
    Entry("tokenizer.ggml.tokens", "numbers", <<1>>),
    Entry("tokenizer.ggml.add_bos_token", "bool", 1),
    Entry("general.name", "string", 5), Entry("another", "string", 6),
    Entry("other", "strings", <<2, 5>>), Entry("other", "numbers", <<1, 2, 3>>),
    Entry("other", "nested", <<>>), Entry("another", "unknown", 0),
    Entry("another", "scalar", 2),
    Entry("qwen35.rope.dimension_sections", "numbers", <<1, 2>>) }

ScaledEntries == { Entry("context_length", "u32", 5),
            Entry("rope.scaling.original_context_length", "u32", 3) }

\* Keys do not repeat in a file.
FilesOf(set) ==
  {list \in UNION {[1 .. n -> set] : n \in 0 .. 3} :
     \A i, j \in DOMAIN list : list[i].key = list[j].key => i = j}

Tensor(name, n_dims) == [name |-> name, n_dims |-> n_dims]
Tables == { <<>>, <<Tensor(2, 1)>>, <<Tensor(1, 5)>>, <<Tensor(6, 2), Tensor(1, 4)>> }

UsualFiles  == FilesOf(UsualEntries)
ScaledFiles == FilesOf(ScaledEntries)

-----------------------------------------------------------------------------
(* Sizes for the plan.                                                     *)

Hybrid == [file |-> 600, blocks |-> 2, kv_layers |-> 1, kv_heads |-> 1, heads |-> 2,
           head_dim |-> 0, embd |-> 4, ff |-> 0, max_block |-> 120, output |-> 100,
           row |-> 16, context |-> 6]
Wide == [file |-> 300, blocks |-> 4, kv_layers |-> 4, kv_heads |-> 4, heads |-> 4,
         head_dim |-> 8, embd |-> 2, ff |-> 2, max_block |-> 30, output |-> 20,
         row |-> 8, context |-> 6]
Unnamed == [file |-> 200, blocks |-> 2, kv_layers |-> 2, kv_heads |-> 1, heads |-> 1,
            head_dim |-> 4, embd |-> 2, ff |-> 4, max_block |-> 0, output |-> 0,
            row |-> 0, context |-> 3]
BudgetModels == {Hybrid, Wide, Unnamed}

-----------------------------------------------------------------------------
(* Templates and conversations.                                            *)

Symbols == {"t", "prompt", "system", "role", "content",
            "#system", "/system", "#message", "/message"}

Shapes ==
  { <<"#system", "t", "system", "/system", "#message", "role", "content", "/message", "t">>,
    <<"#system", "content", "t", "/system", "t", "prompt", "t">>,
    <<"#message", "t", "prompt", "content", "/message", "#system", "role", "/system">>,
    <<"#system", "#message", "/system", "#message", "content", "/message", "prompt">> }

\* Every symbol that occurs.
AllSymbols ==
  Symbols \union {"newline", "user", "assistant", "a", "b", "c", "s"}

SmallTemplates == UNION {[1 .. n -> Symbols] : n \in 0 .. 4} \union Shapes

Message(role, content) == [role |-> role, content |-> content]

Talks ==
  { <<>>,
    <<Message("user", <<"a">>)>>,
    <<Message("user", <<"content", "prompt">>)>>,
    <<Message("system", <<"s">>), Message("user", <<>>)>>,
    <<Message("system", <<>>), Message("user", <<"a">>), Message("system", <<"s">>)>>,
    <<Message("system", <<"s", "t">>), Message("system", <<"role">>),
      Message("user", <<"a", "b">>), Message("assistant", <<"c">>)>>,
    <<Message("system", <<"s", "t">>), Message("system", <<"s", "t">>)>>,
    <<Message("user", <<"a">>), Message("assistant", <<"system">>),
      Message("user", <<"b">>), Message("assistant", <<>>)>> }

ASSUME FilesAssumption ==
  /\ GgufAssumption /\ BudgetAssumption /\ RowsFit /\ ChatAssumption
  /\ KeysApart(UsualEntries)

-----------------------------------------------------------------------------
NoManifest ==
  document = <<>> /\ json = <<>> /\ next = 0 /\ manifest = <<>> /\ pc = "none"
NoGguf ==
  /\ entries = <<>> /\ tensors = <<>> /\ size = 0 /\ pos = 0 /\ kv_index = 0
  /\ n_tensors = 0 /\ info = <<>> /\ data_offset = 0 /\ gguf_pc = "none"
NoBudget ==
  /\ model = Unnamed /\ memory = 0 /\ disabled = FALSE
  /\ session_loaded = FALSE /\ plan = NoPlan
  /\ window = 0 /\ seq_len = 0 /\ scratch = 0 /\ prefill = 0 /\ steps = 0
NoChat ==
  /\ template = <<>> /\ messages = <<>> /\ output_size = 2
  /\ cursor = 1 /\ output = <<>> /\ chat_pc = "start"

AnyTask ==
  \/ task = "manifest" /\ Init       /\ NoGguf    /\ NoBudget   /\ NoChat
  \/ task = "gguf"     /\ NoManifest /\ GgufInit /\ NoBudget   /\ NoChat
  \/ task = "budget"   /\ NoManifest /\ NoGguf    /\ BudgetInit /\ NoChat
  \/ task = "chat"     /\ NoManifest /\ NoGguf    /\ NoBudget   /\ ChatInit

OneStep ==
  /\ UNCHANGED task
  /\ \/ task = "manifest" /\ Next       /\ UNCHANGED <<gguf_vars, budget_vars, chat_vars>>
     \/ task = "gguf"     /\ GgufNext  /\ UNCHANGED <<vars, budget_vars, chat_vars>>
     \/ task = "budget"   /\ BudgetNext /\ UNCHANGED <<vars, gguf_vars, chat_vars>>
     \/ task = "chat"     /\ ChatNext   /\ UNCHANGED <<vars, gguf_vars, budget_vars>>

TaskSpec == AnyTask /\ [][OneStep]_<<task, vars, gguf_vars, budget_vars, chat_vars>>

\* The files alone, for those of models with a scaled context.
FileSpec ==
  /\ task = "gguf" /\ NoManifest /\ GgufInit /\ NoBudget /\ NoChat
  /\ [][OneStep]_<<task, vars, gguf_vars, budget_vars, chat_vars>>

-----------------------------------------------------------------------------
\* Each field of a manifest comes from the member of its name, in whatever order
\* the members stand, and a manifest is refused only for a member it lacks.
ManifestAsWritten == task = "manifest" => ReadsWhatIsWritten /\ RefusedIffUnusable
=============================================================================
