------------------------------ MODULE GgufLoad ------------------------------
(***************************************************************************)
(* edgexpu_gguf_load in gguf.c: the file is read once from front to back,  *)
(* first its header, then the key-value entries, then the table of the     *)
(* tensors.  A read past the end fails; a value that is not wanted is      *)
(* skipped with fseek, which does not.  Integer entries go to the field    *)
(* whose name occurs in their key.                                         *)
(*                                                                         *)
(* Lengths are in units of 4 bytes, single bytes included.  A text is its  *)
(* length and a key has length 1.  The index over the pieces that is built *)
(* at the end is module PieceIndex; allocations succeed.                   *)
(***************************************************************************)
EXTENDS Integers, Sequences, FiniteSets, SequencesExt, Sums

CONSTANTS EntryLists,   \* the entries a file may have: [key, type, value]
          TensorLists,  \* the tensors: [name, n_dims], a name is its length
          Occurs,       \* for each key, the field names that occur in it
          TextRoom,     \* size of the buffer of a text or of a tensor's name
          LongString,   \* strings from this length on are not kept (65536)
          MaxU32,       \* UINT32_MAX
          DataAlign     \* alignment of the data (32 bytes)

\* An entry has a value of its type; a key occurs in itself.
Entries == UNION {ToSet(list) : list \in EntryLists}

GgufAssumption ==
  /\ {TextRoom, LongString, MaxU32, DataAlign} \subseteq Nat \ {0}
  /\ EntryLists \subseteq Seq(Entries) /\ TensorLists \subseteq Seq([name : Nat, n_dims : Nat])
  /\ \A entry \in Entries :
       /\ entry.type \in {"u64", "string", "scalar"} => entry.value \in Nat
       /\ entry.type \in {"strings", "numbers"} => entry.value \in Seq(Nat)
       /\ entry.key \in Occurs[entry.key]

VARIABLES entries, tensors, size,  \* the file
          pos,                     \* position of the stream
          kv_index, n_tensors,
          info,                    \* field name -> value, for those assigned
          data_offset,
          gguf_pc  \* "header", "metadata", "tensors", "ok" or "refused"

gguf_vars ==
  <<entries, tensors, size, pos, kv_index, n_tensors, info, data_offset, gguf_pc>>

file == <<entries, tensors, size>>

Read(n) == <<"read", n>>
Skip(n) == <<"skip", n>>
Fail    == <<"fail", 0>>

Total(lengths) == Sums(lengths, Len(lengths))[Len(lengths)]
Lengths(calls) == [i \in DOMAIN calls |-> calls[i][2]]

\* read_exact and skip_bytes, one after the other: whether each of them succeeds
\* where the ones before it have left the stream, and where they all leave it.
Run(calls) ==
  LET passed == Sums(Lengths(calls), Len(calls))
  IN [done |-> \A i \in DOMAIN calls :
                 /\ calls[i][1] # "fail"
                 /\ calls[i][1] = "read" => pos + passed[i] <= size,
      pos  |-> pos + passed[Len(calls)]]

\* read_string_into
ReadText(length) ==
  LET copied == IF length < TextRoom THEN length ELSE TextRoom - 1
  IN <<Read(2), Read(copied), Skip(length - copied)>>

TextKeys == {"general.architecture", "general.name", "tokenizer.ggml.model",
             "tokenizer.ggml.pre", "tokenizer.chat_template"}
ListKeys == {"tokenizer.ggml.tokens", "tokenizer.ggml.merges"}

\* load_string_array, skip_array and skip_value: the calls for a value.  A value
\* of type "scalar" is of a type nobody wants (8 or 16 bits, f64): its size.
Kept(length) == IF length >= LongString THEN Skip(length) ELSE Read(length)

Each(lengths, keep) ==
  [i \in 1 .. 2 * Len(lengths) |->
     LET length == lengths[(i + 1) \div 2]
     IN IF i % 2 = 1 THEN Read(2) ELSE IF keep THEN Kept(length) ELSE Skip(length)]

Sections(key) == "rope.dimension_sections" \in Occurs[key]

ValueCalls(entry) ==
  LET v == entry.value
  IN CASE entry.type = "string" /\ entry.key \in TextKeys -> ReadText(v)
       [] entry.type = "string" /\ entry.key \notin TextKeys -> <<Read(2), Skip(v)>>
       [] entry.type = "strings" -> <<Read(1), Read(2)>> \o Each(v, entry.key \in ListKeys)
       [] entry.type = "numbers" /\ Sections(entry.key) ->
            <<Read(1), Read(2)>> \o [i \in DOMAIN v |-> Read(1)]
       [] entry.type = "numbers" /\ ~Sections(entry.key) ->
            <<Read(1), Read(2), IF entry.key \in ListKeys THEN Fail ELSE Skip(Len(v))>>
       [] entry.type = "nested" -> <<Read(1), Read(2), Fail>>
       [] entry.type \in {"u32", "bool", "f32"} -> <<Read(1)>>
       [] entry.type = "u64" -> <<Read(2)>>
       [] entry.type = "scalar" -> <<Skip(v)>>
       [] OTHER -> <<Fail>>

\* The calls for a key, its type and its value, and those for a tensor.
EntryCalls(entry) == <<Read(2), Read(1), Read(1)>> \o ValueCalls(entry)

TensorCalls(tensor) ==
  ReadText(tensor.name)
    \o <<Read(1), IF tensor.n_dims > 4 THEN Fail ELSE Read(2 * tensor.n_dims), Read(1), Read(2)>>

\* Mutant of U32Fields: the shorter of two names first.
U32FieldsShortFirst ==
  <<"block_count", "context_length", "embedding_length", "feed_forward_length",
    "attention.head_count", "attention.head_count_kv", "rope.dimension_count", "eos_token_id">>

\* apply_gguf_u32_key asks for the names in this order, some of them left out
\* here, and F32 entries for two more.
U32Fields ==
  <<"block_count", "context_length", "embedding_length", "feed_forward_length",
    "attention.head_count_kv", "attention.head_count", "rope.dimension_count", "eos_token_id">>
F32Fields == <<"layer_norm_rms_epsilon", "rope.freq_base">>

FileFields == ToSet(U32Fields) \union ToSet(F32Fields)

\* No key contains the name of a field but its own, except for one that begins
\* with a shorter name.
KeysApart(set) ==
  \A entry \in set : \A field \in Occurs[entry.key] \intersect FileFields :
    \/ field = entry.key
    \/ field = "attention.head_count" /\ entry.key = "attention.head_count_kv"

\* The field an entry is for: the first name that occurs in its key.
FieldOf(key, names) ==
  {names[i] : i \in {i \in DOMAIN names :
                       /\ names[i] \in Occurs[key]
                       /\ \A j \in 1 .. i - 1 : names[j] \notin Occurs[key]}}

Assigned(entry) ==
  CASE entry.type = "u32" -> FieldOf(entry.key, U32Fields)
    [] entry.type = "u64" -> IF entry.value <= MaxU32 THEN FieldOf(entry.key, U32Fields) ELSE {}
    [] entry.type = "f32" -> FieldOf(entry.key, F32Fields)
    [] entry.type = "bool" -> {entry.key} \intersect {"tokenizer.ggml.add_bos_token"}
    [] OTHER -> {}

\* A list of strings is added to the tokenizer: its length counts.
Loaded(entry) ==
  IF entry.type = "strings" /\ entry.key \in ListKeys
  THEN [key \in {entry.key} |->
          Cardinality({i \in DOMAIN entry.value : entry.value[i] < LongString})]
  ELSE [field \in Assigned(entry) |-> entry.value]

-----------------------------------------------------------------------------

HeaderLength == 6   \* magic, version, and two counts of 8 bytes

EntryLength(entry)   == Total(Lengths(EntryCalls(entry)))
TensorLength(tensor) == 2 + tensor.name + 1 + 2 * tensor.n_dims + 3

\* Where each entry ends, and where each tensor behind the entries does.
EntryEnds(list)   == Sums([i \in DOMAIN list |-> EntryLength(list[i])], Len(list))
TensorEnds(table) == Sums([i \in DOMAIN table |-> TensorLength(table[i])], Len(table))

\* Where the table of the tensors ends in a file that is whole.
WholeLength(list, table) ==
  HeaderLength + EntryEnds(list)[Len(list)] + TensorEnds(table)[Len(table)]

GgufInit ==
  /\ entries \in EntryLists /\ tensors \in TensorLists
  /\ size \in 0 .. WholeLength(entries, tensors)
  /\ pos = 0 /\ kv_index = 0 /\ n_tensors = 0 /\ info = <<>>
  /\ data_offset = 0 /\ gguf_pc = "header"

RefuseFile ==
  gguf_pc' = "refused" /\ UNCHANGED <<file, pos, kv_index, n_tensors, info, data_offset>>

ReadHeader ==
  LET at == Run(<<Read(1), Read(1), Read(2), Read(2)>>)
  IN /\ gguf_pc = "header"
     /\ IF at.done THEN pos' = at.pos /\ gguf_pc' = "metadata"
                        /\ UNCHANGED <<file, kv_index, n_tensors, info, data_offset>>
        ELSE RefuseFile

\* Fields that are assigned once more.
Override(old, new) ==
  [field \in DOMAIN old \union DOMAIN new |->
     IF field \in DOMAIN new THEN new[field] ELSE old[field]]

ReadEntry ==
  /\ gguf_pc = "metadata" /\ kv_index < Len(entries)
  /\ LET entry == entries[kv_index + 1]
         at == Run(EntryCalls(entry))
     IN IF at.done
        THEN /\ pos' = at.pos /\ kv_index' = kv_index + 1
             /\ info' = Override(info, Loaded(entry))
             /\ UNCHANGED <<file, n_tensors, data_offset, gguf_pc>>
        ELSE RefuseFile

EndEntries ==
  /\ gguf_pc = "metadata" /\ kv_index = Len(entries) /\ gguf_pc' = "tensors"
  /\ UNCHANGED <<file, pos, kv_index, n_tensors, info, data_offset>>

ReadTensor ==
  /\ gguf_pc = "tensors" /\ n_tensors < Len(tensors)
  /\ LET at == Run(TensorCalls(tensors[n_tensors + 1]))
     IN IF at.done
        THEN /\ pos' = at.pos /\ n_tensors' = n_tensors + 1
             /\ UNCHANGED <<file, kv_index, info, data_offset, gguf_pc>>
        ELSE RefuseFile

DataAligned(n) == DataAlign * ((n + DataAlign - 1) \div DataAlign)

EndTensors ==
  /\ gguf_pc = "tensors" /\ n_tensors = Len(tensors)
  /\ data_offset' = DataAligned(pos) /\ gguf_pc' = "ok"
  /\ UNCHANGED <<file, pos, kv_index, n_tensors, info>>

GgufNext == ReadHeader \/ ReadEntry \/ EndEntries \/ ReadTensor \/ EndTensors

GgufSpec == GgufInit /\ [][GgufNext]_gguf_vars

-----------------------------------------------------------------------------

\* What the loader cannot read: arrays of arrays, unknown types, tensors of more
\* than four dimensions, tokens that are not strings.
Unsupported ==
  \/ \E i \in DOMAIN entries : Fail \in ToSet(EntryCalls(entries[i]))
  \/ \E i \in DOMAIN tensors : tensors[i].n_dims > 4

\* A download that stopped half way is noticed although values are skipped
\* without looking: a file with at least one tensor is accepted if and only if
\* it has all of its header, and the data begins right behind, aligned.
TruncationNoticed ==
  /\ gguf_pc = "refused" => Unsupported \/ size < WholeLength(entries, tensors)
  /\ gguf_pc = "ok" /\ tensors # <<>> =>
       /\ size = WholeLength(entries, tensors) /\ ~Unsupported
       /\ data_offset % DataAlign = 0 /\ data_offset - size \in 0 .. DataAlign - 1

\* Each field has the value of the entry that is named like it, in whatever order
\* the entries stand, in a file with KeysApart.
Own(field) == {i \in DOMAIN entries : entries[i].key = field}

FieldsOfOwnKeys ==
  gguf_pc = "ok" =>
    /\ \A field \in FileFields \intersect DOMAIN info :
         \E i \in Own(field) : info[field] = entries[i].value
    /\ \A i \in DOMAIN entries :
         \/ entries[i].type = "u32" /\ entries[i].key \in ToSet(U32Fields)
         \/ entries[i].type = "f32" /\ entries[i].key \in ToSet(F32Fields)
         => entries[i].key \in DOMAIN info

\* A file that is cut off is noticed, and each field of one that is not comes
\* from the entry of its name.  Assumes KeysApart of the file; ContextIsTheModels
\* is about the key of real files that is not apart.
FileAsWritten == TruncationNoticed /\ FieldsOfOwnKeys

(* The inductive invariant of the proofs.                                  *)

GgufTypeOK ==
  /\ entries \in EntryLists /\ tensors \in TensorLists
  /\ size \in 0 .. WholeLength(entries, tensors) /\ pos \in Nat /\ data_offset \in Nat
  /\ kv_index \in 0 .. Len(entries) /\ n_tensors \in 0 .. Len(tensors)
  /\ gguf_pc \in {"header", "metadata", "tensors", "ok", "refused"}

\* The stream stands where the entries and tensors that have been read end.
\* Reads alone keep it inside the file, and each tensor ends with one.
StreamInStep ==
  /\ gguf_pc = "header" => pos = 0 /\ kv_index = 0
  /\ gguf_pc \in {"header", "metadata"} => n_tensors = 0
  /\ gguf_pc \in {"tensors", "ok"} => kv_index = Len(entries)
  /\ gguf_pc \in {"metadata", "tensors", "ok"} =>
       pos = HeaderLength + EntryEnds(entries)[kv_index] + TensorEnds(tensors)[n_tensors]
  /\ n_tensors > 0 => pos <= size
  /\ gguf_pc = "ok" => n_tensors = Len(tensors) /\ data_offset = DataAligned(pos)

SupportedSoFar ==
  /\ \A i \in 1 .. kv_index : Fail \notin ToSet(EntryCalls(entries[i]))
  /\ \A i \in 1 .. n_tensors : tensors[i].n_dims <= 4

RefusedForCause ==
  gguf_pc = "refused" => Unsupported \/ size < WholeLength(entries, tensors)

GgufInv == GgufTypeOK /\ StreamInStep /\ SupportedSoFar /\ RefusedForCause

\* What the entries read so far have assigned.
FieldsSoFar ==
  /\ \A field \in FileFields \intersect DOMAIN info :
       \E i \in 1 .. kv_index : entries[i].key = field /\ info[field] = entries[i].value
  /\ \A i \in 1 .. kv_index :
       \/ entries[i].type = "u32" /\ entries[i].key \in ToSet(U32Fields)
       \/ entries[i].type = "f32" /\ entries[i].key \in ToSet(F32Fields)
       => entries[i].key \in DOMAIN info

\* Where the plan speaks of the model's context_length, it means the entry of that
\* name.
ContextIsTheModels ==
  gguf_pc = "ok" => \A i \in Own("context_length") :
                 entries[i].type = "u32" => info["context_length"] = entries[i].value
=============================================================================
