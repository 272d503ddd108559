------------------------------ MODULE Manifest ------------------------------
(***************************************************************************)
(* edgexpu_manifest_load in manifest.c.  The file is JSON, but it is not   *)
(* parsed: for each field in turn its name in quotes is looked for in the  *)
(* whole text, then the next colon, then the next text in quotes or a      *)
(* number.  The path of the artifact is then joined to the directory of    *)
(* the manifest.                                                           *)
(*                                                                         *)
(* The text is a sequence of tokens: texts, numbers, null and punctuation. *)
(* Texts fit in their buffers and contain no quotes.                       *)
(***************************************************************************)
EXTENDS Integers, Sequences, FiniteSetsExt, SequencesExt

CONSTANTS Documents,  \* manifests [before, artifacts, after] of members [key, value]
          Absolute,   \* paths that begin at the root
          TooLong     \* paths too long for their directory

VARIABLES document,
          json,      \* its text
          next,      \* the field that is read next
          manifest,  \* what was read
          pc         \* "read", "ok" or "refused"

vars == <<document, json, next, manifest, pc>>

Text(s)   == <<"text", s>>
Number(s) == <<"number", s>>
Null      == <<"null", "">>
Colon     == <<"colon", "">>
Other     == <<"other", "">>

\* The tokens of the file.
TokensOf(members) ==
  FlattenSeq([i \in DOMAIN members |-> <<Text(members[i].key), Colon, members[i].value, Other>>])

Json(d) ==
  <<Other>> \o TokensOf(d.before) \o <<Text("artifacts"), Colon, Other>>
  \o FlattenSeq([a \in DOMAIN d.artifacts |-> <<Other>> \o TokensOf(d.artifacts[a]) \o <<Other>>])
  \o <<Other, Other>> \o TokensOf(d.after) \o <<Other>>

\* strstr and strchr: the first of these tokens from a position on, {} if none.
First(positions) == IF positions = {} THEN {} ELSE {Min(positions)}
Find(token, from) == First({i \in from .. Len(json) : json[i] = token})

\* Mutant of Behind: the name of the field is not followed up to its colon.
BehindName(field) == {k + 1 : k \in Find(Text(field), 1)}

\* The position behind the colon that follows the name of a field.
Behind(field) ==
  UNION {{c + 1 : c \in Find(Colon, k + 1)} : k \in Find(Text(field), 1)}

\* extract_string: the next text, whatever stands before it.
ExtractString(field) ==
  UNION {{json[i][2] : i \in First({j \in b .. Len(json) : json[j][1] = "text"})} :
           b \in Behind(field)}

\* extract_int: what atoi makes of the next token.
ExtractInt(field) ==
  {IF b <= Len(json) /\ json[b][1] = "number" THEN json[b][2] ELSE "0" : b \in Behind(field)}

\* The fields in the order of the code, and the ones a manifest must have.
Fields ==
  <<"model_id", "family", "parameter_size", "context_length", "fallback_policy",
    "backend", "path", "format",
    "name", "memory_required_mb", "kv_cache_required_mb", "quantization", "command",
    "chat_template">>
Required == {Fields[i] : i \in 1 .. 8}
Integer  == {"context_length", "memory_required_mb", "kv_cache_required_mb"}

Extract(field) == IF field \in Integer THEN ExtractInt(field) ELSE ExtractString(field)

Init ==
  /\ document \in Documents /\ json = Json(document) /\ next = 1 /\ pc = "read"
  /\ manifest = [f \in ToSet(Fields) |-> IF f \in Integer THEN "0" ELSE ""]

ReadField ==
  /\ pc = "read" /\ next <= Len(Fields)
  /\ LET found == Extract(Fields[next])
     IN IF found = {} /\ Fields[next] \in Required
        THEN pc' = "refused" /\ UNCHANGED <<document, json, next, manifest>>
        ELSE /\ next' = next + 1
             /\ manifest' = [manifest EXCEPT ![Fields[next]] =
                               IF found = {} THEN @ ELSE CHOOSE value \in found : TRUE]
             /\ UNCHANGED <<document, json, pc>>

Joined(path) == "dir/" \o path

\* resolve_artifact_path
Resolve ==
  /\ pc = "read" /\ next > Len(Fields)
  /\ IF manifest["path"] \in Absolute \union {""}
     THEN pc' = "ok" /\ UNCHANGED manifest
     ELSE IF manifest["path"] \in TooLong
     THEN pc' = "refused" /\ UNCHANGED manifest
     ELSE pc' = "ok" /\ manifest' = [manifest EXCEPT !["path"] = Joined(@)]
  /\ UNCHANGED <<document, json, next>>

Next == ReadField \/ Resolve

Spec == Init /\ [][Next]_vars

-----------------------------------------------------------------------------

OfArtifact == {"backend", "path", "format", "quantization", "command"}

\* The value of a field as JSON: a member of the object, or of its first artifact.
Written(field) ==
  LET members == IF field \in OfArtifact THEN document.artifacts[1]
                 ELSE document.before \o document.after
  IN {members[i].value : i \in {i \in DOMAIN members : members[i].key = field}}

Value(field) ==
  LET given == {token \in Written(field) : token[1] # "null"}
      value == IF given = {} THEN IF field \in Integer THEN "0" ELSE ""
               ELSE (CHOOSE token \in given : TRUE)[2]
  IN IF field = "path" /\ value \notin Absolute THEN "dir/" \o value ELSE value

\* In whatever order the members of a manifest stand and whichever of them are
\* left out, each field is read from the member of its name: a search through the
\* whole text never ends at a member that comes earlier or belongs elsewhere.
ReadsWhatIsWritten == pc = "ok" => \A field \in ToSet(Fields) : manifest[field] = Value(field)

\* A manifest is refused if and only if a field it must have is not there, or its
\* path has no room for the directory: nothing is filled in from another member.
RefusedIffUnusable ==
  /\ pc = "refused" => (\E field \in Required : Written(field) = {})
                       \/ {token[2] : token \in Written("path")} \intersect TooLong # {}
  /\ pc = "ok" => \A field \in Required : Written(field) # {}

\* The schema lets quantization and command be null: there is none then.
NullIsNone ==
  pc = "ok" => \A field \in {"quantization", "command"} :
                 Written(field) = {Null} => manifest[field] = ""

\* Of several artifacts only the first one is read.
OnlyThePrimary ==
  pc = "ok" => \A field \in {"quantization", "command"} :
                 Written(field) = {} => manifest[field] = ""
=============================================================================
