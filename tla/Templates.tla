------------------------------ MODULE Templates ------------------------------
(***************************************************************************)
(* Predefined content: PredefinedContentProvider reads the templates of    *)
(* all layers when the application starts, and PredefinedConfigResolver    *)
(* replaces the references of a request's configuration by them.           *)
(*                                                                         *)
(* A JSON document is a function from paths, sequences of keys, to its     *)
(* leaves; a document that is no object has one leaf, at <<>>.  Lists are  *)
(* leaves, and objects have at least one.  What pydantic makes of a        *)
(* document is a constant.                                                 *)
(***************************************************************************)
EXTENDS Naturals, SequencesExt

CONSTANTS
  BuiltIn,      \* the directory that comes with the application
  Directories,  \* the directories there are: the files of each, by type and name
  Blank,        \* a path of spaces
  Unset,        \* a setting or a reference that is not there
  Null,         \* null in a patch
  Unreadable,   \* the content of a file that cannot be read or parsed
  Invalid,      \* a document that is refused
  Toolset(_),   \* the toolset a document describes, or Invalid
  Tool(_)       \* the name of the tool a document describes, or Invalid

-----------------------------------------------------------------------------
(* __resolve_layers: the deprecated base path counts only without extra paths. *)
Layers(settings) ==
  LET extra == IF settings.extra # Unset THEN settings.extra
               ELSE IF settings.base # Unset THEN <<settings.base>> ELSE <<>>
  IN <<BuiltIn>> \o SelectSeq(extra, LAMBDA path : path # Blank)

(* A path that is no directory or a file that cannot be read is fatal, even a file that a
   later layer replaces. *)
CanStart(settings) ==
  \A path \in ToSet(Layers(settings)) :
    /\ path \in DOMAIN Directories
    /\ \A file \in DOMAIN Directories[path] : Directories[path][file] # Unreadable

(* The files of a type and name, in the order of the layers. *)
Versions(settings, file) ==
  LET found == SelectSeq(Layers(settings), LAMBDA path : file \in DOMAIN Directories[path])
  IN [i \in DOMAIN found |-> Directories[found[i]][file]]

(* __load_all: a later layer replaces the whole file. *)
Content(settings, file) == Last(Versions(settings, file))

IsThere(settings, file) == Versions(settings, file) # <<>>

-----------------------------------------------------------------------------
(* _reject_type_discriminator *)
TouchesType(patch) == \E path \in DOMAIN patch : "type" \in ToSet(path)

(* _do_merge: a leaf stays unless the patch has something at, above or below it. *)
Patched(doc, patch) ==
  LET Apart(p, q) == ~IsPrefix(p, q) /\ ~IsPrefix(q, p)
      kept == {q \in DOMAIN doc : \A p \in DOMAIN patch : Apart(p, q)}
      set == {p \in DOMAIN patch : patch[p] # Null}
  IN [p \in kept \cup set |-> IF p \in set THEN patch[p] ELSE doc[p]]

(* _merge_and_validate: a reference names a template and may have an override. *)
FromTemplate(settings, type, ref) ==
  LET doc == Patched(Content(settings, <<type, ref.template>>), ref.override) IN
  IF TouchesType(ref.override) THEN Invalid
  ELSE IF type = "toolset" THEN Toolset(doc) ELSE Tool(doc)

-----------------------------------------------------------------------------
(* resolve_predefined_toolset, or the toolset as it is configured. *)
Unexpanded(settings, entry) ==
  IF entry.template = Unset THEN entry.set ELSE FromTemplate(settings, "toolset", entry)

(* The tools of a hosting toolset that are references. *)
References(set) ==
  IF set = Invalid \/ set.kind # "deployment" THEN {}
  ELSE {ref \in set.predefined : ref.enabled}

(* expand_predefined_tools: a refused tool is left out. *)
Expanded(settings, set) ==
  [set EXCEPT !.tools =
     @ \cup ({FromTemplate(settings, "tool", ref) : ref \in References(set)} \ {Invalid})]

(* Templates without which the request fails: read_text and read_json raise a KeyError, which
   nobody catches. *)
Needed(settings, config) ==
  LET sets == {Unexpanded(settings, config.asked[t]) :
                 t \in {u \in DOMAIN config.asked :
                          config.asked[u].template = Unset
                            \/ IsThere(settings, <<"toolset", config.asked[u].template>>)}}
  IN {<<"toolset", config.asked[t].template>> :
        t \in {u \in DOMAIN config.asked : config.asked[u].template # Unset}}
     \cup {<<"tool", ref.template>> : ref \in UNION {References(set) : set \in sets}}
     \cup (IF config.prompt = Unset THEN {} ELSE {<<"prompt", config.prompt>>})

(* Resolved, an entry is refused, brings something refused, or is a reference again, which no
   initializer knows what to do with. *)
IsRefused(settings, entry) == Unexpanded(settings, entry) = Invalid

BringsRefused(settings, entry) ==
  \E ref \in References(Unexpanded(settings, entry)) :
    FromTemplate(settings, "tool", ref) = Invalid

IsReferenceAgain(settings, entry) ==
  ~IsRefused(settings, entry) /\ Unexpanded(settings, entry).kind = "predefined"

(* _resolve_tool_sets *)
ResolvedToolsets(settings, config) ==
  [t \in {u \in DOMAIN config.asked :
            ~IsRefused(settings, config.asked[u]) /\ ~IsReferenceAgain(settings, config.asked[u])} |->
     Expanded(settings, Unexpanded(settings, config.asked[t]))]

=============================================================================
