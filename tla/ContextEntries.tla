-------------------------- MODULE ContextEntries --------------------------
(***************************************************************************)
(* What the model is told about the files the administrator configured.    *)
(* The entries are built from the configured contexts, folders expanded by *)
(* a listing of DIAL that is cached for the request, and compared with the *)
(* last answer of the available-context tool that the messages hold.       *)
(*                                                                         *)
(* Title, type and description of an entry are one value, what is said     *)
(* `about` it; the files of a folder are listed without a description.     *)
(***************************************************************************)
EXTENDS Naturals, Sequences, SequencesExt, FiniteSets

CONSTANTS
  Files,        \* urls of files in DIAL
  Folders,      \* urls of folders in DIAL
  Plain,        \* what is said about an entry without a description
  Holdings,     \* sets of files a folder can hold
  ContextLists, \* the lists of contexts the application is configured with, one after the other
  Unlisted      \* a folder that was not listed in this request

ASSUME ContextsAssumption ==
  /\ \A list \in ContextLists : list \in Seq(ToSet(list))
  /\ \A holding \in Holdings : holding \subseteq Files

VARIABLES
  contexts,   \* ApplicationConfig.contexts of the request
  dial,       \* the files each folder of DIAL has
  listing,    \* ExpandedContextFileUrls.folder_children: what a listing returned
  expanded    \* ExpandedContextFileUrls.urls

contextVars == <<contexts, dial, listing, expanded>>

-----------------------------------------------------------------------------
(* _expand_folder_context: the contexts that bring an entry for a url, as their own or because
   the folder holds it. *)
Bringing(list, held, u) ==
  {i \in DOMAIN list : list[i].url = u \/ (list[i].url \in Folders /\ u \in held[list[i].url])}

(* Files found in folders; what get_content is offered for. *)
Expanded(list, held) ==
  UNION {held[f] : f \in {c.url : c \in ToSet(list)} \cap Folders}

(* build_context_entries_async: the first context that brings a url counts. *)
Current(list, held) ==
  LET First(u) == list[Min(Bringing(list, held, u))]
  IN [u \in {c.url : c \in ToSet(list)} \cup Expanded(list, held) |->
       IF First(u).url = u THEN First(u).about ELSE Plain]

(* _append_context_entry: the status of a current entry. *)
Entries(seen, current) ==
  LET Status(u) == IF u \notin DOMAIN seen THEN "new"
                   ELSE IF seen[u] # current[u] THEN "updated" ELSE "same"
  IN {[url |-> u, about |-> current[u], status |-> Status(u)] : u \in DOMAIN current}

(* The entries the model knows and that are no longer there. *)
Removed(seen, current) ==
  {[url |-> u, about |-> seen[u], status |-> "removed"] : u \in DOMAIN seen \ DOMAIN current}

IsTold(row) == row.kind = "told"

(* Faulty variant: removed entries are taken for known ones. *)
BugParsed(entries) ==
  [u \in {e.url : e \in entries} |-> (CHOOSE e \in entries : e.url = u).about]

(* _parse_tool_response: removed entries are left out. *)
Parsed(entries) ==
  LET kept == {e \in entries : e.status # "removed"}
  IN [u \in {e.url : e \in kept} |-> (CHOOSE e \in kept : e.url = u).about]

(* extract_seen_entries_from_messages *)
Seen(msgs) ==
  LET i == SelectLastInSeq(msgs, IsTold)
  IN IF i = 0 THEN <<>> ELSE Parsed(msgs[i].entries)

(* should_activate_context_tool: a file or a folder is configured, or one of the
   two tools was called before. *)
Active(list, msgs) ==
  list # <<>> \/ \E i \in DOMAIN msgs : msgs[i].kind \in {"told", "content"}

(* AvailableContextToolResponse *)
Told(seen, current) ==
  [kind |-> "told", entries |-> Entries(seen, current) \cup Removed(seen, current)]

(* DialFolderListingProvider: a listing that breaks counts as an empty folder. *)
Shown(f, broken) == IF f \in broken THEN {} ELSE dial[f]

(* _list_folder_children: either outcome is kept for the request. *)
Listed(broken) ==
  [f \in Folders |->
    IF listing[f] # Unlisted \/ f \notin {c.url : c \in ToSet(contexts)}
      THEN listing[f] ELSE Shown(f, broken)]

(* _AttachmentNotificationInjector: a pair at the end, if anything changed. *)
Notice(msgs, held) ==
  LET seen == Seen(msgs)
      current == Current(contexts, held)
      row == Told(seen, current)
  IN IF ~Active(contexts, msgs) \/ \A e \in row.entries : e.status = "same"
       THEN msgs ELSE Append(msgs, row)

(* The scope of a request ends: what it held is forgotten. *)
ContextForgotten ==
  /\ contexts' = <<>> /\ dial' = [f \in Folders |-> {}]
  /\ listing' = [f \in Folders |-> Unlisted] /\ expanded' = {}

ContextInit ==
  /\ contexts = <<>> /\ dial = [f \in Folders |-> {}]
  /\ listing = [f \in Folders |-> Unlisted] /\ expanded = {}

ContextTypeOK ==
  /\ contexts \in ContextLists \cup {<<>>}
  /\ \A f \in Folders :
       dial[f] \subseteq Files /\ (listing[f] # Unlisted => listing[f] \subseteq Files)
  /\ expanded \subseteq Files

=============================================================================
