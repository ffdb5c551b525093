---------------------------- MODULE GetContent ----------------------------
(***************************************************************************)
(* How files reach the model, over the requests of one conversation: files *)
(* of the user are put in as results of get_content, the model asks for    *)
(* others itself, the attachment filter lets through what the keep policy  *)
(* allows, the recovery policy takes refused files back, and the history   *)
(* policy takes the files out of what is stored (lazy_on_demand).          *)
(*                                                                         *)
(* A call and its result are one row of the messages.  A reference is what *)
(* the model or the user writes; its MIME type is a value of Types or      *)
(* NoType when neither the name nor the server tells.                      *)
(***************************************************************************)
EXTENDS ContextEntries

CONSTANTS
  Refs,         \* references to files; Files are among them
  Kind,         \* classify_url: "dial", "absolute" (a DIAL url with a host), "external", "home", "other"
  HomeUrl,      \* the DIAL url of a reference relative to the agent's home
  NoType,       \* no MIME type known
  Guess,        \* MIME type by the name of the file
  Served,       \* MIME type an external server states
  Declared,     \* MIME types of the deployment (input_attachment_types)
  Narrowed,     \* MIME types of the application (accepted_types)
  Images,       \* MIME types of images
  Uploads,      \* lists of attachments a user message can have
  MaxTurns,     \* bound of the model: requests
  MaxCalls      \* bound of the model: tool calls in a request

ASSUME RefsAssumption ==
  /\ Files \subseteq Refs
  /\ \A r \in Refs : Kind[r] \in {"dial", "absolute", "external", "home", "other"}
  /\ \A f \in Files : Kind[f] = "dial"
  /\ \A files \in Uploads : files \in Seq(ToSet(files)) /\ \A f \in ToSet(files) : f.ref \in Refs
  /\ NoType \notin Declared
  /\ MaxTurns \in Nat /\ MaxCalls \in Nat

VARIABLES
  lazy,      \* the application has the lazy_on_demand strategy
  conv,      \* the rows that the client keeps
  messages,  \* MessagesMixin.messages of the request
  phase,     \* "client", "setup", "loop"; "over": further requests are refused
  ended,     \* how the last turn ended: "answered", "handed" to the client, "failed"
  turns,
  calls,
  home,      \* HomePathResolver: the home directory is resolved
  offered,   \* get_content is among the tools of the request
  retried,   \* the model call is the one after a recovery
  fetching,  \* the policy of the request allows external urls
  broken     \* history: folders whose listing broke in this request

vars == <<contextVars, lazy, conv, messages, phase, ended, turns, calls, home, offered, retried, fetching, broken>>

-----------------------------------------------------------------------------
NoFile == [stored |-> FALSE, type |-> NoType]

User(files) == [kind |-> "user", files |-> files]

(* GetContentToolResponse: the argument of a call of get_content, the status of its
   result, and the file that comes with it. *)
Content(ref, status, file) ==
  [kind |-> "content", ref |-> ref, status |-> status, file |-> file]

(* _error_result *)
Refused(ref) == Content(ref, "failed", NoFile)

(* matches_type *)
Matches(type, types) == type \in types

(* _AttachmentAcceptance.accepts_mime_type *)
Accepts(type) == Matches(type, Declared) /\ Matches(type, Narrowed)

(* attachment_mime_type *)
MimeOf(file) == IF file.type # NoType THEN file.type ELSE Guess[file.ref]

LastUser(msgs) == SelectLastInSeq(msgs, LAMBDA r : r.kind = "user")
LastUpload(msgs) == SelectLastInSeq(msgs, LAMBDA r : r.kind = "user" /\ r.files # <<>>)

(* user_attachments_from_messages *)
UserFiles(msgs) ==
  FlattenSeq([i \in DOMAIN msgs |-> IF msgs[i].kind = "user" THEN msgs[i].files ELSE <<>>])

(* _promote_external: the type the server states, or else that of the attachment. *)
Promoted(file) ==
  [stored |-> TRUE, type |-> IF Served[file.ref] # NoType THEN Served[file.ref] ELSE file.type]

(* _resolve_deliverable_attachment, of one that can be delivered *)
Deliverable(file) ==
  IF Kind[file.ref] = "external" THEN Promoted(file)
  ELSE [stored |-> Kind[file.ref] = "dial", type |-> MimeOf(file)]

(* Faulty variant: the pair of an earlier turn counts as well. *)
BugHasPair(msgs, from, ref) ==
  \E i \in DOMAIN msgs : msgs[i].kind = "content" /\ msgs[i].ref = ref

(* _has_pair_in_current_turn *)
HasPair(msgs, from, ref) ==
  \E i \in DOMAIN msgs : i > from /\ msgs[i].kind = "content" /\ msgs[i].ref = ref

(* The gates of _AttachmentGetContentInjector.transform: by the stated or guessed
   type first, and once more by the type of what was downloaded. *)
Delivers(file, stopped) ==
  /\ Accepts(MimeOf(file))
  /\ Kind[file.ref] \in {"dial", "absolute", "external"} /\ file.ref \notin stopped
  /\ Accepts(Deliverable(file).type)

(* The attachments of user message i that get a pair: those that have none, each reference
   once. *)
Missing(msgs, i, stopped) ==
  LET files == msgs[i].files
  IN {k \in DOMAIN files :
        /\ Delivers(files[k], stopped)
        /\ ~HasPair(msgs, i, files[k].ref)
        /\ \A j \in 1..(k - 1) : files[j].ref = files[k].ref => ~Delivers(files[j], stopped)}

(* The member of a set of numbers that has n - 1 smaller ones. *)
Nth(set, n) == CHOOSE k \in set : Cardinality({j \in set : j <= k}) = n

(* _AttachmentGetContentInjector.transform: the pairs follow the last user message that has
   attachments, in their order. *)
WithUploads(msgs, stopped) ==
  LET user == LastUpload(msgs)
      files == msgs[user].files
      missing == Missing(msgs, user, stopped)
      pairs == [n \in 1..Cardinality(missing) |->
                  LET file == files[Nth(missing, n)]
                  IN Content(file.ref, "loaded", Deliverable(file))]
  IN IF user = 0 THEN msgs
     ELSE SubSeq(msgs, 1, user) \o pairs \o SubSeq(msgs, user + 1, Len(msgs))

(* Promotions that are blocked: by the policy, or by what the server answers. *)
Stopped ==
  LET external == {r \in Refs : Kind[r] = "external"}
  IN IF fetching THEN SUBSET external ELSE {external}

(* Faulty variant: files of folders are not looked at. *)
BugEnabled(msgs, found) ==
  /\ Declared # {}
  /\ \/ fetching
     \/ \E c \in ToSet(contexts) : c.url \in Files /\ Accepts(Guess[c.url])
     \/ \E file \in ToSet(UserFiles(msgs)) : Accepts(MimeOf(file))

(* should_enable_get_content_tool *)
Enabled(msgs, found) ==
  /\ Declared # {}
  /\ \/ fetching
     \/ \E c \in ToSet(contexts) : c.url \in Files /\ Accepts(Guess[c.url])
     \/ \E u \in found : Accepts(Guess[u])
     \/ \E file \in ToSet(UserFiles(msgs)) : Accepts(MimeOf(file))

(* _provide_internal_tools of the strategy *)
Wired(msgs, found) == lazy /\ Enabled(msgs, found)

(* _GetContentKeepPolicy: results of get_content, of files in DIAL storage, of an
   accepted type. *)
Kept(row) ==
  lazy /\ row.kind = "content" /\ row.file.stored /\ Accepts(row.file.type)

(* _LegacyUserImageKeepPolicy: attachments of the user that say they are images. *)
KeptOfUser(file) == ~lazy /\ file.type \in Images

(* _AttachmentFilter: what the model gets of the files. *)
Filtered(row) ==
  CASE row.kind = "content" -> IF Kept(row) THEN row ELSE [row EXCEPT !.file = NoFile]
    [] row.kind = "user" -> [row EXCEPT !.files = SelectSeq(@, KeptOfUser)]
    [] OTHER -> row

Prompt(msgs) == [i \in DOMAIN msgs |-> Filtered(msgs[i])]

-----------------------------------------------------------------------------
(* The user sends a message, or the client what it was handed the calls for;
   meanwhile the application and DIAL may have changed. *)
NewRequest ==
  /\ phase = "client" /\ turns < MaxTurns
  /\ contexts' \in ContextLists
  /\ dial' \in [Folders -> Holdings]
  /\ UNCHANGED <<listing, expanded>>
  /\ IF ended = "handed" THEN messages' = conv
     ELSE \E files \in Uploads : messages' = Append(conv, User(files))
  /\ phase' = "setup" /\ turns' = turns + 1 /\ calls' = 0
  /\ fetching' \in BOOLEAN
  /\ UNCHANGED <<lazy, conv, ended, home, offered, retried, broken>>

(* setup_messages runs the notification, then the files of the user; the tools of
   the request are wired after them. *)
SetUp ==
  /\ phase = "setup"
  /\ \E b \in SUBSET Folders, s \in Stopped :
       LET held == Listed(b)
           noticed == Notice(messages, held)
           found == IF Active(contexts, messages) THEN Expanded(contexts, held) ELSE expanded
       IN /\ broken' = b
          /\ listing' = IF Active(contexts, messages) THEN held ELSE listing
          /\ expanded' = found
          /\ messages' = IF lazy THEN WithUploads(noticed, s) ELSE noticed
          /\ offered' = Wired(messages', found)
  /\ phase' = "loop"
  /\ UNCHANGED <<contexts, dial, lazy, conv, ended, turns, calls, home, retried, fetching>>

(* The model calls a tool, in a call that may be the one after a recovery. *)
Called(row) ==
  /\ phase = "loop" /\ calls < MaxCalls
  /\ messages' = Append(messages, row)
  /\ calls' = calls + 1 /\ retried' = FALSE

(* _AvailableContextTool: the entries again, compared with the last answer. *)
ListContext ==
  /\ Active(contexts, messages)
  /\ Called(Told(Seen(messages), Current(contexts, listing)))
  /\ UNCHANGED <<contextVars, lazy, conv, phase, ended, turns, home, offered, fetching, broken>>

(* _resolve_dial: the first attachment of a user with this url tells the type. *)
DialFile(url) ==
  LET same == SelectSeq(UserFiles(messages), LAMBDA f : f.ref = url)
  IN [stored |-> TRUE, type |-> IF same = <<>> THEN Guess[url] ELSE MimeOf(same[1])]

(* _ensure_mime_accepted and _build_result *)
Result(ref, file) ==
  IF Accepts(file.type) THEN Content(ref, "loaded", file) ELSE Refused(ref)

AskDial(ref) ==
  Kind[ref] = "dial" /\ home' = home /\ Called(Result(ref, DialFile(ref)))

(* _resolve_external; the promotion may be blocked *)
AskExternal(ref) ==
  /\ Kind[ref] = "external" /\ home' = home
  /\ \/ fetching /\ Called(Result(ref, [stored |-> TRUE, type |-> Served[ref]]))
     \/ Called(Refused(ref))

(* HomePathResolver: the home directory is asked for until it is known. *)
AskHome(ref) ==
  /\ Kind[ref] = "home"
  /\ \/ home' = TRUE /\ Called(Result(ref, DialFile(HomeUrl[ref])))
     \/ ~home /\ home' = FALSE /\ Called(Refused(ref))

AskOther(ref) ==
  Kind[ref] \in {"absolute", "other"} /\ home' = home /\ Called(Refused(ref))

(* _GetContentTool, of a reference by its kind *)
AskContent(ref) ==
  /\ offered
  /\ AskDial(ref) \/ AskExternal(ref) \/ AskHome(ref) \/ AskOther(ref)
  /\ UNCHANGED <<contextVars, lazy, conv, phase, ended, turns, offered, fetching, broken>>

(* get_content_recovery_parts, put in the place of a result *)
TakenBack(row) == IF row.kind = "content" THEN Refused(row.ref) ELSE row

(* _GetContentRecoveryPolicy.try_recover, when the model refuses a file of the
   prompt: all results of get_content of this turn are taken back. *)
Recover ==
  /\ phase = "loop" /\ lazy /\ ~retried
  /\ \E i \in DOMAIN messages :
       messages[i].kind = "content" /\ Prompt(messages)[i].file # NoFile
  /\ \E i \in DOMAIN messages : i > LastUser(messages) /\ messages[i].kind = "content"
  /\ messages' = [i \in DOMAIN messages |->
                    IF i > LastUser(messages) THEN TakenBack(messages[i]) ELSE messages[i]]
  /\ retried' = TRUE
  /\ UNCHANGED <<contextVars, lazy, conv, phase, ended, turns, calls, home, offered, fetching, broken>>

(* Faulty variant: the file goes, the text stays. *)
BugStripped(row) ==
  IF row.kind = "content" /\ row.status = "loaded"
    THEN [row EXCEPT !.file = NoFile] ELSE row

(* history_strip_response *)
Removal(row) == Content(row.ref, "removed", NoFile)

(* _GetContentHistoryPolicy, on one row: the file goes, and the text says so. *)
Stripped(row) ==
  IF lazy /\ row.kind = "content" /\ row.file # NoFile THEN Removal(row) ELSE row

Forgotten ==
  /\ ContextForgotten
  /\ messages' = <<>> /\ calls' = 0
  /\ home' = FALSE /\ offered' = FALSE /\ retried' = FALSE
  /\ fetching' = FALSE /\ broken' = {}
  /\ UNCHANGED <<lazy, turns>>

(* _build_tool_execution_history: the rows after the last user message. *)
Turn == SubSeq(messages, LastUser(messages) + 1, Len(messages))

(* The messages of the client with a turn stored in them; what a resumed turn
   stores comes with the user message it resumes. *)
Stored(turn) ==
  LET user == LastUser(messages)
  IN SubSeq(conv, 1, IF ended = "handed" THEN LastUser(conv) - 1 ELSE Len(conv))
       \o <<messages[user]>> \o turn

(* The model answers: the history policies see what is stored.  After a resumed
   turn the shape check refuses the conversation. *)
Finish ==
  /\ phase = "loop"
  /\ ended' = "answered" /\ conv' = Stored([i \in DOMAIN Turn |-> Stripped(Turn[i])])
  /\ phase' = IF ended = "handed" THEN "over" ELSE "client"
  /\ Forgotten

(* The model calls a tool of the client: stored as it is. *)
HandOff ==
  /\ phase = "loop" /\ ended # "handed"
  /\ ended' = "handed" /\ conv' = Stored(Turn)
  /\ phase' = "client"
  /\ Forgotten

(* The turn fails: the client keeps the user message with what was stored, or
   without, or drops it. *)
Fail ==
  /\ phase = "loop" /\ ended # "handed"
  /\ ended' = "failed"
  /\ conv' \in {conv, Stored(<<>>), Stored(Turn)}
  /\ phase' = "client"
  /\ Forgotten

-----------------------------------------------------------------------------
Init ==
  /\ ContextInit
  /\ lazy \in BOOLEAN
  /\ conv = <<>> /\ messages = <<>>
  /\ phase = "client" /\ ended = "answered" /\ turns = 0 /\ calls = 0
  /\ home = FALSE /\ offered = FALSE /\ retried = FALSE
  /\ fetching = FALSE /\ broken = {}

Next ==
  \/ NewRequest \/ SetUp \/ ListContext \/ Recover \/ Finish \/ HandOff \/ Fail
  \/ \E ref \in Refs : AskContent(ref)

Spec == Init /\ [][Next]_vars

-----------------------------------------------------------------------------
RowOK(row) ==
  \/ row.kind = "user" /\ row.files \in Uploads
  \/ row.kind = "told" /\ \A d, e \in row.entries : d.url = e.url => d = e
  \/ row.kind = "content" /\ row.ref \in Refs /\ row.status \in {"loaded", "failed", "removed"}
     /\ (row.file # NoFile => row.status = "loaded")

(* A row of available-context names each url once; a file is only with a result
   that says it was loaded. *)
TypeOK ==
  /\ ContextTypeOK
  /\ phase \in {"client", "setup", "loop", "over"} /\ ended \in {"answered", "handed", "failed"}
  /\ turns \in 0..MaxTurns /\ calls \in 0..MaxCalls
  /\ {lazy, home, offered, retried, fetching} \subseteq BOOLEAN
  /\ \A i \in DOMAIN conv : RowOK(conv[i])
  /\ \A i \in DOMAIN messages : RowOK(messages[i])

(* When the model is called, what it was told last about the configured files is
   what the application and DIAL have now, whatever it was told in earlier turns
   and whichever of them failed: one told row only has the differences, and a row
   of a failed turn is not stored.  A folder whose listing broke is exempt. *)
ContextTold ==
  phase = "loop" /\ broken = {} => Seen(messages) = Current(contexts, dial)

(* A file the model was told of, of a type it accepts, can be asked for: the tool
   is wired from what the notification found, also when it had nothing to say. *)
ListedCanBeLoaded ==
  phase = "loop" =>
    (lazy /\ (\E u \in DOMAIN Seen(messages) \cap Files : Accepts(Guess[u])) => offered)

(* A stored file of an accepted type that the user attaches is given to the model
   in that turn, unless the model refused the files; one of an earlier turn, whose
   result is stored without its file, does not stand in for it. *)
AttachedIsDelivered ==
  phase = "loop" /\ lazy =>
    LET user == LastUser(messages)
    IN \A f \in ToSet(messages[user].files) :
         Kind[f.ref] = "dial" /\ Accepts(MimeOf(f)) =>
           \E i \in DOMAIN messages :
             /\ i > user /\ messages[i].kind = "content" /\ messages[i].ref = f.ref
             /\ Prompt(messages)[i].file # NoFile \/ messages[i].status = "failed"

(* What an answered turn stored holds no file and does not say one is there, also
   when the turn resumed one that was stored with its files. *)
HistoryIsLight ==
  ended = "answered" /\ phase # "loop" =>
    \A i \in DOMAIN conv :
      i > LastUser(conv) /\ conv[i].kind = "content" =>
        conv[i].status # "loaded" /\ conv[i].file = NoFile

=============================================================================
