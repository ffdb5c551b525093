--------------------------- MODULE WorkspaceFiles ---------------------------
(***************************************************************************)
(* The agent's files in DIAL Core and the tools that work on them: the     *)
(* request's cache of file bytes (StateHolder), DialFileService,           *)
(* FileLoaderService and the read, search, edit, write, copy, move, delete *)
(* and web_fetch tools.                                                    *)
(*                                                                         *)
(* DIAL Core handles a request at one moment and its response comes at a   *)
(* later one, so a write is two steps (Serve, Reply) and so is the last    *)
(* part of a download.  Each change of a file gets a stamp of its own: the *)
(* stamp is the etag, and stands for the content.                          *)
(***************************************************************************)
EXTENDS ToolTask

CONSTANTS
  Files,       \* urls of files
  Blank,       \* files whose first content is empty
  Large,       \* files whose first content is over the size limit
  Open         \* files that other clients of DIAL Core change

ASSUME FilesAssumption ==
  /\ Blank \subseteq Files /\ Large \subseteq Files /\ Open \subseteq Files
  /\ \A s \in Scripts :
       /\ s.files \subseteq Files /\ s.others \in Nat
       /\ \A c \in DOMAIN s.calls :
            /\ s.calls[c].path \in Files /\ s.calls[c].dest \in Files
            /\ s.calls[c].names \in Seq(Files) \ {<<>>}

VARIABLES
  present,   \* the files there are
  stamp,     \* the last change of each file
  clock,     \* changes made so far
  outside,   \* those made by others
  cache,     \* StateHolder: bytes and metadata of each url; data 0 is a miss
  loading,   \* FileLoaderService.__inflight, with the task's progress and creator
  download,  \* what each call's download of a file has come to
  attempt,   \* the name __write_unique is trying
  sent,      \* what DIAL Core did with a call's request, and the stamp it gave
  acked,     \* history: the last change a call of this request knows it made
  racing     \* history: files a download of which was under way at that moment

server  == <<present, stamp, clock, outside>>
loader  == <<loading, cache>>
history == <<acked, racing>>
files   == <<server, loader, download, attempt, sent, history>>

-----------------------------------------------------------------------------
NoBytes == [etag |-> 0, data |-> 0]

NoDownload == [at |-> "none", etag |-> 0, data |-> 0, floor |-> 0]

NoTask == [at |-> "none", etag |-> 0, data |-> 0, owner |-> {}]

Empty(f, data) == data = 1 /\ f \in Blank
TooLarge(f) == stamp[f] = 1 /\ f \in Large

(* get_file_data: empty bytes are a miss. *)
Hit(f) == cache[f].data # 0 /\ ~Empty(f, cache[f].data)

(* History: what a reader that starts now must not be older than. *)
Floor(f) == IF f \in racing THEN 0 ELSE acked[f]

(* download_file up to its first await. *)
StartDownload(f) ==
  IF Hit(f)
    THEN [at |-> "ok", etag |-> cache[f].etag, data |-> cache[f].data, floor |-> Floor(f)]
    ELSE [NoDownload EXCEPT !.at = "meta", !.floor = Floor(f)]

Put(c, f, d) == download' = [download EXCEPT ![c][f] = d]

InFlight(d) == d.at \in {"meta", "content", "body"}

FilesInit ==
  /\ present = script.files
  /\ stamp = [f \in Files |-> 1] /\ clock = 1 /\ outside = 0
  /\ cache = [f \in Files |-> NoBytes]
  /\ loading = [f \in Files |-> NoTask]
  /\ download = [c \in Calls |-> [f \in Files |-> NoDownload]]
  /\ attempt = [c \in Calls |-> 1]
  /\ sent = [c \in Calls |-> [is |-> "nothing", stamp |-> 0]]
  /\ acked = [f \in Files |-> 0]
  /\ racing = {}

(* Another client of DIAL Core changes or removes a file. *)
OutsideChange(f) ==
  /\ f \in Open
  /\ outside < script.others
  /\ outside' = outside + 1
  /\ clock' = clock + 1
  /\ stamp' = [stamp EXCEPT ![f] = clock + 1]
  /\ \/ present' = present \cup {f}
     \/ f \in present /\ present' = present \ {f}
  /\ UNCHANGED <<script, task, loader, download, attempt, sent, history>>

-----------------------------------------------------------------------------
(* Tools that read: read_lines, read_chars and search in a file ("read"), search in a
   folder ("scan"), and edit. *)

(* The tool goes on with the download d of its file: any error of _download_text is a
   wrong path, bytes that are no text are not. *)
Continue(c, d) ==
  \/ d.at \in {"gone", "large", "failed"} /\ Settle(c, "invalid")
  \/ d.at = "ok" /\ Settle(c, "error")
  \/ d.at = "ok" /\ Job(c).tool = "read" /\ Settle(c, "ok")
  \* old_string is not there, or not once; no text is in an empty file
  \/ d.at = "ok" /\ Job(c).tool = "edit" /\ Settle(c, "invalid")
  \/ d.at = "ok" /\ Job(c).tool = "edit" /\ ~Empty(Job(c).path, d.data) /\ MoveTo(c, "upload")

(* A path or another argument is refused before anything is asked of DIAL Core. *)
RefuseArguments(c) ==
  /\ at[c] = "start"
  /\ Settle(c, "invalid")
  /\ UNCHANGED <<script, files>>

BeginDownload(c) ==
  LET f == Job(c).path
      d == StartDownload(f)
  IN
  /\ at[c] = "start"
  /\ Job(c).tool \in {"read", "edit"}
  /\ Put(c, f, d)
  /\ IF d.at = "ok" THEN Continue(c, d) ELSE MoveTo(c, "download")
  /\ UNCHANGED <<script, server, loader, attempt, sent, history>>

(* The call's own coroutine awaits the download, or a gather of downloads does. *)
Resume(c, d) == IF at[c] = "download" THEN Continue(c, d) ELSE UNCHANGED task

(* _get_metadata returns or raises, and the size is checked. *)
MetadataArrives(c, f) ==
  LET d == download[c][f] IN
  /\ d.at = "meta"
  /\ \/ /\ f \in present /\ ~TooLarge(f)
        /\ Put(c, f, [d EXCEPT !.at = "content", !.etag = stamp[f]])
        /\ UNCHANGED task
     \/ \E end \in {"gone", "large", "failed"} :
          /\ end = "gone" => f \notin present
          /\ end = "large" => f \in present /\ TooLarge(f)
          /\ Put(c, f, [d EXCEPT !.at = end])
          /\ Resume(c, [d EXCEPT !.at = end])
  /\ UNCHANGED <<script, server, loader, attempt, sent, history>>

(* DIAL Core answers the request for the content. *)
ContentServed(c, f) ==
  LET d == download[c][f] IN
  /\ d.at = "content"
  /\ f \in present
  /\ Put(c, f, [d EXCEPT !.at = "body", !.data = stamp[f]])
  /\ UNCHANGED <<script, task, server, loader, attempt, sent, history>>

(* aget_content returns and the bytes are stored with the metadata. *)
ContentArrives(c, f) ==
  LET d == [download[c][f] EXCEPT !.at = "ok"] IN
  /\ download[c][f].at = "body"
  /\ Put(c, f, d)
  /\ cache' = [cache EXCEPT ![f] = [etag |-> d.etag, data |-> d.data]]
  /\ Resume(c, d)
  /\ UNCHANGED <<script, server, loading, attempt, sent, history>>

(* The file was removed meanwhile, or the transport failed. *)
ContentFails(c, f) ==
  LET d == [download[c][f] EXCEPT !.at = "failed"] IN
  /\ download[c][f].at \in {"content", "body"}
  /\ Put(c, f, d)
  /\ Resume(c, d)
  /\ UNCHANGED <<script, server, loader, attempt, sent, history>>

BeginScan(c) ==
  /\ at[c] = "start"
  /\ Job(c).tool = "scan"
  /\ MoveTo(c, "list")
  /\ UNCHANGED <<script, files>>

(* list_folder returns; the selected files are downloaded together.  It may also raise:
   a wrong path, or an error of DIAL Core. *)
FolderListed(c) ==
  /\ at[c] = "list"
  /\ \/ /\ \E selected \in SUBSET present :
             download' = [download EXCEPT ![c] =
               [f \in Files |-> IF f \in selected THEN StartDownload(f) ELSE @[f]]]
        /\ MoveTo(c, "scan")
     \/ \E outcome \in {"invalid", "error"} : Settle(c, outcome) /\ UNCHANGED download
  /\ UNCHANGED <<script, server, loader, attempt, sent, history>>

(* gather returns when every download has: one that is too large was skipped. *)
ScanEnds(c) ==
  /\ at[c] = "scan"
  /\ \A f \in Files : download[c][f].at \in {"none", "ok", "large"}
  /\ Settle(c, "ok")
  /\ UNCHANGED <<script, files>>

(* gather raises at the first that failed; the others go on by themselves. *)
ScanFails(c) ==
  /\ at[c] = "scan"
  /\ \E f \in Files : download[c][f].at \in {"gone", "failed"}
  /\ Settle(c, "error")
  /\ UNCHANGED <<script, files>>

-----------------------------------------------------------------------------
(* Tools that change files. *)

Writers == {"edit", "write", "save", "copy", "move", "delete"}

(* The file a call's request is about to put. *)
Target(c) ==
  CASE Job(c).tool = "save" -> Job(c).names[attempt[c]]
    [] Job(c).tool \in {"copy", "move"} -> Job(c).dest
    [] OTHER -> Job(c).path

(* write, copy, move and delete send their request at once. *)
BeginChange(c) ==
  /\ at[c] = "start"
  /\ Job(c).tool \in {"write", "copy", "move", "delete"}
  /\ MoveTo(c, "upload")
  /\ UNCHANGED <<script, files>>

(* web_fetch with a save_path: the page is fetched, then saved. *)
BeginSave(c) ==
  /\ at[c] = "start"
  /\ Job(c).tool = "save"
  /\ MoveTo(c, "fetch")
  /\ UNCHANGED <<script, files>>

PageFetched(c) ==
  /\ at[c] = "fetch"
  /\ \/ MoveTo(c, "upload")
     \/ Settle(c, "error")   \* ExternalFetchError, ExternalFetchDisabledError
  /\ UNCHANGED <<script, files>>

(* Faulty variant: an edit is uploaded without If-Match. *)
BugAccepts(c) ==
  CASE Job(c).tool = "delete" -> Job(c).path \in present
    [] Job(c).tool \in {"copy", "move"} ->
         Job(c).path \in present /\ (Job(c).force \/ Job(c).dest \notin present)
    [] Job(c).tool \in {"write", "save"} -> Job(c).force \/ Target(c) \notin present
    [] Job(c).tool = "edit" -> TRUE

(* The condition DIAL Core checks: If-Match, If-None-Match, or the source exists and the
   destination is free or may be replaced. *)
Accepts(c) ==
  LET f == Job(c).path IN
  CASE Job(c).tool = "edit" -> f \in present /\ stamp[f] = download[c][f].etag
    [] Job(c).tool \in {"write", "save"} -> Job(c).force \/ Target(c) \notin present
    [] Job(c).tool = "delete" -> f \in present
    [] Job(c).tool \in {"copy", "move"} ->
         f \in present /\ (Job(c).force \/ Job(c).dest \notin present)

(* Files that a request removes. *)
Removes(c) == IF Job(c).tool \in {"delete", "move"} THEN {Job(c).path} ELSE {}
Puts(c) == IF Job(c).tool = "delete" THEN {} ELSE {Target(c)}

(* DIAL Core handles the request of call c. *)
Serve(c) ==
  /\ at[c] = "upload"
  /\ MoveTo(c, "reply")
  /\ \/ /\ Accepts(c)
        /\ clock' = clock + 1
        /\ present' = (present \ Removes(c)) \cup Puts(c)
        /\ stamp' = [f \in Files |-> IF f \in Removes(c) \cup Puts(c) THEN clock + 1 ELSE stamp[f]]
        /\ sent' = [sent EXCEPT ![c] = [is |-> "applied", stamp |-> clock + 1]]
     \/ /\ ~Accepts(c)
        /\ sent' = [sent EXCEPT ![c] = [is |-> "refused", stamp |-> 0]]
        /\ UNCHANGED <<present, stamp, clock>>
     \/ \E e \in {"denied", "error"} :
          /\ sent' = [sent EXCEPT ![c] = [is |-> e, stamp |-> 0]]
          /\ UNCHANGED <<present, stamp, clock>>
  /\ UNCHANGED <<script, outside, loader, download, attempt, history>>

(* Faulty variant: a write does not drop the bytes that were cached. *)
BugForgets(c) == Removes(c)

(* What DialFileService drops from the cache: nothing for copy, the source for move. *)
Forgets(c) ==
  CASE Job(c).tool = "copy" -> {}
    [] Job(c).tool = "move" -> {Job(c).path}
    [] OTHER -> {Target(c)}

(* History: a download of f that was served and not stored yet brings back old bytes, and
   so does a load that is not taken out of __inflight yet. *)
Raced(f) ==
  \/ \E c \in Calls : download[c][f].at = "body"
  \/ loading[f].at \in {"body", "ok"}

(* History: the files whose change later readers see; the destination of a copy or a move
   is none of them. *)
Announced(c) ==
  Removes(c) \cup (IF Job(c).tool \in {"copy", "move"} THEN {} ELSE Puts(c))

Acknowledge(c) ==
  /\ cache' = [f \in Files |-> IF f \in Forgets(c) THEN NoBytes ELSE cache[f]]
  /\ acked' = [f \in Files |-> IF f \in Announced(c) THEN sent[c].stamp ELSE acked[f]]
  /\ racing' = {f \in Files : IF f \in Announced(c) THEN Raced(f) ELSE f \in racing}

(* Faulty variant: the name that was taken is tried again. *)
BugNextName(c) == attempt[c]

(* _with_suffix of the next attempt *)
NextName(c) == attempt[c] + 1

(* The response comes. *)
ReplyArrives(c) ==
  /\ at[c] = "reply"
  /\ \/ sent[c].is = "applied" /\ Acknowledge(c) /\ Settle(c, "ok") /\ UNCHANGED attempt
     \/ /\ sent[c].is \in {"refused", "denied"}
        /\ ~(Job(c).tool = "save" /\ sent[c].is = "refused")
        /\ Settle(c, "invalid")
        /\ UNCHANGED <<cache, history, attempt>>
     \/ sent[c].is = "error" /\ Settle(c, "error") /\ UNCHANGED <<cache, history, attempt>>
     \* __write_unique: the name is taken, the next one is tried
     \/ /\ Job(c).tool = "save" /\ sent[c].is = "refused"
        /\ IF attempt[c] < Len(Job(c).names)
             THEN attempt' = [attempt EXCEPT ![c] = NextName(c)] /\ MoveTo(c, "upload")
             ELSE Settle(c, "invalid") /\ UNCHANGED attempt
        /\ UNCHANGED <<cache, history>>
  /\ UNCHANGED <<script, server, loading, download, sent>>

(* The response is lost: the change may have been made and the cache is left alone. *)
ReplyLost(c) ==
  /\ at[c] = "reply"
  /\ Settle(c, "error")
  /\ UNCHANGED <<script, files>>

-----------------------------------------------------------------------------
(* A tool with a file reference among its arguments ("attach"): the bytes are loaded
   before its body runs. *)

(* FileLoaderService.load up to its await. *)
BeginLoad(c) ==
  LET f == Job(c).path
      mine == [NoDownload EXCEPT !.floor = Floor(f)]
  IN
  /\ at[c] = "start"
  /\ Job(c).tool = "attach"
  /\ CASE Hit(f) ->
            /\ Put(c, f, StartDownload(f))
            /\ MoveTo(c, "body")
            /\ loading' = loading
       [] ~Hit(f) /\ loading[f].at = "none" ->
            /\ Put(c, f, [mine EXCEPT !.at = "waiting"])
            /\ MoveTo(c, "load")
            /\ loading' = [loading EXCEPT ![f] = [NoTask EXCEPT !.at = "meta", !.owner = {c}]]
       [] ~Hit(f) /\ loading[f].at # "none" ->
            /\ IF loading[f].at \in {"ok", "failed"}   \* a task that is done, not yet popped
                 THEN Put(c, f, [mine EXCEPT !.at = loading[f].at, !.etag = loading[f].etag,
                                             !.data = loading[f].data])
                 ELSE Put(c, f, [mine EXCEPT !.at = "waiting"])
            /\ MoveTo(c, "load")
            /\ loading' = loading
  /\ UNCHANGED <<script, server, cache, attempt, sent, history>>

(* The shared task ends: each call that awaits it is given its result. *)
LoadEnds(f, t) ==
  /\ loading' = [loading EXCEPT ![f] = t]
  /\ download' = [c \in Calls |->
       IF download[c][f].at = "waiting"
         THEN [download[c] EXCEPT ![f] =
                [@ EXCEPT !.at = t.at, !.etag = t.etag, !.data = t.data]]
         ELSE download[c]]

(* __do_load and DialDownloader.fetch *)
LoadStep(f) ==
  LET t == loading[f] IN
  /\ \/ /\ t.at = "meta" /\ f \in present /\ ~TooLarge(f)
        /\ loading' = [loading EXCEPT ![f] = [t EXCEPT !.at = "content", !.etag = stamp[f]]]
        /\ UNCHANGED <<download, cache>>
     \/ /\ t.at = "content" /\ f \in present
        /\ loading' = [loading EXCEPT ![f] = [t EXCEPT !.at = "body", !.data = stamp[f]]]
        /\ UNCHANGED <<download, cache>>
     \/ /\ t.at = "body"
        /\ LoadEnds(f, [t EXCEPT !.at = "ok"])
        /\ cache' = [cache EXCEPT ![f] = [etag |-> t.etag, data |-> t.data]]
     \/ /\ InFlight(t)   \* too large, removed, or an error of the transport
        /\ LoadEnds(f, [t EXCEPT !.at = "failed", !.data = 0])
        /\ cache' = cache
  /\ UNCHANGED <<script, task, server, attempt, sent, history>>

(* The await returns or raises; the creator takes the task out of __inflight. *)
LoadReturns(c) ==
  LET f == Job(c).path IN
  /\ at[c] = "load"
  /\ download[c][f].at \in {"ok", "failed"}
  /\ IF download[c][f].at = "ok" THEN MoveTo(c, "body") ELSE Settle(c, "error")
  /\ loading' = IF c \in loading[f].owner THEN [loading EXCEPT ![f] = NoTask] ELSE loading
  /\ UNCHANGED <<script, server, cache, download, attempt, sent, history>>

(* The tool's own call, under its timeout. *)
BodyEnds(c) ==
  /\ at[c] = "body"
  /\ \E outcome \in {"ok", "error", "timeout"} : Settle(c, outcome)
  /\ UNCHANGED <<script, files>>

-----------------------------------------------------------------------------
FileTools == Writers \cup {"read", "scan", "attach"}

FileStep(c) ==
  /\ Job(c).tool \in FileTools
  /\ \/ RefuseArguments(c) \/ BeginDownload(c)
     \/ BeginScan(c) \/ FolderListed(c) \/ ScanEnds(c) \/ ScanFails(c)
     \/ BeginChange(c) \/ BeginSave(c) \/ PageFetched(c)
     \/ Serve(c) \/ ReplyArrives(c) \/ ReplyLost(c)
     \/ BeginLoad(c) \/ LoadReturns(c) \/ BodyEnds(c)

DownloadStep(c, f) ==
  MetadataArrives(c, f) \/ ContentServed(c, f) \/ ContentArrives(c, f) \/ ContentFails(c, f)

-----------------------------------------------------------------------------
Stamps == 0..clock

FilesTypeOK ==
  /\ present \subseteq Files
  /\ clock \in Nat \ {0} /\ outside \in 0..script.others
  /\ stamp \in [Files -> 1..clock]
  /\ cache \in [Files -> [etag : Stamps, data : Stamps]]
  /\ loading \in [Files -> [at : {"none", "meta", "content", "body", "ok", "failed"},
                            etag : Stamps, data : Stamps, owner : SUBSET Calls]]
  /\ download \in [Calls -> [Files ->
       [at : {"none", "waiting", "meta", "content", "body", "ok", "gone", "large", "failed"},
        etag : Stamps, data : Stamps, floor : Stamps]]]
  /\ attempt \in [Calls -> Nat \ {0}]
  /\ sent \in [Calls -> [is : {"nothing", "applied", "refused", "denied", "error"},
                         stamp : Stamps]]
  /\ acked \in [Files -> Stamps] /\ racing \subseteq Files

=============================================================================
