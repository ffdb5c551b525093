----------------------------- MODULE ToolBatch ------------------------------
(***************************************************************************)
(* The tool calls of one request and what they share: the file cache and   *)
(* the loads of WorkspaceFiles, the promotions of Promotions, and DIAL     *)
(* Core with its other clients.                                            *)
(***************************************************************************)
EXTENDS WorkspaceFiles, Promotions

vars == <<script, task, files, promotions>>

Init == TaskInit /\ FilesInit /\ PromotionsInit

Terminated ==
  /\ \A c \in Calls : Settled(c)
  /\ UNCHANGED vars

FileCallStep(c) == c \in Requested /\ FileStep(c) /\ UNCHANGED promotions

Downloading(c, f) == DownloadStep(c, f) /\ UNCHANGED promotions

Loading(f) == LoadStep(f) /\ UNCHANGED promotions

Asking(c) == c \in Requested /\ AskStep(c) /\ UNCHANGED files

Promoting(x) == PromotionStep(x) /\ UNCHANGED files

Others(f) == OutsideChange(f) /\ UNCHANGED promotions

Next ==
  \/ \E c \in Calls : FileCallStep(c) \/ Asking(c)
  \/ \E c \in Calls, f \in Files : Downloading(c, f)
  \/ \E f \in Files : Loading(f) \/ Others(f)
  \/ \E x \in Urls : Promoting(x)
  \/ Terminated

Spec == Init /\ [][Next]_vars

(* The event loop runs what is ready, and each request of the HTTP clients is answered or
   fails at its timeout. *)
FairSpec ==
  /\ Spec
  /\ \A c \in Calls : WF_vars(FileCallStep(c)) /\ WF_vars(Asking(c))
  /\ \A c \in Calls, f \in Files : WF_vars(Downloading(c, f))
  /\ \A f \in Files : WF_vars(Loading(f))
  /\ \A x \in Urls : WF_vars(Promoting(x))

-----------------------------------------------------------------------------
(* Properties *)

(* Every variable keeps its type; a call has an answer exactly when its task has ended
   (StagedBaseTool.arun). *)
TypeOK == TaskTypeOK /\ FilesTypeOK /\ PromotionsTypeOK

Destroyed(f) == stamp'[f] # stamp[f] /\ f \in present

(* A change a tool makes never destroys content by surprise: a file that is there is
   replaced or removed only by an edit of exactly the content that edit has read
   (etag of download_file, If-Match of write_bytes), by a call that was told to
   overwrite, or by a delete or a move of that very file. *)
OnlyWhatWasSeen ==
  [][\A c \in Calls, f \in Files :
       at[c] = "upload" /\ at'[c] = "reply" /\ Destroyed(f) =>
         \/ Job(c).tool = "edit" /\ download[c][f].data = stamp[f]
         \/ Job(c).force /\ f = Target(c)
         \/ Job(c).tool \in {"delete", "move"} /\ f = Job(c).path]_vars

(* What a tool reads is not older than the changes that calls of this request have been
   told of before it began (invalidate_file_data after each change), unless a download
   or a load was under way when the change was acknowledged: it brings back old bytes. *)
ReadsSeeOwnWrites ==
  \A c \in Calls, f \in Files :
    download[c][f].at = "ok" => download[c][f].data >= download[c][f].floor

(* A url is uploaded to the bucket once in a request, and once more for each of its
   promotions that broke (DialFilePromoter.promote). *)
OneUploadPerUrl == \A x \in Urls : uploads[x] <= 1 + broken[x]

(* Every call ends: no task waits for a load, a promotion or another call for ever
   (arun, load, promote). *)
CallsEnd == <>(\A c \in Calls : Settled(c))

=============================================================================
