--------------------------- MODULE ToolBatch_proofs ---------------------------
(***************************************************************************)
(* Proofs about ToolBatch for every set of calls, files and urls: what the *)
(* calls of a request see of the files they share, and how often they      *)
(* upload an external url.                                                 *)
(***************************************************************************)
EXTENDS ToolBatch, TLAPS

-----------------------------------------------------------------------------
(* The inductive invariant. *)

(* A request is one of those that may be; a call that is not in it never begins, and the
   name that __write_unique tries is one there is. *)
RequestInv ==
  /\ script \in Scripts
  /\ \A c \in Calls \ Requested : at[c] = "absent"
  /\ \A c \in Calls \cap Requested : attempt[c] \in 1..Len(Job(c).names)

(* What is read of file f: the etag is never newer than the bytes, and neither is newer
   than the file. *)
Dated(f, d) ==
  /\ d.etag <= stamp[f] /\ d.data <= stamp[f]
  /\ d.at \in {"body", "ok"} => d.etag <= d.data

(* Bytes that are as new as the last change that was acknowledged, unless the file raced
   with it. *)
Recent(f, data) == f \notin racing => acked[f] <= data

CacheInv(f, e) ==
  e.etag <= e.data /\ e.data <= stamp[f] /\ (e.data # 0 => Recent(f, e.data))

LoadInv(f, t) == Dated(f, t) /\ (t.at \in {"body", "ok"} => Recent(f, t.data))

(* A reader's floor is a change that was made, and its bytes, or those of the load t it
   waits for, are not older. *)
DownloadInv(f, d, t) ==
  /\ Dated(f, d)
  /\ d.at = "body" => Recent(f, d.data)
  /\ d.floor <= stamp[f]
  /\ d.at \in {"body", "ok"} => d.floor <= d.data
  /\ d.at = "waiting" /\ t.at = "body" => d.floor <= t.data

FilesInv ==
  \A f \in Files :
    /\ acked[f] <= stamp[f]
    /\ CacheInv(f, cache[f])
    /\ LoadInv(f, loading[f])
    /\ \A c \in Calls : DownloadInv(f, download[c][f], loading[f])

(* A call that has not begun has read nothing; one that awaits a download awaits that of
   its own file, and an edit is uploaded when that has been read.  The stamp in a response
   is not newer than the files it is about. *)
ChangesInv ==
  /\ \A c \in Calls, f \in Files :
       \/ at[c] \in {"start", "absent"}
       \/ at[c] = "download" /\ c \in Requested /\ f # Job(c).path
       => download[c][f].at = "none"
  /\ \A c \in Calls \cap Requested :
       /\ at[c] = "reply" /\ sent[c].is = "applied" =>
            \A f \in Announced(c) : sent[c].stamp <= stamp[f]
       /\ at[c] = "upload" /\ Job(c).tool = "edit" => download[c][Job(c).path].at = "ok"
       /\ at[c] = "fetch" => Job(c).tool = "save"
       /\ at[c] = "upload" => Job(c).tool \in Writers

(* A url has been uploaded by the promotion that holds it now, or by one that broke. *)
UploadsInv ==
  \A x \in Urls :
    uploads[x] <= broken[x] + (IF promo[x].at \in {"stored", "done"} THEN 1 ELSE 0)

IInv == TypeOK /\ RequestInv /\ FilesInv /\ ChangesInv /\ UploadsInv

-----------------------------------------------------------------------------
(* The task of a call. *)

Outcomes == {"ok", "cancelled", "invalid", "error", "timeout"}

Places == {"download", "list", "scan", "fetch", "upload", "reply", "load", "body", "history",
           "promote", "expired", "model"}

(* The task of call c goes on to a place, or ends: the others stay where they are. *)
Goes(c, place) ==
  /\ TaskTypeOK'
  /\ at'[c] = place
  /\ \A d \in Calls : d # c => at'[d] = at[d]

(* A tool that ends has an answer, whatever its strategies are (process_fallback). *)
LEMMA AnswerType ==
  ASSUME NEW c, NEW outcome \in Outcomes
  PROVE  Answer(c, outcome) \in Answers \ {"none"}
<1>1. CASE outcome \in {"ok", "cancelled", "invalid"}
  BY <1>1 DEF Answer, Answers
<1>2. CASE outcome \in {"error", "timeout"}
  BY <1>2 DEF Answer, Answers, Fallback
<1> QED
  BY <1>1, <1>2 DEF Outcomes

LEMMA SettleGoes ==
  ASSUME TaskTypeOK, NEW c \in Calls, NEW outcome \in Outcomes, Settle(c, outcome)
  PROVE  Goes(c, "done")
BY AnswerType DEF Settle, Goes, TaskTypeOK

LEMMA MoveGoes ==
  ASSUME TaskTypeOK, NEW c \in Calls, NEW place \in Places, at[c] # "done", MoveTo(c, place)
  PROVE  Goes(c, place)
BY DEF MoveTo, Goes, TaskTypeOK, Places

-----------------------------------------------------------------------------
(* Calls and files. *)

LEMMA JobType ==
  ASSUME RequestInv, NEW c \in Calls \cap Requested
  PROVE  /\ Job(c).path \in Files /\ Job(c).dest \in Files
         /\ Job(c).names \in Seq(Files) \ {<<>>} /\ Target(c) \in Files
<1>1. /\ Job(c).path \in Files /\ Job(c).dest \in Files
      /\ Job(c).names \in Seq(Files) \ {<<>>}
  BY FilesAssumption DEF RequestInv, Requested, Job
<1>2. Job(c).names[attempt[c]] \in Files
  <2>1. attempt[c] \in 1..Len(Job(c).names)
    BY DEF RequestInv
  <2> QED
    BY <1>1, <2>1
<1> QED
  BY <1>1, <1>2 DEF Target

(* A download begins with cached bytes that are recent, or with none (download_file). *)
LEMMA StartDownloadInv ==
  ASSUME FilesTypeOK, FilesInv, NEW f \in Files, NEW t
  PROVE  /\ StartDownload(f) \in [at : {"ok", "meta"}, etag : Stamps, data : Stamps, floor : Stamps]
         /\ DownloadInv(f, StartDownload(f), t)
<1>1. /\ cache[f] \in [etag : Stamps, data : Stamps] /\ CacheInv(f, cache[f])
      /\ acked[f] \in Stamps /\ acked[f] <= stamp[f] /\ stamp[f] \in Nat /\ clock \in Nat
  BY DEF FilesTypeOK, FilesInv, Stamps
<1>2. CASE Hit(f)
  BY <1>1, <1>2 DEF StartDownload, Hit, Floor, CacheInv, DownloadInv, Dated, Recent, Stamps
<1>3. CASE ~Hit(f)
  <2>1. StartDownload(f) = [at |-> "meta", etag |-> 0, data |-> 0, floor |-> Floor(f)]
    BY <1>3 DEF StartDownload, NoDownload
  <2>2. Floor(f) \in Stamps /\ Floor(f) <= stamp[f]
    BY <1>1 DEF Floor, Stamps
  <2> QED
    BY <1>1, <2>1, <2>2 DEF DownloadInv, Dated, Stamps
<1> QED
  BY <1>2, <1>3

(* What a step brings in that changes nothing at DIAL Core keeps the invariant of files. *)
LEMMA FilesKept ==
  ASSUME FilesInv,
         \A f \in Files : CacheInv(f, cache'[f]) /\ LoadInv(f, loading'[f]),
         \A f \in Files, c \in Calls : DownloadInv(f, download'[c][f], loading'[f]),
         UNCHANGED <<stamp, acked, racing>>
  PROVE  FilesInv'
BY DEF FilesInv, CacheInv, LoadInv, DownloadInv, Dated, Recent

(* A step of call c, or for its sake, that is no request to change a file. *)
LEMMA CallGoesOn ==
  ASSUME IInv, NEW c \in Calls, TaskTypeOK', FilesTypeOK', FilesInv',
         \A d \in Calls : d # c => at'[d] = at[d] /\ download'[d] = download[d],
         at'[c] = "reply" => at[c] = "reply",
         c \notin Requested => at'[c] = "absent",
         c \in Requested /\ at'[c] = "upload" /\ Job(c).tool = "edit" =>
           download'[c][Job(c).path].at = "ok",
         c \in Requested /\ at'[c] = "fetch" => Job(c).tool = "save",
         c \in Requested /\ at'[c] = "upload" => Job(c).tool \in Writers,
         \A f \in Files :
           \/ at'[c] \in {"start", "absent"}
           \/ at'[c] = "download" /\ c \in Requested /\ f # Job(c).path
           => download'[c][f].at = "none",
         UNCHANGED <<script, server, attempt, sent, promotions>>
  PROVE  IInv'
<1> USE DEF server, promotions
<1>1. TypeOK'
  BY DEF IInv, TypeOK, PromotionsTypeOK
<1>2. RequestInv'
  BY DEF IInv, RequestInv, Requested, Job
<1>3. ChangesInv'
  <2>1. \A d \in Calls : Announced(d)' = Announced(d)
    BY DEF Announced, Removes, Puts, Target, Job
  <2>2. \A d \in Calls : Job(d)' = Job(d) /\ (d \in Requested)' = (d \in Requested)
    BY DEF Job, Requested
  <2>3. ASSUME NEW d \in Calls, NEW f \in Files,
               \/ at'[d] \in {"start", "absent"}
               \/ at'[d] = "download" /\ d \in Requested /\ f # Job(d).path
        PROVE  download'[d][f].at = "none"
    BY <2>3 DEF IInv, ChangesInv
  <2>4. ASSUME NEW d \in Calls \cap Requested
        PROVE  /\ at'[d] = "reply" /\ sent[d].is = "applied" =>
                    \A f \in Announced(d) : sent[d].stamp <= stamp[f]
               /\ at'[d] = "upload" /\ Job(d).tool = "edit" => download'[d][Job(d).path].at = "ok"
               /\ at'[d] = "fetch" => Job(d).tool = "save"
               /\ at'[d] = "upload" => Job(d).tool \in Writers
    BY DEF IInv, ChangesInv
  <2> QED
    BY <2>1, <2>2, <2>3, <2>4 DEF ChangesInv
<1>4. UploadsInv'
  BY DEF IInv, UploadsInv
<1> QED
  BY <1>1, <1>2, <1>3, <1>4 DEF IInv

(* A step that is about the task of a call alone. *)
LEMMA TaskGoesOn ==
  ASSUME IInv, NEW c \in Calls \cap Requested, NEW place, Goes(c, place),
         place \notin {"start", "absent", "download", "reply"},
         place = "upload" => Job(c).tool \in Writers \ {"edit"}, place = "fetch" => Job(c).tool = "save",
         UNCHANGED <<script, files, promotions>>
  PROVE  IInv'
<1> USE DEF files, server, loader, history
<1>1. FilesTypeOK'
  BY DEF IInv, TypeOK, FilesTypeOK, Stamps
<1>2. FilesInv'
  BY FilesKept DEF IInv, FilesInv
<1> QED
  BY <1>1, <1>2, CallGoesOn DEF Goes

(* A download of call c is at d now, and may have put its bytes in the cache. *)
LEMMA DownloadGoesOn ==
  ASSUME IInv, NEW c \in Calls, NEW f \in Files, NEW d, Put(c, f, d),
         d \in [at : {"waiting", "meta", "content", "body", "ok", "gone", "large", "failed"},
                etag : Stamps, data : Stamps, floor : Stamps],
         DownloadInv(f, d, loading'[f]),
         loading' \in [Files -> [at : {"none", "meta", "content", "body", "ok", "failed"},
                                 etag : Stamps, data : Stamps, owner : SUBSET Calls]],
         cache' \in [Files -> [etag : Stamps, data : Stamps]],
         \A g \in Files : CacheInv(g, cache'[g]) /\ LoadInv(g, loading'[g]),
         \A g \in Files : \/ loading'[g].at = loading[g].at /\ loading'[g].data = loading[g].data
                          \/ loading'[g].at # "body",
         UNCHANGED <<script, server, attempt, sent, history>>
  PROVE  /\ FilesTypeOK' /\ FilesInv'
         /\ download'[c][f] = d
         /\ \A g \in Files : g # f => download'[c][g] = download[c][g]
         /\ \A e \in Calls : e # c => download'[e] = download[e]
<1> USE DEF server, history
<1>1. \A e \in Calls, g \in Files :
        download'[e][g] = IF e = c /\ g = f THEN d ELSE download[e][g]
  BY DEF IInv, TypeOK, FilesTypeOK, Put
<1>2. \A e \in Calls : e # c => download'[e] = download[e]
  BY DEF IInv, TypeOK, FilesTypeOK, Put
<1>3. FilesTypeOK'
  <2> DEFINE Ds == [at : {"none", "waiting", "meta", "content", "body", "ok", "gone", "large", "failed"},
                    etag : Stamps, data : Stamps, floor : Stamps]
  <2>1. d \in Ds /\ download \in [Calls -> [Files -> Ds]]
    BY DEF IInv, TypeOK, FilesTypeOK
  <2>2. download' \in [Calls -> [Files -> Ds]]
    <3> HIDE DEF Ds
    <3> QED
      BY <2>1 DEF Put
  <2>3. Stamps' = Stamps
    BY DEF Stamps
  <2> QED
    BY <2>2, <2>3 DEF IInv, TypeOK, FilesTypeOK
<1>4. \A e \in Calls, g \in Files : DownloadInv(g, download'[e][g], loading'[g])
  BY <1>1 DEF IInv, FilesInv, DownloadInv
<1>5. FilesInv'
  BY <1>4, FilesKept DEF IInv
<1> QED
  BY <1>1, <1>2, <1>3, <1>5

-----------------------------------------------------------------------------
(* The steps of WorkspaceFiles that read. *)

(* Steps that begin or end a call, or wait for something else than files. *)
LEMMA WaitKeepsIInv ==
  ASSUME IInv, NEW c \in Calls \cap Requested, UNCHANGED promotions,
         \/ RefuseArguments(c) \/ BeginScan(c) \/ ScanEnds(c) \/ ScanFails(c) \/ BeginChange(c)
         \/ BeginSave(c) \/ PageFetched(c) \/ ReplyLost(c) \/ BodyEnds(c)
  PROVE  IInv'
<1>1. UNCHANGED <<script, files>> /\ at[c] # "done" /\ TaskTypeOK
  BY DEF RefuseArguments, BeginScan, ScanEnds, ScanFails, BeginChange, BeginSave, PageFetched,
         ReplyLost, BodyEnds, IInv, TypeOK
<1>2. \/ \E outcome \in Outcomes : Settle(c, outcome)
      \/ \E place \in {"list", "upload", "fetch"} :
           /\ MoveTo(c, place)
           /\ place = "upload" => Job(c).tool \in Writers \ {"edit"}
           /\ place = "fetch" => Job(c).tool = "save"
  BY DEF RefuseArguments, BeginScan, ScanEnds, ScanFails, BeginChange, BeginSave, PageFetched,
         ReplyLost, BodyEnds, Outcomes, Writers, IInv, ChangesInv
<1>3. \E place \in {"list", "upload", "fetch", "done"} :
        /\ Goes(c, place)
        /\ place = "upload" => Job(c).tool \in Writers \ {"edit"}
        /\ place = "fetch" => Job(c).tool = "save"
  BY <1>1, <1>2, SettleGoes, MoveGoes DEF Places
<1> QED
  BY <1>1, <1>3, TaskGoesOn

(* A tool that goes on with its download ends, or uploads an edit of what it has read. *)
LEMMA ContinueGoes ==
  ASSUME TaskTypeOK, NEW c \in Calls, at[c] # "done", NEW d, Continue(c, d)
  PROVE  \E place \in {"upload", "done"} : Goes(c, place) /\ (place = "upload" => d.at = "ok" /\ Job(c).tool = "edit")
<1>1. \/ \E outcome \in Outcomes : Settle(c, outcome)
      \/ MoveTo(c, "upload") /\ d.at = "ok" /\ Job(c).tool = "edit"
  BY DEF Continue, Outcomes
<1> QED
  BY <1>1, SettleGoes, MoveGoes DEF Places

LEMMA BeginDownloadKeepsIInv ==
  ASSUME IInv, NEW c \in Calls \cap Requested, BeginDownload(c), UNCHANGED promotions
  PROVE  IInv'
<1> DEFINE f == Job(c).path
           d == StartDownload(f)
<1> USE DEF loader
<1>1. f \in Files
  BY JobType DEF IInv
<1>2. /\ d \in [at : {"ok", "meta"}, etag : Stamps, data : Stamps, floor : Stamps]
      /\ DownloadInv(f, d, loading[f])
  BY <1>1, StartDownloadInv DEF IInv, TypeOK
<1>3. \E place \in {"download", "upload", "done"} :
        Goes(c, place) /\ (place = "upload" => d.at = "ok" /\ Job(c).tool = "edit")
  <2>1. TaskTypeOK /\ at[c] # "done"
    BY DEF BeginDownload, IInv, TypeOK
  <2>2. Continue(c, d) \/ MoveTo(c, "download")
    BY DEF BeginDownload
  <2> QED
    BY <2>1, <2>2, ContinueGoes, MoveGoes DEF Places
<1>4. Put(c, f, d) /\ UNCHANGED <<script, server, loader, attempt, sent, history>>
  BY DEF BeginDownload
<1>5. \A g \in Files : download[c][g].at = "none"
  BY DEF BeginDownload, IInv, ChangesInv
<1> HIDE DEF d, f
<1>6. /\ FilesTypeOK' /\ FilesInv'
      /\ download'[c][f] = d
      /\ \A g \in Files : g # f => download'[c][g] = download[c][g]
      /\ \A e \in Calls : e # c => download'[e] = download[e]
  BY <1>1, <1>2, <1>4, DownloadGoesOn DEF IInv, TypeOK, FilesTypeOK, FilesInv
<1> QED
  BY <1>3, <1>4, <1>5, <1>6, CallGoesOn DEF Goes, Writers, f

(* A download that is under way comes to d, and the call resumes when it ends. *)
LEMMA ResumeKeepsIInv ==
  ASSUME IInv, NEW c \in Calls, NEW f \in Files, NEW d, Put(c, f, d),
         InFlight(download[c][f]),
         d \in [at : {"content", "body", "ok", "gone", "large", "failed"},
                etag : Stamps, data : Stamps, floor : Stamps],
         DownloadInv(f, d, loading[f]),
         Resume(c, d) \/ UNCHANGED task,
         cache' \in [Files -> [etag : Stamps, data : Stamps]],
         \A g \in Files : CacheInv(g, cache'[g]),
         UNCHANGED <<script, server, loading, attempt, sent, history, promotions>>
  PROVE  IInv'
<1>1. /\ FilesTypeOK' /\ FilesInv'
      /\ download'[c][f] = d
      /\ \A g \in Files : g # f => download'[c][g] = download[c][g]
      /\ \A e \in Calls : e # c => download'[e] = download[e]
  BY DownloadGoesOn DEF IInv, TypeOK, FilesTypeOK, FilesInv
<1>2. at[c] \notin {"start", "absent"} /\ c \in Requested
  BY DEF IInv, ChangesInv, RequestInv, InFlight
<1>3. CASE UNCHANGED task
  <2>1. at[c] = "upload" /\ Job(c).tool = "edit" => Job(c).path # f
    BY <1>2 DEF IInv, ChangesInv, InFlight
  <2>2. Job(c).path \in Files
    BY <1>2, JobType DEF IInv
  <2>3. at[c] = "download" => Job(c).path = f
    BY <1>2 DEF IInv, ChangesInv, InFlight
  <2>4. /\ at[c] = "upload" /\ Job(c).tool = "edit" => download'[c][Job(c).path].at = "ok"
        /\ at[c] = "fetch" => Job(c).tool = "save"
        /\ at[c] = "upload" => Job(c).tool \in Writers
    BY <1>1, <1>2, <2>1, <2>2 DEF IInv, ChangesInv
  <2>5. TaskTypeOK' /\ at' = at
    BY <1>3 DEF IInv, TypeOK, TaskTypeOK, task
  <2>6. \A g \in Files : at[c] = "download" /\ g # Job(c).path => download'[c][g].at = "none"
    BY <1>1, <1>2, <2>3 DEF IInv, ChangesInv
  <2> QED
    BY <1>1, <1>2, <2>4, <2>5, <2>6, CallGoesOn
<1>4. CASE at[c] = "download" /\ Continue(c, d)
  <2>1. Job(c).path = f
    BY <1>2, <1>4 DEF IInv, ChangesInv, InFlight
  <2>2. PICK place \in {"upload", "done"} : Goes(c, place) /\ (place = "upload" => d.at = "ok" /\ Job(c).tool = "edit")
    BY <1>4, ContinueGoes DEF IInv, TypeOK
  <2> QED
    BY <1>1, <1>2, <2>1, <2>2, CallGoesOn DEF Goes, Writers
<1> QED
  BY <1>3, <1>4 DEF Resume

(* A step of a download of file f for call c. *)
LEMMA DownloadStepKeepsIInv ==
  ASSUME IInv, NEW c \in Calls, NEW f \in Files, DownloadStep(c, f), UNCHANGED promotions
  PROVE  IInv'
<1> DEFINE d == download[c][f]
           Ends == {"content", "body", "ok", "gone", "large", "failed"}
           Ds == [at : Ends, etag : Stamps, data : Stamps, floor : Stamps]
<1> USE DEF loader
<1>1. /\ d \in [at : {"none", "waiting", "meta"} \cup Ends, etag : Stamps, data : Stamps, floor : Stamps]
      /\ DownloadInv(f, d, loading[f])
      /\ stamp[f] \in Stamps /\ clock \in Nat
      /\ f \notin racing => acked[f] <= stamp[f]
      /\ cache \in [Files -> [etag : Stamps, data : Stamps]]
      /\ \A g \in Files : CacheInv(g, cache[g])
  BY DEF IInv, TypeOK, FilesTypeOK, FilesInv, Stamps
<1>2. UNCHANGED <<script, server, loading, attempt, sent, history>>
  BY DEF DownloadStep, MetadataArrives, ContentServed, ContentArrives, ContentFails
<1>3. InFlight(d)
  BY DEF DownloadStep, MetadataArrives, ContentServed, ContentArrives, ContentFails, InFlight
<1>4. CASE ~ContentArrives(c, f)
  <2>1. \E e \in {[d EXCEPT !.at = "content", !.etag = stamp[f]], [d EXCEPT !.at = "gone"],
                  [d EXCEPT !.at = "large"], [d EXCEPT !.at = "failed"],
                  [d EXCEPT !.at = "body", !.data = stamp[f]]} :
          /\ Put(c, f, e) /\ (Resume(c, e) \/ UNCHANGED task)
          /\ e.at = "body" => d.at = "content"
    BY <1>4 DEF DownloadStep, MetadataArrives, ContentServed, ContentFails
  <2>2. PICK e \in {[d EXCEPT !.at = "content", !.etag = stamp[f]], [d EXCEPT !.at = "gone"],
                    [d EXCEPT !.at = "large"], [d EXCEPT !.at = "failed"],
                    [d EXCEPT !.at = "body", !.data = stamp[f]]} :
          /\ Put(c, f, e) /\ (Resume(c, e) \/ UNCHANGED task)
          /\ e.at = "body" => d.at = "content"
    BY <2>1
  <2>3. cache' = cache
    BY <1>4 DEF DownloadStep, MetadataArrives, ContentServed, ContentFails
  <2> HIDE DEF d
  <2>4. e \in Ds /\ DownloadInv(f, e, loading[f])
    <3>1. /\ d = [at |-> d.at, etag |-> d.etag, data |-> d.data, floor |-> d.floor]
          /\ d.etag \in Nat /\ d.data \in Nat /\ d.floor \in Nat /\ stamp[f] \in Nat
          /\ d.etag \in Stamps /\ d.data \in Stamps /\ d.floor \in Stamps
          /\ d.etag <= stamp[f] /\ d.data <= stamp[f] /\ d.floor <= stamp[f]
      BY <1>1 DEF DownloadInv, Dated, Stamps
    <3>2. CASE e = [d EXCEPT !.at = "body", !.data = stamp[f]]
      <4>1. e = [at |-> "body", etag |-> d.etag, data |-> stamp[f], floor |-> d.floor]
        BY <3>1, <3>2
      <4> QED
        BY <1>1, <3>1, <4>1 DEF DownloadInv, Dated, Recent
    <3>3. CASE e = [d EXCEPT !.at = "content", !.etag = stamp[f]]
      <4>1. e = [at |-> "content", etag |-> stamp[f], data |-> d.data, floor |-> d.floor]
        BY <3>1, <3>3
      <4> QED
        BY <1>1, <3>1, <4>1 DEF DownloadInv, Dated
    <3>4. CASE \E end \in {"gone", "large", "failed"} : e = [d EXCEPT !.at = end]
      <4>1. PICK end \in {"gone", "large", "failed"} :
              e = [at |-> end, etag |-> d.etag, data |-> d.data, floor |-> d.floor]
        BY <3>1, <3>4
      <4> QED
        BY <1>1, <3>1, <4>1 DEF DownloadInv, Dated
    <3> QED
      BY <2>2, <3>2, <3>3, <3>4
  <2> QED
    BY <1>1, <1>2, <1>3, <2>2, <2>3, <2>4, ResumeKeepsIInv DEF d
<1>5. CASE ContentArrives(c, f)
  <2> DEFINE e == [d EXCEPT !.at = "ok"]
             b == [etag |-> d.etag, data |-> d.data]
  <2>1. /\ Put(c, f, e) /\ Resume(c, e) /\ d.at = "body"
        /\ cache' = [cache EXCEPT ![f] = b]
    BY <1>5 DEF ContentArrives
  <2>2. /\ e \in Ds /\ DownloadInv(f, e, loading[f])
        /\ b \in [etag : Stamps, data : Stamps] /\ CacheInv(f, b)
    <3> HIDE DEF d
    <3> QED
      BY <1>1, <2>1 DEF DownloadInv, CacheInv, Dated, Recent, Stamps
  <2> HIDE DEF e, b
  <2>3. /\ cache' \in [Files -> [etag : Stamps, data : Stamps]]
        /\ \A g \in Files : CacheInv(g, cache'[g])
    BY <1>1, <2>1, <2>2
  <2> QED
    BY <1>2, <1>3, <2>1, <2>2, <2>3, ResumeKeepsIInv
<1> QED
  BY <1>4, <1>5

(* list_folder: the selected files are downloaded together. *)
LEMMA FolderListedKeepsIInv ==
  ASSUME IInv, NEW c \in Calls \cap Requested, FolderListed(c), UNCHANGED promotions
  PROVE  IInv'
<1> USE DEF server, loader, history
<1>0. TaskTypeOK /\ at[c] = "list"
  BY DEF FolderListed, IInv, TypeOK
<1>1. CASE UNCHANGED download
  <2>1. \E place \in {"scan", "done"} : Goes(c, place)
    BY <1>0, SettleGoes, MoveGoes DEF FolderListed, Places, Outcomes
  <2>2. UNCHANGED <<script, files, promotions>>
    BY <1>1 DEF FolderListed, files
  <2> QED
    BY <2>1, <2>2, TaskGoesOn
<1>2. CASE /\ MoveTo(c, "scan")
           /\ \E selected \in SUBSET present :
                download' = [download EXCEPT ![c] =
                  [f \in Files |-> IF f \in selected THEN StartDownload(f) ELSE @[f]]]
  <2>1. PICK selected \in SUBSET present :
          download' = [download EXCEPT ![c] =
            [f \in Files |-> IF f \in selected THEN StartDownload(f) ELSE download[c][f]]]
    BY <1>2
  <2>2. Goes(c, "scan")
    BY <1>0, <1>2, MoveGoes DEF Places
  <2>3. UNCHANGED <<script, server, loader, attempt, sent, history>>
    BY DEF FolderListed
  <2> DEFINE Ds == [at : {"none", "waiting", "meta", "content", "body", "ok", "gone", "large", "failed"},
                    etag : Stamps, data : Stamps, floor : Stamps]
             mine == [f \in Files |-> IF f \in selected THEN StartDownload(f) ELSE download[c][f]]
  <2>4. \A f \in Files : StartDownload(f) \in Ds /\ DownloadInv(f, StartDownload(f), loading[f])
    BY StartDownloadInv DEF IInv, TypeOK
  <2>5. download \in [Calls -> [Files -> Ds]]
    BY DEF IInv, TypeOK, FilesTypeOK
  <2>6. mine \in [Files -> Ds] /\ \A f \in Files : DownloadInv(f, mine[f], loading[f])
    <3> HIDE DEF Ds
    <3> QED
      BY <2>4, <2>5 DEF IInv, FilesInv
  <2>7. FilesTypeOK'
    <3>1. download' \in [Calls -> [Files -> Ds]]
      <4> HIDE DEF Ds, mine
      <4> QED
        BY <2>1, <2>5, <2>6 DEF mine
    <3>2. Stamps' = Stamps
      BY <2>3 DEF Stamps
    <3> QED
      BY <2>3, <3>1, <3>2 DEF IInv, TypeOK, FilesTypeOK
  <2>8. \A d \in Calls : download'[d] = IF d = c THEN mine ELSE download[d]
    <3> HIDE DEF Ds
    <3> QED
      BY <2>1, <2>5
  <2> HIDE DEF mine
  <2>9. FilesInv'
    BY <2>3, <2>6, <2>8, FilesKept DEF IInv, FilesInv
  <2> QED
    BY <2>2, <2>3, <2>7, <2>8, <2>9, CallGoesOn DEF Goes
<1> QED
  BY <1>1, <1>2 DEF FolderListed

-----------------------------------------------------------------------------
(* The steps of FileLoaderService. *)

LEMMA BeginLoadKeepsIInv ==
  ASSUME IInv, NEW c \in Calls \cap Requested, BeginLoad(c), UNCHANGED promotions
  PROVE  IInv'
<1> DEFINE f == Job(c).path
           t == loading[f]
           waits == [at |-> "waiting", etag |-> 0, data |-> 0, floor |-> Floor(f)]
           joins == [at |-> t.at, etag |-> t.etag, data |-> t.data, floor |-> Floor(f)]
           begun == [at |-> "meta", etag |-> 0, data |-> 0, owner |-> {c}]
           Ds == [at : {"waiting", "meta", "content", "body", "ok", "gone", "large", "failed"},
                  etag : Stamps, data : Stamps, floor : Stamps]
<1> USE DEF loader
<1>0. f \in Files /\ TaskTypeOK /\ at[c] = "start"
  BY JobType DEF BeginLoad, IInv, TypeOK
<1>1. \E place \in {"body", "load"} : Goes(c, place)
  BY <1>0, MoveGoes DEF BeginLoad, Places
<1>2. /\ UNCHANGED <<script, server, cache, attempt, sent, history>>
      /\ \/ Hit(f) /\ Put(c, f, StartDownload(f)) /\ loading' = loading
         \/ t.at = "none" /\ Put(c, f, waits) /\ loading' = [loading EXCEPT ![f] = begun]
         \/ t.at \in {"ok", "failed"} /\ Put(c, f, joins) /\ loading' = loading
         \/ t.at # "none" /\ Put(c, f, waits) /\ loading' = loading
  <2> DEFINE mine == [NoDownload EXCEPT !.floor = Floor(f)]
  <2>1. /\ [mine EXCEPT !.at = "waiting"] = waits
        /\ [mine EXCEPT !.at = t.at, !.etag = t.etag, !.data = t.data] = joins
        /\ [NoTask EXCEPT !.at = "meta", !.owner = {c}] = begun
    <3>1. mine = [at |-> "none", etag |-> 0, data |-> 0, floor |-> Floor(f)]
      BY DEF NoDownload
    <3> HIDE DEF t, f, mine
    <3>2. ASSUME NEW d, d = [mine EXCEPT !.at = "waiting"] PROVE d = waits
      BY <3>1, <3>2
    <3>3. ASSUME NEW d, d = [mine EXCEPT !.at = t.at, !.etag = t.etag, !.data = t.data]
          PROVE  d = joins
      BY <3>1, <3>3
    <3>4. ASSUME NEW d, d = [NoTask EXCEPT !.at = "meta", !.owner = {c}] PROVE d = begun
      BY <3>4 DEF NoTask
    <3> QED
      BY <3>2, <3>3, <3>4
  <2>2. CASE Hit(f)
    BY <2>2 DEF BeginLoad
  <2>3. CASE ~Hit(f) /\ t.at = "none"
    BY <2>1, <2>3 DEF BeginLoad
  <2>4. CASE ~Hit(f) /\ t.at # "none"
    BY <2>1, <2>4 DEF BeginLoad
  <2> QED
    BY <2>2, <2>3, <2>4
<1>3. /\ t \in [at : {"none", "meta", "content", "body", "ok", "failed"},
                etag : Stamps, data : Stamps, owner : SUBSET Calls]
      /\ LoadInv(f, t) /\ Floor(f) \in Stamps /\ Floor(f) <= stamp[f]
      /\ stamp[f] \in Nat /\ acked[f] \in Nat /\ clock \in Nat
      /\ f \notin racing => Floor(f) = acked[f]
      /\ f \in racing => Floor(f) = 0
  BY <1>0 DEF IInv, TypeOK, FilesTypeOK, FilesInv, Stamps, Floor
<1>4. /\ waits \in Ds /\ begun \in [at : {"none", "meta", "content", "body", "ok", "failed"},
                                     etag : Stamps, data : Stamps, owner : SUBSET Calls]
      /\ LoadInv(f, begun) /\ DownloadInv(f, waits, t) /\ DownloadInv(f, waits, begun)
  BY <1>3 DEF LoadInv, DownloadInv, Dated, Recent, Stamps
<1>5. t.at \in {"ok", "failed"} => joins \in Ds /\ DownloadInv(f, joins, t)
  BY <1>3 DEF LoadInv, DownloadInv, Dated, Recent, Stamps
<1>6. StartDownload(f) \in Ds /\ DownloadInv(f, StartDownload(f), t)
  BY <1>0, StartDownloadInv DEF IInv, TypeOK
<1>7. \E d \in Ds : Put(c, f, d) /\ DownloadInv(f, d, loading'[f])
  <2>1. loading'[f] = t \/ loading'[f] = begun
    BY <1>0, <1>2 DEF IInv, TypeOK, FilesTypeOK
  <2> HIDE DEF waits, joins, begun, Ds, t
  <2> QED
    BY <1>0, <1>2, <1>4, <1>5, <1>6, <2>1 DEF t
<1>8. loading' = loading \/ loading' = [loading EXCEPT ![f] = begun]
  BY <1>2
<1>9. /\ loading' \in [Files -> [at : {"none", "meta", "content", "body", "ok", "failed"},
                                 etag : Stamps, data : Stamps, owner : SUBSET Calls]]
      /\ \A g \in Files : CacheInv(g, cache'[g]) /\ LoadInv(g, loading'[g])
      /\ \A g \in Files : \/ loading'[g].at = loading[g].at /\ loading'[g].data = loading[g].data
                          \/ loading'[g].at # "body"
  <2> DEFINE Ts == [at : {"none", "meta", "content", "body", "ok", "failed"},
                    etag : Stamps, data : Stamps, owner : SUBSET Calls]
  <2>1. begun.at # "body" /\ begun \in Ts
    BY <1>4
  <2>2. loading \in [Files -> Ts] /\ cache' = cache
    BY <1>2 DEF IInv, TypeOK, FilesTypeOK
  <2> HIDE DEF begun, Ts, f
  <2>3. \A g \in Files : loading'[g] = loading[g] \/ (g = f /\ loading'[g] = begun)
    BY <1>8, <2>2
  <2>4. loading' \in [Files -> Ts]
    BY <1>8, <2>1, <2>2
  <2> QED
    BY <1>4, <2>1, <2>2, <2>3, <2>4 DEF IInv, FilesInv, Ts
<1>10. /\ FilesTypeOK' /\ FilesInv'
       /\ \A e \in Calls : e # c => download'[e] = download[e]
  <2>1. PICK d \in Ds : Put(c, f, d) /\ DownloadInv(f, d, loading'[f])
    BY <1>7
  <2>2. cache' \in [Files -> [etag : Stamps, data : Stamps]]
    BY <1>2 DEF IInv, TypeOK, FilesTypeOK
  <2> HIDE DEF f
  <2> QED
    BY <1>0, <1>2, <1>9, <2>1, <2>2, DownloadGoesOn
<1> QED
  BY <1>1, <1>2, <1>10, CallGoesOn DEF Goes

LEMMA LoadReturnsKeepsIInv ==
  ASSUME IInv, NEW c \in Calls \cap Requested, LoadReturns(c), UNCHANGED promotions
  PROVE  IInv'
<1> DEFINE f == Job(c).path
<1> USE DEF loader, server, history
<1>0. f \in Files /\ TaskTypeOK /\ at[c] = "load"
  BY JobType DEF LoadReturns, IInv, TypeOK
<1>1. \E place \in {"body", "done"} : Goes(c, place)
  BY <1>0, SettleGoes, MoveGoes DEF LoadReturns, Places, Outcomes
<1>2. /\ UNCHANGED <<script, server, cache, download, attempt, sent, history>>
      /\ loading' = loading \/ loading' = [loading EXCEPT ![f] = NoTask]
  BY DEF LoadReturns
<1>3. \A g \in Files : loading'[g] = loading[g] \/ loading'[g] = NoTask
  BY <1>2 DEF IInv, TypeOK, FilesTypeOK
<1>4. FilesTypeOK'
  <2>1. 0 \in Stamps /\ Stamps' = Stamps
    BY <1>2 DEF Stamps, IInv, TypeOK, FilesTypeOK
  <2>2. NoTask \in [at : {"none", "meta", "content", "body", "ok", "failed"},
                    etag : Stamps, data : Stamps, owner : SUBSET Calls]
    BY <2>1 DEF NoTask
  <2> QED
    BY <1>2, <2>1, <2>2 DEF IInv, TypeOK, FilesTypeOK
<1>5. FilesInv'
  <2>1. \A g \in Files : LoadInv(g, NoTask)
    BY DEF LoadInv, Dated, NoTask, IInv, TypeOK, FilesTypeOK
  <2>2. \A g \in Files : LoadInv(g, loading'[g])
    BY <1>3, <2>1 DEF IInv, FilesInv
  <2>3. \A g \in Files, e \in Calls : DownloadInv(g, download'[e][g], loading'[g])
    BY <1>2, <1>3 DEF IInv, FilesInv, DownloadInv, NoTask
  <2> QED
    BY <1>2, <2>2, <2>3, FilesKept DEF IInv, FilesInv
<1> QED
  BY <1>1, <1>2, <1>4, <1>5, CallGoesOn DEF Goes

(* The shared load of file f comes to t, and tells the calls that await it when it ends. *)
LEMMA LoadGoesOn ==
  ASSUME IInv, NEW f \in Files,
         NEW t \in [at : {"content", "body", "ok", "failed"}, etag : Stamps, data : Stamps, owner : SUBSET Calls],
         LoadInv(f, t),
         t.at \in {"body", "ok"} =>
           \A c \in Calls : download[c][f].at = "waiting" => download[c][f].floor <= t.data,
         \/ loading' = [loading EXCEPT ![f] = t] /\ download' = download
         \/ LoadEnds(f, t) /\ t.at \in {"ok", "failed"},
         cache' \in [Files -> [etag : Stamps, data : Stamps]],
         \A g \in Files : CacheInv(g, cache'[g]),
         UNCHANGED <<script, task, server, attempt, sent, history, promotions>>
  PROVE  IInv'
<1> DEFINE Ds == [at : {"none", "waiting", "meta", "content", "body", "ok", "gone", "large", "failed"},
                  etag : Stamps, data : Stamps, floor : Stamps]
           told(c) == [at |-> t.at, etag |-> t.etag, data |-> t.data, floor |-> download[c][f].floor]
<1> USE DEF server, history, promotions, task
<1>1. loading' = [loading EXCEPT ![f] = t]
  BY DEF LoadEnds
<1>2. download \in [Calls -> [Files -> Ds]]
  BY DEF IInv, TypeOK, FilesTypeOK
<1>3. \/ download' = download
      \/ /\ t.at \in {"ok", "failed"}
         /\ download' = [c \in Calls |-> IF download[c][f].at = "waiting"
                           THEN [download[c] EXCEPT ![f] = told(c)] ELSE download[c]]
  <2>1. ASSUME NEW c \in Calls, NEW d, d = [download[c][f] EXCEPT !.at = t.at, !.etag = t.etag, !.data = t.data]
        PROVE  d = told(c)
    <3>1. download[c][f] \in Ds
      BY <1>2
    <3> QED
      BY <2>1, <3>1
  <2>2. CASE LoadEnds(f, t) /\ t.at \in {"ok", "failed"}
    <3>1. download' = [c \in Calls |-> IF download[c][f].at = "waiting"
            THEN [download[c] EXCEPT ![f] =
                   [download[c][f] EXCEPT !.at = t.at, !.etag = t.etag, !.data = t.data]]
            ELSE download[c]]
      BY <2>2 DEF LoadEnds
    <3> HIDE DEF told
    <3> QED
      BY <2>1, <2>2, <3>1
  <2> QED
    BY <2>2
<1>4. \A c \in Calls : told(c).floor \in Stamps /\ (t.at \in {"ok", "failed"} => told(c) \in Ds)
  BY <1>2
<1>5. \A c \in Calls, g \in Files :
        \/ download'[c][g] = download[c][g]
        \/ g = f /\ t.at \in {"ok", "failed"} /\ download[c][f].at = "waiting" /\ download'[c][g] = told(c)
  <2> HIDE DEF Ds, told
  <2> QED
    BY <1>2, <1>3
<1>6. FilesTypeOK'
  <2>1. Stamps' = Stamps
    BY DEF Stamps
  <2>2. download' \in [Calls -> [Files -> Ds]]
    <3> HIDE DEF Ds, told
    <3> QED
      BY <1>2, <1>3, <1>4, SMTT(30)
  <2>3. loading' \in [Files -> [at : {"none", "meta", "content", "body", "ok", "failed"},
                               etag : Stamps, data : Stamps, owner : SUBSET Calls]]
    BY <1>1 DEF IInv, TypeOK, FilesTypeOK
  <2> QED
    BY <2>1, <2>2, <2>3 DEF IInv, TypeOK, FilesTypeOK
<1>7. FilesInv'
  <2>1. \A g \in Files : loading'[g] = IF g = f THEN t ELSE loading[g]
    BY <1>1 DEF IInv, TypeOK, FilesTypeOK
  <2>2. \A g \in Files : LoadInv(g, loading'[g])
    BY <2>1 DEF IInv, FilesInv
  <2>3. ASSUME NEW c \in Calls, NEW g \in Files
        PROVE  DownloadInv(g, download'[c][g], loading'[g])
    <3>1. DownloadInv(g, download[c][g], loading[g])
      BY DEF IInv, FilesInv
    <3>2. CASE g # f
      BY <1>5, <2>1, <3>1, <3>2
    <3>3. CASE g = f /\ download'[c][g] = download[c][g]
      BY <2>1, <3>1, <3>3 DEF DownloadInv
    <3>4. CASE g = f /\ download[c][f].at = "waiting" /\ download'[c][g] = told(c) /\ t.at \in {"ok", "failed"}
      <4>1. download[c][f].floor <= stamp[f] /\ (t.at = "ok" => download[c][f].floor <= t.data)
        BY <3>1, <3>4 DEF DownloadInv
      <4> QED
        BY <3>4, <4>1 DEF DownloadInv, LoadInv, Dated
    <3> QED
      BY <1>5, <3>2, <3>3, <3>4
  <2> QED
    BY <2>2, <2>3, FilesKept DEF IInv
<1>8. ChangesInv'
  <2>1. \A c \in Calls : Announced(c)' = Announced(c) /\ Job(c)' = Job(c) /\ (c \in Requested)' = (c \in Requested)
    BY DEF Announced, Removes, Puts, Target, Job, Requested
  <2>2. \A c \in Calls, g \in Files :
          /\ download[c][g].at = "none" => download'[c][g].at = "none"
          /\ download[c][g].at = "ok" => download'[c][g].at = "ok"
    BY <1>5
  <2>3. \A c \in Calls \cap Requested : Job(c).path \in Files
    BY JobType DEF IInv
  <2> QED
    BY <2>1, <2>2, <2>3 DEF IInv, ChangesInv
<1>9. TypeOK' /\ RequestInv' /\ UploadsInv'
  BY <1>6 DEF IInv, TypeOK, TaskTypeOK, PromotionsTypeOK, RequestInv, UploadsInv, Requested, Job
<1> QED
  BY <1>7, <1>8, <1>9 DEF IInv

LEMMA LoadStepKeepsIInv ==
  ASSUME IInv, NEW f \in Files, LoadStep(f), UNCHANGED promotions
  PROVE  IInv'
<1> DEFINE t == loading[f]
           Ts == [at : {"content", "body", "ok", "failed"}, etag : Stamps, data : Stamps, owner : SUBSET Calls]
<1>0. /\ t \in [at : {"none", "meta", "content", "body", "ok", "failed"},
                etag : Stamps, data : Stamps, owner : SUBSET Calls]
      /\ LoadInv(f, t) /\ stamp[f] \in Nat /\ stamp[f] \in Stamps /\ 0 \in Stamps /\ acked[f] <= stamp[f]
      /\ t.etag \in Nat /\ t.data \in Nat
      /\ cache \in [Files -> [etag : Stamps, data : Stamps]]
      /\ \A g \in Files : CacheInv(g, cache[g])
      /\ \A c \in Calls : DownloadInv(f, download[c][f], t)
  BY DEF IInv, TypeOK, FilesTypeOK, FilesInv, Stamps
<1>1. UNCHANGED <<script, task, server, attempt, sent, history>>
  BY DEF LoadStep
<1>2. CASE /\ t.at = "meta"
           /\ loading' = [loading EXCEPT ![f] = [t EXCEPT !.at = "content", !.etag = stamp[f]]]
           /\ UNCHANGED <<download, cache>>
  <2>1. PICK e : e = [t EXCEPT !.at = "content", !.etag = stamp[f]]
    OBVIOUS
  <2>2. e = [at |-> "content", etag |-> stamp[f], data |-> t.data, owner |-> t.owner]
    BY <1>0, <2>1
  <2>3. e \in Ts /\ LoadInv(f, e) /\ e.at = "content"
    BY <1>0, <2>2 DEF LoadInv, Dated
  <2> QED
    BY <1>0, <1>1, <1>2, <2>1, <2>3, LoadGoesOn
<1>3. CASE /\ t.at = "content"
           /\ loading' = [loading EXCEPT ![f] = [t EXCEPT !.at = "body", !.data = stamp[f]]]
           /\ UNCHANGED <<download, cache>>
  <2>1. PICK e : e = [t EXCEPT !.at = "body", !.data = stamp[f]]
    OBVIOUS
  <2>2. e = [at |-> "body", etag |-> t.etag, data |-> stamp[f], owner |-> t.owner]
    BY <1>0, <2>1
  <2>3. e \in Ts /\ LoadInv(f, e) /\ e.data = stamp[f]
    BY <1>0, <2>2 DEF LoadInv, Dated, Recent
  <2>4. \A c \in Calls : download[c][f].floor <= e.data
    BY <1>0, <2>3 DEF DownloadInv
  <2> QED
    BY <1>0, <1>1, <1>3, <2>1, <2>3, <2>4, LoadGoesOn
<1>4. CASE /\ t.at = "body"
           /\ LoadEnds(f, [t EXCEPT !.at = "ok"])
           /\ cache' = [cache EXCEPT ![f] = [etag |-> t.etag, data |-> t.data]]
  <2>1. PICK e : e = [t EXCEPT !.at = "ok"]
    OBVIOUS
  <2>2. e = [at |-> "ok", etag |-> t.etag, data |-> t.data, owner |-> t.owner]
    BY <1>0, <2>1
  <2>3. e \in Ts /\ LoadInv(f, e) /\ e.data = t.data /\ e.at = "ok"
    BY <1>0, <1>4, <2>2 DEF LoadInv, Dated, Recent
  <2>4. \A c \in Calls : download[c][f].at = "waiting" => download[c][f].floor <= e.data
    BY <1>0, <1>4, <2>3 DEF DownloadInv
  <2> DEFINE b == [etag |-> t.etag, data |-> t.data]
  <2>5. b \in [etag : Stamps, data : Stamps] /\ CacheInv(f, b)
    BY <1>0, <1>4 DEF CacheInv, LoadInv, Dated
  <2>6. cache' = [cache EXCEPT ![f] = b]
    BY <1>4
  <2> HIDE DEF b
  <2>7. cache' \in [Files -> [etag : Stamps, data : Stamps]] /\ \A g \in Files : CacheInv(g, cache'[g])
    BY <1>0, <2>5, <2>6
  <2> QED
    BY <1>1, <1>4, <2>1, <2>3, <2>4, <2>7, LoadGoesOn
<1>5. CASE LoadEnds(f, [t EXCEPT !.at = "failed", !.data = 0]) /\ cache' = cache
  <2>1. PICK e : e = [t EXCEPT !.at = "failed", !.data = 0]
    OBVIOUS
  <2>2. e = [at |-> "failed", etag |-> t.etag, data |-> 0, owner |-> t.owner]
    BY <1>0, <2>1
  <2>3. e \in Ts /\ LoadInv(f, e) /\ e.at = "failed"
    BY <1>0, <2>2 DEF LoadInv, Dated
  <2> QED
    BY <1>0, <1>1, <1>5, <2>1, <2>3, LoadGoesOn
<1> QED
  BY <1>2, <1>3, <1>4, <1>5 DEF LoadStep

-----------------------------------------------------------------------------
(* Changes at DIAL Core and their responses. *)

(* Files only become newer. *)
LEMMA StampsGrow ==
  ASSUME IInv, clock' \in {clock, clock + 1}, present' \subseteq Files,
         stamp' \in [Files -> 1..clock'], \A f \in Files : stamp[f] <= stamp'[f],
         outside' \in 0..script.others,
         sent' \in [Calls -> [is : {"nothing", "applied", "refused", "denied", "error"}, stamp : Stamps']],
         UNCHANGED <<script, loader, download, attempt, history>>
  PROVE  FilesTypeOK' /\ FilesInv'
<1> USE DEF loader, history
<1>1. Stamps \subseteq Stamps' /\ clock' \in Nat \ {0} /\ clock \in Nat /\ Stamps \subseteq Nat
  BY DEF Stamps, IInv, TypeOK, FilesTypeOK
<1>2. FilesTypeOK'
  <2>1. cache' \in [Files -> [etag : Stamps', data : Stamps']]
    BY <1>1 DEF IInv, TypeOK, FilesTypeOK
  <2>2. loading' \in [Files -> [at : {"none", "meta", "content", "body", "ok", "failed"},
                               etag : Stamps', data : Stamps', owner : SUBSET Calls]]
    BY <1>1 DEF IInv, TypeOK, FilesTypeOK
  <2> DEFINE Ds == [at : {"none", "waiting", "meta", "content", "body", "ok", "gone", "large", "failed"},
                    etag : Stamps, data : Stamps, floor : Stamps]
  <2>3. download' \in [Calls -> [Files -> Ds']]
    <3>1. download \in [Calls -> [Files -> Ds]]
      BY DEF IInv, TypeOK, FilesTypeOK
    <3>2. Ds \subseteq Ds'
      BY <1>1
    <3> HIDE DEF Ds
    <3> QED
      BY <3>1, <3>2
  <2>4. acked' \in [Files -> Stamps']
    BY <1>1 DEF IInv, TypeOK, FilesTypeOK
  <2> QED
    BY <1>1, <2>1, <2>2, <2>3, <2>4 DEF IInv, TypeOK, FilesTypeOK
<1>3. ASSUME NEW f \in Files
      PROVE  /\ acked[f] <= stamp'[f]
             /\ CacheInv(f, cache[f])' /\ LoadInv(f, loading[f])'
             /\ \A c \in Calls : DownloadInv(f, download[c][f], loading[f])'
  <2>1. stamp[f] \in Nat /\ stamp'[f] \in Nat /\ stamp[f] <= stamp'[f]
    BY <1>1 DEF IInv, TypeOK, FilesTypeOK
  <2>2. /\ cache[f].etag \in Nat /\ cache[f].data \in Nat /\ loading[f].etag \in Nat
        /\ loading[f].data \in Nat /\ acked[f] \in Nat
    BY <1>1 DEF IInv, TypeOK, FilesTypeOK
  <2>3. acked[f] <= stamp'[f] /\ CacheInv(f, cache[f])' /\ LoadInv(f, loading[f])'
    BY <2>1, <2>2 DEF IInv, FilesInv, CacheInv, LoadInv, Dated, Recent
  <2>4. ASSUME NEW c \in Calls PROVE DownloadInv(f, download[c][f], loading[f])'
    <3>1. /\ download[c][f].etag \in Nat /\ download[c][f].data \in Nat
          /\ download[c][f].floor \in Nat
      <4>1. download[c][f] \in [at : {"none", "waiting", "meta", "content", "body", "ok", "gone", "large", "failed"},
                              etag : Stamps, data : Stamps, floor : Stamps]
        BY DEF IInv, TypeOK, FilesTypeOK
      <4> QED
        BY <1>1, <4>1
    <3> QED
      BY <2>1, <3>1 DEF IInv, FilesInv, DownloadInv, Dated, Recent
  <2> QED
    BY <2>3, <2>4
<1> QED
  BY <1>2, <1>3 DEF FilesInv

(* Another client changes a file. *)
LEMMA OutsideChangeKeepsIInv ==
  ASSUME IInv, NEW f \in Files, OutsideChange(f), UNCHANGED promotions
  PROVE  IInv'
<1> USE DEF task, promotions
<1>1. FilesTypeOK' /\ FilesInv'
  <2>1. clock \in Nat /\ clock' = clock + 1 /\ stamp \in [Files -> 1..clock]
    BY DEF OutsideChange, IInv, TypeOK, FilesTypeOK
  <2>2. stamp' \in [Files -> 1..clock'] /\ \A g \in Files : stamp[g] <= stamp'[g]
    BY <2>1 DEF OutsideChange
  <2>3. present' \subseteq Files
    BY DEF OutsideChange, IInv, TypeOK, FilesTypeOK
  <2>4. outside' \in 0..script.others
    BY FilesAssumption DEF OutsideChange, IInv, TypeOK, FilesTypeOK, RequestInv
  <2>5. sent' \in [Calls -> [is : {"nothing", "applied", "refused", "denied", "error"}, stamp : Stamps']]
    BY <2>1 DEF OutsideChange, IInv, TypeOK, FilesTypeOK, Stamps
  <2> QED
    BY <2>1, <2>2, <2>3, <2>4, <2>5, StampsGrow DEF OutsideChange
<1>2. ChangesInv'
  <2>1. \A c \in Calls : Announced(c)' = Announced(c) /\ Job(c)' = Job(c) /\ (c \in Requested)' = (c \in Requested)
    BY DEF OutsideChange, Announced, Removes, Puts, Target, Job, Requested
  <2>2. \A c \in Calls \cap Requested : Announced(c) \subseteq Files
    BY JobType DEF Announced, Removes, Puts, IInv
  <2>3. \A g \in Files : stamp[g] \in Nat /\ stamp'[g] \in Nat /\ stamp[g] <= stamp'[g]
    BY DEF OutsideChange, IInv, TypeOK, FilesTypeOK
  <2>4. \A c \in Calls : sent[c].stamp \in Nat
    BY DEF IInv, TypeOK, FilesTypeOK, Stamps
  <2>5. UNCHANGED <<at, sent, download>>
    BY DEF OutsideChange
  <2> QED
    BY <2>1, <2>2, <2>3, <2>4, <2>5 DEF IInv, ChangesInv
<1>3. TypeOK' /\ RequestInv' /\ UploadsInv'
  BY <1>1 DEF OutsideChange, IInv, TypeOK, TaskTypeOK, PromotionsTypeOK, RequestInv, UploadsInv,
              Requested, Job
<1> QED
  BY <1>1, <1>2, <1>3 DEF IInv

(* DIAL Core handles the request of call c. *)
LEMMA ServeKeepsIInv ==
  ASSUME IInv, NEW c \in Calls \cap Requested, Serve(c), UNCHANGED promotions
  PROVE  IInv'
<1> DEFINE Sents == [is : {"nothing", "applied", "refused", "denied", "error"}, stamp : Stamps']
<1> USE DEF promotions
<1>1. Goes(c, "reply")
  BY MoveGoes DEF Serve, IInv, TypeOK, Places
<1>2. /\ Removes(c) \cup Puts(c) \subseteq Files /\ Announced(c) \subseteq Removes(c) \cup Puts(c)
      /\ \A d \in Calls \cap Requested : Announced(d) \subseteq Files
  BY JobType DEF Announced, Removes, Puts, IInv
<1>3. /\ clock \in Nat \ {0} /\ clock' \in {clock, clock + 1} /\ stamp \in [Files -> 1..clock]
      /\ stamp' \in [Files -> 1..clock'] /\ \A f \in Files : stamp[f] <= stamp'[f]
      /\ present' \subseteq Files
  <2>1. clock \in Nat \ {0} /\ stamp \in [Files -> 1..clock] /\ present \subseteq Files
    BY DEF IInv, TypeOK, FilesTypeOK
  <2>2. CASE UNCHANGED <<present, stamp, clock>>
    BY <2>1, <2>2
  <2>3. CASE /\ clock' = clock + 1
             /\ present' = (present \ Removes(c)) \cup Puts(c)
             /\ stamp' = [f \in Files |-> IF f \in Removes(c) \cup Puts(c) THEN clock + 1 ELSE stamp[f]]
    BY <1>2, <2>1, <2>3
  <2> QED
    BY <2>2, <2>3 DEF Serve
<1>4. /\ sent' = [sent EXCEPT ![c] = sent'[c]] /\ sent'[c] \in Sents
      /\ sent'[c].is = "applied" => \A f \in Announced(c) : sent'[c].stamp <= stamp'[f]
  <2>0. sent \in [Calls -> [is : {"nothing", "applied", "refused", "denied", "error"}, stamp : Stamps]]
    BY DEF IInv, TypeOK, FilesTypeOK
  <2>1. CASE /\ sent' = [sent EXCEPT ![c] = [is |-> "applied", stamp |-> clock + 1]]
             /\ clock' = clock + 1
             /\ stamp' = [f \in Files |-> IF f \in Removes(c) \cup Puts(c) THEN clock + 1 ELSE stamp[f]]
    <3>1. sent'[c] = [is |-> "applied", stamp |-> clock + 1]
      BY <2>0, <2>1
    <3>2. sent'[c] \in Sents
      BY <1>3, <2>1, <3>1 DEF Stamps
    <3>3. \A f \in Announced(c) : stamp'[f] = clock + 1
      BY <1>2, <2>1
    <3>4. \A f \in Announced(c) : sent'[c].stamp <= stamp'[f]
      BY <1>3, <3>1, <3>3
    <3> QED
      BY <2>0, <2>1, <3>2, <3>4
  <2>2. CASE \E e \in {"refused", "denied", "error"} :
               sent' = [sent EXCEPT ![c] = [is |-> e, stamp |-> 0]]
    <3>1. PICK e \in {"refused", "denied", "error"} :
            sent' = [sent EXCEPT ![c] = [is |-> e, stamp |-> 0]]
      BY <2>2
    <3>2. sent'[c] = [is |-> e, stamp |-> 0]
      BY <2>0, <3>1
    <3> QED
      BY <1>3, <2>0, <3>1, <3>2 DEF Stamps
  <2> QED
    BY <2>1, <2>2 DEF Serve
<1>5. UNCHANGED <<script, outside, loader, download, attempt, history>>
  BY DEF Serve
<1>6. FilesTypeOK' /\ FilesInv'
  <2>1. sent' \in [Calls -> Sents]
    <3>1. Stamps \subseteq Stamps'
      BY <1>3 DEF Stamps
    <3>2. sent \in [Calls -> Sents]
      BY <3>1 DEF IInv, TypeOK, FilesTypeOK
    <3> HIDE DEF Sents
    <3> QED
      BY <1>4, <3>2
  <2>2. outside' \in 0..script.others
    BY <1>5 DEF IInv, TypeOK, FilesTypeOK
  <2> QED
    BY <1>3, <1>5, <2>1, <2>2, StampsGrow
<1>7. ChangesInv'
  <2>1. \A d \in Calls : Announced(d)' = Announced(d) /\ Job(d)' = Job(d) /\ (d \in Requested)' = (d \in Requested)
    BY <1>5 DEF Announced, Removes, Puts, Target, Job, Requested
  <2>2. \A d \in Calls : sent[d].stamp \in Nat
    BY DEF IInv, TypeOK, FilesTypeOK, Stamps
  <2>3. \A f \in Files : stamp[f] \in Nat /\ stamp'[f] \in Nat /\ stamp[f] <= stamp'[f]
    BY <1>3
  <2>4. at'[c] = "reply" /\ \A d \in Calls : d # c => at'[d] = at[d] /\ sent'[d] = sent[d]
    <3>1. sent \in [Calls -> [is : {"nothing", "applied", "refused", "denied", "error"}, stamp : Stamps]]
      BY DEF IInv, TypeOK, FilesTypeOK
    <3> QED
      BY <1>1, <1>4, <3>1 DEF Goes
  <2>5. ASSUME NEW d \in Calls \cap Requested, at'[d] = "reply", sent'[d].is = "applied",
               NEW f \in Announced(d)
        PROVE  sent'[d].stamp <= stamp'[f]
    <3>1. CASE d = c
      BY <3>1, <2>5, <1>4
    <3>2. CASE d # c
      <4>1. sent[d].stamp <= stamp[f] /\ f \in Files
        BY <1>2, <2>4, <2>5, <3>2 DEF IInv, ChangesInv
      <4> QED
        BY <2>2, <2>3, <2>4, <3>2, <4>1
    <3> QED
      BY <3>1, <3>2
  <2>6. \A d \in Calls, f \in Files :
          \/ at'[d] \in {"start", "absent"}
          \/ at'[d] = "download" /\ d \in Requested /\ f # Job(d).path
          => download[d][f].at = "none"
    BY <2>4 DEF IInv, ChangesInv
  <2>7. \A d \in Calls \cap Requested :
          /\ at'[d] = "upload" /\ Job(d).tool = "edit" => download[d][Job(d).path].at = "ok"
          /\ at'[d] = "fetch" => Job(d).tool = "save"
          /\ at'[d] = "upload" => Job(d).tool \in Writers
    BY <2>4 DEF IInv, ChangesInv
  <2> QED
    BY <1>5, <2>1, <2>5, <2>6, <2>7 DEF ChangesInv
<1>8. TypeOK' /\ RequestInv' /\ UploadsInv'
  BY <1>1, <1>5, <1>6 DEF Goes, IInv, TypeOK, PromotionsTypeOK, RequestInv, UploadsInv, Requested, Job
<1> QED
  BY <1>6, <1>7, <1>8 DEF IInv

(* Every file whose change is announced is dropped from the cache (invalidate_file_data). *)
LEMMA AnnouncedForgotten ==
  ASSUME NEW c
  PROVE  Announced(c) \subseteq Forgets(c)
BY DEF Announced, Forgets, Removes, Puts, Target

(* The response to a change: the cached bytes go, and the files that raced are noted. *)
LEMMA AcknowledgeKeepsFiles ==
  ASSUME IInv, NEW c \in Calls \cap Requested, Acknowledge(c), at[c] = "reply", sent[c].is = "applied",
         UNCHANGED <<script, server, loading, download, attempt, sent>>
  PROVE  FilesTypeOK' /\ FilesInv'
<1> USE DEF server
<1>1. \A f \in Announced(c) : f \in Forgets(c) /\ f \in Files /\ sent[c].stamp <= stamp[f]
  BY AnnouncedForgotten, JobType DEF IInv, ChangesInv, Announced, Removes, Puts
<1>2. /\ Stamps' = Stamps /\ sent[c].stamp \in Stamps /\ 0 \in Stamps /\ Stamps \subseteq Nat
  BY DEF Stamps, IInv, TypeOK, FilesTypeOK
<1>3. FilesTypeOK'
  <2>1. NoBytes \in [etag : Stamps, data : Stamps]
    BY <1>2 DEF NoBytes
  <2>2. cache' \in [Files -> [etag : Stamps, data : Stamps]]
    BY <2>1 DEF Acknowledge, IInv, TypeOK, FilesTypeOK
  <2>3. acked' \in [Files -> Stamps] /\ racing' \subseteq Files
    BY <1>2 DEF Acknowledge, IInv, TypeOK, FilesTypeOK
  <2> QED
    BY <1>2, <2>2, <2>3 DEF IInv, TypeOK, FilesTypeOK
<1>4. ASSUME NEW f \in Files, f \in Announced(c)
      PROVE  /\ acked'[f] <= stamp'[f] /\ CacheInv(f, cache[f])' /\ LoadInv(f, loading[f])'
             /\ \A d \in Calls : DownloadInv(f, download[d][f], loading[f])'
  <2>1. acked'[f] = sent[c].stamp /\ cache'[f] = NoBytes /\ stamp'[f] = stamp[f] /\ stamp[f] \in Nat
    BY <1>1, <1>4 DEF Acknowledge, IInv, TypeOK, FilesTypeOK
  <2>2. f \notin racing' =>
          loading[f].at \notin {"body", "ok"} /\ \A d \in Calls : download[d][f].at # "body"
    BY <1>4 DEF Acknowledge, Raced
  <2>3. CacheInv(f, cache[f])'
    BY <2>1 DEF CacheInv, NoBytes
  <2>4. LoadInv(f, loading[f])'
    BY <2>1, <2>2 DEF LoadInv, Dated, Recent, IInv, FilesInv
  <2>5. \A d \in Calls : DownloadInv(f, download[d][f], loading[f])'
    BY <2>1, <2>2 DEF DownloadInv, Dated, Recent, IInv, FilesInv
  <2> QED
    BY <1>1, <1>4, <2>1, <2>3, <2>4, <2>5
<1>5. ASSUME NEW f \in Files, f \notin Announced(c)
      PROVE  /\ acked'[f] <= stamp'[f] /\ CacheInv(f, cache[f])' /\ LoadInv(f, loading[f])'
             /\ \A d \in Calls : DownloadInv(f, download[d][f], loading[f])'
  <2>1. /\ acked'[f] = acked[f] /\ cache'[f] \in {cache[f], NoBytes} /\ (f \in racing' <=> f \in racing)
        /\ stamp'[f] = stamp[f] /\ stamp[f] \in Nat
    BY <1>5 DEF Acknowledge, IInv, TypeOK, FilesTypeOK
  <2>2. CacheInv(f, cache[f])'
    BY <2>1 DEF CacheInv, NoBytes, Recent, IInv, FilesInv
  <2>3. LoadInv(f, loading[f])'
    BY <2>1 DEF LoadInv, Dated, Recent, IInv, FilesInv
  <2>4. \A d \in Calls : DownloadInv(f, download[d][f], loading[f])'
    BY <2>1 DEF DownloadInv, Dated, Recent, IInv, FilesInv
  <2> QED
    BY <2>1, <2>2, <2>3, <2>4 DEF IInv, FilesInv
<1> QED
  BY <1>3, <1>4, <1>5 DEF FilesInv

LEMMA ReplyArrivesKeepsIInv ==
  ASSUME IInv, NEW c \in Calls \cap Requested, ReplyArrives(c), UNCHANGED promotions
  PROVE  IInv'
<1> USE DEF server, loader, history
<1>0. /\ TaskTypeOK /\ at[c] = "reply"
      /\ UNCHANGED <<script, server, loading, download, sent>>
  BY DEF ReplyArrives, IInv, TypeOK
<1>1. CASE sent[c].is = "applied" /\ Acknowledge(c) /\ Settle(c, "ok") /\ UNCHANGED attempt
  <2>1. Goes(c, "done")
    BY <1>0, <1>1, SettleGoes DEF Outcomes
  <2>2. FilesTypeOK' /\ FilesInv'
    BY <1>0, <1>1, AcknowledgeKeepsFiles
  <2> QED
    BY <1>0, <1>1, <2>1, <2>2, CallGoesOn DEF Goes, Writers
<1>2. CASE UNCHANGED <<cache, history, attempt>> /\ \E outcome \in Outcomes : Settle(c, outcome)
  <2>1. Goes(c, "done") /\ UNCHANGED files
    BY <1>0, <1>2, SettleGoes DEF files
  <2> QED
    BY <1>0, <2>1, TaskGoesOn
<1>3. CASE /\ Job(c).tool = "save" /\ attempt[c] < Len(Job(c).names)
           /\ attempt' = [attempt EXCEPT ![c] = NextName(c)] /\ MoveTo(c, "upload")
           /\ UNCHANGED <<cache, history>>
  <2>1. Goes(c, "upload")
    BY <1>0, <1>3, MoveGoes DEF Places
  <2>2. /\ attempt[c] \in 1..Len(Job(c).names) /\ Len(Job(c).names) \in Nat
        /\ attempt \in [Calls -> Nat \ {0}]
    BY JobType DEF IInv, RequestInv, TypeOK, FilesTypeOK
  <2>3. /\ attempt' \in [Calls -> Nat \ {0}] /\ attempt'[c] \in 1..Len(Job(c).names)
        /\ \A d \in Calls : d # c => attempt'[d] = attempt[d]
    BY <1>3, <2>2 DEF NextName
  <2>4. FilesTypeOK'
    BY <1>0, <1>3, <2>3 DEF IInv, TypeOK, FilesTypeOK, Stamps
  <2>5. FilesInv'
    BY <1>0, <1>3, FilesKept DEF IInv, FilesInv
  <2>6. RequestInv'
    BY <1>0, <2>1, <2>3 DEF IInv, RequestInv, Requested, Job, Goes
  <2>7. ChangesInv'
    <3>1. \A d \in Calls : Job(d)' = Job(d) /\ (d \in Requested)' = (d \in Requested)
      BY <1>0 DEF Job, Requested
    <3>2. \A d \in Calls : d # c => Announced(d)' = Announced(d)
      BY <1>0, <2>3 DEF Announced, Removes, Puts, Target, Job
    <3>3. ASSUME NEW d \in Calls \cap Requested, at'[d] = "reply", sent[d].is = "applied"
          PROVE  \A f \in Announced(d)' : sent[d].stamp <= stamp[f]
      <4>1. d # c /\ at[d] = "reply"
        BY <2>1, <3>3 DEF Goes
      <4> QED
        BY <3>2, <3>3, <4>1 DEF IInv, ChangesInv
    <3>4. ASSUME NEW d \in Calls \cap Requested
          PROVE  /\ at'[d] = "upload" /\ Job(d).tool = "edit" => download[d][Job(d).path].at = "ok"
                 /\ at'[d] = "fetch" => Job(d).tool = "save"
                 /\ at'[d] = "upload" => Job(d).tool \in Writers
      BY <1>3, <2>1 DEF Goes, IInv, ChangesInv, Writers
    <3>5. \A d \in Calls, f \in Files :
            \/ at'[d] \in {"start", "absent"}
            \/ at'[d] = "download" /\ d \in Requested /\ f # Job(d).path
            => download[d][f].at = "none"
      BY <2>1 DEF Goes, IInv, ChangesInv
    <3> QED
      BY <1>0, <3>1, <3>3, <3>4, <3>5 DEF ChangesInv
  <2>8. TypeOK' /\ UploadsInv'
    BY <2>1, <2>4 DEF Goes, IInv, TypeOK, PromotionsTypeOK, UploadsInv, promotions
  <2> QED
    BY <2>5, <2>6, <2>7, <2>8 DEF IInv
<1> QED
  BY <1>0, <1>1, <1>2, <1>3 DEF ReplyArrives, Outcomes

(* A step of a tool that works with files. *)
LEMMA FileStepKeepsIInv ==
  ASSUME IInv, NEW c \in Calls, FileCallStep(c)
  PROVE  IInv'
<1>1. c \in Calls \cap Requested /\ UNCHANGED promotions /\ FileStep(c)
  BY DEF FileCallStep
<1> QED
  BY <1>1, WaitKeepsIInv, BeginDownloadKeepsIInv, FolderListedKeepsIInv, ServeKeepsIInv,
     ReplyArrivesKeepsIInv, BeginLoadKeepsIInv, LoadReturnsKeepsIInv DEF FileStep

-----------------------------------------------------------------------------
(* The steps of Promotions. *)

Promos == [at : {"none", "done"} \cup Running \cup Broken, owner : SUBSET Calls,
           host : Hosts, hops : 0..(MaxRedirects + 1)]

(* The promotions after a step, and what came of the task of a call c that took it, if one
   did. *)
LEMMA PromotionsGoOn ==
  ASSUME IInv, UNCHANGED <<script, files>>, PromotionsTypeOK', UploadsInv',
         \/ UNCHANGED task
         \/ \E c \in Calls \cap Requested, place \in {"history", "promote", "expired", "model", "done"} :
              Goes(c, place)
  PROVE  IInv'
<1> USE DEF files, server, loader, history, task
<1>1. TaskTypeOK'
  BY DEF Goes, IInv, TypeOK, TaskTypeOK
<1>2. FilesTypeOK' /\ FilesInv'
  BY FilesKept DEF IInv, TypeOK, FilesTypeOK, FilesInv, Stamps
<1>3. \A c \in Calls :
        \/ at'[c] = at[c]
        \/ c \in Requested /\ at'[c] \in {"history", "promote", "expired", "model", "done"}
  BY DEF Goes
<1>4. RequestInv'
  BY <1>3 DEF IInv, RequestInv, Requested, Job
<1>5. ChangesInv'
  <2>1. \A d \in Calls : Announced(d)' = Announced(d) /\ Job(d)' = Job(d) /\ (d \in Requested)' = (d \in Requested)
    BY DEF Announced, Removes, Puts, Target, Job, Requested
  <2>2. \A d \in Calls, f \in Files :
          \/ at'[d] \in {"start", "absent"}
          \/ at'[d] = "download" /\ d \in Requested /\ f # Job(d).path
          => download[d][f].at = "none"
    BY <1>3 DEF IInv, ChangesInv
  <2>3. ASSUME NEW d \in Calls \cap Requested
        PROVE  /\ at'[d] = "reply" /\ sent[d].is = "applied" =>
                    \A f \in Announced(d) : sent[d].stamp <= stamp[f]
               /\ at'[d] = "upload" /\ Job(d).tool = "edit" => download[d][Job(d).path].at = "ok"
               /\ at'[d] = "fetch" => Job(d).tool = "save"
               /\ at'[d] = "upload" => Job(d).tool \in Writers
    BY <1>3 DEF IInv, ChangesInv
  <2> QED
    BY <2>1, <2>2, <2>3 DEF ChangesInv
<1> QED
  BY <1>1, <1>2, <1>4, <1>5 DEF IInv, TypeOK

(* Promotions that end: those that break are counted, the others had been stored. *)
LEMMA PromotionsEndKeeps ==
  ASSUME IInv, NEW xs \in SUBSET Urls, NEW how \in Broken \cup {"done"}, PromotionsEnd(xs, how),
         \A x \in xs : IF how = "done" THEN promo[x].at = "stored" ELSE promo[x].at \in Running,
         UNCHANGED <<batch, uploads>>
  PROVE  PromotionsTypeOK' /\ UploadsInv'
<1>1. /\ promo \in [Urls -> Promos] /\ broken \in [Urls -> Nat] /\ uploads \in [Urls -> Nat]
      /\ batch \in [Calls -> Nat]
      /\ link \in [Calls -> [Urls -> {"none", "waiting", "done"} \cup Broken]]
  BY DEF IInv, TypeOK, PromotionsTypeOK, Promos
<1>2. ASSUME NEW x \in Urls, NEW t, t = [Fresh(x) EXCEPT !.at = how, !.owner = promo[x].owner]
      PROVE  t \in Promos /\ t.at = how
  <2>1. t = [at |-> how, owner |-> promo[x].owner, host |-> Site[x], hops |-> 0]
    BY <1>2 DEF Fresh
  <2>2. promo[x].owner \in SUBSET Calls /\ Site[x] \in Hosts /\ 0 \in 0..(MaxRedirects + 1)
    BY <1>1, PromotionsAssumption DEF Promos
  <2> QED
    BY <2>1, <2>2 DEF Promos
<1>3. /\ promo' \in [Urls -> Promos]
      /\ \A x \in Urls : IF x \in xs THEN promo'[x].at = how ELSE promo'[x] = promo[x]
  <2>1. promo' = [x \in Urls |-> IF x \in xs THEN [Fresh(x) EXCEPT !.at = how, !.owner = promo[x].owner]
                                 ELSE promo[x]]
    BY DEF PromotionsEnd
  <2> QED
    BY <1>1, <1>2, <2>1
<1>4. link' \in [Calls -> [Urls -> {"none", "waiting", "done"} \cup Broken]]
  <2>1. link' = [c \in Calls |-> [x \in Urls |->
                   IF x \in xs /\ link[c][x] = "waiting" THEN how ELSE link[c][x]]]
    BY DEF PromotionsEnd
  <2> QED
    BY <1>1, <2>1
<1>5. /\ broken' \in [Urls -> Nat]
      /\ \A x \in Urls : broken'[x] = IF x \in xs /\ how \in Broken THEN broken[x] + 1 ELSE broken[x]
  <2>1. broken' = [x \in Urls |-> IF x \in xs /\ how \in Broken THEN broken[x] + 1 ELSE broken[x]]
    BY DEF PromotionsEnd
  <2> QED
    BY <1>1, <2>1
<1>6. UploadsInv'
  <2>1. ASSUME NEW x \in Urls
        PROVE  uploads[x] <= broken'[x] + (IF promo'[x].at \in {"stored", "done"} THEN 1 ELSE 0)
    <3>1. /\ uploads[x] <= broken[x] + (IF promo[x].at \in {"stored", "done"} THEN 1 ELSE 0)
          /\ uploads[x] \in Nat /\ broken[x] \in Nat
      BY <1>1 DEF IInv, UploadsInv
    <3>2. CASE x \notin xs
      BY <1>3, <1>5, <3>1, <3>2
    <3>3. CASE x \in xs /\ how = "done"
      BY <1>3, <1>5, <3>1, <3>3 DEF Broken
    <3>4. CASE x \in xs /\ how \in Broken
      BY <1>3, <1>5, <3>1, <3>4
    <3> QED
      BY <3>2, <3>3, <3>4
  <2> QED
    BY <2>1 DEF UploadsInv
<1> QED
  BY <1>1, <1>3, <1>4, <1>5, <1>6 DEF PromotionsTypeOK, Promos

(* A promotion alone comes to t. *)
LEMMA PromotionBecomes ==
  ASSUME IInv, NEW x \in Urls, NEW t \in Promos, promo' = [promo EXCEPT ![x] = t],
         \/ uploads' = uploads /\ t.at \notin {"stored", "done"} /\ promo[x].at \notin {"stored", "done"}
         \/ /\ uploads' = [uploads EXCEPT ![x] = @ + 1]
            /\ t.at = "stored" /\ promo[x].at \notin {"stored", "done"},
         UNCHANGED <<script, task, files, link, batch, broken>>
  PROVE  IInv'
<1>1. /\ promo \in [Urls -> Promos] /\ broken \in [Urls -> Nat] /\ uploads \in [Urls -> Nat]
      /\ batch \in [Calls -> Nat]
      /\ link \in [Calls -> [Urls -> {"none", "waiting", "done"} \cup Broken]]
  BY DEF IInv, TypeOK, PromotionsTypeOK, Promos
<1>2. \A y \in Urls : promo'[y] = IF y = x THEN t ELSE promo[y]
  BY <1>1
<1>3. PromotionsTypeOK'
  <2>1. promo' \in [Urls -> Promos] /\ uploads' \in [Urls -> Nat]
    BY <1>1
  <2> QED
    BY <1>1, <2>1 DEF PromotionsTypeOK, Promos
<1>4. UploadsInv'
  BY <1>1, <1>2 DEF IInv, UploadsInv
<1> QED
  BY <1>3, <1>4, PromotionsGoOn

(* A step of the promotion of url x. *)
LEMMA PromotionKeepsIInv ==
  ASSUME IInv, NEW x \in Urls, Promoting(x)
  PROVE  IInv'
<1> DEFINE t == promo[x]
<1>0. /\ t \in Promos /\ PromotionStep(x) /\ UNCHANGED files
      /\ t = [at |-> t.at, owner |-> t.owner, host |-> t.host, hops |-> t.hops]
      /\ Site[x] \in Hosts /\ MaxRedirects \in Nat /\ script.redirects \subseteq Hosts
      /\ promo \in [Urls -> Promos]
  BY PromotionsAssumption DEF Promoting, IInv, TypeOK, PromotionsTypeOK, Promos, RequestInv
<1>1. ASSUME NEW how \in Broken \cup {"done"}, PromotionsEnd({x}, how),
             IF how = "done" THEN t.at = "stored" ELSE t.at \in Running,
             UNCHANGED <<script, task, batch, uploads>>
      PROVE  IInv'
  BY <1>0, <1>1, PromotionsEndKeeps, PromotionsGoOn
<1>2. CASE UrlFetched(x)
  <2>0. t.at = "fetching" /\ UNCHANGED <<script, task, batch, uploads>>
    BY <1>2 DEF UrlFetched
  <2>1. CASE /\ MayAsk(t.host, t.hops) /\ UNCHANGED <<link, broken>>
             /\ \E next \in script.redirects :
                  promo' = [promo EXCEPT ![x].host = next, ![x].hops = Hops(t)]
    <3>1. PICK next \in script.redirects :
            promo' = [promo EXCEPT ![x] = [at |-> t.at, owner |-> t.owner, host |-> next, hops |-> Hops(t)]]
      <4>1. PICK next \in script.redirects :
              promo' = [promo EXCEPT ![x].host = next, ![x].hops = Hops(t)]
        BY <2>1
      <4>2. PICK e : e = [t EXCEPT !.host = next, !.hops = Hops(t)]
        OBVIOUS
      <4>3. e = [at |-> t.at, owner |-> t.owner, host |-> next, hops |-> Hops(t)]
        BY <1>0, <4>2
      <4>4. promo' = [promo EXCEPT ![x] = e]
        BY <1>0, <4>1, <4>2
      <4> QED
        BY <4>3, <4>4
    <3>2. t.hops <= MaxRedirects /\ t.hops \in Nat
      BY <1>0, <2>1 DEF MayAsk, Promos
    <3> DEFINE e == [at |-> t.at, owner |-> t.owner, host |-> next, hops |-> Hops(t)]
    <3>3. e \in Promos /\ e.at = "fetching"
      BY <1>0, <2>0, <3>2 DEF Promos, Hops
    <3> HIDE DEF e
    <3> QED
      BY <1>0, <2>0, <2>1, <3>1, <3>3, PromotionBecomes DEF e
  <2>2. CASE /\ promo' = [promo EXCEPT ![x] = [Fresh(x) EXCEPT !.at = "uploading", !.owner = t.owner]]
             /\ UNCHANGED <<link, broken>>
    <3>1. PICK e : e = [Fresh(x) EXCEPT !.at = "uploading", !.owner = t.owner]
      OBVIOUS
    <3>2. e = [at |-> "uploading", owner |-> t.owner, host |-> Site[x], hops |-> 0]
      BY <3>1 DEF Fresh
    <3>3. e \in Promos /\ e.at = "uploading"
      BY <1>0, <3>2 DEF Promos, Running
    <3> QED
      BY <1>0, <2>0, <2>2, <3>1, <3>3, PromotionBecomes
  <2>3. CASE PromotionsEnd({x}, "invalid")
    BY <1>1, <2>0, <2>3 DEF Broken, Running
  <2> QED
    BY <1>2, <2>1, <2>2, <2>3 DEF UrlFetched
<1>3. CASE UploadStored(x)
  <2>1. PICK e : e = [t EXCEPT !.at = "stored"]
    OBVIOUS
  <2>2. e = [at |-> "stored", owner |-> t.owner, host |-> t.host, hops |-> t.hops]
    BY <1>0, <2>1
  <2>3. e \in Promos /\ e.at = "stored"
    BY <1>0, <2>2 DEF Promos, Running
  <2>4. promo' = [promo EXCEPT ![x] = e] /\ t.at = "uploading"
    BY <1>0, <1>3, <2>1 DEF UploadStored
  <2> QED
    BY <1>0, <1>3, <2>3, <2>4, PromotionBecomes DEF UploadStored
<1>4. CASE UploadReturns(x)
  BY <1>1, <1>4 DEF UploadReturns, Broken, Running
<1>5. CASE PromotionDropped(x)
  <2>1. Fresh(x) \in Promos /\ Fresh(x).at = "none"
    BY <1>0 DEF Fresh, Promos
  <2>2. promo' = [promo EXCEPT ![x] = Fresh(x)] /\ t.at \in Broken
    BY <1>5 DEF PromotionDropped, Dropped
  <2> QED
    BY <1>0, <1>5, <2>1, <2>2, PromotionBecomes DEF PromotionDropped, Broken
<1> QED
  BY <1>0, <1>2, <1>3, <1>4, <1>5 DEF PromotionStep

(* resolve_attachment_urls for the links of batch i of call c. *)
LEMMA GatherKeepsIInv ==
  ASSUME IInv, NEW c \in Calls \cap Requested, NEW i \in Nat, Gather(c, i), at[c] # "done",
         UNCHANGED files
  PROVE  IInv'
<1> DEFINE links == Batches(c)[i]
<1>1. /\ promo \in [Urls -> Promos] /\ broken \in [Urls -> Nat] /\ uploads \in [Urls -> Nat]
      /\ batch \in [Calls -> Nat]
      /\ link \in [Calls -> [Urls -> {"none", "waiting", "done"} \cup Broken]]
  BY DEF IInv, TypeOK, PromotionsTypeOK, Promos
<1>2. \E place \in {"history", "promote", "model"} : Goes(c, place)
  <2>1. TaskTypeOK /\ \E place \in {"history", "promote", "model"} : MoveTo(c, place)
    BY DEF Gather, IInv, TypeOK
  <2> QED
    BY <2>1, MoveGoes DEF Places
<1>3. ASSUME NEW x \in Urls
      PROVE  /\ JoinOrCreate(c, x) \in Promos
             /\ \/ JoinOrCreate(c, x) = promo[x]
                \/ promo[x].at = "none" /\ JoinOrCreate(c, x).at = "fetching"
  <2>1. CASE promo[x].at = "none"
    <3>1. PICK e : e = [promo[x] EXCEPT !.at = "fetching", !.owner = {c}]
      OBVIOUS
    <3>2. e = [at |-> "fetching", owner |-> {c}, host |-> promo[x].host, hops |-> promo[x].hops]
      BY <1>1, <3>1 DEF Promos
    <3>3. e \in Promos /\ e.at = "fetching"
      BY <1>1, <3>2 DEF Promos, Running
    <3> QED
      BY <2>1, <3>1, <3>3 DEF JoinOrCreate
  <2>2. CASE promo[x].at # "none"
    <3>1. JoinOrCreate(c, x) = promo[x]
      BY <2>2 DEF JoinOrCreate
    <3> QED
      BY <1>1, <3>1
  <2> QED
    BY <2>1, <2>2
<1>4. /\ promo' = [x \in Urls |-> IF x \in links THEN JoinOrCreate(c, x) ELSE promo[x]]
      /\ link' = [link EXCEPT ![c] = [x \in Urls |-> IF x \in links THEN Told(promo[x]) ELSE "none"]]
      /\ batch' = [batch EXCEPT ![c] = i]
      /\ UNCHANGED <<script, uploads, broken>>
  BY DEF Gather
<1> HIDE DEF links
<1>5. PromotionsTypeOK'
  <2>1. promo' \in [Urls -> Promos]
    BY <1>1, <1>3, <1>4
  <2>2. link' \in [Calls -> [Urls -> {"none", "waiting", "done"} \cup Broken]]
    <3>1. \A x \in Urls : Told(promo[x]) \in {"none", "waiting", "done"} \cup Broken
      BY DEF Told
    <3> QED
      BY <1>1, <1>4, <3>1
  <2>3. batch' \in [Calls -> Nat]
    BY <1>1, <1>4
  <2> QED
    BY <1>1, <1>4, <2>1, <2>2, <2>3 DEF PromotionsTypeOK, Promos
<1>6. UploadsInv'
  <2>1. \A x \in Urls : promo'[x].at \in {"stored", "done"} <=> promo[x].at \in {"stored", "done"}
    BY <1>1, <1>3, <1>4
  <2> QED
    BY <1>4, <2>1 DEF IInv, UploadsInv
<1> QED
  BY <1>2, <1>4, <1>5, <1>6, PromotionsGoOn

(* A step of a deployment call. *)
LEMMA AskingKeepsIInv ==
  ASSUME IInv, NEW c \in Calls, Asking(c)
  PROVE  IInv'
<1>0. /\ c \in Calls \cap Requested /\ AskStep(c) /\ UNCHANGED files /\ TaskTypeOK
      /\ batch \in [Calls -> Nat]
      /\ link \in [Calls -> [Urls -> {"none", "waiting", "done"} \cup Broken]]
  BY DEF Asking, IInv, TypeOK, PromotionsTypeOK
<1>1. CASE \E i \in Nat : Gather(c, i) /\ at[c] # "done"
  BY <1>0, <1>1, GatherKeepsIInv
<1>2. CASE \E place \in {"promote", "model", "expired", "done"} : Goes(c, place) /\ UNCHANGED <<script, promotions>>
  <2>1. PromotionsTypeOK' /\ UploadsInv'
    BY <1>2 DEF IInv, TypeOK, PromotionsTypeOK, UploadsInv, promotions
  <2> QED
    BY <1>0, <1>2, <2>1, PromotionsGoOn
<1>3. CASE BeginAsk(c)
  BY <1>1, <1>3 DEF BeginAsk
<1>4. CASE LinksResolved(c)
  <2>1. CASE \E x \in Links(c) : link[c][x] \in Broken /\ Settle(c, link[c][x]) /\ UNCHANGED <<script, promotions>>
    BY <1>0, <1>2, <2>1, SettleGoes DEF Broken, Outcomes
  <2>2. CASE at[c] = "history" /\ Gather(c, batch[c] + 1)
    BY <1>0, <1>1, <2>2
  <2>3. CASE at[c] = "promote" /\ MoveTo(c, "model") /\ UNCHANGED <<script, promotions>>
    BY <1>0, <1>2, <2>3, MoveGoes DEF Places
  <2> QED
    BY <1>4, <2>1, <2>2, <2>3 DEF LinksResolved
<1>5. CASE AskTimesOut(c)
  <2>1. Goes(c, "expired")
    BY <1>0, <1>5, MoveGoes DEF AskTimesOut, Places
  <2>2. Awaited(c) \cap Urls \in SUBSET Urls
    OBVIOUS
  <2>3. PromotionsTypeOK' /\ UploadsInv'
    <3>1. PromotionsEnd(Awaited(c) \cap Urls, "cancelled")
      BY <1>5 DEF AskTimesOut, PromotionsEnd
    <3>2. \A x \in Awaited(c) : promo[x].at \in Running
      BY DEF Awaited
    <3> QED
      BY <1>5, <3>1, <3>2, PromotionsEndKeeps DEF AskTimesOut, Broken
  <2> QED
    BY <1>0, <1>5, <2>1, <2>3, PromotionsGoOn DEF AskTimesOut
<1>6. CASE AskExpired(c) \/ ModelAnswers(c)
  BY <1>0, <1>2, <1>6, SettleGoes DEF AskExpired, ModelAnswers, Outcomes
<1> QED
  BY <1>0, <1>3, <1>4, <1>5, <1>6 DEF AskStep

-----------------------------------------------------------------------------
(* The invariant. *)

LEMMA InitIInv == Init => IInv
<1> SUFFICES ASSUME Init PROVE IInv
  OBVIOUS
<1> USE DEF Init, TaskInit, FilesInit, PromotionsInit
<1>1. RequestInv
  <2>1. \A c \in Calls \cap Requested : attempt[c] = 1 /\ Job(c).names \in Seq(Files) \ {<<>>}
    BY FilesAssumption DEF Job, Requested
  <2>2. \A c \in Calls \cap Requested : attempt[c] \in 1..Len(Job(c).names)
    BY <2>1
  <2> QED
    BY <2>2 DEF RequestInv
<1>2. TaskTypeOK
  BY DEF TaskTypeOK, Answers
<1>3. FilesTypeOK
  <2>1. present \subseteq Files /\ outside \in 0..script.others
    BY FilesAssumption
  <2>2. Stamps = {0, 1}
    BY DEF Stamps
  <2>3. /\ cache \in [Files -> [etag : Stamps, data : Stamps]]
        /\ loading \in [Files -> [at : {"none", "meta", "content", "body", "ok", "failed"},
                                  etag : Stamps, data : Stamps, owner : SUBSET Calls]]
    BY <2>2 DEF NoBytes, NoTask
  <2>4. download \in [Calls -> [Files ->
          [at : {"none", "waiting", "meta", "content", "body", "ok", "gone", "large", "failed"},
           etag : Stamps, data : Stamps, floor : Stamps]]]
    BY <2>2 DEF NoDownload
  <2>5. stamp \in [Files -> 1..clock] /\ attempt \in [Calls -> Nat \ {0}] /\ acked \in [Files -> Stamps]
    BY <2>2
  <2>6. sent \in [Calls -> [is : {"nothing", "applied", "refused", "denied", "error"}, stamp : Stamps]]
    BY <2>2
  <2> QED
    BY <2>1, <2>3, <2>4, <2>5, <2>6 DEF FilesTypeOK
<1>4. PromotionsTypeOK
  <2>1. \A x \in Urls : Fresh(x) \in Promos
    BY PromotionsAssumption DEF Fresh, Promos
  <2> QED
    BY <2>1 DEF PromotionsTypeOK, Promos
<1>5. FilesInv
  BY DEF FilesInv, CacheInv, LoadInv, DownloadInv, Dated, NoBytes, NoTask, NoDownload
<1>6. ChangesInv
  BY DEF ChangesInv, NoDownload
<1>7. UploadsInv
  BY DEF UploadsInv
<1> QED
  BY <1>1, <1>2, <1>3, <1>4, <1>5, <1>6, <1>7 DEF IInv, TypeOK

LEMMA NextIInv == IInv /\ [Next]_vars => IInv'
<1> SUFFICES ASSUME IInv, [Next]_vars PROVE IInv'
  OBVIOUS
<1>1. CASE UNCHANGED vars
  <2>1. UNCHANGED <<script, task, files, promotions>>
    BY <1>1 DEF vars
  <2>2. PromotionsTypeOK' /\ UploadsInv'
    BY <2>1 DEF IInv, TypeOK, PromotionsTypeOK, UploadsInv, promotions
  <2> QED
    BY <2>1, <2>2, PromotionsGoOn
<1>2. CASE Next
  BY <1>1, <1>2, FileStepKeepsIInv, DownloadStepKeepsIInv, LoadStepKeepsIInv, OutsideChangeKeepsIInv,
     AskingKeepsIInv, PromotionKeepsIInv
     DEF Next, Downloading, Loading, Others, Terminated
<1> QED
  BY <1>1, <1>2

LEMMA SpecIInv == Spec => []IInv
BY InitIInv, NextIInv, PTL DEF Spec

-----------------------------------------------------------------------------
(* The theorems. *)

(* Every variable of the calls of a request, of their files and of their promotions always
   holds a value of its type, and a call has an answer exactly when its task has ended. *)
THEOREM BatchTyped == Spec => []TypeOK
<1>1. IInv => TypeOK
  BY DEF IInv
<1> QED
  BY SpecIInv, <1>1, PTL

(* A reader never has older bytes than the last change it may know of: each change that is
   acknowledged drops the cached bytes, and the reads that began before it are the only
   ones that bring old bytes back (invalidate_file_data, StateHolder). *)
THEOREM OwnWritesRead == Spec => []ReadsSeeOwnWrites
<1>1. IInv => ReadsSeeOwnWrites
  BY DEF IInv, FilesInv, DownloadInv, ReadsSeeOwnWrites
<1> QED
  BY SpecIInv, <1>1, PTL

(* One upload for each url and each of its promotions that broke (DialFilePromoter). *)
THEOREM UploadedOnce == Spec => []OneUploadPerUrl
<1>1. IInv => OneUploadPerUrl
  BY DEF IInv, UploadsInv, OneUploadPerUrl, TypeOK, PromotionsTypeOK
<1> QED
  BY SpecIInv, <1>1, PTL

(* What a tool overwrites it has read, was told to overwrite, or was to remove: the etag of
   an edit is older than its bytes, so If-Match accepts it only when the bytes are those
   of the file (download_file, write_bytes). *)
THEOREM OnlySeenDestroyed == Spec => OnlyWhatWasSeen
<1> DEFINE Seen == \A c \in Calls, f \in Files :
             at[c] = "upload" /\ at'[c] = "reply" /\ Destroyed(f) =>
               \/ Job(c).tool = "edit" /\ download[c][f].data = stamp[f]
               \/ Job(c).force /\ f = Target(c)
               \/ Job(c).tool \in {"delete", "move"} /\ f = Job(c).path
<1>1. IInv /\ [Next]_vars => [Seen]_vars
  <2> SUFFICES ASSUME IInv, Next, NEW c \in Calls, NEW f \in Files,
                      at[c] = "upload", at'[c] = "reply", Destroyed(f)
               PROVE  \/ Job(c).tool = "edit" /\ download[c][f].data = stamp[f]
                      \/ Job(c).force /\ f = Target(c)
                      \/ Job(c).tool \in {"delete", "move"} /\ f = Job(c).path
    BY DEF vars
  <2>1. c \in Calls \cap Requested /\ Serve(c)
    <3>1. PICK S : at \in [Calls -> S]
      BY DEF IInv, TypeOK, TaskTypeOK
    <3>2. ASSUME NEW d \in Calls, FileStep(d)
          PROVE  d = c /\ Serve(c)
      <4>1. at' = [at EXCEPT ![d] = at'[d]]
        BY <3>1, <3>2 DEF FileStep, RefuseArguments, BeginDownload, Continue, BeginScan, FolderListed,
           ScanEnds, ScanFails, BeginChange, BeginSave, PageFetched, Serve, ReplyArrives, ReplyLost,
           BeginLoad, LoadReturns, BodyEnds, Settle, MoveTo
      <4>2. d = c
        BY <3>1, <4>1
      <4> QED
        BY <3>2, <4>2 DEF FileStep, RefuseArguments, BeginDownload, BeginScan, FolderListed,
           ScanEnds, ScanFails, BeginChange, BeginSave, PageFetched, ReplyArrives, ReplyLost,
           BeginLoad, LoadReturns, BodyEnds
    <3>3. ASSUME NEW d \in Calls, Asking(d)
          PROVE  FALSE
      <4>1. at' = [at EXCEPT ![d] = at'[d]] /\ at'[d] # "reply"
        BY <3>1, <3>3 DEF Asking, AskStep, BeginAsk, LinksResolved, AskTimesOut, AskExpired,
           ModelAnswers, Gather, Settle, MoveTo
      <4> QED
        BY <3>1, <4>1
    <3>4. ASSUME NEW d \in Calls, NEW g \in Files, Downloading(d, g)
          PROVE  FALSE
      <4>1. at' = at \/ (at' = [at EXCEPT ![d] = at'[d]] /\ at'[d] # "reply")
        BY <3>1, <3>4 DEF Downloading, DownloadStep, MetadataArrives, ContentServed, ContentArrives,
           ContentFails, Resume, Continue, Settle, MoveTo, task
      <4> QED
        BY <3>1, <4>1
    <3>5. ASSUME UNCHANGED at PROVE FALSE
      BY <3>5
    <3>6. CASE \E d \in Calls : FileCallStep(d)
      BY <3>2, <3>6 DEF FileCallStep
    <3>7. CASE \E g \in Files : Loading(g) \/ Others(g)
      BY <3>5, <3>7 DEF Loading, LoadStep, Others, OutsideChange, task
    <3>8. CASE \E x \in Urls : Promoting(x)
      BY <3>5, <3>8 DEF Promoting, PromotionStep, UrlFetched, UploadStored, UploadReturns,
         PromotionDropped, task
    <3>9. CASE Terminated
      BY <3>5, <3>9 DEF Terminated, vars, task
    <3> QED
      BY <3>3, <3>4, <3>6, <3>7, <3>8, <3>9 DEF Next
  <2>2. f \in Removes(c) \cup Puts(c) /\ Accepts(c) /\ f \in present
    BY <2>1 DEF Serve, Destroyed
  <2>3. f \in Removes(c) => Job(c).tool \in {"delete", "move"} /\ f = Job(c).path
    BY DEF Removes
  <2>4. CASE f \in Puts(c) /\ Job(c).tool = "edit"
    <3>1. f = Job(c).path /\ stamp[f] = download[c][f].etag
      BY <2>2, <2>4 DEF Puts, Target, Accepts
    <3>2. download[c][f].at = "ok"
      BY <2>1, <2>4, <3>1 DEF Serve, IInv, ChangesInv
    <3>3. /\ download[c][f].etag <= download[c][f].data /\ download[c][f].data <= stamp[f]
          /\ stamp[f] \in Nat /\ download[c][f].data \in Nat
      BY <3>2 DEF IInv, FilesInv, DownloadInv, Dated, TypeOK, FilesTypeOK, Stamps
    <3> QED
      BY <2>4, <3>1, <3>3
  <2>5. CASE f \in Puts(c) /\ Job(c).tool # "edit"
    <3>1. f = Target(c) /\ Job(c).tool # "delete"
      BY <2>5 DEF Puts
    <3>2. Job(c).tool \in {"write", "save", "copy", "move"}
      BY <2>1, <2>5, <3>1 DEF IInv, ChangesInv, Serve, Writers
    <3>3. Job(c).force
      BY <2>2, <3>1, <3>2 DEF Accepts, Target
    <3> QED
      BY <3>1, <3>3
  <2> QED
    BY <2>2, <2>3, <2>4, <2>5
<1>2. QED
  BY SpecIInv, <1>1, PTL DEF Spec, OnlyWhatWasSeen

=============================================================================
