------------------------------- MODULE Skills -------------------------------
(***************************************************************************)
(* The skills of one request: DIAL prompts and DIAL skill resources that   *)
(* the application configures, and the skills the user picked in any       *)
(* message of the conversation.  Their initializers run one after another  *)
(* and fetch in parallel; the registry merges them with the predefined     *)
(* skills by name; the picks of the last message are put before the model  *)
(* as results of read_skill; what went wrong is reported; then the model   *)
(* reads skills and their bundled files.                                   *)
(*                                                                         *)
(* Contents are not modelled: a skill is where it is from, its url, the    *)
(* name in its manifest and the files it is advertised with.               *)
(***************************************************************************)
EXTENDS Naturals, Sequences, SequencesExt, FiniteSets, FiniteSetsExt

CONSTANTS
  Urls,        \* urls of prompts and skill resources
  Malformed,   \* a chip that is no reference to a skill
  NamedBy,     \* names the manifest at a url may state
  Odd,         \* names outside the recommended format
  Predefined,  \* names of the predefined skills
  Chats,       \* conversations: the chips of each user message
  Configs,     \* [prompts, resources]: urls as an application lists them
  Hidden,      \* files a skill does not publish: dot files, binaries, SKILL.md
  Files,       \* files a skill may bundle
  Listings,    \* what Core may answer to a listing, page by page
  NoToken,     \* a page without a next_token
  PerMessage,  \* SKILL_INVOCATION_MAX_SKILLS_PER_MESSAGE
  MaxSkills,   \* SKILL_INVOCATION_MAX_SKILLS
  MaxFiles,    \* DIAL_SKILLS_MAX_FILES
  MaxPages,    \* DIAL_SKILLS_LISTING_MAX_PAGES
  Calls,       \* calls of read_skill in this request
  NoUrl, NoFile, Nothing

ASSUME LimitsAssumption == {PerMessage, MaxSkills, MaxFiles, MaxPages} \subseteq (Nat \ {0})

VARIABLES
  chat,      \* chips of the request's messages
  config,    \* ApplicationConfig.skills
  phase,     \* the initializer that runs; then "messages", "issues", "loop"
  fetched,   \* results of the fetches of this initializer
  found,     \* resolved skills of each context
  issues,    \* exceptions of each context
  merged,    \* SkillsRegistry: [listed, entries, collisions], or Nothing
  answers,   \* what the model is given for each pick of the last message
  reported,  \* issues in the stage "Initialization issues"
  cache,     \* DialSkillReader: [url, file] that were read
  reads      \* the calls of read_skill

vars == <<chat, config, phase, fetched, found, issues, merged, answers, reported, cache, reads>>

Sources == {"prompts", "resources", "picks"}

-----------------------------------------------------------------------------
(* message_skill_urls: in chip order, without repetitions and malformed chips. *)
Distinct(urls) ==
  FoldLeft(LAMBDA acc, u : IF Contains(acc, u) THEN acc ELSE Append(acc, u), <<>>, urls)

Chips(message) == Distinct(SelectSeq(message, LAMBDA u : u # Malformed))

(* _clamp_per_message_to_total *)
Limit == Min({PerMessage, MaxSkills})

(* collect_picks: the new chips of each user message up to the limit, and the rest. *)
Collected ==
  LET Collect(acc, message) ==
        LET fresh == SelectSeq(Chips(message), LAMBDA u : u \notin acc.seen)
            kept == SubSeq(fresh, 1, Min({Limit, Len(fresh)}))
        IN [seen |-> acc.seen \cup ToSet(kept),
            picks |-> Append(acc.picks, kept),
            over |-> SubSeq(fresh, Len(kept) + 1, Len(fresh))]
  IN FoldLeft(Collect, [seen |-> {}, picks |-> <<>>, over |-> <<>>], chat)

(* The picks of the message being answered. *)
Current == Last(Collected.picks)

(* Faulty variant: a budget of zero for the older picks lets all of them in. *)
BugChosen ==
  LET older == FlattenSeq(Front(Collected.picks))
      rest == Max({MaxSkills - Len(Current), 0})
  IN SubSeq(older, IF rest = 0 THEN 1 ELSE Max({Len(older) - rest + 1, 1}), Len(older)) \o Current

(* The current picks, and the newest of the older ones in what the limit leaves. *)
Chosen ==
  LET older == FlattenSeq(Front(Collected.picks))
      rest == Max({MaxSkills - Len(Current), 0})
  IN SubSeq(older, Max({Len(older) - rest + 1, 1}), Len(older)) \o Current

Todo(source) ==
  CASE source = "prompts" -> Distinct(config.prompts)
    [] source = "resources" -> Distinct(config.resources)
    [] source = "picks" -> Chosen

-----------------------------------------------------------------------------
(* One page of a listing: entries are taken until the inventory is full. *)
Page(acc, page) ==
  LET Take(taken, file) ==
        IF taken.cut THEN taken
        ELSE IF Cardinality(taken.files) >= MaxFiles THEN [taken EXCEPT !.cut = TRUE]
        ELSE IF file \in Hidden THEN taken
        ELSE [taken EXCEPT !.files = @ \cup {file}]
      taken == FoldLeft(Take, [files |-> acc.files, cut |-> FALSE], page.items)
      stop == taken.cut \/ page.next = NoToken \/ page.next \in acc.seen
  IN IF acc.stopped THEN acc
     ELSE [files |-> taken.files, cut |-> taken.cut, stopped |-> stop,
           seen |-> acc.seen \cup {page.next}]

(* list_text_files: SkillInventory; a listing has as many pages as tokens lead to. *)
Inventory(pages) ==
  LET walk == FoldLeft(Page, [files |-> {}, cut |-> FALSE, stopped |-> FALSE, seen |-> {}],
                       SubSeq(pages, 1, Min({MaxPages, Len(pages)})))
  IN [files |-> walk.files, cut |-> walk.cut \/ ~walk.stopped]

Skill(source, url, name, inventory) ==
  [from |-> source, url |-> url, name |-> name,
   files |-> inventory.files, note |-> inventory.cut /\ inventory.files # {}]

NoInventory == [files |-> {}, cut |-> FALSE]

(* parse_frontmatter: a name outside the format is a warning; without a name, or
   with no frontmatter at all, the manifest is refused. *)
Parsed(url) == {[name |-> n, warned |-> n \in Odd] : n \in NamedBy[url]}

Result(skill, warned) == [skill |-> skill, warned |-> warned]

(* _fetch_one of a prompt *)
PromptResults(url) ==
  {Nothing} \cup {Result(Skill("prompts", url, m.name, NoInventory), m.warned) : m \in Parsed(url)}

(* _fetch_one of a skill resource: the manifest, then the files; a listing that
   breaks leaves the skill without files and with a warning. *)
ResourceResults(source, url) ==
  LET Whole(m) == {Result(Skill(source, url, m.name, Inventory(pages)), m.warned) : pages \in Listings}
      Bare(m) == {Result(Skill(source, url, m.name, NoInventory), TRUE)}
  IN {Nothing} \cup UNION {Whole(m) \cup Bare(m) : m \in Parsed(url)}

Issue(url, why) == [url |-> url, why |-> why]

(* resolve: of skills with the same name the first in the list stays. *)
Resolution(urls, results) ==
  LET Warned(u) == IF results[u].warned THEN {Issue(u, "warning")} ELSE {}
      Add(acc, u) ==
        IF results[u] = Nothing
          THEN [acc EXCEPT !.issues = @ \cup {Issue(u, "failed")}]
        ELSE IF \E s \in ToSet(acc.skills) : s.name = results[u].skill.name
          THEN [acc EXCEPT !.issues = @ \cup Warned(u) \cup {Issue(u, "duplicate")}]
          ELSE [skills |-> Append(acc.skills, results[u].skill), issues |-> acc.issues \cup Warned(u)]
  IN FoldLeft(Add, [skills |-> <<>>, issues |-> {}], urls)

(* __report: of the picks, only what is wrong with those of this message. *)
Reportable(source, all) ==
  IF source = "picks" THEN {i \in all : i.url = NoUrl \/ i.url \in ToSet(Current)} ELSE all

(* __report_overflow *)
Overflow(source) ==
  IF source = "picks" /\ Collected.over # <<>> THEN {Issue(NoUrl, "overflow")} ELSE {}

-----------------------------------------------------------------------------
Following(source) ==
  CASE source = "prompts" -> "resources" [] source = "resources" -> "picks" [] source = "picks" -> "messages"

Fetch(url) ==
  /\ phase \in Sources /\ url \in ToSet(Todo(phase)) \ DOMAIN fetched
  /\ \E r \in IF phase = "prompts" THEN PromptResults(url) ELSE ResourceResults(phase, url) :
       fetched' = [u \in DOMAIN fetched \cup {url} |-> IF u = url THEN r ELSE fetched[u]]
  /\ UNCHANGED <<chat, config, phase, found, issues, merged, answers, reported, cache, reads>>

(* The initializer of a source ends when all its fetches have. *)
Settle ==
  /\ phase \in Sources /\ ToSet(Todo(phase)) = DOMAIN fetched
  /\ LET output == Resolution(Todo(phase), fetched)
     IN /\ found' = [found EXCEPT ![phase] = output.skills]
        /\ issues' = [issues EXCEPT ![phase] = Reportable(phase, output.issues) \cup Overflow(phase)]
  /\ phase' = Following(phase) /\ fetched' = <<>>
  /\ UNCHANGED <<chat, config, merged, answers, reported, cache, reads>>

(* The resolver as a whole raises. *)
Break ==
  /\ phase \in Sources /\ Todo(phase) # <<>> /\ fetched = <<>>
  /\ issues' = [issues EXCEPT ![phase] = Reportable(phase, {Issue(NoUrl, "catastrophic")}) \cup Overflow(phase)]
  /\ phase' = Following(phase)
  /\ UNCHANGED <<chat, config, fetched, found, merged, answers, reported, cache, reads>>

(* AgentSkillsProvider *)
PredefinedSkills == [i \in 1..Cardinality(Predefined) |->
                       Skill("predefined", NoUrl, SetToSeq(Predefined)[i], NoInventory)]

(* SkillsProvider.order: picks -10, predefined 0, prompts 10, resources 20 *)
InOrder == found["picks"] \o PredefinedSkills \o found["prompts"] \o found["resources"]

(* Faulty variant: the later of two skills is the one that is read. *)
BugMerge(skills) ==
  LET Add(acc, s) ==
        LET again == s.name \in DOMAIN acc.entries
        IN [listed |-> IF again THEN acc.listed ELSE Append(acc.listed, s),
            entries |-> [n \in DOMAIN acc.entries \cup {s.name} |-> IF n = s.name THEN s ELSE acc.entries[n]],
            collisions |-> acc.collisions \cup (IF again THEN {Issue(s.url, "collision")} ELSE {})]
  IN FoldLeft(Add, [listed |-> <<>>, entries |-> <<>>, collisions |-> {}], skills)

(* _get_merged *)
Merge(skills) ==
  LET Add(acc, s) ==
        IF s.name \in DOMAIN acc.entries
          THEN [acc EXCEPT !.collisions = @ \cup {Issue(s.url, "collision")}]
          ELSE [acc EXCEPT !.listed = Append(@, s),
                           !.entries = [n \in DOMAIN @ \cup {s.name} |-> IF n = s.name THEN s ELSE @[n]]]
  IN FoldLeft(Add, [listed |-> <<>>, entries |-> <<>>, collisions |-> {}], skills)

(* get_content of the injector: read_skill by the name of the pick, or the error. *)
Answer(url, registry) ==
  LET mine == SelectSeq(found["picks"], LAMBDA s : s.url = url)
  IN IF mine = <<>> THEN Nothing ELSE registry.entries[mine[1].name]

(* setup_messages: the system prompt merges the registry, then the picks are put in. *)
SetupMessages ==
  /\ phase = "messages"
  /\ LET registry == Merge(InOrder)
     IN /\ merged' = registry
        /\ answers' = [u \in ToSet(Current) |-> Answer(u, registry)]
  /\ phase' = "issues"
  /\ UNCHANGED <<chat, config, fetched, found, issues, reported, cache, reads>>

(* Faulty variant: the issues are collected before the registry was merged. *)
BugIssues == UNION {issues[s] : s \in Sources}

(* The merged list[InitializationException] *)
Issues == UNION {issues[s] : s \in Sources} \cup merged.collisions

(* handle_initialization_issues *)
Report ==
  /\ phase = "issues"
  /\ reported' = Issues
  /\ phase' = "loop"
  /\ UNCHANGED <<chat, config, fetched, found, issues, merged, answers, cache, reads>>

-----------------------------------------------------------------------------
Set(call, read) == reads' = [reads EXCEPT ![call] = read]

Row(name, file, got) == [name |-> name, file |-> file, got |-> got]

(* read_bundled_file: only skill resources have files, and only what they were
   advertised with is read. *)
Bundled(skill, file) ==
  IF skill.from \in {"predefined", "prompts"} \/ file \notin skill.files THEN "not available"
  ELSE IF [url |-> skill.url, file |-> file] \in cache THEN "text" ELSE "waiting"

(* get_skill_content and read_skill_file *)
Served(name, file) ==
  IF name \notin DOMAIN merged.entries THEN "unknown"
  ELSE IF file = NoFile THEN "text" ELSE Bundled(merged.entries[name], file)

(* The model calls read_skill. *)
Read(call, name, file) ==
  /\ phase = "loop" /\ reads[call] = Nothing
  /\ Set(call, Row(name, file, Served(name, file)))
  /\ UNCHANGED <<chat, config, phase, fetched, found, issues, merged, answers, reported, cache>>

(* read_text_file answers; only a text is kept. *)
FileRead(call) ==
  /\ reads[call] # Nothing /\ reads[call].got = "waiting"
  /\ LET row == reads[call]
         key == [url |-> merged.entries[row.name].url, file |-> row.file]
     IN \/ Set(call, [row EXCEPT !.got = "text"]) /\ cache' = cache \cup {key}
        \/ Set(call, [row EXCEPT !.got = "error"]) /\ cache' = cache
  /\ UNCHANGED <<chat, config, phase, fetched, found, issues, merged, answers, reported>>

-----------------------------------------------------------------------------
Init ==
  /\ chat \in Chats /\ config \in Configs
  /\ phase = "prompts" /\ fetched = <<>>
  /\ found = [s \in Sources |-> <<>>] /\ issues = [s \in Sources |-> {}]
  /\ merged = Nothing /\ answers = <<>> /\ reported = {}
  /\ cache = {} /\ reads = [c \in Calls |-> Nothing]

Names == Predefined \cup UNION {NamedBy[u] : u \in Urls}

Next ==
  \/ (\E u \in Urls : Fetch(u)) \/ Settle \/ Break \/ SetupMessages \/ Report
  \/ \E c \in Calls :
       FileRead(c) \/ \E n \in Names, f \in (Files \ Hidden) \cup {NoFile} : Read(c, n, f)

Spec == Init /\ [][Next]_vars

-----------------------------------------------------------------------------
(* No context holds two skills of one name. *)
TypeOK ==
  /\ phase \in Sources \cup {"messages", "issues", "loop"}
  /\ \A s \in Sources :
       /\ \A i, j \in DOMAIN found[s] : i # j => found[s][i].name # found[s][j].name
       /\ \A i \in issues[s] : i.url \in Urls \cup {NoUrl}
  /\ \A k \in cache : k.url \in Urls /\ k.file \in Files \ Hidden
  /\ \A c \in Calls : reads[c] # Nothing =>
       reads[c].got \in {"unknown", "text", "not available", "waiting", "error"}

(* The chips of this message that no earlier message has picked; collect_picks drops
   a repeated one before anything looks at it. *)
NewChips == ToSet(Chips(Last(chat))) \ ToSet(FlattenSeq(Front(Collected.picks)))

(* Every skill that the application configures, and every chip of this message that is
   new, beyond the limit or not, is either listed in the system prompt or the user is
   told about it: that it failed, was shadowed or was one too many, or that its source
   broke.  Not claimed of a chip that an earlier message picked already: when its skill
   fails now, or the budget has no room for it, nobody is told (collect_picks, __report). *)
NoSilentLoss ==
  phase = "loop" =>
    \A s \in Sources :
      \A u \in IF s = "picks" THEN NewChips ELSE ToSet(Todo(s)) :
        \/ \E t \in ToSet(merged.listed) : t.from = s /\ t.url = u
        \/ \E i \in reported \cap (issues[s] \cup merged.collisions) :
             \/ i.url = u /\ i.why # "warning"
             \/ i.why = "catastrophic"
             \/ i.why = "overflow" /\ u \in ToSet(Collected.over)

(* The picks of a whole conversation never cost more than the limit, and those of
   this message are always among the ones that are fetched. *)
BudgetKept ==
  phase = "picks" => Len(Chosen) <= MaxSkills /\ ToSet(Current) \subseteq ToSet(Chosen)

(* A file bundled with a skill that the system prompt lists is not refused when
   the model asks for it by the name of that skill. *)
ListedCanBeRead ==
  phase = "loop" =>
    \A c \in Calls, s \in ToSet(merged.listed) :
      reads[c] # Nothing /\ reads[c].name = s.name /\ reads[c].file \in s.files
        => reads[c].got \in {"text", "waiting", "error"}

=============================================================================
