------------------------------ MODULE Artifacts ------------------------------
(***************************************************************************)
(* A file of the sandbox on its way to the user: the tool calls of a turn  *)
(* that extract it (agent/tools/executor.py, agent/artifacts/manager.py),  *)
(* the row the persistence worker saves for it, and the routes that serve  *)
(* and delete it (api/routes/artifacts.py); and the preview of one         *)
(* presentation (api/artifact_previews.py), which several requests want.   *)
(*                                                                         *)
(* The calls of a turn run at once; each download, save, emit, subprocess  *)
(* and file operation in a thread gives up the event loop.                 *)
(***************************************************************************)
EXTENDS Integers, Sequences, FiniteSets

CONSTANTS
    Extractors,     \* tool calls that run at once
    MaxArtifacts,   \* bounds: artifacts, turns
    MaxFileTurns,
    Viewers,        \* requests for the preview
    MaxRenders      \* _PREVIEW_RENDER_MAX_CONCURRENT

ASSUME ArtifactsAssumption == MaxRenders \in Nat \ {0} /\ MaxArtifacts \in Nat

VARIABLES
    present,    \* whether the sandbox has the file
    call,       \* of each call: where it is, the artifact it makes, and whether of its own data
    cached,     \* _artifacts_by_remote_path_this_turn, of the file: an artifact, or 0
    made,       \* history: the artifacts: of which turn, and of the file or a tool's own
    announced,  \* artifacts whose ARTIFACT_CREATED was emitted
    rowJob,     \* of each artifact, its write: "none", "queued", "again" or "done"
    artifactRows,   \* ArtifactModel
    fileTurn,   \* history: the turn, whether it was cut short, and whether its calls overlapped
    named,      \* history: the artifacts in the results of the turn's calls
    undone,     \* history: artifacts whose row was deleted when no write of it was left
    viewer,     \* of each request: where it is, the lock it waits for or holds, and how it ended
    lockOf,     \* _locks: the lock of the presentation, or 0
    lock,       \* the locks, by age: who holds it, and the queue
    work,       \* work_dir: "none", "dir", "source" or "pdf"
    slides,     \* slides_dir: "none", "partial" or "whole"
    manifest,   \* "none", "torn" or "whole"
    faulty,     \* history: requests whose own render went wrong
    entwined  \* history: requests whose render was under way with another

artifactVars == <<present, call, cached, made, announced, rowJob, artifactRows, fileTurn, named, undone>>
previewVars == <<viewer, lockOf, lock, work, slides, manifest, faulty, entwined>>

ArtifactIds == 1..MaxArtifacts
NoCall == [at |-> "idle", id |-> 0, own |-> FALSE]
Extracting == {c \in Extractors : call[c].at \in {"loads", "saves"}}
ToStage(c, at) == call' = [call EXCEPT ![c].at = at]

Idles(c) == call[c].at = "idle" /\ ~fileTurn.cut

-----------------------------------------------------------------------------
(* The calls of a turn *)

\* Mutant: the cache outlives the turn.
MutantResets == cached

Resets == 0

NextFileTurn ==
    /\ fileTurn.n < MaxFileTurns /\ \A c \in Extractors : call[c].at = "idle"
    /\ fileTurn' = [n |-> fileTurn.n + 1, cut |-> FALSE, clashed |-> FALSE]
    /\ cached' = Resets /\ named' = {}
    /\ UNCHANGED <<present, call, made, announced, rowJob, artifactRows, undone>>

\* The tool writes the file, or only mentions it.
ToolRuns(c) ==
    /\ Idles(c) /\ ToStage(c, "ran")
    /\ present' \in {present, TRUE}
    /\ UNCHANGED <<cached, made, announced, rowJob, artifactRows, fileTurn, named, undone>>

\* A call ends and names what the cache, or the call itself, has by then.
EndsWith(c, id) ==
    /\ call' = [call EXCEPT ![c] = NoCall]
    /\ named' = IF id = 0 THEN named ELSE named \cup {id}

ExtractKnown(c) ==
    /\ call[c].at = "ran" /\ cached # 0
    /\ EndsWith(c, cached)
    /\ UNCHANGED <<present, cached, made, announced, rowJob, artifactRows, fileTurn, undone>>

ExtractNew(c) ==
    /\ call[c].at = "ran" /\ cached = 0 /\ Len(made) < MaxArtifacts
    /\ ToStage(c, "loads")
    /\ fileTurn' = [fileTurn EXCEPT !.clashed = @ \/ Extracting # {}]
    /\ UNCHANGED <<present, cached, made, announced, rowJob, artifactRows, named, undone>>

Downloads(c) ==
    /\ call[c].at = "loads" /\ present
    /\ ToStage(c, "saves")
    /\ UNCHANGED <<present, cached, made, announced, rowJob, artifactRows, fileTurn, named, undone>>

\* The path is left out; another call may have cached it.
DownloadFails(c) ==
    /\ call[c].at = "loads" /\ EndsWith(c, cached)
    /\ UNCHANGED <<present, cached, made, announced, rowJob, artifactRows, fileTurn, undone>>

Makes(c, own) ==
    /\ Len(made) < MaxArtifacts
    /\ made' = Append(made, [turn |-> fileTurn.n, own |-> own])
    /\ call' = [call EXCEPT ![c] = [at |-> "emits", id |-> Len(made) + 1, own |-> own]]

\* Stored, and cached unless another call was faster.
SaveFile(c) ==
    /\ call[c].at = "saves" /\ Makes(c, FALSE)
    /\ cached' = IF cached = 0 THEN Len(made) + 1 ELSE cached
    /\ UNCHANGED <<present, announced, rowJob, artifactRows, fileTurn, named, undone>>

RegisterLocal(c) ==
    /\ Idles(c) /\ Makes(c, TRUE)
    /\ UNCHANGED <<present, cached, announced, rowJob, artifactRows, fileTurn, named, undone>>

SaveFails(c) ==
    /\ call[c].at = "saves" /\ EndsWith(c, 0)
    /\ UNCHANGED <<present, cached, made, announced, rowJob, artifactRows, fileTurn, undone>>

EmitCreated(c) ==
    /\ call[c].at = "emits"
    /\ announced' = announced \cup {call[c].id}
    /\ rowJob' = [rowJob EXCEPT ![call[c].id] = "queued"]
    /\ EndsWith(c, IF call[c].own THEN call[c].id ELSE cached)
    /\ UNCHANGED <<present, cached, made, artifactRows, fileTurn, undone>>

\* The turn is cancelled, and with it all its calls.
CutTurn ==
    /\ \E c \in Extractors : call[c].at # "idle"
    /\ call' = [c \in Extractors |-> NoCall]
    /\ fileTurn' = [fileTurn EXCEPT !.cut = TRUE]
    /\ UNCHANGED <<present, cached, made, announced, rowJob, artifactRows, named, undone>>

-----------------------------------------------------------------------------
(* Rows *)

\* A write that may have to be tried again, after save_artifact has committed or before.
SaveArtifact(a) ==
    /\ rowJob[a] \in {"queued", "again"} /\ a \notin artifactRows
    /\ \E after \in {"again", "done"} : rowJob' = [rowJob EXCEPT ![a] = after]
    /\ artifactRows' = artifactRows \cup {a}
    /\ UNCHANGED <<present, call, cached, made, announced, fileTurn, named, undone>>

\* Tries used up, or a row that is there already: the key is unique.
RowLost(a) ==
    /\ rowJob[a] \in {"queued", "again"}
    /\ rowJob' = [rowJob EXCEPT ![a] = "done"]
    /\ UNCHANGED <<present, call, cached, made, announced, artifactRows, fileTurn, named, undone>>

\* The rows go; the files stay.
DeleteArtifacts(ids) ==
    /\ ids # {} /\ ids \subseteq artifactRows
    /\ artifactRows' = artifactRows \ ids
    /\ undone' = undone \cup {a \in ids : rowJob[a] = "done"}
    /\ UNCHANGED <<present, call, cached, made, announced, rowJob, fileTurn, named>>

\* GET of an artifact: 404 without a row.  The file was stored before, and nothing deletes it.
Served(a) == a \in artifactRows

\* What a result names was made in the turn of the result, and was announced unless the turn
\* was cut short; the file makes one artifact in a turn whose calls do not overlap; only what
\* was announced is served, and what was deleted after its last write stays away.
FilesTrue ==
    /\ \A a \in named : made[a].turn = fileTurn.n
    /\ fileTurn.cut \/ named \subseteq announced \cup {call[c].id : c \in Extractors}
    /\ \A a, b \in DOMAIN made :
          a # b /\ ~made[a].own /\ ~made[b].own /\ made[a].turn = fileTurn.n /\ made[b].turn = fileTurn.n
              => fileTurn.clashed
    /\ \A a \in ArtifactIds : Served(a) => a \in announced \ undone

FilesInit ==
    /\ present = FALSE /\ cached = 0 /\ made = <<>>
    /\ call = [c \in Extractors |-> NoCall]
    /\ announced = {} /\ artifactRows = {} /\ named = {}
    /\ rowJob = [a \in ArtifactIds |-> "none"]
    /\ fileTurn = [n |-> 1, cut |-> FALSE, clashed |-> FALSE]
    /\ undone = {}

CallStep(c) ==
    \/ ToolRuns(c) \/ RegisterLocal(c) \/ ExtractKnown(c) \/ ExtractNew(c)
    \/ Downloads(c) \/ DownloadFails(c) \/ SaveFile(c) \/ SaveFails(c) \/ EmitCreated(c)

FilesNext ==
    \/ NextFileTurn \/ CutTurn
    \/ \E c \in Extractors : CallStep(c)
    \/ \E a \in ArtifactIds : SaveArtifact(a) \/ RowLost(a)
    \/ \E ids \in SUBSET ArtifactIds : DeleteArtifacts(ids)

FilesSpec == FilesInit /\ [][FilesNext]_artifactVars

-----------------------------------------------------------------------------
(* The preview *)

Rendering == {"opens", "converts", "draws", "drawing", "writes", "writing", "clears"}
Renderers == {v \in Viewers : viewer[v].at \in Rendering}
NobodyHolds == [by |-> {}, queue |-> <<>>]
NoViewer == [at |-> "idle", lock |-> 0, got |-> "nothing"]

\* Mutant: what is in slides_dir is taken for the preview.
MutantCached == slides # "none"

\* _read_manifest; that the slides are there does not say that they are whole.
Cached == manifest = "whole" /\ slides # "none"

ViewerAt(v, at) == viewer[v].at = at
ToState(v, at) == viewer' = [viewer EXCEPT ![v].at = at]
Answers(v, l, got) == viewer' = [viewer EXCEPT ![v] = [at |-> "over", lock |-> l, got |-> got]]
What == IF slides = "whole" THEN "slides" ELSE "broken slides"

\* ensure_ppt_preview up to its first wait: for the lock, or in mkdir.
AskPreview(v) ==
    /\ ViewerAt(v, "idle")
    /\ IF Cached THEN Answers(v, 0, What) /\ UNCHANGED <<lockOf, lock>>
       ELSE LET fresh == lockOf = 0
                l == IF fresh THEN Len(lock) + 1 ELSE lockOf
                locks == IF fresh THEN Append(lock, NobodyHolds) ELSE lock
                free == locks[l] = NobodyHolds
            IN  /\ lockOf' = l
                /\ lock' = IF free THEN [locks EXCEPT ![l].by = {v}]
                           ELSE [locks EXCEPT ![l].queue = Append(@, v)]
                /\ viewer' = [viewer EXCEPT ![v].at = IF free THEN "locked" ELSE "queues", ![v].lock = l]
    /\ UNCHANGED <<work, slides, manifest, faulty, entwined>>

\* The lock leaves the cache as soon as nobody holds it, whoever waits for it; and so does
\* a later lock that somebody holds.
GivesBack(l) ==
    /\ lock' = [lock EXCEPT ![l].by = {}]
    /\ lockOf' = 0

\* The head of the queue has the lock, and reads the manifest again.
Acquires(v) ==
    LET l == viewer[v].lock IN
    /\ ViewerAt(v, "queues") /\ lock[l].by = {}
    /\ lock[l].queue # <<>> /\ Head(lock[l].queue) = v
    /\ IF Cached
       THEN /\ Answers(v, l, What)
            /\ lock' = [lock EXCEPT ![l].queue = Tail(@)]
            /\ lockOf' = 0
       ELSE /\ ToState(v, "locked")
            /\ lock' = [lock EXCEPT ![l] = [by |-> {v}, queue |-> Tail(@.queue)]]
            /\ UNCHANGED lockOf
    /\ UNCHANGED <<work, slides, manifest, faulty, entwined>>

\* The semaphore; then the directories are made.
StartRender(v) ==
    /\ ViewerAt(v, "locked") /\ Cardinality(Renderers) < MaxRenders
    /\ ToState(v, "opens")
    /\ work' = IF work = "none" THEN "dir" ELSE work
    /\ entwined' = IF Renderers = {} THEN entwined ELSE entwined \cup Renderers \cup {v}
    /\ UNCHANGED <<lockOf, lock, slides, manifest, faulty>>

\* A step of the render needs what the last one left in work_dir.
Needs == [opens |-> {"dir", "source", "pdf"}, converts |-> {"source", "pdf"}, draws |-> {"pdf"}]

Materialize(v) ==
    /\ ViewerAt(v, "opens") /\ work \in Needs["opens"]
    /\ ToState(v, "converts") /\ work' = "source"
    /\ UNCHANGED <<lockOf, lock, slides, manifest, faulty, entwined>>

ConvertToPdf(v) ==
    /\ ViewerAt(v, "converts") /\ work \in Needs["converts"]
    /\ ToState(v, "draws") /\ work' = "pdf"
    /\ UNCHANGED <<lockOf, lock, slides, manifest, faulty, entwined>>

\* pdftoppm opens the file, and writes one slide after the other.
DrawSlides(v) ==
    /\ ViewerAt(v, "draws") /\ work \in Needs["draws"]
    /\ ToState(v, "drawing") /\ slides' = "partial"
    /\ UNCHANGED <<lockOf, lock, work, manifest, faulty, entwined>>

SlidesDrawn(v) ==
    /\ ViewerAt(v, "drawing") /\ ToState(v, "writes")
    /\ slides' = IF \E w \in Viewers \ {v} : ViewerAt(w, "drawing") THEN "partial" ELSE "whole"
    /\ UNCHANGED <<lockOf, lock, work, manifest, faulty, entwined>>

\* write_text is not atomic.
WriteManifest(v) ==
    /\ \/ ViewerAt(v, "writes") /\ ToState(v, "writing") /\ manifest' = "torn"
       \/ ViewerAt(v, "writing") /\ ToState(v, "clears") /\ manifest' = "whole"
    /\ UNCHANGED <<lockOf, lock, work, slides, faulty, entwined>>

\* A subprocess fails or is killed after its timeout; or what it needs is gone.
RenderFails(v) ==
    /\ viewer[v].at \in {"opens", "converts", "draws", "drawing"}
    /\ viewer' = [viewer EXCEPT ![v].at = "clears", ![v].got = "an error"]
    /\ faulty' = IF viewer[v].at # "drawing" /\ work \notin Needs[viewer[v].at] THEN faulty
                 ELSE faulty \cup {v}
    /\ UNCHANGED <<lockOf, lock, work, slides, manifest, entwined>>

\* rmtree of work_dir, whoever works in it; the manifest is read again.
EndRender(v) ==
    LET l == viewer[v].lock IN
    /\ ViewerAt(v, "clears") /\ work' = "none"
    /\ Answers(v, l, IF viewer[v].got = "an error" \/ ~Cached THEN "an error" ELSE What)
    /\ GivesBack(l)
    /\ UNCHANGED <<slides, manifest, faulty, entwined>>

PreviewsInit ==
    /\ viewer = [v \in Viewers |-> NoViewer]
    /\ lockOf = 0 /\ lock = <<>>
    /\ work = "none" /\ slides = "none" /\ manifest = "none"
    /\ faulty = {} /\ entwined = {}

PreviewsNext ==
    \E v \in Viewers :
        \/ AskPreview(v) \/ Acquires(v) \/ StartRender(v) \/ Materialize(v) \/ ConvertToPdf(v)
        \/ DrawSlides(v) \/ SlidesDrawn(v) \/ WriteManifest(v) \/ RenderFails(v) \/ EndRender(v)

PreviewsSpec == PreviewsInit /\ [][PreviewsNext]_previewVars

\* The renders of a presentation do not overlap before one of them has failed; a request
\* whose render ran alone, or that rendered nothing, fails by its own render only; and until
\* a render has failed whoever is shown slides is shown whole ones.  After that a request
\* that kept an old lock may draw again what is shown already.
PreviewsWhole ==
    /\ entwined # {} => faulty # {}
    /\ \A v \in Viewers : viewer[v].got = "an error" => v \in faulty \cup entwined
    /\ (\E v \in Viewers : viewer[v].got = "broken slides") => faulty # {}

\* What the results of tools and the routes show of artifacts is true, and previews are whole.
ArtifactsShown == FilesTrue /\ PreviewsWhole

=============================================================================
