---------------------------- MODULE ProjectFiles ----------------------------
(***************************************************************************)
(* The files of projects (routers/project.py).  The endpoints are plain    *)
(* functions: they run in worker threads, side by side, and none takes a   *)
(* lock.  Two parts, with no state in common:                              *)
(*                                                                         *)
(* - creating projects and the list of recent ones: a project is built in  *)
(*   a directory of its own beside its place, moved there, and only then   *)
(*   declared ready; projects.json is read, changed and written back;      *)
(* - the sources of one project and its record of exports: two manifests   *)
(*   that are read whole and written back whole, in a later step.  Imports *)
(*   run on the event loop beside the threads.                             *)
(***************************************************************************)
EXTENDS Naturals, Sequences, SequencesExt, FiniteSets, ListFilter

(***************************************************************************)
(* Creating projects                                                       *)
(***************************************************************************)
CONSTANTS Creators,    \* requests of POST /api/project/create
          RecentTasks, \* requests that only touch the list of recent projects
          Directories,      \* the directories projects are created at
          Empty,       \* nothing is there
          MaxRecent,   \* _MAX_RECENT
          MaxRemovals  \* bound on projects the user removes by hand

\* The project at a place: whose files, whose project.json, whether complete.
Built == [by : Creators, meta : Creators, built : BOOLEAN,
          status : {"creating", "ready"}]

ASSUME CreationAssumption ==
    /\ Empty \notin Built /\ Directories # {}
    /\ MaxRecent \in Nat \ {0} /\ MaxRemovals \in Nat

VARIABLES stage,     \* where each request stands
          target,    \* the place it works on
          temp,      \* its temporary directory: "none", "empty" or "built"
          project,   \* what is at each place: whose files, and what project.json says
          nested,    \* temporary directories that were moved into a place
          recent,    \* projects.json
          snapshot,  \* the list a request read and has not yet written back
          removals,
          removed,   \* history: the requests whose files the user removed from a place
          created    \* history: the requests told they created what is there now

creationVars == <<stage, target, temp, project, nested, recent, snapshot,
                  removals, removed, created>>

Requesters == Creators \cup RecentTasks
CreationStages == {"idle", "checked", "made", "built", "moved", "listed", "read", "loading",
           "removing", "listing", "done", "refused"}

CreationTypeOK ==
    /\ stage \in [Requesters -> CreationStages]
    /\ target \in [Requesters -> Directories]
    /\ temp \in [Creators -> {"none", "empty", "built"}]
    /\ \A p \in Directories : project[p] \in Built \cup {Empty}
    /\ nested \in [Directories -> SUBSET Creators]
    /\ Len(recent) <= MaxRecent /\ ToSet(recent) \subseteq Directories
    /\ snapshot \in [Requesters -> Seq(Directories)]
    /\ removals \in 0..MaxRemovals
    /\ {removed, created} \subseteq [Directories -> SUBSET Creators]

CreationInit ==
    /\ stage = [r \in Requesters |-> "idle"]
    /\ target = [r \in Requesters |-> CHOOSE p \in Directories : TRUE]
    /\ temp = [r \in Creators |-> "none"]
    /\ project = [p \in Directories |-> Empty]
    /\ nested = [p \in Directories |-> {}]
    /\ recent = <<>> /\ snapshot = [r \in Requesters |-> <<>>]
    /\ removals = 0
    /\ removed = [p \in Directories |-> {}] /\ created = [p \in Directories |-> {}]

Advance(r, a, b) == stage[r] = a /\ stage' = [stage EXCEPT ![r] = b]

----------------------------------------------------------------------------
(* _atomic_create_project.                                                 *)

\* Name, location and template are good, and nothing is at the place.
Check(r, p) ==
    /\ stage[r] = "idle"
    /\ target' = [target EXCEPT ![r] = p]
    /\ stage' = [stage EXCEPT ![r] = IF project[p] = Empty THEN "checked" ELSE "refused"]
    /\ UNCHANGED <<temp, project, nested, recent, snapshot, removals, removed, created>>

MakeTemp(r) ==
    /\ Advance(r, "checked", "made")
    /\ temp' = [temp EXCEPT ![r] = "empty"]
    /\ UNCHANGED <<target, project, nested, recent, snapshot, removals, removed, created>>

\* Folders, outline, project.json ("creating"), README, and the git history,
\* whose failure is a warning.
Build(r) ==
    /\ Advance(r, "made", "built")
    /\ temp' = [temp EXCEPT ![r] = "built"]
    /\ UNCHANGED <<target, project, nested, recent, snapshot, removals, removed, created>>

\* shutil.move: to the place, or into the directory that is there by now.
Move(r) ==
    LET p == target[r] IN
    /\ Advance(r, "built", "moved")
    /\ temp' = [temp EXCEPT ![r] = "none"]
    /\ IF project[p] = Empty
       THEN /\ project' = [project EXCEPT ![p] =
                 [by |-> r, meta |-> r, built |-> temp[r] = "built", status |-> "creating"]]
            /\ UNCHANGED nested
       ELSE /\ nested' = [nested EXCEPT ![p] = @ \cup {r}]
            /\ UNCHANGED project
    /\ UNCHANGED <<target, recent, snapshot, removals, removed, created>>

(* Mutant: a failure leaves the temporary directory.                       *)
LeaveTemp(r) == UNCHANGED temp

RemoveTemp(r) == temp' = [temp EXCEPT ![r] = "none"]

\* An error before the move has ended: the temporary directory goes.
CreationFails(r) ==
    /\ stage[r] \in {"checked", "made", "built"}
    /\ stage' = [stage EXCEPT ![r] = "refused"]
    /\ RemoveTemp(r)
    /\ UNCHANGED <<target, project, nested, recent, snapshot, removals, removed, created>>

\* project.json of the place is replaced by this request's, "ready"; the write
\* makes the directories that lack, so that it alone comes back to a place the
\* user has removed.  When it fails the request goes on.
DeclareReady(r) ==
    LET p == target[r] IN
    /\ Advance(r, "moved", "listed")
    /\ \/ project' = [project EXCEPT ![p] =
                         IF @ = Empty
                         THEN [by |-> r, meta |-> r, built |-> FALSE, status |-> "ready"]
                         ELSE [@ EXCEPT !.meta = r, !.status = "ready"]]
       \/ UNCHANGED project
    /\ UNCHANGED <<target, temp, nested, recent, snapshot, removals, removed, created>>

----------------------------------------------------------------------------
(* The list of recent projects.                                            *)

ReadRecent(r) ==
    /\ Advance(r, "listed", "read")
    /\ snapshot' = [snapshot EXCEPT ![r] = recent]
    /\ UNCHANGED <<target, temp, project, nested, recent, removals, removed, created>>

(* Mutant: the project is put in front, its older entry stays.             *)
PutInFront(earlier, p) ==
    SubSeq(<<p>> \o earlier, 1, IF Len(earlier) < MaxRecent THEN Len(earlier) + 1 ELSE MaxRecent)

\* A list without a project.
LeavingOut(list, p) == Kept(list, {n \in DOMAIN list : list[n] # p})

\* _add_recent: the project to the front, its older entry dropped.
WithRecent(earlier, p) ==
    LET list == <<p>> \o LeavingOut(earlier, p)
    IN  IF Len(list) > MaxRecent THEN SubSeq(list, 1, MaxRecent) ELSE list

\* _write_recent keeps what still exists.
WriteRecent(list) == recent' = Kept(list, {n \in DOMAIN list : project[list[n]] # Empty})

Finish(r) ==
    IF r \in Creators
    THEN created' = [created EXCEPT ![target[r]] = IF project[target[r]] = Empty THEN @
                                                   ELSE @ \cup {r}]
    ELSE UNCHANGED created

\* _add_recent, its list written back; failing to is no failure of the request.
WriteBack(r) ==
    /\ WriteRecent(WithRecent(snapshot[r], target[r])) \/ UNCHANGED recent
    /\ snapshot' = [snapshot EXCEPT ![r] = <<>>]
    /\ UNCHANGED <<target, temp, project, nested, removals, removed>>

AddRecent(r) == Advance(r, "read", "done") /\ WriteBack(r) /\ Finish(r)

\* load_project of a place with metadata, remove_recent_project of any, and
\* list_recent_projects, a read that writes: it drops what is gone.
AskRecent(r, p, how) ==
    /\ how = "loading" => project[p] # Empty
    /\ Advance(r, "idle", how)
    /\ target' = [target EXCEPT ![r] = p]
    /\ snapshot' = [snapshot EXCEPT ![r] = recent]
    /\ UNCHANGED <<temp, project, nested, recent, removals, removed, created>>

LoadProject(r) == Advance(r, "loading", "done") /\ WriteBack(r) /\ UNCHANGED created

RemoveRecent(r) ==
    /\ Advance(r, "removing", "done")
    /\ WriteRecent(LeavingOut(snapshot[r], target[r]))
    /\ snapshot' = [snapshot EXCEPT ![r] = <<>>]
    /\ UNCHANGED <<target, temp, project, nested, removals, removed, created>>

ListRecent(r) ==
    /\ Advance(r, "listing", "done")
    /\ IF \E q \in ToSet(snapshot[r]) : project[q] = Empty
       THEN WriteRecent(snapshot[r]) ELSE UNCHANGED recent
    /\ snapshot' = [snapshot EXCEPT ![r] = <<>>]
    /\ UNCHANGED <<target, temp, project, nested, removals, removed, created>>

----------------------------------------------------------------------------

\* The user removes a project's directory.
RemoveProject(p) ==
    /\ project[p] # Empty /\ removals < MaxRemovals
    /\ project' = [project EXCEPT ![p] = Empty]
    /\ nested' = [nested EXCEPT ![p] = {}]
    /\ created' = [created EXCEPT ![p] = {}]
    /\ removed' = [removed EXCEPT ![p] = @ \cup {project[p].by} \cup nested[p]]
    /\ removals' = removals + 1
    /\ UNCHANGED <<stage, target, temp, recent, snapshot>>

CreationNext ==
    \/ \E r \in Creators :
          \/ \E p \in Directories : Check(r, p)
          \/ MakeTemp(r) \/ Build(r) \/ Move(r) \/ CreationFails(r) \/ DeclareReady(r)
          \/ ReadRecent(r) \/ AddRecent(r)
    \/ \E r \in RecentTasks :
          \/ \E p \in Directories, how \in {"loading", "removing", "listing"} : AskRecent(r, p, how)
          \/ LoadProject(r) \/ RemoveRecent(r) \/ ListRecent(r)
    \/ \E p \in Directories : RemoveProject(p)

CreationSpec == CreationInit /\ [][CreationNext]_creationVars

----------------------------------------------------------------------------

\* A project appears at its place complete, whichever requests race for it,
\* unless the user removed the files of the request in between.
AppearsBuilt ==
    \A p \in Directories :
       project[p] # Empty => project[p].built \/ project[p].by \in removed[p]

\* A request that ended leaves no temporary directory of its own behind.
NoTempLeft == \A r \in Creators : stage[r] \in {"done", "refused"} => temp[r] = "none"

\* The list of recent projects names a project once.
RecentOnce == IsInjective(recent)

\* What creation and the list of recent projects keep in every interleaving.
ProjectsKept == AppearsBuilt /\ NoTempLeft /\ RecentOnce

\* Of the requests that race for a place one is told that it created it.
OneCreator == \A p \in Directories : Cardinality(created[p]) <= 1

(***************************************************************************)
(* The source library                                                      *)
(***************************************************************************)
CONSTANTS Workers,    \* requests; a request's own id names the source it makes
                      \* and the file it imports
          NoSource,
          NameOf,     \* what each names the file it imports or the source it makes
          MaxExports  \* the export records that are kept (100)

FileNames == {NameOf[w] : w \in Workers}

ASSUME LibraryAssumption == NoSource \notin Workers \cup FileNames /\ MaxExports \in Nat \ {0}

VARIABLES work,       \* what each request does and how far it is
          seen,       \* <<the manifest a request read>>, or <<>>
          sources,    \* sources.json: sources in their order
          files,      \* the files under references/
          undone,     \* history: files an import took back
          translation,\* the files of translations, by name: whose output they hold
          exports     \* exports.json

libraryVars == <<work, seen, sources, files, undone, translation, exports>>

\* A request stands for an id: the source it created, the file it imported; a
\* translation's file is told by its name.
Source == [id : Workers, original : Workers \cup {NoSource},
           translated : FileNames \cup {NoSource}]

LibIdle == [op |-> "none", id |-> NoSource, at |-> "idle", found |-> NoSource]

LibraryTypeOK ==
    /\ \A w \in Workers :
          /\ work[w].op \in {"none", "upsert", "import", "attach", "delete", "export"}
          /\ work[w].at \in {"idle", "file", "find", "copy", "read", "write", "done", "failed"}
    /\ sources \in Seq(Source)
    /\ files \subseteq Workers /\ undone \subseteq Workers
    /\ translation \in [FileNames -> Workers \cup {NoSource}]
    /\ Len(exports) <= MaxExports

LibraryInit ==
    /\ work = [w \in Workers |-> LibIdle] /\ seen = [w \in Workers |-> <<>>]
    /\ sources = <<>> /\ files = {} /\ undone = {}
    /\ translation = [name \in FileNames |-> NoSource]
    /\ exports = <<>>

At(w, op, a, b) ==
    /\ work[w].op = op /\ work[w].at = a
    /\ work' = [work EXCEPT ![w].at = b]

KnownSources(list, id) == \E n \in DOMAIN list : list[n].id = id
Entry(list, id) == list[CHOOSE n \in DOMAIN list : list[n].id = id]

----------------------------------------------------------------------------

\* A request arrives: for a source that exists somewhere in the manifest, for
\* one it will create (its own id), or with an id nobody knows.
First == [upsert |-> "read", import |-> "file", attach |-> "find", delete |-> "read",
          export |-> "read"]

Arrive(w, op, id) ==
    /\ work[w].at = "idle"
    /\ op \in {"attach", "delete"} => id # w
    /\ work' = [work EXCEPT ![w] = [op |-> op, id |-> id, at |-> First[op], found |-> NoSource]]
    /\ UNCHANGED <<seen, sources, files, undone, translation, exports>>

\* The upload is written beside the others under a name of its own.  From here
\* on an import gives the event loop back only when it has ended.
StoreFile(w) ==
    /\ \A other \in Workers : work[other].op = "import" =>
          work[other].at \notin {"find", "read", "write"}
    /\ At(w, "import", "file", "find")
    /\ files' = files \cup {w}
    /\ UNCHANGED <<seen, sources, undone, translation, exports>>

(* Mutant: an import that fails leaves its file.                           *)
LeaveFile(w) == UNCHANGED files /\ undone' = undone \cup {w}

TakeBack(w) == files' = files \ {w} /\ undone' = undone \cup {w}

\* _find_source: no such source is a 404; what it says now is written later.
FindSource(w) ==
    /\ work[w].at = "find"
    /\ LET id == work[w].id IN
       IF KnownSources(sources, id)
       THEN /\ work' = [work EXCEPT ![w].at = IF work[w].op = "attach" THEN "copy" ELSE "read",
                                    ![w].found = IF work[w].op = "attach"
                                                 THEN Entry(sources, id).original
                                                 ELSE Entry(sources, id).translated]
            /\ UNCHANGED <<files, undone>>
       ELSE IF work[w].op = "import" /\ id = w       \* no id given: a new source
       THEN /\ work' = [work EXCEPT ![w].at = "read"]
            /\ UNCHANGED <<files, undone>>
       ELSE /\ work' = [work EXCEPT ![w].at = "failed"]
            /\ IF work[w].op = "import" THEN TakeBack(w) ELSE UNCHANGED <<files, undone>>
    /\ UNCHANGED <<seen, sources, translation, exports>>

\* attach copies the output to a file named after the original or, without one,
\* after the source; translations of sources with one name share it.
TranslatedName(w) == NameOf[IF work[w].found = NoSource THEN work[w].id ELSE work[w].found]

CopyTranslation(w) ==
    /\ At(w, "attach", "copy", "read")
    /\ translation' = [translation EXCEPT ![TranslatedName(w)] = w]
    /\ UNCHANGED <<seen, sources, files, undone, exports>>

ReadManifest(w) ==
    /\ work[w].at = "read"
    /\ seen' = [seen EXCEPT ![w] = <<IF work[w].op = "export" THEN exports ELSE sources>>]
    /\ work' = [work EXCEPT ![w].at = IF work[w].op = "delete"
                                         /\ ~KnownSources(sources, work[w].id)
                                      THEN "failed" ELSE "write"]
    /\ UNCHANGED <<sources, files, undone, translation, exports>>

----------------------------------------------------------------------------
(* _upsert_source.                                                         *)

\* The entry a request writes; upsert takes both files from the client.
Entered(w, original, translated) ==
    CASE work[w].op = "import" -> [id |-> work[w].id, original |-> w,
                                   translated |-> work[w].found]
      [] work[w].op = "attach" -> [id |-> work[w].id, original |-> work[w].found,
                                   translated |-> TranslatedName(w)]
      [] OTHER -> [id |-> work[w].id, original |-> original, translated |-> translated]

(* Mutant: an entry is always added.                                       *)
AlwaysAdded(list, entry) == <<entry>> \o list

\* It takes the place of the entry with its id, or comes first.
Replaced(list, entry) ==
    IF KnownSources(list, entry.id)
    THEN [n \in DOMAIN list |-> IF list[n].id = entry.id THEN entry ELSE list[n]]
    ELSE <<entry>> \o list

WriteEntry(w, original, translated) ==
    /\ work[w].op \in {"upsert", "import", "attach"}
    /\ At(w, work[w].op, "write", "done")
    /\ sources' = Replaced(Head(seen[w]), Entered(w, original, translated))
    /\ seen' = [seen EXCEPT ![w] = <<>>]
    /\ UNCHANGED <<files, undone, translation, exports>>

\* A file or the manifest cannot be read or written.
EntryFails(w) ==
    /\ work[w].at \in {"file", "find", "copy", "read", "write"}
    /\ work' = [work EXCEPT ![w].at = "failed"]
    /\ IF work[w].op = "import" /\ work[w].at # "file"
       THEN TakeBack(w) ELSE UNCHANGED <<files, undone>>
    /\ seen' = [seen EXCEPT ![w] = <<>>]
    /\ UNCHANGED <<sources, translation, exports>>

----------------------------------------------------------------------------

\* delete_project_source: the attached file first, when asked to and when it
\* is there, then the manifest.
DeleteSource(w, withFile) ==
    LET list  == Head(seen[w])
        entry == Entry(list, work[w].id) IN
    /\ At(w, "delete", "write", "done")
    /\ withFile => entry.original \in files
    /\ files' = IF withFile THEN files \ {entry.original} ELSE files
    /\ sources' = Kept(list, {n \in DOMAIN list : list[n].id # work[w].id})
    /\ seen' = [seen EXCEPT ![w] = <<>>]
    /\ UNCHANGED <<undone, translation, exports>>

DeleteHalfway(w) ==
    /\ At(w, "delete", "write", "failed")
    /\ Entry(Head(seen[w]), work[w].id).original \in files
    /\ files' = files \ {Entry(Head(seen[w]), work[w].id).original}
    /\ seen' = [seen EXCEPT ![w] = <<>>]
    /\ UNCHANGED <<sources, undone, translation, exports>>

\* The record of an export: read and written back, the newest first.
RecordExport(w) ==
    /\ At(w, "export", "write", "done")
    /\ exports' = LET list == <<w>> \o Head(seen[w])
                  IN  IF Len(list) > MaxExports THEN SubSeq(list, 1, MaxExports) ELSE list
    /\ seen' = [seen EXCEPT ![w] = <<>>]
    /\ UNCHANGED <<sources, files, undone, translation>>

\* A client names a file only after the manifest has told it of one.
Attached   == {sources[n].original : n \in DOMAIN sources} \cup {NoSource}
TranslatedAs == {sources[n].translated : n \in DOMAIN sources} \cup {NoSource}

LibraryNext ==
    \E w \in Workers :
       \/ \E op \in {"upsert", "import", "attach", "delete", "export"}, id \in Workers :
             Arrive(w, op, id)
       \/ StoreFile(w) \/ FindSource(w) \/ CopyTranslation(w) \/ ReadManifest(w)
       \/ \E original \in Attached, translated \in TranslatedAs :
             WriteEntry(w, original, translated)
       \/ EntryFails(w)
       \/ DeleteSource(w, TRUE) \/ DeleteSource(w, FALSE) \/ DeleteHalfway(w)
       \/ RecordExport(w)

LibrarySpec == LibraryInit /\ [][LibraryNext]_libraryVars

----------------------------------------------------------------------------

\* Whatever requests overlap, the manifest has one entry per source, ...
OneEntryEach ==
    \A m, n \in DOMAIN sources : m # n => sources[m].id # sources[n].id

\* ... and a file an import took back is neither there nor anybody's original.
TakenBackIsGone ==
    \A f \in undone : f \notin files /\ \A n \in DOMAIN sources : sources[n].original # f

\* What the project's manifests keep in every interleaving.
LibraryKept == OneEntryEach /\ TakenBackIsGone
=============================================================================
