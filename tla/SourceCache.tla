----------------------------- MODULE SourceCache -----------------------------
(***************************************************************************)
(* The two caches a command reads instead of the project's files.          *)
(*                                                                         *)
(* GitRepositoryAdapter::observe_cached keeps one repository observation   *)
(* under a signature of everything that went into it.                      *)
(* FileProjectStore::load_indexed_health_records keeps one entry per       *)
(* Result under the identity of its file.  Both identify a clean tracked   *)
(* file by the blob id Git has for it and hash every other file; both take *)
(* the identities first and read the files afterwards, with no lock        *)
(* against the people who edit them.                                       *)
(*                                                                         *)
(* Git is external: a file has a content in the working tree, in the       *)
(* index and in the last commit, and "git status" lists it unless the      *)
(* three agree.  What the Detectors find in a source is a function of its  *)
(* content and of the manifest, so an observation is kept as those.        *)
(***************************************************************************)
EXTENDS Integers, FiniteSets

CONSTANTS
    Process,        \* commands running at the same time
    Source,         \* source files below the analysis roots
    Result,         \* files of Result Records
    Observation,    \* the file config.yaml names as repository observation
    Refs,           \* values of a Result's or an outcome's refs
    Content,        \* contents of a file: a Result's refs and its outcome's
    Declares,       \* artifacts a content of the observation file declares
    First,          \* what is committed at the start
    Nil,
    MaxChanges,     \* edits, git add, git rm --cached and commits
    MaxCalls        \* calls of all processes together

File == Source \cup Result \cup {Observation}

\* The refs a Result and its outcome name; Nil: the outcome names none.
ResultRefs == [result : Refs, outcome : Refs \cup {Nil}]
\* The identity of a file: the blob Git has for it, or a hash of its bytes.
Identity == {"git", "sha256"} \X Content
\* What the index of Results keeps of a file; raced: it was read from the file
\* of a blob id after somebody had changed the project.
Entry == [id : Identity, digest : Content, record : ResultRefs, raced : BOOLEAN]
\* What goes into an observation, the observation, and the cache of both.
Signed == [rev : 0..MaxChanges, manifest : Content, clean : BOOLEAN,
           ids : [File -> Identity \cup {Nil}]]
Observed == [manifest : Content, rev : 0..MaxChanges, seen : [File -> Content \cup {Nil}],
             unbound : SUBSET Source]
Cached == [signature : Signed, repository : Observed, raced : BOOLEAN]

ASSUME ContentAssumption == Content \subseteq ResultRefs
ASSUME FileAssumption ==
    /\ Source \cap Result = {} /\ Observation \notin Source \cup Result
    /\ Declares \in [Content -> SUBSET Source]
    /\ First \in [File -> Content \cup {Nil}]
ASSUME NilAssumption ==
    /\ Nil \notin Refs /\ Nil \notin Content
    /\ Nil \notin Identity /\ Nil \notin Entry /\ Nil \notin Signed
    /\ Nil \notin Observed /\ Nil \notin Cached
ASSUME BoundAssumption == MaxChanges \in Nat /\ MaxCalls \in Nat

VARIABLES
    work,           \* the working tree
    index,          \* Git's index
    tree,           \* the tree of HEAD
    rev,            \* HEAD
    ignored,        \* whether Git ignores .adf/cache (git check-ignore)
    cache,          \* repository-observation-v1.json
    entries,        \* contract-health-results-v1.json
    proc,           \* the call each process is in
    changes, calls

cacheVars == <<work, index, tree, rev, ignored, cache, entries, proc, changes, calls>>
git == <<work, index, tree, rev, changes>>
stores == <<ignored, cache, entries>>

NoFiles == [f \in File |-> Nil]

(***************************************************************************)
(* Git.                                                                    *)
(***************************************************************************)
Tracked(f) == index[f] # Nil
\* What "git status --porcelain --untracked-files=all" lists.
Dirty == {f \in File : ~(work[f] = index[f] /\ index[f] = tree[f])}

(***************************************************************************)
(* Conversions.                                                            *)
(***************************************************************************)
\* An index entry drops the refs of an outcome that repeat the Result's.
Compact(c) == IF c.outcome = c.result THEN [c EXCEPT !.outcome = Nil] ELSE c
\* The reader of an outcome falls back on the Result.
RefsOf(c) == IF c.outcome = Nil THEN c.result ELSE c.outcome

\* A modified tracked file keeps the identity of its blob.
IdentityOfBlob(f, blobs, dirty) ==
    IF blobs[f] # Nil THEN <<"git", blobs[f]>>
    ELSE IF work[f] # Nil THEN <<"sha256", work[f]>> ELSE Nil

\* A clean tracked file is its blob, any other file its bytes; Nil when the
\* bytes cannot be read.
IdentityOf(f, blobs, dirty) ==
    IF f \notin dirty /\ blobs[f] # Nil THEN <<"git", blobs[f]>>
    ELSE IF work[f] # Nil THEN <<"sha256", work[f]>> ELSE Nil

(***************************************************************************)
(* Calls.  A call carries what it has read so far; "moved" records that    *)
(* somebody changed the project since it began.                            *)
(***************************************************************************)
Idle ==
    [at |-> "idle", health |-> FALSE, clean |-> FALSE, manifest |-> Nil,
     paths |-> {}, blobs |-> NoFiles, dirty |-> {}, ids |-> NoFiles,
     bytes |-> NoFiles, signature |-> Nil, rev |-> 0, seen |-> NoFiles,
     kept |-> NoFiles, answer |-> Nil, raced |-> FALSE, moved |-> FALSE]

At(p, stage) == proc[p].at = stage
Becomes(p, r) == proc' = [proc EXCEPT ![p] = r] /\ UNCHANGED calls
Fails(p) == Becomes(p, Idle) /\ UNCHANGED stores

CacheInit ==
    /\ work = First /\ index = First /\ tree = First /\ rev = 0
    /\ ignored \in BOOLEAN
    /\ cache = Nil
    /\ entries = NoFiles
    /\ proc = [p \in Process |-> Idle]
    /\ changes = 0 /\ calls = 0

\* assert_repository_state and read_manifest; a call they refuse ends at once.
Opens(clean) ==
    /\ clean => Dirty = {}
    /\ Tracked(Observation) /\ work[Observation] # Nil

\* LoadedProject::load reaches observe_cached.
ObserveCall(p, clean) ==
    /\ At(p, "idle") /\ calls < MaxCalls
    /\ Opens(clean)
    /\ calls' = calls + 1
    /\ proc' = [proc EXCEPT ![p] =
            [Idle EXCEPT !.at = IF ignored THEN "blobs" ELSE "observe",
                         !.clean = clean, !.manifest = work[Observation]]]
    /\ UNCHANGED <<git, stores>>

\* contract_health lists the Result files and reads the index it kept.
HealthCall(p) ==
    /\ At(p, "idle") /\ calls < MaxCalls
    /\ calls' = calls + 1
    /\ proc' = [proc EXCEPT ![p] =
            [Idle EXCEPT !.at = "blobs", !.health = TRUE,
                         !.paths = {f \in Result : work[f] # Nil},
                         !.kept = IF ignored THEN entries ELSE NoFiles]]
    /\ UNCHANGED <<git, stores>>

\* git ls-files --stage and git status; a health call goes on without ids when
\* the one fails, and takes every file for dirty when the other does.
BlobIds(fails) == IF fails THEN NoFiles ELSE index
DirtyPaths(c, fails) == IF fails THEN c.paths ELSE Dirty \cap c.paths
MayFail(c) == IF c.health THEN BOOLEAN ELSE {FALSE}

\* The files below the analysis roots, as git ls-files lists them.
Targets == {f \in Source : Tracked(f) \/ work[f] # Nil}

ListBlobs(p) ==
    /\ At(p, "blobs")
    /\ LET c == proc[p] IN
       \E fails \in MayFail(c) :
        Becomes(p, [c EXCEPT !.at = "dirty", !.blobs = BlobIds(fails),
            !.paths = IF c.health THEN @ ELSE Targets \cup Declares[c.manifest]])
    /\ UNCHANGED <<git, stores>>

ListDirty(p) ==
    /\ At(p, "dirty")
    /\ LET c == proc[p] IN
       \E fails \in MayFail(c) :
        Becomes(p, [c EXCEPT !.at = "hash", !.dirty = DirtyPaths(c, fails)])
    /\ UNCHANGED <<git, stores>>

Identities(c) ==
    [f \in File |-> IF f \in c.paths THEN IdentityOf(f, c.blobs, c.dirty) ELSE Nil]
\* A file that is gone has no identity.
Identified(c) == \A f \in c.paths : Identities(c)[f] # Nil

\* Hash what has no blob id.
Hash(p) ==
    /\ At(p, "hash")
    /\ LET c == proc[p]
           ids == Identities(c)
           hashed == {f \in c.paths : ids[f] # Nil /\ ids[f][1] = "sha256"}
       IN IF Identified(c)
          THEN /\ Becomes(p, [c EXCEPT !.at = IF c.health THEN "records" ELSE "lookup",
                                       !.ids = ids,
                                       !.bytes = [f \in File |-> IF f \in hashed THEN work[f]
                                                                 ELSE Nil]])
               /\ UNCHANGED stores
          ELSE Fails(p)
    /\ UNCHANGED git

(***************************************************************************)
(* The repository observation.                                             *)
(***************************************************************************)
\* The manifest is left out.
SignatureOfFiles(c) == [rev |-> rev, manifest |-> Nil, clean |-> c.clean, ids |-> c.ids]

\* observation_cache_signature; the Signal catalog is part of the binary.
Signature(c) == [rev |-> rev, manifest |-> c.manifest, clean |-> c.clean, ids |-> c.ids]

\* A cached observation is used only under its own signature.
Lookup(p) ==
    /\ At(p, "lookup")
    /\ LET c == proc[p]
           s == Signature(c)
       IN IF cache # Nil /\ cache.signature = s
          THEN Becomes(p, [c EXCEPT !.at = "answered", !.answer = cache.repository,
                                    !.raced = cache.raced])
          ELSE Becomes(p, [c EXCEPT !.at = "observe", !.signature = s])
    /\ UNCHANGED <<git, stores>>

\* observe checks the state, asks for HEAD and reads the manifest again.
ObserveStart(p) ==
    /\ At(p, "observe")
    /\ LET c == proc[p] IN
       IF Opens(c.clean)
       THEN /\ Becomes(p, [c EXCEPT !.at = "sources", !.rev = rev,
                                    !.manifest = work[Observation]])
            /\ UNCHANGED stores
       ELSE Fails(p)
    /\ UNCHANGED git

\* Each declared artifact must be tracked and be a file; its source is read.
ObserveSource(p, f) ==
    /\ At(p, "sources")
    /\ f \in Declares[proc[p].manifest] /\ proc[p].seen[f] = Nil
    /\ IF Tracked(f) /\ work[f] # Nil
       THEN Becomes(p, [proc[p] EXCEPT !.seen[f] = work[f]]) /\ UNCHANGED stores
       ELSE Fails(p)
    /\ UNCHANGED git

\* Files below the roots that no artifact declares become coverage gaps.
Unbound(manifest) == Targets \ Declares[manifest]

ObserveEnd(p) ==
    /\ At(p, "sources")
    /\ LET c == proc[p]
           repository == [manifest |-> c.manifest, rev |-> c.rev, seen |-> c.seen,
                          unbound |-> Unbound(c.manifest)]
       IN /\ \A f \in Declares[c.manifest] : c.seen[f] # Nil
          /\ Becomes(p, [c EXCEPT
                 !.at = IF ignored THEN "store" ELSE "answered",
                 !.answer = repository, !.raced = c.moved])
    /\ UNCHANGED <<git, stores>>

\* The cache is replaced by one rename; a failure to write it is ignored.
StoreObservation(p) ==
    /\ At(p, "store")
    /\ Becomes(p, [proc[p] EXCEPT !.at = "answered"])
    /\ cache' \in {cache, [signature |-> proc[p].signature,
                           repository |-> proc[p].answer, raced |-> proc[p].raced]}
    /\ UNCHANGED <<git, ignored, entries>>

(***************************************************************************)
(* The index of Results.                                                   *)
(***************************************************************************)
\* An entry is used again whenever the file still has one.
UsableByPath(entry, id) == entry # Nil

\* An entry is used again for the identity it was made for.
Usable(entry, id) == entry # Nil /\ entry.id = id

\* The bytes that were hashed are the bytes that are decoded; the file of a
\* blob id is read now.
LoadRecord(p, f) ==
    /\ At(p, "records")
    /\ LET c == proc[p]
           source == IF c.bytes[f] # Nil THEN c.bytes[f] ELSE work[f]
       IN /\ f \in c.paths
          /\ \/ /\ Usable(c.kept[f], c.ids[f])
                /\ Becomes(p, [c EXCEPT !.paths = @ \ {f}])
                /\ UNCHANGED stores
             \/ /\ ~Usable(c.kept[f], c.ids[f]) /\ source # Nil
                /\ Becomes(p, [c EXCEPT !.paths = @ \ {f},
                       !.kept[f] = [id |-> c.ids[f], digest |-> source,
                                    record |-> Compact(source),
                                    raced |-> c.moved /\ c.bytes[f] = Nil]])
                /\ UNCHANGED stores
             \/ /\ ~Usable(c.kept[f], c.ids[f]) /\ source = Nil
                /\ Fails(p)
    /\ UNCHANGED git

\* The index of exactly these Results replaces the old one, or fails to.
StoreIndex(p) ==
    /\ At(p, "records") /\ proc[p].paths = {}
    /\ LET c == proc[p]
           now == [f \in File |-> IF c.ids[f] # Nil THEN c.kept[f] ELSE Nil]
       IN /\ Becomes(p, [Idle EXCEPT !.at = "answered", !.health = TRUE,
                                     !.kept = now, !.moved = c.moved])
          /\ entries' \in {entries} \cup (IF ignored THEN {now} ELSE {})
    /\ UNCHANGED <<git, ignored, cache>>

\* The answer is used and the call ends, or the command dies: its temporary
\* file is never read.
Return(p) ==
    /\ ~At(p, "idle")
    /\ Fails(p)
    /\ UNCHANGED git

(***************************************************************************)
(* People edit files and use Git.                                          *)
(***************************************************************************)
Moves ==
    /\ changes < MaxChanges /\ changes' = changes + 1
    /\ proc' = [p \in Process |-> IF At(p, "idle") THEN proc[p]
                                  ELSE [proc[p] EXCEPT !.moved = TRUE]]
    /\ UNCHANGED <<stores, calls>>

EditFile(f, c) ==
    /\ Moves
    /\ work[f] # c /\ work' = [work EXCEPT ![f] = c]
    /\ UNCHANGED <<index, tree, rev>>

\* git add, or git rm --cached.
Stage(f, c) ==
    /\ Moves
    /\ index[f] # c /\ index' = [index EXCEPT ![f] = c]
    /\ UNCHANGED <<work, tree, rev>>

Commit ==
    /\ Moves
    /\ index # tree /\ tree' = index /\ rev' = rev + 1
    /\ UNCHANGED <<work, index>>

CacheNext ==
    \/ \E p \in Process :
        \/ \E clean \in BOOLEAN : ObserveCall(p, clean)
        \/ HealthCall(p) \/ ListBlobs(p) \/ ListDirty(p) \/ Hash(p)
        \/ Lookup(p) \/ ObserveStart(p) \/ ObserveEnd(p) \/ StoreObservation(p)
        \/ \E f \in Source : ObserveSource(p, f)
        \/ \E f \in Result : LoadRecord(p, f)
        \/ StoreIndex(p) \/ Return(p)
    \/ \E f \in File, c \in Content \cup {Nil} : EditFile(f, c)
    \/ \E f \in File : \E c \in {work[f], Nil} : Stage(f, c)
    \/ Commit

CacheSpec == CacheInit /\ [][CacheNext]_cacheVars

(***************************************************************************)
(* Properties.                                                             *)
(***************************************************************************)
CallStage == {"idle", "blobs", "dirty", "hash", "lookup", "observe", "sources", "store",
              "records", "answered"}
Files == [File -> Content \cup {Nil}]
Ids == [File -> Identity \cup {Nil}]
Index == [File -> Entry \cup {Nil}]
Call == [at : CallStage, health : BOOLEAN, clean : BOOLEAN, manifest : Content \cup {Nil},
         paths : SUBSET File, blobs : Files, dirty : SUBSET File, ids : Ids, bytes : Files,
         signature : Signed \cup {Nil}, rev : 0..MaxChanges, seen : Files, kept : Index,
         answer : Observed \cup {Nil}, raced : BOOLEAN, moved : BOOLEAN]

\* Every file has a content or none wherever Git keeps one, and whatever a
\* cache or a call holds is keyed by identities of those contents.
CacheTypeOK ==
    /\ work \in Files /\ index \in Files /\ tree \in Files
    /\ rev \in 0..changes /\ ignored \in BOOLEAN
    /\ cache \in Cached \cup {Nil} /\ entries \in Index
    /\ proc \in [Process -> Call]
    /\ changes \in 0..MaxChanges /\ calls \in 0..MaxCalls

\* The observation of a project nobody changes meanwhile.
Repository ==
    [manifest |-> work[Observation], rev |-> rev,
     seen |-> [f \in File |-> IF f \in Declares[work[Observation]] THEN work[f] ELSE Nil],
     unbound |-> Unbound(work[Observation])]

\* An observation served by observe_cached describes the project as it is,
\* whether it was cached or made: the manifest, HEAD, every declared source
\* and every unbound one.  Excepted are the calls during which somebody
\* changed the project, and the entries such a call left behind.
ObservationsAreCurrent ==
    \A p \in Process :
        At(p, "answered") /\ ~proc[p].health /\ ~proc[p].moved /\ ~proc[p].raced
            => proc[p].answer = Repository

(***************************************************************************)
(* What the caches and the calls in progress hold.                         *)
(***************************************************************************)
\* An observation says what its signature was made from.
Describes(o, s) ==
    /\ o.manifest = s.manifest /\ o.rev = s.rev
    /\ o.seen = [f \in File |-> IF f \in Declares[s.manifest] THEN s.ids[f][2] ELSE Nil]
    /\ o.unbound = {f \in Source : s.ids[f] # Nil} \ Declares[s.manifest]

\* An entry holds the content its identity names.
Genuine(e) == e # Nil /\ ~e.raced => e.digest = e.id[2] /\ e.record = Compact(e.digest)

\* The identities of the files in F as they are now.
Identifies(ids, F) ==
    \A f \in File : /\ ids[f] # Nil <=> f \in F
                    /\ ids[f] # Nil => ids[f][2] = work[f]

\* What an observation is made from, and the Results there are.
Inputs == Targets \cup Declares[work[Observation]]
Results == {f \in Result : work[f] # Nil}

\* What holds of a call whatever people do meanwhile.
Steady(c) ==
    /\ c.at # "idle" /\ ~c.health => c.manifest # Nil
    /\ c.at \in {"lookup", "observe", "sources", "store"} => ~c.health
    /\ c.at = "records" => c.health
    /\ c.at \in {"blobs", "dirty", "hash", "lookup", "observe"} => c.seen = NoFiles
    /\ c.at \in {"lookup", "store"} => ignored
    /\ c.at \in {"blobs", "dirty", "hash"} /\ ~c.health => ignored
    /\ c.at \in {"observe", "sources", "store"} /\ ignored => c.signature # Nil
    /\ c.at = "store" => c.answer # Nil
    /\ c.at = "store" /\ ~c.raced => Describes(c.answer, c.signature)
    /\ c.health => \A f \in File : Genuine(c.kept[f])
    /\ c.health /\ c.at # "answered" => c.paths \subseteq Result
    /\ c.at = "records" => \A f \in File :
           /\ f \in c.paths => c.ids[f] # Nil
           /\ c.bytes[f] # Nil => c.ids[f] # Nil /\ c.ids[f][2] = c.bytes[f]
           /\ c.ids[f] # Nil /\ f \notin c.paths => Usable(c.kept[f], c.ids[f])

\* What holds of a repository observation in the making, or made, as long as
\* nobody has changed the project since the call began.
FreshObservation(c) ==
    /\ c.at \in {"blobs", "dirty", "hash", "lookup", "observe", "sources"} =>
           c.manifest = work[Observation]
    /\ c.at \in {"dirty", "hash"} => c.paths = Inputs /\ c.blobs = index
    /\ c.at = "hash" => c.dirty = Dirty \cap c.paths
    /\ c.at = "lookup" => Identifies(c.ids, Inputs)
    /\ c.at \in {"observe", "sources"} /\ ignored =>
           /\ c.signature.rev = rev /\ c.signature.manifest = work[Observation]
           /\ Identifies(c.signature.ids, Inputs)
    /\ c.at = "sources" =>
           /\ c.rev = rev
           /\ \A f \in File : c.seen[f] # Nil =>
                  f \in Declares[c.manifest] /\ c.seen[f] = work[f]
    /\ c.at \in {"store", "answered"} /\ ~c.raced => c.answer = Repository

\* The same of a call for the Results.
FreshIndex(c) ==
    /\ c.at \in {"blobs", "dirty", "hash"} => c.paths = Results
    /\ c.at \in {"dirty", "hash"} => \A f \in File : c.blobs[f] \in {Nil, index[f]}
    /\ c.at = "hash" => Dirty \cap c.paths \subseteq c.dirty
    /\ c.at = "records" => Identifies(c.ids, Results)
    /\ c.at = "answered" => \A f \in File :
           /\ c.kept[f] # Nil <=> f \in Results
           /\ c.kept[f] # Nil => c.kept[f].id[2] = work[f]

CallsAreConsistent ==
    \A p \in Process :
        /\ Steady(proc[p])
        /\ ~proc[p].moved /\ ~proc[p].health => FreshObservation(proc[p])
        /\ ~proc[p].moved /\ proc[p].health => FreshIndex(proc[p])

StoresAreConsistent ==
    /\ cache # Nil /\ ~cache.raced => Describes(cache.repository, cache.signature)
    /\ \A f \in File : Genuine(entries[f])

\* What observe_cached relies on and promises (git_repository.rs:303): the
\* cache, the index and every call in progress say of the project what their
\* identities stand for.
CacheInvariant ==
    /\ CacheTypeOK /\ StoresAreConsistent /\ CallsAreConsistent
    /\ ObservationsAreCurrent

\* The Results a health report is built from are the ones in the project:
\* the same files, the same digests and, after compaction, the same refs,
\* except where the file of a blob id was read after somebody changed it.
\* An entry that was hashed is exact however the edits fell.
IndexedRecordsAreCurrent ==
    \A p \in Process :
        At(p, "answered") /\ proc[p].health /\ ~proc[p].moved
            => \A f \in Result :
                   LET e == proc[p].kept[f] IN
                   /\ e = Nil <=> work[f] = Nil
                   /\ e # Nil /\ ~e.raced
                        => e.digest = work[f] /\ RefsOf(e.record) = RefsOf(work[f])
=============================================================================
