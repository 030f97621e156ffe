-------------------------------- MODULE Cleaner --------------------------------
(***************************************************************************)
(* CleanerService::cleanFiles(): the removal of given paths, recursive for *)
(* directories, with exclusions that hold at every depth and an age limit. *)
(* The file system is shared: while the clean walks through it, other      *)
(* programs write files, and remove files and directories.  A node is a    *)
(* path, spelled in one way, and is always of the same kind.               *)
(***************************************************************************)
EXTENDS Integers, Sequences, FiniteSets, SequencesExt

CONSTANTS
    Nodes,              \* the nodes of the tree, in the order of their names
    Parent,             \* the directory of each, or Nowhere if above the tree
    Dirs, Files,        \* nodes that are directories, and that are not
    Linkable,           \* the latter that may be symbolic links
    RootOwned,          \* those of another user
    Givens,             \* the lists of paths a clean may be given
    MaxOthers           \* bound: steps of other programs during a clean

Nowhere == 0

ASSUME TreeAssumption ==
    /\ IsFiniteSet(Nodes)
    /\ Nodes \subseteq Nat \ {Nowhere} /\ Parent \in [Nodes -> Dirs \union {Nowhere}]
    /\ \A n \in Nodes : Parent[n] < n
    /\ Nodes = Dirs \union Files /\ Dirs \intersect Files = {}
    /\ Linkable \subseteq Files /\ RootOwned \subseteq Files
    /\ Givens \subseteq Seq(Nodes)
    /\ MaxOthers \in Nat

VARIABLES
    target,             \* what each symbolic link leads to
    exclusions,         \* loadExclusions(), once per clean
    limited,            \* minFileAgeSecs > 0
    toTrash,            \* moveToTrashInstead
    given,              \* the set of paths
    present,            \* external: the nodes that exist
    recent,             \* external: those modified after the cutoff
    phase, todo,        \* where cleanFiles() is, and the paths it has left
    frames,             \* the recursion, innermost directory first
    queued, rootPaths,  \* filesToRemove (then userPaths), rootPaths
    others,             \* bound: steps of other programs so far
    recentAtStart, stirred, kept, gone  \* history: recent at the start, changed by
                        \* others, not removable, not there when its turn came

argVars == <<target, exclusions, limited, toTrash, given, recentAtStart>>
diskVars == <<present, recent>>
walkVars == <<phase, todo, frames, queued, rootPaths>>
vars == <<argVars, diskVars, walkVars, others, stirred, kept, gone>>

Links == DOMAIN target

\* A node and the directories it is in.
Above[n \in Nodes] == {n} \union (IF Parent[n] = Nowhere THEN {} ELSE Above[Parent[n]])
Within(n, d) == n \in Nodes /\ d \in Above[n]

\* A set of numbers as an ascending sequence.
InOrder(S) ==
    CHOOSE s \in [1..Cardinality(S) -> S] :
       \A i, j \in 1..Cardinality(S) : i < j => s[i] < s[j]

Exclusion == [type : {"File", "Folder"}, path : Nodes]

\* The choices in the dialogs: directories, also through a link, as folders.
Excludable(e) == e.type = "Folder" <=> e.path \in Dirs \/ (e.path \in Links /\ target[e.path] \in Dirs)

TypeOK ==
    /\ exclusions \subseteq Exclusion /\ limited \in BOOLEAN /\ toTrash \in BOOLEAN
    /\ recent \subseteq present /\ present \subseteq Nodes
    \* what is there is in a directory that is there
    /\ \A n \in present : Parent[n] \in present \union {Nowhere}
    /\ phase \in {"paths", "remove", "elevated", "done"}
    /\ todo \in Seq(Nodes) /\ queued \in Seq(Nodes) /\ rootPaths \subseteq Nodes
    /\ frames \in Seq([dir : Nodes, todo : Seq(Nodes)])
    /\ others \in 0..MaxOthers /\ stirred \subseteq Nodes
    /\ kept \subseteq Nodes /\ gone \subseteq given

\* Exclusions count one by one, so one of them shows all there is to see.
\* Only files are moved to the trash (DOWNLOADS_AGED).
Init ==
    /\ \E L \in SUBSET Linkable : target \in [L -> (Nodes \ L) \union {Nowhere}]
    /\ exclusions \in {{}} \union {{e} : e \in {x \in Exclusion : Excludable(x)}}
    /\ limited \in BOOLEAN
    /\ todo \in Givens /\ given = ToSet(todo)
    /\ toTrash \in {FALSE} \union (IF given \subseteq Files \ Links THEN {TRUE} ELSE {})
    /\ present = Nodes
    /\ recent \in SUBSET (IF limited THEN Nodes \ Links ELSE {})
    /\ phase = "paths" /\ frames = <<>>
    /\ queued = <<>> /\ rootPaths = {}
    /\ others = 0 /\ recentAtStart = recent /\ stirred = {} /\ kept = {} /\ gone = {}

--------------------------------------------------------------------------------
(* Queries of the file system: QFileInfo follows links, except isSymLink(). *)

\* canonicalFilePath(), empty for what does not exist.
canonical(n) ==
    IF n \in Links \intersect present
      THEN IF target[n] \in present THEN target[n] ELSE Nowhere
      ELSE IF n \in present THEN n ELSE Nowhere

isSymLink(n) == n \in Links \intersect present
isDir(n) == canonical(n) \in Dirs

\* (A link that leads nowhere has no time, which is not after the cutoff.)
isRecent(n) == limited /\ canonical(n) \in recent

Entries(d) == {n \in present : Parent[n] = canonical(d)}

\* Without QDir::System, links that lead nowhere are not listed.
listed(n) == isSymLink(n) => canonical(n) # Nowhere

entryInfoList(d) == InOrder({n \in Entries(d) : listed(n)})

\* (Seeded fault: an exclusion that is a link does not protect what it leads to.)
isExcludedUnresolved(n) ==
    \E e \in exclusions :
       \/ n = e.path
       \/ e.type = "File" /\ isSymLink(n) /\ canonical(n) = canonical(e.path) /\ canonical(n) # Nowhere
       \/ e.type = "Folder" /\ Within(n, e.path)

\* What an exclusion says of a path, if the exclusion is chosen under a name that
\* leads to excl, and the path, if it is a link, leads to input.
Excludes(e, n, input, excl) ==
    \/ n = e.path
    \/ e.type = "File" /\ input # Nowhere /\ input = excl
    \/ e.type = "Folder" /\ (Within(n, e.path) \/ Within(input, excl) \/ Within(n, excl))

isExcluded(n) ==
    \E e \in exclusions :
       Excludes(e, n, IF isSymLink(n) THEN canonical(n) ELSE Nowhere, canonical(e.path))

--------------------------------------------------------------------------------
(* Changes of the file system.  A directory is as recent as its last entry.  *)

Without(S) ==
    /\ present' = present \ S
    /\ recent' = IF limited THEN (recent \union {Parent[n] : n \in S}) \intersect present' ELSE recent

\* removeFile(), or moveToTrash(): it may fail, and does of a directory.  (What a
\* link leads to stays.)
removeFile(n) ==
    \/ n \in present \ Dirs /\ Without({n}) /\ UNCHANGED kept
    \/ kept' = kept \union {n} /\ UNCHANGED diskVars

Inside(S) == {n \in present : \E p \in S : Within(n, p)}

\* rm -rf as root of what is there by now, which may be refused or fail in part.
removeElevated ==
    /\ phase = "elevated"
    /\ \E S \in SUBSET Inside(rootPaths) :
          /\ Inside(S) = S
          /\ Without(S) /\ kept' = kept \union (Inside(rootPaths) \ S)
    /\ phase' = "done"
    /\ UNCHANGED <<argVars, todo, frames, queued, rootPaths, others, stirred, gone>>

--------------------------------------------------------------------------------
(* The loop over the paths. *)

\* A directory's own time says nothing of what is in it.
tooRecentPath(p) == isRecent(p) /\ ~(isDir(p) /\ ~toTrash)

nextPath(p) ==
    /\ phase = "paths" /\ frames = <<>> /\ todo # <<>> /\ p = Head(todo)
    /\ todo' = Tail(todo)
    /\ UNCHANGED <<argVars, phase, rootPaths, others>>

passPath(p) ==
    /\ nextPath(p) /\ (isExcluded(p) \/ tooRecentPath(p))
    /\ UNCHANGED <<diskVars, frames, queued, stirred, kept, gone>>

taken(p) == ~isExcluded(p) /\ ~tooRecentPath(p)

trashOrUnlinkPath(p) ==
    /\ nextPath(p) /\ taken(p) /\ (toTrash \/ isSymLink(p))
    /\ removeFile(p)
    /\ stirred' = stirred \union ({Parent[p]} \ {Nowhere})
    /\ UNCHANGED <<frames, queued, gone>>

\* (Seeded fault: links to directories are walked.)
walkedThroughLinks(n) == isDir(n)
walked(n) == isDir(n) /\ ~isSymLink(n)

Frame(d) == [dir |-> d, todo |-> entryInfoList(d)]

enterPath(p) ==
    /\ nextPath(p) /\ taken(p) /\ ~toTrash /\ walked(p)
    /\ frames' = <<Frame(p)>>
    /\ UNCHANGED <<diskVars, queued, stirred, kept, gone>>

\* A file, or a path that is not there any more.
queuePath(p) ==
    /\ nextPath(p) /\ taken(p) /\ ~toTrash /\ ~isSymLink(p) /\ ~isDir(p)
    /\ queued' = Append(queued, p)
    /\ gone' = gone \union ({p} \ present)
    /\ UNCHANGED <<diskVars, frames, stirred, kept>>

\* currentUserOwns(): what does not exist has no owner.
currentUserOwns(p) == p \in present \ RootOwned

\* Those of the queue that are the user's, in its order.
userPaths ==
    LET mine == InOrder({k \in DOMAIN queued : currentUserOwns(queued[k])})
    IN  [k \in DOMAIN mine |-> queued[mine[k]]]

pathsDone ==
    /\ phase = "paths" /\ frames = <<>> /\ todo = <<>>
    /\ phase' = "remove"
    /\ queued' = userPaths
    /\ rootPaths' = {p \in ToSet(queued) : ~currentUserOwns(p)}
    /\ UNCHANGED <<argVars, diskVars, todo, frames, others, stirred, kept, gone>>

removeQueued ==
    /\ phase = "remove" /\ queued # <<>>
    /\ removeFile(Head(queued))
    /\ queued' = Tail(queued)
    /\ UNCHANGED <<argVars, phase, todo, frames, rootPaths, others, stirred, gone>>

queuedDone ==
    /\ phase = "remove" /\ queued = <<>>
    /\ phase' = IF rootPaths = {} THEN "done" ELSE "elevated"
    /\ UNCHANGED <<argVars, diskVars, todo, frames, queued, rootPaths, others, stirred, kept,
                   gone>>

--------------------------------------------------------------------------------
(* removeDirContentsRespectingExclusions(), one entry of its list at a time. *)

\* (Seeded fault: no age limit inside directories.)
tooRecentEntryNever(n) == FALSE
tooRecentEntry(n) == isRecent(n)

\* What is left of the list after an entry that is passed over.  (Seeded fault:
\* the function returns.)
afterPassedReturn(entries) == <<>>
afterPassed(entries) == Tail(entries)

nextEntry(n) ==
    /\ frames # <<>> /\ frames[1].todo # <<>> /\ n = Head(frames[1].todo)
    /\ UNCHANGED <<argVars, phase, todo, queued, rootPaths, others, stirred, gone>>

passEntry(n) ==
    /\ nextEntry(n) /\ (isExcluded(n) \/ tooRecentEntry(n))
    /\ frames' = [frames EXCEPT ![1].todo = afterPassed(frames[1].todo)]
    /\ UNCHANGED <<diskVars, kept>>

removeEntry(n) ==
    /\ nextEntry(n) /\ ~isExcluded(n) /\ ~tooRecentEntry(n) /\ ~walked(n)
    /\ removeFile(n)
    /\ frames' = [frames EXCEPT ![1].todo = Tail(frames[1].todo)]

enterEntry(n) ==
    /\ nextEntry(n) /\ ~isExcluded(n) /\ ~tooRecentEntry(n) /\ walked(n)
    /\ frames' = <<Frame(n)>> \o [frames EXCEPT ![1].todo = Tail(frames[1].todo)]
    /\ UNCHANGED <<diskVars, kept>>

emptied(d) == entryInfoList(d) = <<>>

\* The end of the list.  The empty shell of a sub-directory is removed, if
\* rmdir(".") does it: it fails if there is something that is not listed, and system
\* calls refuse a last component ".".
leaveDir ==
    /\ frames # <<>> /\ frames[1].todo = <<>>
    /\ frames' = Tail(frames)
    /\ LET d == frames[1].dir
       IN  \/ Len(frames) > 1 /\ d \in present /\ emptied(d)
              /\ Entries(d) = {} /\ Without({d})
           \/ UNCHANGED diskVars
    /\ UNCHANGED <<argVars, phase, todo, queued, rootPaths, others, stirred, kept, gone>>

--------------------------------------------------------------------------------
(* Other programs. *)

othersUnchanged ==
    others < MaxOthers /\ others' = others + 1 /\ UNCHANGED <<argVars, walkVars, kept, gone>>

\* A file is written, and made with its directories if it is not there.
fileWritten(n) ==
    LET made == Above[n] \ present
        newer == {n} \union made \union ({Parent[m] : m \in made} \ {Nowhere})
    IN  /\ othersUnchanged /\ phase # "done"
        /\ present' = present \union made
        /\ recent' = IF limited THEN recent \union newer ELSE recent
        /\ stirred' = stirred \union newer

\* A file, or a directory with all that is in it.
vanishes(n) ==
    /\ othersUnchanged /\ phase # "done" /\ n \in present
    /\ Without(Inside({n}))
    /\ stirred' = stirred \union Inside({n}) \union ({Parent[n]} \ {Nowhere})

--------------------------------------------------------------------------------
cleanFiles ==
    \/ \E n \in Nodes :
          \/ passPath(n) \/ trashOrUnlinkPath(n) \/ enterPath(n) \/ queuePath(n)
          \/ passEntry(n) \/ removeEntry(n) \/ enterEntry(n)
    \/ leaveDir \/ pathsDone \/ removeQueued \/ queuedDone \/ removeElevated

Others == (\E n \in Files \ Links : fileWritten(n)) \/ (\E n \in Nodes \ Links : vanishes(n))

Next == cleanFiles \/ Others

Spec == Init /\ [][Next]_vars

--------------------------------------------------------------------------------
(* Properties. *)

RemovedNow == IF others' = others THEN present \ present' ELSE {}

\* What the user protects, by the meaning of the two kinds of exclusions: a path,
\* or everything in a folder, under whichever name it was chosen.
Protected(n) ==
    \E e \in exclusions :
       \/ n = e.path
       \/ e.type = "Folder" /\ (Within(n, e.path) \/ Within(n, canonical(e.path)))

\* Whatever is protected survives, at every depth: it is neither removed itself,
\* nor with a directory around it, nor from the queue of the files.  But for what
\* came back, after the walk, under a path that was not there when its turn came:
\* such a path has no owner, so that rm -rf is to remove it.
ExcludedSurvive ==
    [][\A n \in RemovedNow :
          Protected(n) => phase # "paths" /\ \E p \in gone : Within(n, p)]_vars

\* Not true of the code: "re-check at every depth so an excluded child inside a
\* scanned directory survives".
ExcludedChildSurvives == [][\A n \in RemovedNow \ given : ~Protected(n)]_vars

\* With an age limit, a file that was recent when the clean began survives, and a
\* link to one, unless it was replaced meanwhile.  (A path that is a link to a
\* directory passes the test of the age like a directory, and is then unlinked.)
RecentSurvive ==
    [][\A n \in RemovedNow : n \notin Dirs /\ ~(n \in given /\ isDir(n))
          => ~limited \/ canonical(n) \notin recentAtStart \ stirred]_vars

\* A clean removes what it was given and what is inside: it does not follow links.
OnlyGivenIsRemoved == [][\A n \in RemovedNow : \E g \in given : Within(n, g)]_vars

\* What a path leads to, as it was when the clean began.
LeadsTo(n) == IF n \in Links THEN target[n] ELSE n

ExcludedAtStart(n) ==
    \E e \in exclusions :
       Excludes(e, n, IF n \in Links THEN target[n] ELSE Nowhere, LeadsTo(e.path))

\* Why the walk from g leaves a: it is excluded, or could not be removed; or it is a
\* link inside g that leads nowhere, which is not listed; or it is too recent, as a
\* directory inside g is with all that is in it.  (The clean itself changes
\* directories, and so the time of links to them.)
Reason(a, g) ==
    \/ ExcludedAtStart(a) \/ a \in kept
    \/ a # g /\ LeadsTo(a) = Nowhere
    \/ /\ limited /\ ~(a = g /\ LeadsTo(a) \in Dirs)
       /\ \/ {a, LeadsTo(a)} \intersect (recentAtStart \union stirred) # {}
          \/ a \in Links /\ LeadsTo(a) \in Dirs

\* What a clean leaves of the paths it was given, and nobody else changed
\* meanwhile, it leaves for a reason.
LeftHasReason ==
    phase = "done" =>
       \A n \in present \ (Dirs \union stirred), g \in given :
          /\ Within(n, g)
          /\ n \in Links => target[n] \in (present \ stirred) \union {Nowhere}
          => \E a \in Above[n] : Within(a, g) /\ Reason(a, g)

\* Not true of the code: "a directory's own mtime carries no useful signal", its
\* "aged children should still be cleaned".  A directory inside a directory is
\* passed over with everything in it if its own time is recent.
AgedAreCleaned ==
    phase = "done" =>
       \A n \in present \ (Dirs \union Links \union stirred \union recentAtStart), g \in given :
          Within(n, g) => \E a \in Above[n] : isExcluded(a) \/ a \in kept

\* Not true of the code: the clean does "not pop a pkexec prompt for paths the
\* user can delete themselves".  A path that is gone belongs to nobody.
OnlyForeignIsElevated == phase = "elevated" => rootPaths \subseteq RootOwned
================================================================================
