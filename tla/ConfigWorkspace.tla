-------------------------- MODULE ConfigWorkspace --------------------------
(***************************************************************************)
(* The owned configuration workspace of evo-storage (lib.rs,               *)
(* OwnedConfigWorkspace): a private directory under /tmp, filled with the  *)
(* files of one generated case, sealed, read once and removed.             *)
(*                                                                         *)
(* Every entry is remembered by the inode it had when it was made, all     *)
(* access goes through descriptors of those inodes, and cleanup unlinks a  *)
(* name only while it still leads to the inode remembered for it.  A       *)
(* workspace that cannot be removed completely poisons the process: no     *)
(* other one is made in it.                                                *)
(*                                                                         *)
(* Another process of the same user may do anything to the tree between    *)
(* two system calls (meddle).  A new inode has a number of its own.        *)
(***************************************************************************)
EXTENDS Common

CONSTANTS
    WCallers,       \* threads that ask for a workspace
    WNames,         \* the names of root directories, tried in order
    WDirs,          \* directories below the root
    WFiles,         \* members of the case
    WParent,        \* the directory of each of them
    WOrder,         \* the order in which populate makes them
    Root,           \* the root directory
    WInodes,        \* bound: inodes
    WSpaces,        \* bound: workspaces
    WMeddling,      \* bound: acts of another process
    WCrashes        \* bound: restarts of this one

Entries == WDirs \cup WFiles
WNodes == Entries \cup {Root}

WPlaces == {"mkdir", "stat", "open", "file", "write", "preopen", "seal", "next", "ready", "cleanup"}
WLinks == 1..WInodes \cup {None}
WorkspaceRow ==
    [owner : WCallers, serial : Nat, at : WPlaces, step : Nat, name : 1..WNames, tries : Nat,
     known : [WNodes -> WLinks], made : Seq(WNodes), fds : SUBSET WNodes,
     reader : [WFiles -> WLinks], writer : WLinks, read : BOOLEAN, failed : BOOLEAN]

ASSUME WorkspaceShape ==
    /\ {WInodes, WSpaces, WMeddling, WCrashes, WNames} \subseteq Nat
    /\ WParent \in [WDirs \cup WFiles -> WDirs \cup {Root}]

ASSUME WorkspaceAbsent == None \notin Nat /\ None \notin WorkspaceRow

\* Directories are those of the members; populate makes the root, then each entry
\* once, a directory before what is in it.
ASSUME WorkspaceLayout ==
    /\ IsFiniteSet(WDirs) /\ IsFiniteSet(WFiles) /\ WDirs \cap WFiles = {} /\ Root \notin Entries /\ "stray" \notin Entries
    /\ \A d \in WDirs : WParent[d] = Root /\ \E f \in WFiles : WParent[f] = d
    /\ WOrder \in Seq(WNodes) /\ WOrder # <<>> /\ WOrder[1] = Root
    /\ \A n \in WNodes : \E k \in 1..Len(WOrder) : WOrder[k] = n
    /\ \A j, k \in 1..Len(WOrder) : WOrder[j] = WOrder[k] => j = k
    /\ \A k \in 2..Len(WOrder) : \E j \in 1..(k - 1) : WOrder[j] = WParent[WOrder[k]]

VARIABLES
    inode,      \* what each inode is
    nextInode,
    top,        \* the root names in the fixed parent
    permit,     \* WORKSPACE_STATE
    ws,         \* the state of the live workspace, or None
    snaps,      \* snapshots read, of each workspace
    serial,     \* workspaces made so far
    meddled, crashes

wvars == <<inode, nextInode, top, permit, ws, snaps, serial, meddled, crashes>>
wdisk == <<inode, nextInode, top>>

NoInode == [kind |-> "none", by |-> 0, content |-> None, mode |-> None, links |-> 0, kids |-> [e \in Entries \cup {"stray"} |-> None]]

workspace_init ==
    /\ inode = [i \in 1..WInodes |-> NoInode] /\ nextInode = 1
    /\ top = [n \in 1..WNames |-> None]
    /\ permit = "free" /\ ws = None /\ snaps = {} /\ serial = 0 /\ meddled = 0 /\ crashes = 0

-----------------------------------------------------------------------------
(* Descriptors and the bounds of preflight_layout.                         *)

Depth(f) == IF WParent[f] = Root THEN 0 ELSE 1

\* Mistake: the writer that is open beside the readers is forgotten.
preflight_without_writer ==
    LET deep == Cardinality({f \in WFiles : Depth(f) = 1}) IN 1 + 1 + deep + Cardinality(WFiles)

\* The most descriptors a case may need: the fixed parent, the root, a directory
\* for each component of each file, a reader for each file and one writer.
preflight_layout ==
    LET deep == Cardinality({f \in WFiles : Depth(f) = 1}) IN 1 + 1 + deep + Cardinality(WFiles) + 1

\* State::sample.
LiveDescriptors == 1 + Cardinality(ws.fds) + Cardinality({f \in WFiles : ws.reader[f] # None}) + (IF ws.writer = None THEN 0 ELSE 1)

-----------------------------------------------------------------------------
(* The tree.                                                               *)

\* Where an entry is: a root name in the fixed parent, or a name in the original
\* inode of its directory.
DirOf(n) == ws.known[WParent[n]]
Found(n) == IF n = Root THEN top[ws.name] ELSE inode[DirOf(n)].kids[n]

\* Links a new inode where n belongs.
Make(n, row) ==
    /\ nextInode <= WInodes /\ nextInode' = nextInode + 1
    /\ IF n = Root THEN inode' = [inode EXCEPT ![nextInode] = row] /\ top' = [top EXCEPT ![ws.name] = nextInode]
       ELSE inode' = [inode EXCEPT ![nextInode] = row, ![DirOf(n)].kids[n] = nextInode] /\ UNCHANGED top

Unlink(n) ==
    /\ IF n = Root THEN top' = [top EXCEPT ![ws.name] = None] /\ UNCHANGED inode
       ELSE inode' = [inode EXCEPT ![Found(n)].links = @ - 1, ![DirOf(n)].kids[n] = None] /\ UNCHANGED top
    /\ UNCHANGED nextInode

Current == WOrder[ws.step]

-----------------------------------------------------------------------------
(* Creation.                                                               *)

NewState(c, name) ==
    [owner |-> c, serial |-> serial + 1, at |-> "mkdir", step |-> 1, name |-> name, tries |-> 1,
     known |-> [n \in WNodes |-> None], made |-> <<>>, fds |-> {},
     reader |-> [f \in WFiles |-> None], writer |-> None, read |-> FALSE, failed |-> FALSE]

\* Permit::acquire.
acquire == permit = "free"

\* create: Permit::acquire, then the fixed parent, whose failure frees the permit.
create(c, name) ==
    /\ ws = None /\ acquire /\ serial < WSpaces
    /\ permit' = "active" /\ ws' = NewState(c, name) /\ serial' = serial + 1
    /\ UNCHANGED <<wdisk, snaps, meddled, crashes>>

\* A failed creation is finished: everything made so far is removed.
fail == ws' = [ws EXCEPT !.at = "cleanup", !.writer = None] /\ UNCHANGED permit

Failing == fail /\ UNCHANGED <<wdisk, snaps, serial, meddled, crashes>>

Moves(next) == ws' = next /\ UNCHANGED <<permit, snaps, serial, meddled, crashes>>

\* create_directory, mkdirat.  A name of the root that exists is left alone and
\* the next one tried, at most WNames times.
mkdirat ==
    /\ ws # None /\ ws.at = "mkdir" /\ Found(Current) = None
    /\ Make(Current, [NoInode EXCEPT !.kind = "dir", !.by = ws.serial, !.mode = "700", !.links = 1])
    /\ Moves([ws EXCEPT !.at = "stat", !.made = Append(@, Current)])

mkdirat_exists ==
    /\ ws # None /\ ws.at = "mkdir" /\ Found(Current) # None
    /\ IF Current = Root /\ ws.tries < WNames /\ ws.name < WNames
       THEN Moves([ws EXCEPT !.tries = @ + 1, !.name = @ + 1]) /\ UNCHANGED wdisk
       ELSE Failing

\* mkdirat reports an error for the root though the directory is there: it is
\* kept as an entry of unknown identity.
mkdirat_unknown ==
    /\ ws # None /\ ws.at = "mkdir" /\ Current = Root /\ Found(Root) = None
    /\ Make(Root, [NoInode EXCEPT !.kind = "dir", !.by = ws.serial, !.mode = "700", !.links = 1])
    /\ Moves([ws EXCEPT !.at = "cleanup", !.made = Append(@, Root)])

\* statat, under the name.
stat_directory ==
    /\ ws # None /\ ws.at = "stat"
    /\ IF Found(Current) = None THEN Failing
       ELSE Moves([ws EXCEPT !.at = "open", !.known[Current] = Found(Current)]) /\ UNCHANGED wdisk

\* openat, then the directory has to be the one that was statted, private and ours.
open_directory ==
    /\ ws # None /\ ws.at = "open"
    /\ IF Found(Current) = ws.known[Current] /\ inode[Found(Current)].kind = "dir" /\ inode[Found(Current)].mode = "700"
       THEN Moves([ws EXCEPT !.at = "next", !.fds = @ \cup {Current}]) /\ UNCHANGED wdisk
       ELSE Failing

\* populate, a member: exclusive creation; its identity is that of the writer.
create_member ==
    /\ ws # None /\ ws.at = "file"
    /\ IF Found(Current) # None THEN Failing
       ELSE /\ Make(Current, [NoInode EXCEPT !.kind = "file", !.by = ws.serial, !.mode = "600", !.links = 1])
            /\ Moves([ws EXCEPT !.at = "write", !.made = Append(@, Current), !.known[Current] = nextInode, !.writer = nextInode])

\* write_original and its sync.
write_original ==
    /\ ws # None /\ ws.at = "write"
    /\ inode' = [inode EXCEPT ![ws.writer].content = "original"]
    /\ Moves([ws EXCEPT !.at = "preopen"]) /\ UNCHANGED <<nextInode, top>>

\* The reader is opened by name.
preopen ==
    /\ ws # None /\ ws.at = "preopen"
    /\ IF Found(Current) = None THEN Failing
       ELSE Moves([ws EXCEPT !.at = "seal", !.reader[Current] = Found(Current)]) /\ UNCHANGED wdisk

\* check_regular.
check_regular(i, n, mode) == inode[i].kind = "file" /\ i = ws.known[n] /\ inode[i].links = 1 /\ inode[i].mode = mode

\* bounded_read returns the bytes of the case and nothing else.
bounded_read(i) == inode[i].content = "original"

\* The seal: both descriptors are of the member, its bytes are those of the case,
\* and the writer takes the write permission away.
seal_member ==
    LET i == ws.reader[Current] IN
    /\ ws # None /\ ws.at = "seal"
    /\ IF check_regular(ws.writer, Current, "600") /\ check_regular(i, Current, "600") /\ bounded_read(i)
       THEN /\ inode' = [inode EXCEPT ![ws.writer].mode = "400"] /\ UNCHANGED <<nextInode, top>>
            /\ Moves([ws EXCEPT !.at = "next", !.writer = None])
       ELSE Failing

\* The next entry of populate, or the workspace is ready.
next_entry ==
    /\ ws # None /\ ws.at = "next"
    /\ Moves(IF ws.step = Len(WOrder) THEN [ws EXCEPT !.at = "ready"]
             ELSE [ws EXCEPT !.step = @ + 1, !.at = IF WOrder[ws.step + 1] \in WFiles THEN "file" ELSE "mkdir"])
    /\ UNCHANGED wdisk

\* Any system call of the creation may fail.
syscall_fails == ws # None /\ ws.at \in {"mkdir", "stat", "open", "file", "write", "preopen", "seal"} /\ Failing

-----------------------------------------------------------------------------
(* Reading.                                                                *)

\* snapshot: once, whatever comes of it.
read_allowed == ~ws.read

\* read_once: every member through its original descriptor.
read_once ==
    /\ ws # None /\ ws.at = "ready" /\ read_allowed
    /\ LET ok == \A f \in WFiles : check_regular(ws.reader[f], f, "400") /\ bounded_read(ws.reader[f]) IN
          snaps' = snaps \cup {[serial |-> ws.serial, nth |-> Cardinality({s \in snaps : s.serial = ws.serial}), ok |-> ok,
                                original |-> \A f \in WFiles : ws.reader[f] # None /\ inode[ws.reader[f]].by = ws.serial
                                                                /\ inode[ws.reader[f]].content = "original"]}
    /\ ws' = [ws EXCEPT !.read = TRUE] /\ UNCHANGED <<wdisk, permit, serial, meddled, crashes>>

-----------------------------------------------------------------------------
(* Cleanup.                                                                *)

\* finish, or the workspace is dropped.
finish == ws # None /\ ws.at = "ready" /\ ws' = [ws EXCEPT !.at = "cleanup"] /\ UNCHANGED <<wdisk, permit, snaps, serial, meddled, crashes>>

\* Members first, then directories, both from the last one back.
NextRemoved ==
    LET files == {k \in 1..Len(ws.made) : ws.made[k] \in WFiles}
        pool == IF files # {} THEN files ELSE 1..Len(ws.made)
    IN  CHOOSE k \in pool : \A j \in pool : j <= k

\* remove_known: the name still leads to the inode remembered for it.
remove_known(n) ==
    /\ ws.known[n] # None /\ Found(n) = ws.known[n]
    /\ inode[Found(n)].kind = (IF n \in WFiles THEN "file" ELSE "dir")
    /\ n \in WFiles => inode[Found(n)].links = 1

\* A directory is removed only when it is empty; its parent has to be open.
Removable(n) ==
    /\ IF n = Root THEN TRUE ELSE WParent[n] \in ws.fds
    /\ remove_known(n)
    /\ n \notin WFiles => \A e \in DOMAIN inode[Found(n)].kids : inode[Found(n)].kids[e] = None

\* Mistake: the first entry that cannot be removed ends the cleanup.
cleanup_stops ==
    /\ ws # None /\ ws.at = "cleanup" /\ ws.made # <<>> /\ Removable(ws.made[NextRemoved])
    /\ Unlink(ws.made[NextRemoved])
    /\ Moves([ws EXCEPT !.made = SubSeq(@, 1, NextRemoved - 1) \o SubSeq(@, NextRemoved + 1, Len(@))])

\* One entry of cleanup.  Readers are closed first; a failure is remembered and
\* the rest still removed.
cleanup_entry ==
    /\ ws # None /\ ws.at = "cleanup" /\ ws.made # <<>>
    /\ LET k == NextRemoved
           n == ws.made[k]
           rest == SubSeq(ws.made, 1, k - 1) \o SubSeq(ws.made, k + 1, Len(ws.made))
       IN  /\ IF Removable(n) THEN Unlink(n) ELSE UNCHANGED wdisk
           /\ Moves([ws EXCEPT !.made = rest, !.reader = [f \in WFiles |-> None], !.fds = @ \ {n},
                               !.failed = @ \/ ~Removable(n)])

\* Permit::resolve.
resolve(failed) == IF failed THEN "poisoned" ELSE "free"

cleanup_done ==
    /\ ws # None /\ ws.at = "cleanup" /\ ws.made = <<>>
    /\ permit' = resolve(ws.failed) /\ ws' = None
    /\ UNCHANGED <<wdisk, snaps, serial, meddled, crashes>>

-----------------------------------------------------------------------------
(* The rest of the machine.                                                *)

Reachable == {top[n] : n \in 1..WNames} \ {None}

\* Another process of this user takes a root name, replaces a member, writes to
\* it, links it or adds a file.  It does not replace a directory between mkdirat
\* and statat, the one window in which the code goes by the name alone.
meddle ==
    /\ meddled < WMeddling /\ meddled' = meddled + 1
    /\ \/ \E n \in 1..WNames : top[n] = None /\ nextInode <= WInodes
             /\ top' = [top EXCEPT ![n] = nextInode] /\ nextInode' = nextInode + 1
             /\ inode' = [inode EXCEPT ![nextInode] = [NoInode EXCEPT !.kind = "dir", !.mode = "700", !.links = 1]]
       \/ \E d \in Reachable : \E e \in Entries : inode[d].kids[e] # None /\ nextInode <= WInodes
             /\ inode' = [inode EXCEPT ![inode[d].kids[e]].links = @ - 1, ![d].kids[e] = nextInode,
                                       ![nextInode] = [NoInode EXCEPT !.kind = "file", !.content = "other", !.mode = inode[inode[d].kids[e]].mode, !.links = 1]]
             /\ nextInode' = nextInode + 1 /\ UNCHANGED top
       \/ \E i \in 1..(nextInode - 1) : inode[i].kind = "file" /\ inode[i].links > 0
             /\ inode' = [inode EXCEPT ![i].content = "other"] /\ UNCHANGED <<nextInode, top>>
       \/ \E i \in 1..(nextInode - 1) : inode[i].kind = "file" /\ inode[i].links > 0
             /\ inode' = [inode EXCEPT ![i].links = @ + 1] /\ UNCHANGED <<nextInode, top>>
       \/ \E d \in Reachable : inode[d].kids["stray"] = None /\ nextInode <= WInodes
             /\ inode' = [inode EXCEPT ![d].kids["stray"] = nextInode, ![nextInode] = [NoInode EXCEPT !.kind = "file", !.links = 1]]
             /\ nextInode' = nextInode + 1 /\ UNCHANGED top
    /\ UNCHANGED <<permit, ws, snaps, serial, crashes>>

\* The process dies; its tree stays, and the next process starts with a free permit.
process_dies ==
    /\ crashes < WCrashes /\ crashes' = crashes + 1
    /\ permit' = "free" /\ ws' = None /\ UNCHANGED <<wdisk, snaps, serial, meddled>>

Populate ==
    \/ mkdirat \/ mkdirat_exists \/ mkdirat_unknown \/ stat_directory \/ open_directory
    \/ create_member \/ write_original \/ preopen \/ seal_member \/ next_entry \/ syscall_fails

WorkspaceSteps == Populate \/ finish \/ cleanup_entry \/ cleanup_done

workspace_next ==
    \/ \E c \in WCallers : \E n \in 1..WNames : create(c, n)
    \/ WorkspaceSteps \/ read_once \/ meddle \/ process_dies

WorkspaceSpec == workspace_init /\ [][workspace_next]_wvars

-----------------------------------------------------------------------------

\* OwnedConfigSnapshot: what a read has returned.
Snapshot == [serial : 1..WSpaces, nth : Nat, ok : BOOLEAN, original : BOOLEAN]

\* State: what it knows, made and holds open are inodes of its members.
ValidWorkspace ==
    /\ ws.owner \in WCallers /\ ws.serial = serial /\ ws.name \in 1..WNames
    /\ ws.known \in [WNodes -> 1..WInodes \cup {None}]
    /\ ws.reader \in [WFiles -> 1..WInodes \cup {None}]
    /\ LiveDescriptors <= preflight_layout

\* The permit is active exactly while a workspace lives, and a live workspace
\* never holds more descriptors than preflight allowed for.
WorkspaceTypeOK ==
    /\ permit \in {"free", "active", "poisoned"} /\ (permit = "active" <=> ws # None)
    /\ snaps \subseteq Snapshot
    /\ ws # None => ValidWorkspace

\* What a reader is given are the bytes of the case, from the inodes this
\* workspace made, whatever happened to the names meanwhile.
SnapshotIsOriginal == \A s \in snaps : s.ok => s.original

\* A workspace is read at most once, also when the read failed.
ReadAtMostOnce == \A s \in snaps : s.nth = 0

\* A name is removed only while it leads to an inode of the live workspace.
RemovesOnlyItsOwn ==
    [][\A n \in 1..WNames : (top[n] # None /\ top'[n] = None) => ws # None /\ inode[top[n]].by = ws.serial]_wvars

\* A file somebody else put under a name of ours is never unlinked by cleanup.
KeepsForeignFiles ==
    [][\A i \in 1..WInodes : (inode[i].by = 0 /\ inode'[i].links < inode[i].links) => meddled' # meddled]_wvars

\* While the permit of a process that never died is free, nothing it made is left
\* under /tmp.
FreeMeansGone == (permit = "free" /\ crashes = 0) => \A i \in Reachable : inode[i].by = 0

\* A poisoned process makes no other workspace.
PoisonedForGood == [][permit = "poisoned" => (permit' = "poisoned" \/ crashes' # crashes)]_wvars

\* The permit is given back, or poisoned: no workspace holds it for ever.
PermitReturns == (permit = "active") ~> (permit # "active")

\* What holds of the workspace in every state: readers are given the bytes of the
\* case, once, and a free permit means that nothing was left behind.
WorkspaceSafe ==
    /\ WorkspaceTypeOK
    /\ SnapshotIsOriginal
    /\ ReadAtMostOnce
    /\ FreeMeansGone
=============================================================================
