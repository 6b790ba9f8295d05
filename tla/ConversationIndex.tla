------------------------- MODULE ConversationIndex --------------------------
(***************************************************************************)
(* The index of conversation files of jumpd (internal/conversations), and  *)
(* the watches by which the file monitor keeps it up to date               *)
(* (internal/discovery/filemon.go).  The index is filled by a scan, then   *)
(* the roots are watched, then it follows the file system's events, which  *)
(* the monitor's goroutine takes one after the other.                      *)
(*                                                                         *)
(* One root directory, with conversation files in its subdirectories.  A   *)
(* conversation is named by its tool id; its file keeps its path.          *)
(***************************************************************************)
EXTENDS Integers, SequencesExt

CONSTANTS
  Convs, Dirs,
  KindOf, BaseOf, DirOf, \* of a conversation: adapter, slug of its text, directory
  Listing,               \* the files that Scan looks for, in order
  OldDirs,               \* the directories there from the start
  MaxChanges             \* bound on changes of the files

ASSUME ConversationIndexAssumption ==
  /\ IsFiniteSet(Convs)
  /\ DirOf \in [Convs -> Dirs] /\ OldDirs \subseteq Dirs
  /\ DOMAIN KindOf = Convs /\ DOMAIN BaseOf = Convs
  /\ Listing \in Seq(Convs) /\ IsInjective(Listing)
  /\ MaxChanges \in Nat

VARIABLES
  byKey,    \* <<kind, slug>> -> conversation
  byToolID, \* conversation -> slug
  toScan,   \* files that the first scan has still to read
  disk,     \* conversation -> what its file holds: a conversation that can be
            \* resumed ("full") or not yet ("header")
  dirs,     \* the directories there are
  kernel,   \* the directories fsnotify watches
  watched,  \* watchedDirs: those the monitor takes to be watched
  roots,    \* the root is watched
  wired,    \* the monitor has the index
  users,    \* sessions that are monitored, each with its directory
  fsq,      \* events not taken yet
  todo,     \* files that a catch-up has still to index
  changes,
  unseen    \* files changed where nothing was watched since they were read (history)

indexVars == <<byKey, byToolID, toScan>>
watchVars == <<kernel, watched, roots, wired, users>>
convVars  == <<indexVars, disk, dirs, watchVars, fsq, todo, changes, unseen>>

IndexInit ==
  /\ byKey = <<>> /\ byToolID = <<>> /\ toScan = Listing
  /\ disk \in [Convs -> {"absent", "full"}]
  /\ \A c \in Convs : disk[c] = "full" => DirOf[c] \in OldDirs
  /\ dirs = OldDirs
  /\ kernel = {} /\ watched = {} /\ roots = FALSE /\ wired = FALSE /\ users = {}
  /\ fsq = <<>> /\ todo = {}
  /\ changes = 0 /\ unseen = Convs

-----------------------------------------------------------------------------
(* The index.                                                              *)

Put(f, k, v)  == [x \in DOMAIN f \cup {k} |-> IF x = k THEN v ELSE f[x]]
Drop(f, keys) == [x \in DOMAIN f \ keys |-> f[x]]

Suffixed(base, n) == IF n = 1 THEN <<base>> ELSE <<base, n>>

(* The first of base, base-2, base-3, ... that no other conversation of    *)
(* the kind has.                                                           *)
UniqueSlug(ix, c) ==
  LET Free(n) == LET k == <<KindOf[c], Suffixed(BaseOf[c], n)>>
                 IN  k \notin DOMAIN ix.byKey \/ ix.byKey[k] = c
      n == CHOOSE i \in 1..(Cardinality(Convs) + 1) :
             Free(i) /\ \A j \in 1..(i - 1) : ~Free(j)
  IN  Suffixed(BaseOf[c], n)

(* A conversation that has a slug keeps it.                                *)
Upsert(ix, c) ==
  IF c \in DOMAIN ix.byToolID
  THEN [ix EXCEPT !.byKey = Put(@, <<KindOf[c], ix.byToolID[c]>>, c)]
  ELSE LET slug == UniqueSlug(ix, c)
       IN  [byKey |-> Put(ix.byKey, <<KindOf[c], slug>>, c),
            byToolID |-> Put(ix.byToolID, c, slug)]

Index == [byKey |-> byKey, byToolID |-> byToolID]
SetIndex(ix) == byKey' = ix.byKey /\ byToolID' = ix.byToolID

(* A file that does not parse or cannot be resumed changes nothing.        *)
ScanFile(ix, c) == IF disk[c] = "full" THEN Upsert(ix, c) ELSE ix

RemoveByPath(ix, c) ==
  [byKey |-> Drop(ix.byKey, {k \in DOMAIN ix.byKey : ix.byKey[k] = c}),
   byToolID |-> Drop(ix.byToolID, {c} \cap {ix.byKey[k] : k \in DOMAIN ix.byKey})]

(* LookupBySlug goes through a map in any order, whatever the kind.         *)
BySlug(slug) == {byKey[k] : k \in {k \in DOMAIN byKey : k[2] = slug}}

-----------------------------------------------------------------------------
(* The file system.                                                        *)

Tell(ev) == fsq' = Append(fsq, ev)

(* A change of c is seen by a watch of its directory; what is written is   *)
(* seen also by the catch-up of a directory whose creation is still to be  *)
(* handled, unless an older removal is handled after it.                   *)
Change(c, held, ev) ==
  /\ changes < MaxChanges
  /\ changes' = changes + 1
  /\ disk' = [disk EXCEPT ![c] = held]
  /\ IF DirOf[c] \in kernel
     THEN Tell(<<ev, c>>) /\ unseen' = IF wired THEN unseen ELSE unseen \cup {c}
     ELSE /\ UNCHANGED fsq
          /\ unseen' = IF /\ ev = "write" /\ wired
                          /\ \E i \in DOMAIN fsq : fsq[i] = <<"dir", DirOf[c]>>
                          /\ \A i \in DOMAIN fsq : fsq[i] # <<"remove", c>>
                       THEN unseen ELSE unseen \cup {c}
  /\ UNCHANGED <<indexVars, dirs, watchVars, todo>>

WriteFile(c) ==
  /\ DirOf[c] \in dirs
  /\ \E held \in {"header", "full"} :
       (disk[c] = "full" => held = "full") /\ Change(c, held, "write")

RemoveFile(c) == disk[c] # "absent" /\ Change(c, "absent", "remove")

MakeDir(d) ==
  /\ d \notin dirs
  /\ changes < MaxChanges
  /\ changes' = changes + 1
  /\ dirs' = dirs \cup {d}
  /\ IF roots THEN Tell(<<"dir", d>>) ELSE UNCHANGED fsq
  /\ UNCHANGED <<indexVars, disk, watchVars, todo, unseen>>

(* The kernel drops the watch of a directory that is removed; the monitor  *)
(* does not learn of it.                                                   *)
RemoveDir(d) ==
  /\ d \in dirs
  /\ \A c \in Convs : DirOf[c] = d => disk[c] = "absent"
  /\ changes < MaxChanges
  /\ changes' = changes + 1
  /\ dirs' = dirs \ {d}
  /\ kernel' = kernel \ {d}
  /\ UNCHANGED <<indexVars, disk, watched, roots, wired, users, fsq, todo, unseen>>

-----------------------------------------------------------------------------
(* The monitor.                                                            *)

(* The start: the scan, file by file, then the monitor gets the index and  *)
(* watches the root.                                                       *)
Scan ==
  /\ toScan # <<>> /\ toScan' = Tail(toScan)
  /\ SetIndex(ScanFile(Index, Head(toScan)))
  /\ unseen' = unseen \ {Head(toScan)}
  /\ UNCHANGED <<disk, dirs, watchVars, fsq, todo, changes>>

WatchRoots ==
  /\ roots' = TRUE /\ wired' = TRUE
  /\ UNCHANGED <<indexVars, disk, dirs, kernel, watched, users, fsq, todo, changes, unseen>>

AddWatch(ds) ==
  /\ watched' = watched \cup (ds \cap dirs')
  /\ kernel'  = kernel \cup ((ds \ watched) \cap dirs')

(* NotifyNewSession watches the root and the session's directory, which it *)
(* makes; NotifySessionDied gives up a directory that no other session has.*)
WatchForSession(s, d) ==
  /\ roots' = TRUE
  /\ users' = users \cup {<<s, d>>}
  /\ dirs' = dirs \cup {d}
  /\ AddWatch({d})
  /\ fsq' = IF d \notin dirs /\ roots THEN Append(fsq, <<"dir", d>>) ELSE fsq
  /\ UNCHANGED <<indexVars, disk, wired, todo, changes, unseen>>

SessionLeaves(s, d) ==
  /\ <<s, d>> \in users
  /\ users' = users \ {<<s, d>>}
  /\ LET gone == IF \E u \in users' : u[2] = d THEN {} ELSE {d}
     IN  watched' = watched \ gone /\ kernel' = kernel \ gone
  /\ UNCHANGED <<indexVars, disk, dirs, roots, wired, fsq, todo, changes, unseen>>

(* The entry agrees with the file again, and no earlier event is to come.  *)
Read(c, held) ==
  unseen' = IF disk[c] = held /\ \A i \in DOMAIN fsq' : fsq'[i][2] # c
            THEN unseen \ {c} ELSE unseen

Taking(kind) == todo = {} /\ fsq # <<>> /\ Head(fsq)[1] = kind /\ fsq' = Tail(fsq)

(* Mutant: the files of a new directory are not noted.                     *)
HandleNewDirNoCatchUp ==
  /\ Taking("dir")
  /\ UNCHANGED dirs
  /\ AddWatch({Head(fsq)[2]})
  /\ UNCHANGED <<indexVars, disk, roots, wired, users, changes, unseen, todo>>

(* handleNewSubdirLocked: the directory is watched, then what it holds is  *)
(* noted for indexing.                                                     *)
HandleNewDir ==
  /\ Taking("dir")
  /\ LET d == Head(fsq)[2]
     IN  IF d \in dirs
         THEN /\ UNCHANGED dirs
              /\ AddWatch({d})
              /\ todo' = {c \in Convs : wired /\ DirOf[c] = d /\ disk[c] # "absent"}
         ELSE UNCHANGED <<dirs, watched, kernel, todo>>
  /\ UNCHANGED <<indexVars, disk, roots, wired, users, changes, unseen>>

CatchUp ==
  /\ UNCHANGED <<toScan, disk, dirs, watchVars, fsq, changes>>
  /\ \E c \in todo : SetIndex(ScanFile(Index, c)) /\ Read(c, "full") /\ todo' = todo \ {c}

(* The file is read when the event is handled, whatever it was then.       *)
HandleWrite ==
  /\ Taking("write")
  /\ IF wired THEN SetIndex(ScanFile(Index, Head(fsq)[2])) /\ Read(Head(fsq)[2], "full")
     ELSE UNCHANGED <<byKey, byToolID, unseen>>
  /\ UNCHANGED <<toScan, disk, dirs, watchVars, todo, changes>>

HandleRemove ==
  /\ Taking("remove")
  /\ IF wired THEN SetIndex(RemoveByPath(Index, Head(fsq)[2])) /\ Read(Head(fsq)[2], "absent")
     ELSE UNCHANGED <<byKey, byToolID, unseen>>
  /\ UNCHANGED <<toScan, disk, dirs, watchVars, todo, changes>>

(* jumpd stops: files and directories stay.                                *)
StopIndexing ==
  /\ byKey' = <<>> /\ byToolID' = <<>> /\ toScan' = Listing
  /\ kernel' = {} /\ watched' = {} /\ roots' = FALSE /\ wired' = FALSE /\ users' = {}
  /\ fsq' = <<>> /\ todo' = {} /\ unseen' = Convs
  /\ UNCHANGED <<disk, dirs, changes>>

FileSystem ==
  \/ \E c \in Convs : WriteFile(c) \/ RemoveFile(c)
  \/ \E d \in Dirs : MakeDir(d) \/ RemoveDir(d)

Monitor == HandleNewDir \/ CatchUp \/ HandleWrite \/ HandleRemove

-----------------------------------------------------------------------------
(* When the monitor has handled what it was told, the index has exactly    *)
(* the conversations that can be resumed, each under one slug of its own,  *)
(* files changed where nothing was watched excepted: a file that lands in  *)
(* a new directory before its watch is not lost, and one that went leaves  *)
(* nothing behind.                                                         *)
IndexFollowsDisk ==
  wired /\ fsq = <<>> /\ todo = {} =>
    /\ \A c \in Convs \ unseen : c \in DOMAIN byToolID <=> disk[c] = "full"
    /\ {<<KindOf[c], byToolID[c]>> : c \in DOMAIN byToolID} = DOMAIN byKey
    /\ \A c \in DOMAIN byToolID : byKey[<<KindOf[c], byToolID[c]>>] = c
=============================================================================
