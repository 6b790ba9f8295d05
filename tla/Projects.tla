------------------------------ MODULE Projects ------------------------------
(***************************************************************************)
(* The projects of the sidebar: internal/projects, with what main.go and   *)
(* rehydrate.go of jumpd make of it.  projects.json holds the projects,    *)
(* each with its rules and the keys of its sessions, in order; every       *)
(* change loads, modifies and saves it under one lock (Manager.Update), so *)
(* items stands for the file.  A session's key is its slug, or its id      *)
(* while it has none.                                                      *)
(*                                                                         *)
(* The keys follow the sessions by events (the assigner), by a pass over   *)
(* all sessions after a project is added, by dismissals, by the clients,   *)
(* who write back what they read earlier, and by a clean-up after a start. *)
(***************************************************************************)
EXTENDS ConversationIndex

CONSTANTS
  Sids,      \* session ids; a session made from the index has the tool id
  At,        \* of a session: [kind, host, cwd, workspace, remotes]
  ConvOf,    \* the conversation of a session
  Seed,      \* the project made for a new user
  Requests,  \* projects users add by themselves or from an earlier offer
  MaxEvents, \* bound on what happens to sessions and projects,
  MaxMixed,  \*   lower when files change too
  MaxStops   \* bound on restarts

ASSUME ProjectsAssumption ==
  /\ IsFiniteSet(Sids) /\ DOMAIN At = Sids /\ ConvOf \in [Sids -> Convs]
  /\ \A id \in Sids \cup Convs : id \notin Seq({BaseOf[c] : c \in Convs} \cup Nat)
  /\ \A s \in Sids \cap Convs : At[s].host = "local"
  /\ Seed = [name |-> Seed.name, match |-> Seed.match, sessions |-> <<>>]
  /\ {MaxEvents, MaxMixed, MaxStops} \subseteq Nat

VARIABLES
  phase,    \* "start", "watching", "filled", "up"
  sess,     \* the store: id -> [alive, slug]
  runs,     \* sessions with a runner
  items,    \* projects.json: [name, match, sessions] in order
  queue,    \* upserts of live sessions that the assigner has not taken
  view,     \* what a client that is going to write has read
  adding,   \* POST /projects/add: "no", "added", "listed"
  infos,    \*   and the sessions it has listed: id -> slug
  leaving,  \* sessions being dismissed or pruned: id -> [step, slug]
  clean,    \* the clean-up: "wait", "listed", "done"
  known,    \*   and the keys it has listed
  events, stops,
  kept,     \* keys that this start has to preserve (history)
  excused,  \* live sessions whose upsert was lost or whose key was taken (history)
  meddled   \* keys a client wrote back where they no longer were (history)

storeVars == <<sess, runs, queue>>
addVars   == <<adding, infos>>
cleanVars == <<clean, known>>
projVars  == <<phase, storeVars, items, view, addVars, leaving, cleanVars, events, stops,
               kept, excused, meddled>>
vars == <<convVars, projVars>>

Local == "local"
NoSlug == <<>>
NoPath == <<>>

Stored == DOMAIN sess
Kind(id) == IF id \in Sids THEN At[id].kind ELSE KindOf[id]
Host(id) == IF id \in Sids THEN At[id].host ELSE Local

(* SessionKey.                                                             *)
Key(id, slug) == IF slug = NoSlug THEN id ELSE slug

KeysIn(its) == UNION {ToSet(its[i].sessions) : i \in DOMAIN its}
Listed == KeysIn(items)
KeyOf(id) == Key(id, sess[id].slug)

-----------------------------------------------------------------------------
(* The rules.  A path is the sequence of its names.                        *)

AppliesTo(rule, host) == rule.hosts = {} \/ host \in rule.hosts

PathUnder(path, base) == path # NoPath /\ IsPrefix(base, path)

PathMatches(rule, a) ==
  /\ rule.path # NoPath
  /\ AppliesTo(rule, a.host)
  /\ \E p \in {a.cwd, a.workspace} :
       IF rule.exact THEN p = rule.path ELSE PathUnder(p, rule.path)

RemoteMatches(rule, a) ==
  rule.path = NoPath /\ AppliesTo(rule, a.host) /\ rule.remote \in a.remotes

(* State.Match: the first project with the longest path, else the first    *)
(* with a remote; 0 if there is none.                                      *)
Match(its, a) ==
  LET Len0(i) == {0} \cup {Len(r.path) : r \in {r \in its[i].match : PathMatches(r, a)}}
      Longest(i) == CHOOSE n \in Len0(i) : \A m \in Len0(i) : m <= n
      ByPath == {i \in DOMAIN its : Longest(i) > 0
                                    /\ \A j \in DOMAIN its : Longest(j) <= Longest(i)}
      ByRemote == {i \in DOMAIN its : \E r \in its[i].match : RemoteMatches(r, a)}
      First(is) == IF is = {} THEN 0 ELSE CHOOSE i \in is : \A j \in is : i <= j
  IN  IF ByPath # {} THEN First(ByPath) ELSE First(ByRemote)

Unique(name, its) ==
  LET Free(n) == \A i \in DOMAIN its : its[i].name # Suffixed(name, n)
      n == CHOOSE i \in 1..(Len(its) + 1) : Free(i) /\ \A j \in 1..(i - 1) : ~Free(j)
  IN  Suffixed(name, n)

(* State.Validate, of what clients can send: a path belongs to one project.*)
Valid(its) ==
  \A i, j \in DOMAIN its : \A r \in its[i].match : \A q \in its[j].match :
    r.path # NoPath /\ r.path = q.path => i = j

AddSession(its, i, key) ==
  IF Contains(its[i].sessions, key) THEN its
  ELSE [its EXCEPT ![i].sessions = Append(@, key)]

(* FindSessionProject; 0 if the key is in none.                            *)
Holder(its, key) ==
  IF key \in KeysIn(its)
  THEN CHOOSE i \in DOMAIN its :
         Contains(its[i].sessions, key) /\ \A j \in 1..(i - 1) : ~Contains(its[j].sessions, key)
  ELSE 0

RemoveKey(its, key) ==
  LET i == Holder(its, key)
  IN  IF i = 0 THEN its ELSE [its EXCEPT ![i].sessions = RemoveFirst(@, key)]

ReplaceKey(its, old, new) ==
  LET Is(k) == k = old
  IN  [its EXCEPT ![Holder(its, old)].sessions = ReplaceAt(@, SelectInSeq(@, Is), new)]

(* Mutant: a key is looked for in the project that matches only.           *)
AssignByRuleBlindly(its, id, slug) ==
  LET i == IF id \in Sids THEN Match(its, At[id]) ELSE 0
  IN  IF i = 0 THEN its ELSE AddSession(its, i, Key(id, slug))

AssignByRule(its, id, slug) ==
  LET i == IF id \in Sids THEN Match(its, At[id]) ELSE 0
  IN  IF Key(id, slug) \in KeysIn(its) \/ i = 0 THEN its
      ELSE AddSession(its, i, Key(id, slug))

(* AutoAssignSession: the slug takes the place of the id.                  *)
AutoAssign(its, id, slug) ==
  IF slug # NoSlug /\ slug \notin KeysIn(its) /\ id \in KeysIn(its)
  THEN ReplaceKey(its, id, slug)
  ELSE AssignByRule(its, id, slug)

DismissKey(its, id, slug) ==
  IF Key(id, slug) \in KeysIn(its) THEN RemoveKey(its, Key(id, slug))
  ELSE RemoveKey(its, id)

(* Discovered: a project is offered for each directory of sessions that no *)
(* project matches, with the remote most of them have, if there is one.    *)
Folder(id) == IF At[id].workspace = NoPath THEN At[id].cwd ELSE At[id].workspace

CommonRemotes(group) ==
  LET remotes == UNION {At[id].remotes : id \in group}
      Count(r) == Cardinality({id \in group : r \in At[id].remotes})
  IN  {r \in remotes : \A q \in remotes : Count(q) <= Count(r)}

Discovered(its) ==
  LET rule == [path |-> NoPath, exact |-> FALSE, remote |-> "", hosts |-> {}]
      unmatched == {id \in Stored \cap Sids : Match(its, At[id]) = 0 /\ Folder(id) # NoPath}
      Offers(dir) ==
        LET here == [rule EXCEPT !.path = dir]
            remotes == CommonRemotes({id \in unmatched : Folder(id) = dir})
        IN  IF remotes = {} THEN {[name |-> Last(dir), match |-> {here}]}
            ELSE {[name |-> r, match |-> {here, [rule EXCEPT !.remote = r]}] : r \in remotes}
  IN  UNION {Offers(Folder(id)) : id \in unmatched}

(* A change of projects.json by a writer other than the clean-up.          *)
Save(its) == items' = its /\ kept' = kept \cap KeysIn(its)

-----------------------------------------------------------------------------
Init ==
  /\ IndexInit
  /\ phase = "start"
  /\ sess = <<>> /\ runs = {} /\ queue = <<>>
  /\ items = <<>> /\ view = <<>>
  /\ adding = "no" /\ infos = <<>>
  /\ leaving = <<>>
  /\ clean = "wait" /\ known = {}
  /\ events = 0 /\ stops = 0
  /\ kept = {} /\ excused = {} /\ meddled = {}

(* The slug rules of the store, for a live session: dead namesakes go, live *)
(* ones make it take a number.                                             *)
Namesakes(id, slug) ==
  {o \in Stored \ {id} : sess[o].slug = slug /\ Kind(o) = Kind(id) /\ Host(o) = Host(id)}

Evicted(id, slug) == IF slug = NoSlug THEN {} ELSE {o \in Namesakes(id, slug) : ~sess[o].alive}

FreeSlug(id, slug) ==
  LET Numbered(n) == IF n = 1 THEN slug ELSE Append(slug, n)
      Free(n) == Namesakes(id, Numbered(n)) \ Evicted(id, slug) = {}
      n == CHOOSE i \in 1..(Cardinality(Stored) + 1) :
             Free(i) /\ \A j \in 1..(i - 1) : ~Free(j)
  IN  IF slug = NoSlug THEN slug ELSE Numbered(n)

(* A live session is written; the assigner's channel, which has other      *)
(* events too, may be full, and before Subscribe there is none.            *)
UpsertLive(id, slug) ==
  LET final == FreeSlug(id, slug)
      out == Evicted(id, slug)
  IN  /\ sess' = Put(Drop(sess, out), id, [alive |-> TRUE, slug |-> final])
      /\ kept' = kept \ out
      /\ \/ /\ phase = "up"
            /\ queue' = Append(queue, [id |-> id, slug |-> final])
            /\ excused' = excused \ {id}
         \/ /\ UNCHANGED queue
            /\ excused' = excused \cup {id}

Event ==
  /\ events < IF changes = 0 THEN MaxEvents ELSE MaxMixed
  /\ events' = events + 1

-----------------------------------------------------------------------------
(* The start of jumpd, from the scan of the conversations to the           *)
(* subscription of the assigner; discovery registers runners meanwhile.    *)

StartScans ==
  /\ phase = "start"
  /\ Scan
  /\ UNCHANGED <<phase, storeVars, items, view, addVars, leaving, cleanVars, events, stops,
                 kept, excused, meddled>>

StartWatches ==
  /\ phase = "start" /\ toScan = <<>> /\ phase' = "watching"
  /\ WatchRoots
  /\ UNCHANGED <<storeVars, items, view, addVars, leaving, cleanVars, events, stops,
                 kept, excused, meddled>>

SeedIfEmpty == IF items = <<>> THEN <<Seed>> ELSE items

HasLocalSlug(kind, slug) ==
  \E o \in Stored : Kind(o) = kind /\ Host(o) = Local /\ sess[o].slug = slug

(* rehydrateProjects: each entry of a project is looked up in the index; if *)
(* the store has that conversation neither by id nor by slug, a dead       *)
(* session is made of it.                                                  *)
Entries(its) == UNION {{i} \X DOMAIN its[i].sessions : i \in DOMAIN its}
Missing(c) == c \notin Stored /\ ~HasLocalSlug(KindOf[c], byToolID[c])

Resolves(key) == key \in Stored \/ \E o \in Stored : sess[o].slug = key

(* What the store has, or will have, whichever conversation is looked up.  *)
KeptKeys == {k \in Listed : Resolves(k) \/ (BySlug(k) # {} /\ BySlug(k) \cap Stored = {})}

(* Mutant: the index is not asked.                                         *)
RehydrateNothing ==
  /\ phase = "watching" /\ phase' = "filled"
  /\ items' = SeedIfEmpty
  /\ UNCHANGED sess
  /\ kept' = KeptKeys
  /\ UNCHANGED <<convVars, runs, queue, view, addVars, leaving, cleanVars, events, stops,
                 excused, meddled>>

Rehydrate ==
  /\ phase = "watching" /\ phase' = "filled"
  /\ items' = SeedIfEmpty
  /\ LET Lookup(e) == BySlug(items[e[1]].sessions[e[2]])
         found == {e \in Entries(items) : Lookup(e) # {}}
     IN  \E info \in {f \in [found -> Convs] : \A e \in found : f[e] \in Lookup(e)} :
           LET new == {c \in {info[e] : e \in found} : Missing(c)}
           IN  sess' = [id \in Stored \cup new |->
                          IF id \in new THEN [alive |-> FALSE, slug |-> byToolID[id]]
                          ELSE sess[id]]
  /\ kept' = KeptKeys
  /\ UNCHANGED <<convVars, runs, queue, view, addVars, leaving, cleanVars, events, stops,
                 excused, meddled>>

SubscribeAssigner ==
  /\ phase = "filled" /\ phase' = "up"
  /\ UNCHANGED <<convVars, storeVars, items, view, addVars, leaving, cleanVars, events, stops,
                 kept, excused, meddled>>

(* OnFirstScan, once discovery has registered the runners it found: the    *)
(* keys of the store are listed, then the others are taken out.            *)
CleanLists ==
  /\ phase = "up" /\ clean = "wait"
  /\ \A s \in runs : s \in Stored /\ sess[s].alive
  /\ clean' = "listed"
  /\ known' = Stored \cup {sess[o].slug : o \in Stored}
  /\ UNCHANGED <<convVars, phase, storeVars, items, view, addVars, leaving, events, stops,
                 kept, excused, meddled>>

(* The live sessions whose key a change of the file takes away.            *)
Unlisted(its) == {id \in Stored : sess[id].alive /\ KeyOf(id) \in Listed \ KeysIn(its)}

Filtered(keys, those) ==
  LET filtered[n \in 0..Len(keys)] ==
        IF n = 0 THEN <<>>
        ELSE IF keys[n] \in those THEN Append(filtered[n - 1], keys[n]) ELSE filtered[n - 1]
  IN  filtered[Len(keys)]

CleanupSessions ==
  /\ clean = "listed" /\ clean' = "done"
  /\ LET its == [i \in DOMAIN items |->
                   [items[i] EXCEPT !.sessions = Filtered(@, known)]]
     IN  items' = its /\ excused' = excused \cup Unlisted(its)
  /\ known' = {}
  /\ UNCHANGED <<convVars, phase, storeVars, view, addVars, leaving, events, stops, kept, meddled>>

-----------------------------------------------------------------------------
(* The sessions.                                                           *)

StartRunner(s) ==
  /\ Host(s) = Local /\ s \notin runs /\ s \notin DOMAIN leaving
  /\ Event
  /\ runs' = runs \cup {s}
  /\ UNCHANGED <<convVars, phase, sess, queue, items, view, addVars, leaving, cleanVars, stops,
                 kept, excused, meddled>>

Register(s) ==
  /\ s \in runs
  /\ s \in Stored => ~sess[s].alive
  /\ UpsertLive(s, IF s \in Stored THEN sess[s].slug ELSE NoSlug)
  /\ WatchForSession(s, DirOf[ConvOf[s]])
  /\ UNCHANGED <<phase, runs, items, view, addVars, leaving, cleanVars, events, stops,
                 meddled>>

(* A session of a peer that is connected.                                  *)
PeerUpsert(s) ==
  /\ Host(s) # Local /\ phase = "up" /\ s \notin DOMAIN leaving
  /\ Event
  /\ UpsertLive(s, NoSlug)
  /\ UNCHANGED <<convVars, phase, runs, items, view, addVars, leaving, cleanVars, stops, meddled>>

(* The file monitor attributes the conversation.                           *)
Attribute(s) ==
  /\ s \in runs \cap Stored /\ sess[s].alive /\ sess[s].slug = NoSlug
  /\ disk[ConvOf[s]] = "full"
  /\ UpsertLive(s, <<BaseOf[ConvOf[s]]>>)
  /\ UNCHANGED <<convVars, phase, runs, items, view, addVars, leaving, cleanVars, events, stops,
                 meddled>>

Exit(s) ==
  /\ s \in runs
  /\ Event
  /\ runs' = runs \ {s}
  /\ sess' = IF s \in Stored THEN [sess EXCEPT ![s].alive = FALSE] ELSE sess
  /\ UNCHANGED <<convVars, phase, queue, items, view, addVars, leaving, cleanVars, stops,
                 kept, excused, meddled>>

(* A dismissal kills the runner, retention takes dead sessions; the record *)
(* they have read may be out of date when the key is looked for.           *)
BeginsToLeave(id) ==
  /\ phase = "up" /\ id \in Stored \ DOMAIN leaving
  /\ Event
  /\ leaving' = Put(leaving, id, [step |-> "key", slug |-> sess[id].slug])
  /\ runs' = runs \ {id}
  /\ sess' = [sess EXCEPT ![id].alive = FALSE]
  /\ UNCHANGED <<convVars, phase, queue, items, view, addVars, cleanVars, stops,
                 kept, excused, meddled>>

DismissSession(id) ==
  /\ id \in DOMAIN leaving /\ leaving[id].step = "key"
  /\ LET its == DismissKey(items, id, leaving[id].slug)
     IN  Save(its) /\ excused' = excused \cup Unlisted(its)
  /\ leaving' = [leaving EXCEPT ![id].step = "record"]
  /\ UNCHANGED <<convVars, phase, storeVars, view, addVars, cleanVars, events, stops, meddled>>

RemoveSession(id) ==
  /\ id \in DOMAIN leaving /\ leaving[id].step = "record"
  /\ sess' = Drop(sess, {id})
  /\ leaving' = Drop(leaving, {id})
  /\ kept' = kept \ ({id} \cup {sess[o].slug : o \in Stored \cap {id}})
  /\ \/ id \in Sids /\ SessionLeaves(id, DirOf[ConvOf[id]])
     \/ (\A u \in users : u[1] # id) /\ UNCHANGED convVars
  /\ UNCHANGED <<phase, runs, queue, items, view, addVars, cleanVars, events, stops,
                 excused, meddled>>

-----------------------------------------------------------------------------
(* The keys.                                                               *)

Assign ==
  /\ queue # <<>> /\ queue' = Tail(queue)
  /\ Save(AutoAssign(items, Head(queue).id, Head(queue).slug))
  /\ UNCHANGED <<convVars, phase, sess, runs, view, addVars, leaving, cleanVars, events, stops,
                 excused, meddled>>

(* POST /v1/projects/add: the project is added, the sessions are listed,   *)
(* and those alive then are assigned.                                      *)
AddProject(q) ==
  /\ phase = "up" /\ adding = "no"
  /\ Event
  /\ LET its == Append(items, [name |-> Unique(q.name, items), match |-> q.match,
                               sessions |-> <<>>])
     IN  Valid(its) /\ Save(its)
  /\ adding' = "added"
  /\ UNCHANGED <<convVars, phase, storeVars, view, infos, leaving, cleanVars, stops,
                 excused, meddled>>

AddLists ==
  /\ adding = "added" /\ adding' = "listed"
  /\ infos' = [id \in {o \in Stored : sess[o].alive} |-> sess[id].slug]
  /\ UNCHANGED <<convVars, phase, storeVars, items, view, leaving, cleanVars, events, stops,
                 kept, excused, meddled>>

(* The sessions are taken in the order they were listed in.                *)
AssignAll(its, order, slugs) ==
  LET after[n \in 0..Len(order)] ==
        IF n = 0 THEN its
        ELSE AssignByRule(after[n - 1], order[n], slugs[order[n]])
  IN  after[Len(order)]

(* Mutant: sessions that run already wait for their next event.            *)
AutoAssignNobody ==
  /\ adding = "listed" /\ adding' = "no"
  /\ infos' = <<>>
  /\ UNCHANGED <<convVars, phase, storeVars, items, view, leaving, cleanVars, events, stops,
                 kept, excused, meddled>>

AutoAssignAllAlive ==
  /\ adding = "listed" /\ adding' = "no"
  /\ \E order \in [1..Cardinality(DOMAIN infos) -> DOMAIN infos] :
       /\ ToSet(order) = DOMAIN infos
       /\ Save(AssignAll(items, order, infos))
  /\ infos' = <<>>
  /\ UNCHANGED <<convVars, phase, storeVars, view, leaving, cleanVars, events, stops,
                 excused, meddled>>

(* A client reads, and writes back later all projects, or the keys of one, *)
(* as it read them, in another order or with one left out.                 *)
Fetch ==
  /\ phase = "up" /\ view = <<>>
  /\ Event
  /\ view' = items
  /\ UNCHANGED <<convVars, phase, storeVars, items, addVars, leaving, cleanVars, stops,
                 kept, excused, meddled>>

PutProjects ==
  /\ phase = "up" /\ view # <<>> /\ view' = <<>>
  /\ \E its \in {Reverse(view)} \cup {RemoveAt(view, i) : i \in DOMAIN view} :
       /\ Save(its)
       /\ excused' = excused \cup {id \in Stored : sess[id].alive /\ KeyOf(id) \notin KeysIn(its)}
  /\ UNCHANGED <<convVars, phase, storeVars, addVars, leaving, cleanVars, events, stops, meddled>>

PatchSessions ==
  /\ phase = "up" /\ view # <<>> /\ view' = <<>>
  /\ \E i \in DOMAIN view, j \in DOMAIN items :
       /\ view[i].name = items[j].name
       /\ LET keys == Reverse(view[i].sessions)
              its == [items EXCEPT ![j].sessions = keys]
          IN  /\ Save(its)
              /\ excused' = excused \cup Unlisted(its)
              /\ meddled' = meddled \cup (ToSet(keys) \ ToSet(items[j].sessions))
  /\ UNCHANGED <<convVars, phase, storeVars, addVars, leaving, cleanVars, events, stops>>

(* jumpd stops and starts: projects.json stays, and the records of local   *)
(* sessions, as dead ones.                                                 *)
Restart ==
  /\ phase = "up" /\ stops < MaxStops
  /\ stops' = stops + 1 /\ phase' = "start"
  /\ StopIndexing
  /\ sess' = [id \in {o \in Stored : Host(o) = Local} |-> [sess[id] EXCEPT !.alive = FALSE]]
  /\ queue' = <<>> /\ adding' = "no" /\ infos' = <<>> /\ leaving' = <<>>
  /\ clean' = "wait" /\ known' = {}
  /\ kept' = {} /\ excused' = {}
  /\ UNCHANGED <<runs, items, view, events, meddled>>

Follow == Monitor \/ (events <= MaxMixed /\ FileSystem)

Next ==
  \/ StartScans \/ StartWatches \/ Rehydrate \/ SubscribeAssigner
  \/ CleanLists \/ CleanupSessions
  \/ \E s \in Sids : StartRunner(s) \/ Register(s) \/ PeerUpsert(s) \/ Attribute(s) \/ Exit(s)
  \/ \E id \in Sids \cup Convs : BeginsToLeave(id) \/ DismissSession(id) \/ RemoveSession(id)
  \/ Assign
  \/ (\E q \in Requests \cup Discovered(items) : AddProject(q)) \/ AddLists \/ AutoAssignAllAlive
  \/ Fetch \/ PutProjects \/ PatchSessions
  \/ Restart
  \/ Follow /\ UNCHANGED projVars

Spec == Init /\ [][Next]_vars

-----------------------------------------------------------------------------
(* No session is listed twice, in one project or in two, unless a client   *)
(* writes back a key that has moved: assignments by event, by the pass     *)
(* after a project is added, and the change from id to slug agree.         *)
OneEntry ==
  \A k \in Listed \ meddled :
    /\ \A i, j \in DOMAIN items :
         Contains(items[i].sessions, k) /\ Contains(items[j].sessions, k) => i = j
    /\ \A i \in DOMAIN items :
         Cardinality({n \in DOMAIN items[i].sessions : items[i].sessions[n] = k}) <= 1

(* The clean-up after a start spares the key of every session that the     *)
(* store restored or that rehydration makes from the index, unless         *)
(* somebody has removed it since: the user's order is not lost by a        *)
(* restart.                                                                *)
RestartKeepsKeys == kept \subseteq Listed

(* When the assigner has taken all upserts and no project is being added,  *)
(* every live session that a project matches is listed, be it older or     *)
(* newer than the project, unless its upsert was lost or its key taken.    *)
LiveIsListed ==
  phase = "up" /\ queue = <<>> /\ adding = "no" =>
    \A s \in (Stored \cap Sids) \ excused :
      sess[s].alive /\ Match(items, At[s]) # 0 => KeyOf(s) \in Listed
=============================================================================
