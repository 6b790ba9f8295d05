------------------------- MODULE ConversationProofs -------------------------
(***************************************************************************)
(* Proofs about what the daemon makes of conversation files: of their      *)
(* lines (module FileMonitor), for any number of files, sessions, lines,   *)
(* runners and restarts of the daemon; of the files themselves (module     *)
(* ConversationIndex) and of the lists of sessions that name them (module  *)
(* Projects), for any number of conversations, directories, sessions,      *)
(* projects and rules.                                                     *)
(*                                                                         *)
(* 1. FileMonitor.  Each file is read in parts.  The first lemmas are      *)
(*    about those readings: the parts give the status and the title of     *)
(*    the whole.                                                           *)
(* 2. ConversationIndex: the index follows the disk.                       *)
(* 3. Projects: a key is listed once, restarts spare it, and live sessions *)
(*    are listed.                                                          *)
(***************************************************************************)
EXTENDS FileMonitor, Projects, SequenceTheorems, FiniteSetTheorems, WellFoundedInduction, TLAPS

(* A set of numbers that is not empty has a least one.                     *)
LEMMA LeastOf ==
  ASSUME NEW T \in SUBSET Nat, T # {}
  PROVE  \E x \in T : \A y \in T : x <= y
<1>1. IsWellFoundedOn(OpToRel(<, Nat), Nat)
  BY NatLessThanWellFounded
<1>2. \A R, S : IsWellFoundedOn(R, S) =>
        \A U \in SUBSET S : U # {} => \E x \in U : \A y \in U : ~(<<y, x>> \in R)
  BY WFMin
<1>3. PICK x \in T : \A y \in T : ~(<<y, x>> \in OpToRel(<, Nat))
  BY <1>1, <1>2
<1>4. \A y \in T : ~(y < x)
  BY <1>3 DEF OpToRel
<1> QED BY <1>4

(* If they are bounded, they have a greatest one.                          *)
LEMMA GreatestOf ==
  ASSUME NEW n \in Nat, NEW T \in SUBSET (0..n), T # {}
  PROVE  \E x \in T : \A y \in T : y <= x
<1> DEFINE U == {n - x : x \in T}
<1>1. U \in SUBSET Nat /\ U # {}
  <2>1. PICK t \in T : TRUE
    OBVIOUS
  <2>2. n - t \in U
    OBVIOUS
  <2> QED BY <2>2
<1>2. PICK u \in U : \A y \in U : u <= y
  BY <1>1, LeastOf
<1>3. PICK x \in T : u = n - x
  OBVIOUS
<1>4. \A y \in T : n - x <= n - y
  BY <1>2, <1>3
<1> QED BY <1>4

(* The last of a set of line numbers, and the first.                       *)
LEMMA LastIs ==
  ASSUME NEW n \in Nat, NEW T \in SUBSET (0..n), T # {}
  PROVE  /\ LastOf(T) \in T
         /\ \A j \in T : j <= LastOf(T)
         /\ \A i \in T : (\A j \in T : j <= i) => i = LastOf(T)
<1>1. \E x \in T : \A y \in T : y <= x
  BY GreatestOf
<1>2. LastOf(T) \in T /\ \A j \in T : j <= LastOf(T)
  BY <1>1 DEF LastOf
<1>3. T \subseteq Int
  OBVIOUS
<1>4. ASSUME NEW i \in T, \A j \in T : j <= i PROVE i = LastOf(T)
  <2>1. i \in Int /\ LastOf(T) \in Int /\ i <= LastOf(T) /\ LastOf(T) <= i
    BY <1>2, <1>3, <1>4
  <2> QED BY <2>1
<1> QED BY <1>2, <1>4

LEMMA FirstIs ==
  ASSUME NEW T \in SUBSET Nat, T # {}
  PROVE  /\ FirstOf(T) \in T
         /\ \A j \in T : FirstOf(T) <= j
         /\ \A i \in T : (\A j \in T : i <= j) => i = FirstOf(T)
<1>1. \E x \in T : \A y \in T : x <= y
  BY LeastOf
<1>2. FirstOf(T) \in T /\ \A j \in T : FirstOf(T) <= j
  BY <1>1 DEF FirstOf
<1>3. T \subseteq Int
  OBVIOUS
<1>4. ASSUME NEW i \in T, \A j \in T : i <= j PROVE i = FirstOf(T)
  <2>1. i \in Int /\ FirstOf(T) \in Int /\ i <= FirstOf(T) /\ FirstOf(T) <= i
    BY <1>2, <1>3, <1>4
  <2> QED BY <2>1
<1>5. \A i \in T : (\A j \in T : i <= j) => i = FirstOf(T)
  BY <1>4
<1> QED BY <1>2, <1>5

(* What readings give is a status or a title.                              *)
LEMMA ReadingTypes ==
  ASSUME NEW ls \in Seq(Kinds), NEW lo \in Nat, NEW hi \in Nat,
         NEW st \in {"idle", "working", "error"}, NEW t \in Title
  PROVE  /\ StatusAfter(ls, lo, hi, st) \in {"idle", "working", "error"}
         /\ TitleAfter(ls, lo, hi, t) \in Title
         /\ TitleOf(ls) \in Title
<1>1. StatusAfter(ls, lo, hi, st) \in {"idle", "working", "error"}
  BY DEF StatusAfter, Told
<1>2. TitleAfter(ls, lo, hi, t) \in Title
  <2> DEFINE names == {i \in lo..hi : ls[i] \in NamedBy[Agent]}
  <2>1. CASE names = {}
    BY <2>1 DEF TitleAfter
  <2>2. CASE names # {}
    <3>1. names \in SUBSET (0..hi)
      OBVIOUS
    <3>2. LastOf(names) \in names
      BY <2>2, <3>1, LastIs
    <3> QED BY <2>2, <3>2 DEF TitleAfter, Title
  <2> QED BY <2>1, <2>2
<1>3. TitleOf(ls) \in Title
  <2> DEFINE names == {i \in DOMAIN ls : ls[i] \in NamedBy[Agent]}
             userLines == {i \in DOMAIN ls : ls[i] = "user"}
  <2>1. names \in SUBSET (0..Len(ls)) /\ userLines \in SUBSET Nat /\ Len(ls) \in Nat /\ names \subseteq Nat
    OBVIOUS
  <2> HIDE DEF names, userLines
  <2>2. names # {} => LastOf(names) \in names
    BY <2>1, LastIs
  <2>3. userLines # {} => FirstOf(userLines) \in userLines
    BY <2>1, FirstIs
  <2>4. TitleOf(ls) = IF names # {} THEN <<"name", LastOf(names)>>
                      ELSE IF userLines # {} THEN <<"user", FirstOf(userLines)>> ELSE <<"new", 0>>
    BY DEF TitleOf, names, userLines
  <2>5. (names # {} => LastOf(names) \in Nat) /\ (userLines # {} => FirstOf(userLines) \in Nat)
    BY <2>1, <2>2, <2>3
  <2> QED BY <2>4, <2>5 DEF Title
<1> QED BY <1>1, <1>2, <1>3

(* The title of a file that has grown: what was read of it before, and the *)
(* names in what is read now, which begins where that ended or earlier.    *)
LEMMA TitleReread ==
  ASSUME NEW ls \in Seq(Kinds), NEW n \in 0..Len(ls), NEW lo \in 1..(n + 1), NEW t,
         \/ t = TitleOf(ls)
         \/ t = TitleOf(SubSeq(ls, 1, n)) /\ ~Placeholder(t)
  PROVE  TitleAfter(ls, lo, Len(ls), t) = TitleOf(ls)
<1> DEFINE all  == {i \in DOMAIN ls : ls[i] \in NamedBy[Agent]}
           new  == {i \in lo..Len(ls) : ls[i] \in NamedBy[Agent]}
           said == {i \in DOMAIN ls : ls[i] = "user"}
           p    == SubSeq(ls, 1, n)
           old  == {i \in DOMAIN p : p[i] \in NamedBy[Agent]}
           had  == {i \in DOMAIN p : p[i] = "user"}
<1>1. DOMAIN ls = 1..Len(ls) /\ Len(ls) \in Nat /\ DOMAIN p = 1..n /\ \A i \in 1..n : p[i] = ls[i]
  OBVIOUS
<1>2. all \in SUBSET (0..Len(ls)) /\ new \in SUBSET (0..Len(ls)) /\ old \in SUBSET (0..Len(ls))
  BY <1>1
<1>3. new \subseteq all /\ \A i \in all : i \in new \/ (i < lo /\ i \in old)
  BY <1>1
<1>4. old \subseteq all /\ had \subseteq said /\ said \in SUBSET Nat /\ \A i \in said : i \in had \/ i > n
  BY <1>1
<1>5. TitleOf(ls) = IF all # {} THEN <<"name", LastOf(all)>>
                    ELSE IF said # {} THEN <<"user", FirstOf(said)>> ELSE <<"new", 0>>
  BY DEF TitleOf
<1>6. TitleOf(p) = IF old # {} THEN <<"name", LastOf(old)>>
                   ELSE IF had # {} THEN <<"user", FirstOf(had)>> ELSE <<"new", 0>>
  BY DEF TitleOf
<1>7. TitleAfter(ls, lo, Len(ls), t) = IF new = {} THEN t ELSE <<"name", LastOf(new)>>
  BY DEF TitleAfter
<1>8. (\A i \in had : i <= n) /\ n \in Nat /\ Len(ls) \in Nat
  BY <1>1
<1> HIDE DEF all, new, said, old, had, p
<1>9. CASE new # {}
  <2>1. LastOf(new) \in new /\ \A j \in new : j <= LastOf(new)
    BY <1>2, <1>8, <1>9, LastIs
  <2>2. \A j \in all : j <= LastOf(new)
    BY <2>1, <1>2, <1>3 DEF new
  <2>3. LastOf(new) = LastOf(all)
    BY <1>2, <1>3, <1>8, <1>9, <2>1, <2>2, LastIs
  <2> QED BY <1>3, <1>5, <1>7, <1>9, <2>3
<1>10. CASE new = {} /\ t = TitleOf(ls)
  BY <1>7, <1>10
<1>11. CASE new = {} /\ t = TitleOf(p) /\ ~Placeholder(t)
  <2>1. old = all
    BY <1>3, <1>4, <1>11
  <2>2. CASE all # {}
    BY <1>5, <1>6, <1>7, <1>11, <2>1, <2>2
  <2>3. CASE all = {}
    <3>1. had # {}
      BY <1>6, <1>11, <2>1, <2>3 DEF Placeholder
    <3>2. FirstOf(had) \in had /\ \A j \in had : FirstOf(had) <= j
      BY <1>4, <3>1, FirstIs
    <3>3. \A j \in said : FirstOf(had) <= j
      <4>1. FirstOf(had) \in Nat /\ FirstOf(had) <= n /\ said \subseteq Nat
        BY <1>4, <1>8, <3>2
      <4>2. \A j \in said : j \notin had => n < j
        BY <1>4, <1>8
      <4> QED BY <1>8, <3>2, <4>1, <4>2
    <3>4. FirstOf(had) = FirstOf(said)
      BY <1>4, <3>1, <3>2, <3>3, FirstIs
    <3> QED BY <1>4, <1>5, <1>6, <1>7, <1>11, <2>1, <2>3, <3>1, <3>4
  <2> QED BY <2>2, <2>3
<1> QED BY <1>9, <1>10, <1>11 DEF p

(* If nothing in the lines after n tells a status, the first n lines tell  *)
(* the same as when the file ended with them: in particular pi, who gives  *)
(* up after a number of errors, had given up there if he has now.          *)
LEMMA TellsSame ==
  ASSUME NEW ls \in Seq(Kinds), NEW n \in 0..Len(ls),
         \A i \in (n + 1)..Len(ls) : ~Tells(ls[i], ls)
  PROVE  \A i \in 1..n : Tells(SubSeq(ls, 1, n)[i], SubSeq(ls, 1, n)) <=> Tells(ls[i], ls)
<1> DEFINE p == SubSeq(ls, 1, n)
           said == {"user", "tool", "text", "aborted"}
           after(s) == {i \in DOMAIN s : s[i] \in said}
           errs(s) == {i \in DOMAIN s : s[i] = "error" /\ \A j \in after(s) : j < i}
<1>1. DOMAIN ls = 1..Len(ls) /\ Len(ls) \in Nat /\ DOMAIN p = 1..n /\ \A i \in 1..n : p[i] = ls[i]
  OBVIOUS
<1>2. Agent = "pi" => \A s : TrailingErrors(s) = Cardinality(errs(s))
  BY DEF TrailingErrors, Messages
<1>3. ASSUME Agent = "pi" PROVE GaveUp(p) <=> GaveUp(ls)
  <2>1. \A i \in (n + 1)..Len(ls) : ls[i] \notin said
    BY <1>3 DEF Tells, WorkingLines, IdleLines
  <2>2. after(ls) = after(p)
    BY <1>1, <2>1
  <2>3. errs(p) \subseteq errs(ls) /\ \A i \in errs(ls) : i \in errs(p) \/ i \in (n + 1)..Len(ls)
    BY <1>1, <2>2
  <2>4. IsFiniteSet(errs(ls)) /\ errs(ls) \subseteq 1..Len(ls)
    <3>1. errs(ls) \subseteq 1..Len(ls)
      BY <1>1
    <3>2. IsFiniteSet(1..Len(ls))
      BY <1>1, FS_Interval
    <3> HIDE DEF errs
    <3> QED BY <3>1, <3>2, FS_Subset
  <2> HIDE DEF errs, after, said
  <2>5. Cardinality(errs(p)) <= Cardinality(errs(ls)) /\ IsFiniteSet(errs(p))
    BY <2>3, <2>4, FS_Subset
  <2>6. Cardinality(errs(p)) \in Nat /\ Cardinality(errs(ls)) \in Nat
    BY <2>4, <2>5, FS_CardinalityType
  <2>7. GaveUp(p) => GaveUp(ls)
    BY <1>2, <1>3, <2>5, <2>6, AdaptersAssumption DEF GaveUp
  <2>8. ASSUME GaveUp(ls) PROVE GaveUp(p)
    <3>1. \A i \in (n + 1)..Len(ls) : ls[i] # "error"
      BY <2>8 DEF Tells
    <3>2. errs(p) = errs(ls)
      BY <2>3, <3>1 DEF errs
    <3> QED BY <1>2, <1>3, <2>8, <3>2 DEF GaveUp
  <2> QED BY <2>7, <2>8
<1>4. GaveUp(p) <=> GaveUp(ls)
  BY <1>3 DEF GaveUp
<1> QED BY <1>1, <1>4 DEF Tells

(* The status of a file that has grown, from what its first n lines told:  *)
(* whichever of the two readings is from the start, no line is missed.     *)
LEMMA StatusReread ==
  ASSUME NEW ls \in Seq(Kinds), NEW n \in 0..Len(ls), NEW lo \in 1..(n + 1), NEW from \in 1..(n + 1),
         lo = 1 \/ from = 1, NEW st, st = StatusAfter(SubSeq(ls, 1, n), from, n, "idle")
  PROVE  StatusAfter(ls, lo, Len(ls), st) = StatusAfter(ls, 1, Len(ls), "idle")
<1> DEFINE p == SubSeq(ls, 1, n)
           all == {i \in 1..Len(ls) : Tells(ls[i], ls)}
           new == {i \in lo..Len(ls) : Tells(ls[i], ls)}
           old == {i \in from..n : Tells(p[i], p)}
<1>1. Len(ls) \in Nat /\ n \in Nat /\ \A i \in 1..n : p[i] = ls[i]
  OBVIOUS
<1>2. all \in SUBSET (0..Len(ls)) /\ new \in SUBSET (0..Len(ls)) /\ new \subseteq all
  BY <1>1
<1>3. StatusAfter(ls, 1, Len(ls), "idle") = IF all = {} THEN "idle" ELSE Told(ls[LastOf(all)])
  BY DEF StatusAfter
<1>4. StatusAfter(ls, lo, Len(ls), st) = IF new = {} THEN st ELSE Told(ls[LastOf(new)])
  BY DEF StatusAfter
<1>5. st = IF old = {} THEN "idle" ELSE Told(p[LastOf(old)])
  BY DEF StatusAfter
<1>6. \A i \in all : i \in new \/ i < lo
  BY <1>1
<1>7. CASE new # {}
  <2> HIDE DEF all, new, old, p
  <2>1. LastOf(new) \in new /\ \A j \in new : j <= LastOf(new)
    BY <1>1, <1>2, <1>7, LastIs
  <2>2. \A j \in all : j <= LastOf(new)
    BY <2>1, <1>1, <1>2, <1>6 DEF new
  <2>3. LastOf(new) = LastOf(all)
    BY <1>1, <1>2, <1>7, <2>1, <2>2, LastIs
  <2> QED BY <1>2, <1>3, <1>4, <1>7, <2>3
<1>8. CASE new = {}
  <2>1. \A i \in (n + 1)..Len(ls) : ~Tells(ls[i], ls)
    BY <1>8
  <2>2. \A i \in 1..n : Tells(p[i], p) <=> Tells(ls[i], ls)
    BY <2>1, TellsSame
  <2>3. old \subseteq all /\ \A i \in all : i \in 1..n
    BY <1>1, <2>1, <2>2
  <2>4. CASE lo = 1
    <3>1. all = {}
      BY <1>8, <2>4
    <3>2. old = {}
      BY <2>3, <3>1
    <3> QED BY <1>3, <1>4, <1>5, <1>8, <3>1, <3>2
  <2>5. CASE from = 1
    <3>1. old = all
      BY <1>1, <2>2, <2>3, <2>5
    <3>2. CASE all = {}
      BY <1>3, <1>4, <1>5, <1>8, <3>1, <3>2
    <3>3. CASE all # {}
      <4> HIDE DEF all, new, old, p
      <4>1. LastOf(all) \in all
        BY <1>1, <1>2, <3>3, LastIs
      <4>2. p[LastOf(all)] = ls[LastOf(all)]
        BY <1>1, <2>3, <4>1
      <4> QED BY <1>3, <1>4, <1>5, <1>8, <3>1, <3>3, <4>2
    <3> QED BY <3>2, <3>3
  <2> QED BY <2>4, <2>5
<1> QED BY <1>7, <1>8

-----------------------------------------------------------------------------
(* Types                                                                   *)

LEMMA RecordIs ==
  ASSUME NEW r \in Record
  PROVE  /\ r.live \in BOOLEAN /\ r.status \in {"idle", "working", "error"} /\ r.unread \in BOOLEAN
         /\ r.title \in Title
BY DEF Record

LEMMA TitleOfType ==
  ASSUME NEW ls \in Seq(Kinds)
  PROVE  TitleOf(ls) \in Title
<1>1. <<"none", 0>> \in Title /\ 0 \in Nat /\ "idle" \in {"idle", "working", "error"}
  BY DEF Title
<1> QED BY <1>1, ReadingTypes

(* What Register and the exit handler make of a record.                    *)
LEMMA CleanedIs ==
  ASSUME NEW r \in Record, NEW b \in BOOLEAN
  PROVE  [r EXCEPT !.live = b, !.status = "idle"] \in Record
BY DEF Record

LEMMA StatusCleaned ==
  ASSUME NEW st \in [Sessions -> Record], NEW s \in Sessions, NEW b \in BOOLEAN
  PROVE  /\ [st EXCEPT ![s].live = b, ![s].status = "idle"][s].status = "idle"
         /\ [st EXCEPT ![s].live = b, ![s].status = "idle"][s].title = st[s].title
         /\ \A t \in Sessions \ {s} : [st EXCEPT ![s].live = b, ![s].status = "idle"][t] = st[t]
<1>1. st[s] \in Record
  OBVIOUS
<1>2. /\ [st[s] EXCEPT !.live = b, !.status = "idle"].status = "idle"
      /\ [st[s] EXCEPT !.live = b, !.status = "idle"].title = st[s].title
  BY <1>1 DEF Record
<1>3. [st EXCEPT ![s].live = b, ![s].status = "idle"][s] = [st[s] EXCEPT !.live = b, !.status = "idle"]
  OBVIOUS
<1> QED BY <1>2, <1>3

LEMMA CleanedTypes ==
  ASSUME NEW st \in [Sessions -> Record], NEW s \in Sessions, NEW b \in BOOLEAN
  PROVE  [st EXCEPT ![s].live = b, ![s].status = "idle"] \in [Sessions -> Record]
<1> DEFINE r == [st[s] EXCEPT !.live = b, !.status = "idle"]
<1>1. r \in Record
  BY CleanedIs
<1>2. [st EXCEPT ![s].live = b, ![s].status = "idle"] = [st EXCEPT ![s] = r]
  OBVIOUS
<1> HIDE DEF r
<1> QED BY <1>1, <1>2

LEMMA PassIs ==
  ASSUME MonitorTypeOK
  PROVE  /\ pass.step \in {"idle", "fetch", "apply"} /\ pass.files \in SUBSET Files
         /\ pass.snaps \in SUBSET Sessions /\ pass.matches \in SUBSET (Files \X Sessions)
         /\ pass.given \in SUBSET Files
BY DEF MonitorTypeOK

(* What a title is derived to on a reading.                                *)
LEMMA SyncedTypes ==
  ASSUME MonitorTypeOK, NEW s \in Sessions, NEW f \in Files
  PROVE  Synced(s, f) \in Title
<1>1. lines[f] \in Seq(Kinds) /\ store[s] \in Record
  BY DEF MonitorTypeOK
<1>2. TitleOf(lines[f]) \in Title
  BY <1>1, TitleOfType
<1> QED BY <1>1, <1>2, RecordIs DEF Synced

(* A reading changes the books of its session and file only.               *)
LEMMA ProcessTypes ==
  ASSUME MonitorTypeOK, NEW s \in Sessions, NEW f \in Files, Process(s, f)
  PROVE  /\ store' \in [Sessions -> Record] /\ off' \in [Files -> Nat]
         /\ active' \in [Sessions -> Files \cup {NoFile}]
         /\ readAll' \in SUBSET Sessions /\ cleared' \in SUBSET Sessions
<1> DEFINE lo == FirstNew(s \in readAll, off[f])
           hi == Len(lines[f])
           all == s \in readAll
           rec == store[s]
           new == [live |-> rec.live,
                   status |-> StatusAfter(lines[f], lo, hi, rec.status),
                   unread |-> rec.unread \/ (Unreads(lines[f], lo, hi) /\ (all => rec.status = "working")),
                   title |-> TitleAfter(lines[f], lo, hi, Synced(s, f))]
<1>1. lo \in Nat /\ hi \in Nat /\ lines[f] \in Seq(Kinds) /\ rec \in Record
  BY DEF MonitorTypeOK, FirstNew
<1>2. /\ rec.live \in BOOLEAN /\ rec.status \in {"idle", "working", "error"} /\ rec.unread \in BOOLEAN
      /\ Synced(s, f) \in Title
  BY <1>1, RecordIs, SyncedTypes
<1>3. /\ StatusAfter(lines[f], lo, hi, rec.status) \in {"idle", "working", "error"}
      /\ TitleAfter(lines[f], lo, hi, Synced(s, f)) \in Title
  BY <1>1, <1>2, ReadingTypes
<1>4. Unreads(lines[f], lo, hi) \in BOOLEAN
  BY DEF Unreads
<1>5. new \in Record
  BY <1>2, <1>3, <1>4 DEF Record
<1>6. store' = [store EXCEPT ![s] = new]
  BY DEF Process
<1> HIDE DEF new
<1>7. store' \in [Sessions -> Record]
  BY <1>5, <1>6 DEF MonitorTypeOK
<1> QED BY <1>1, <1>7 DEF Process, MonitorTypeOK

LEMMA MonitorInitTypes ==
  ASSUME MonitorInit
  PROVE  MonitorTypeOK
<1>1. store \in [Sessions -> Record]
  <2>1. FreshRecord \in Record
    BY DEF FreshRecord, Record, Title
  <2> QED BY <2>1 DEF MonitorInit
<1>2. pass \in [step : {"idle", "fetch", "apply"}, files : SUBSET Files, snaps : SUBSET Sessions,
               matches : SUBSET (Files \X Sessions), given : SUBSET Files]
  BY DEF MonitorInit, IdlePass
<1>3. lines \in [Files -> Seq(Kinds)]
  BY DEF MonitorInit
<1>4. active \in [Sessions -> Files \cup {NoFile}]
  BY DEF MonitorInit
<1>5. /\ mtime \in [Files -> Nat] /\ off \in [Files -> Nat] /\ started \in [Sessions -> Nat]
      /\ {writes, starts, restarts} \subseteq Nat
  BY DEF MonitorInit
<1>6. {attr, saved, was} \subseteq [Files -> Sessions \cup {NoSession}]
  BY DEF MonitorInit
<1>7. /\ {evq, cands, dropped, raced} \subseteq SUBSET Files
      /\ {running, on, readAll, cleared} \subseteq SUBSET Sessions
      /\ {dirWatched, poke, throttle, scanned} \subseteq BOOLEAN
  BY DEF MonitorInit
<1> QED BY <1>1, <1>2, <1>3, <1>4, <1>5, <1>6, <1>7 DEF MonitorTypeOK

LEMMA MonitorNextTypes ==
  ASSUME MonitorTypeOK, [MonitorNext]_monitorVars
  PROVE  MonitorTypeOK'
<1>1. ASSUME NEW f \in Files, HandleFileChange(f) PROVE MonitorTypeOK'
  <2> DEFINE s == attr[f]
  <2>1. CASE s \in on /\ Process(s, f) /\ UNCHANGED <<attr, cands, poke, raced>>
    <3>1. s \in Sessions
      BY <2>1 DEF MonitorTypeOK
    <3>2. /\ store' \in [Sessions -> Record] /\ off' \in [Files -> Nat]
          /\ active' \in [Sessions -> Files \cup {NoFile}]
          /\ readAll' \in SUBSET Sessions /\ cleared' \in SUBSET Sessions
      BY <2>1, <3>1, ProcessTypes
    <3> QED BY <1>1, <2>1, <3>2 DEF HandleFileChange, MonitorTypeOK, fileVars, runVars, bootVars
  <2>2. CASE s \notin on
    <3>1. /\ evq' = evq \ {f} /\ attr' = [attr EXCEPT ![f] = NoSession]
          /\ cands' = cands \cup {f} /\ poke' = TRUE /\ raced' = raced \cup {f}
          /\ UNCHANGED bookVars
          /\ UNCHANGED <<fileVars, runVars, dirWatched, on, saved, dropped, throttle, pass, bootVars>>
      BY <1>1, <2>2 DEF HandleFileChange
    <3>2. attr' \in [Files -> Sessions \cup {NoSession}]
      BY <3>1 DEF MonitorTypeOK
    <3> QED BY <3>1, <3>2 DEF MonitorTypeOK, fileVars, runVars, bootVars, bookVars
  <2> QED BY <1>1, <2>1, <2>2 DEF HandleFileChange
<1>2. ASSUME NEW f \in Files, NEW k \in Written, Write(f, k) PROVE MonitorTypeOK'
  <2>1. k \in Kinds
    BY FileMonitorAssumption
  <2>2. lines' \in [Files -> Seq(Kinds)]
    BY <1>2, <2>1 DEF Write, MonitorTypeOK
  <2> QED BY <1>2, <2>2 DEF Write, MonitorTypeOK, runVars, loopVars, bootVars
<1>3. ASSUME NEW s \in Sessions, RunnerStarts(s) PROVE MonitorTypeOK'
  BY <1>3 DEF RunnerStarts, MonitorTypeOK, fileVars, monVars, loopVars, bootVars
<1>4. ASSUME NEW s \in Sessions, NotifyNewSession(s) PROVE MonitorTypeOK'
  <2>1. store' \in [Sessions -> Record]
    BY <1>4, CleanedTypes DEF NotifyNewSession, MonitorTypeOK
  <2>2. WrittenSince(s) \subseteq Files
    BY DEF WrittenSince
  <2> QED BY <1>4, <2>1, <2>2 DEF NotifyNewSession, MonitorTypeOK, fileVars, runVars, bootVars
<1>5. ASSUME NEW s \in Sessions, ExitEvent(s) PROVE MonitorTypeOK'
  <2>1. store' \in [Sessions -> Record]
    BY <1>5, CleanedTypes DEF ExitEvent, MonitorTypeOK
  <2> QED BY <1>5, <2>1 DEF ExitEvent, MonitorTypeOK, fileVars, loopVars, bootVars
<1>6. ASSUME NEW s \in Sessions, NotifySessionDied(s) PROVE MonitorTypeOK'
  <2>1. store' \in [Sessions -> Record]
    BY <1>6, CleanedTypes DEF NotifySessionDied, MonitorTypeOK
  <2>2. /\ attr' \in [Files -> Sessions \cup {NoSession}] /\ was' \in [Files -> Sessions \cup {NoSession}]
        /\ saved' \in [Files -> Sessions \cup {NoSession}] /\ raced' \in SUBSET Files
    BY <1>6 DEF NotifySessionDied, MonitorTypeOK, Without, Kept, LeftOut
  <2>3. /\ active' \in [Sessions -> Files \cup {NoFile}] /\ off' \in [Files -> Nat]
        /\ dirWatched' \in BOOLEAN
    BY <1>6 DEF NotifySessionDied, MonitorTypeOK, DirNeeded
  <2> QED BY <1>6, <2>1, <2>2, <2>3 DEF NotifySessionDied, MonitorTypeOK, fileVars, loopVars
<1>7. ASSUME TakesPoke PROVE MonitorTypeOK'
  BY <1>7 DEF TakesPoke, MonitorTypeOK, fileVars, runVars, monVars, bootVars
<1>8. ASSUME PassBegins PROVE MonitorTypeOK'
  <2>1. pass' \in [step : {"idle", "fetch", "apply"}, files : SUBSET Files, snaps : SUBSET Sessions,
                   matches : SUBSET (Files \X Sessions), given : SUBSET Files]
    BY <1>8 DEF PassBegins, IdlePass, MonitorTypeOK
  <2> QED BY <1>8, <2>1 DEF PassBegins, MonitorTypeOK, fileVars, runVars, bootVars
<1>9. ASSUME PassMatches PROVE MonitorTypeOK'
  <2>1. PICK found \in [pass.files -> Sessions \cup {NoSession}] :
          LET new == {f \in pass.files : found[f] # NoSession} IN
          /\ throttle' = (new = {})
          /\ pass' = IF new = {} THEN IdlePass
             ELSE [IdlePass EXCEPT !.step = "apply", !.matches = {<<f, found[f]>> : f \in new}]
          /\ UNCHANGED <<fileVars, evq, runVars, store, monVars, poke, bootVars, raced>>
    BY <1>9 DEF PassMatches
  <2> DEFINE new == {f \in pass.files : found[f] # NoSession}
             m == {<<f, found[f]>> : f \in new}
  <2>2. m \in SUBSET (Files \X Sessions)
    <3>1. pass.files \in SUBSET Files
      BY PassIs
    <3> QED BY <3>1
  <2>3. pass' = IF new = {} THEN IdlePass ELSE [IdlePass EXCEPT !.step = "apply", !.matches = m]
    BY <2>1
  <2>4. throttle' \in BOOLEAN
    BY <2>1
  <2> HIDE DEF m, new
  <2>5. pass' \in [step : {"idle", "fetch", "apply"}, files : SUBSET Files, snaps : SUBSET Sessions,
                   matches : SUBSET (Files \X Sessions), given : SUBSET Files]
    BY <2>2, <2>3 DEF IdlePass
  <2>6. UNCHANGED <<fileVars, evq, runVars, store, monVars, poke, bootVars, raced>>
    BY <2>1
  <2> QED BY <2>4, <2>5, <2>6 DEF MonitorTypeOK, fileVars, runVars, monVars, bootVars
<1>10. ASSUME PassEnds PROVE MonitorTypeOK'
  <2>1. /\ saved' \in [Files -> Sessions \cup {NoSession}] /\ raced' \in SUBSET Files
        /\ throttle' \in BOOLEAN
    BY <1>10 DEF PassEnds, MonitorTypeOK, Kept, LeftOut
  <2>2. pass' \in [step : {"idle", "fetch", "apply"}, files : SUBSET Files, snaps : SUBSET Sessions,
                   matches : SUBSET (Files \X Sessions), given : SUBSET Files]
    BY <1>10 DEF PassEnds, IdlePass
  <2> QED BY <1>10, <2>1, <2>2 DEF PassEnds, MonitorTypeOK, fileVars, runVars, bootVars
<1>11. ASSUME RestartDaemon PROVE MonitorTypeOK'
  <2>1. store' \in [Sessions -> Record]
    <3>1. \A s \in Sessions : [store[s] EXCEPT !.live = FALSE, !.status = "idle"] \in Record
      <4> TAKE s \in Sessions
      <4>1. store[s] \in Record
        BY DEF MonitorTypeOK
      <4> QED BY <4>1, CleanedIs
    <3> QED BY <1>11, <3>1 DEF RestartDaemon
  <2>2. pass' \in [step : {"idle", "fetch", "apply"}, files : SUBSET Files, snaps : SUBSET Sessions,
                   matches : SUBSET (Files \X Sessions), given : SUBSET Files]
    BY <1>11 DEF RestartDaemon, IdlePass
  <2>3. pass.given \in SUBSET Files
    BY PassIs
  <2>4. active' \in [Sessions -> Files \cup {NoFile}] /\ off' \in [Files -> Nat]
    BY <1>11 DEF RestartDaemon
  <2>5. raced' \in SUBSET Files /\ restarts' \in Nat
    <3>1. raced' = pass.given \cup {f \in raced : saved[f] # attr[f]} /\ restarts' = restarts + 1
      BY <1>11 DEF RestartDaemon
    <3>2. raced \in SUBSET Files /\ restarts \in Nat
      BY DEF MonitorTypeOK
    <3> QED BY <2>3, <3>1, <3>2
  <2> QED BY <1>11, <2>1, <2>2, <2>4, <2>5 DEF RestartDaemon, MonitorTypeOK, fileVars, runVars
<1>12. ASSUME ScanEnds PROVE MonitorTypeOK'
  <2> DEFINE read == {s \in on : Newest(s) # {}}
             file(s) == CHOOSE f \in Newest(s) : TRUE
  <2>1. \A s \in read : file(s) \in Files /\ s \in Sessions
    BY DEF Newest, MonitorTypeOK
  <2>2. ASSUME NEW s \in Sessions, NEW f \in Files PROVE Reconciled(s, f) \in Record
    <3>1. lines[f] \in Seq(Kinds) /\ store[s] \in Record /\ Len(lines[f]) \in Nat
      BY DEF MonitorTypeOK
    <3>2. Synced(s, f) \in Title
      BY SyncedTypes
    <3>3. StatusAfter(lines[f], 1, Len(lines[f]), store[s].status) \in {"idle", "working", "error"}
      BY <3>1, RecordIs, ReadingTypes, <3>2
    <3> QED BY <3>1, <3>2, <3>3, RecordIs DEF Reconciled, Record, Unreads
  <2>3. /\ store' = [s \in Sessions |-> IF s \in read THEN Reconciled(s, file(s)) ELSE store[s]]
        /\ active' = [s \in Sessions |-> IF s \in read THEN file(s) ELSE active[s]]
        /\ cleared' = cleared \ read
    BY <1>12 DEF ScanEnds
  <2> HIDE DEF read, file
  <2>4. store' \in [Sessions -> Record] /\ active' \in [Sessions -> Files \cup {NoFile}]
    BY <2>1, <2>2, <2>3 DEF MonitorTypeOK
  <2> QED BY <1>12, <2>3, <2>4 DEF ScanEnds, MonitorTypeOK, fileVars, runVars, loopVars
<1>13. ASSUME NEW f \in Files, NEW s \in Sessions, PassGives(f, s) PROVE MonitorTypeOK'
  <2>1. /\ store' \in [Sessions -> Record] /\ off' \in [Files -> Nat]
        /\ active' \in [Sessions -> Files \cup {NoFile}]
        /\ readAll' \in SUBSET Sessions /\ cleared' \in SUBSET Sessions
    <3>1. CASE Process(s, f)
      BY <3>1, ProcessTypes
    <3>2. CASE UNCHANGED bookVars
      BY <3>2 DEF bookVars, MonitorTypeOK
    <3> QED BY <1>13, <3>1, <3>2 DEF PassGives
  <2>2. pass' \in [step : {"idle", "fetch", "apply"}, files : SUBSET Files, snaps : SUBSET Sessions,
                   matches : SUBSET (Files \X Sessions), given : SUBSET Files]
    <3> DEFINE gives == attr[f] = NoSession /\ s \in on
    <3>1. pass' = [pass EXCEPT !.matches = @ \ {<<f, s>>}, !.given = @ \cup {g \in {f} : gives}]
      BY <1>13 DEF PassGives
    <3>2. {g \in {f} : gives} \subseteq Files
      OBVIOUS
    <3> HIDE DEF gives
    <3> QED BY <3>1, <3>2, PassIs DEF MonitorTypeOK
  <2>3. attr' \in [Files -> Sessions \cup {NoSession}] /\ cands' \in SUBSET Files
    BY <1>13 DEF PassGives, MonitorTypeOK
  <2>4. UNCHANGED <<fileVars, evq, runVars, dirWatched, on, saved, dropped, poke, throttle, bootVars, raced>>
    BY <1>13 DEF PassGives
  <2> QED BY <2>1, <2>2, <2>3, <2>4 DEF MonitorTypeOK, fileVars, runVars, bootVars
<1>14. CASE UNCHANGED monitorVars
  BY <1>14 DEF monitorVars, fileVars, runVars, monVars, loopVars, bootVars, MonitorTypeOK
<1> QED
  BY <1>1, <1>2, <1>3, <1>4, <1>5, <1>6, <1>7, <1>8, <1>9, <1>10, <1>11, <1>12, <1>13, <1>14 DEF MonitorNext

(* Every variable of the file monitor keeps its type.                      *)
THEOREM MonitorTypesHold == MonitorSpec => []MonitorTypeOK
<1>1. MonitorInit => MonitorTypeOK
  BY MonitorInitTypes
<1>2. MonitorTypeOK /\ [MonitorNext]_monitorVars => MonitorTypeOK'
  BY MonitorNextTypes
<1> QED BY <1>1, <1>2, PTL DEF MonitorSpec

(* What a step of the pass that finds owners leaves for the last part.     *)
LEMMA MatchesFound ==
  ASSUME PassMatches
  PROVE  /\ pass.step = "fetch" /\ throttle' = (pass'.matches = {}) /\ pass'.files = {} /\ pass'.given = {}
         /\ \A f, s : <<f, s>> \in pass'.matches => f \in pass.files
         /\ IF pass'.matches = {} THEN pass'.step = "idle" ELSE pass'.step = "apply"
         /\ UNCHANGED <<fileVars, evq, runVars, store, monVars, poke, bootVars, raced>>
<1>1. PICK found \in [pass.files -> Sessions \cup {NoSession}] :
        LET new == {f \in pass.files : found[f] # NoSession} IN
        /\ pass.step = "fetch"
        /\ throttle' = (new = {})
        /\ pass' = IF new = {} THEN IdlePass
           ELSE [IdlePass EXCEPT !.step = "apply", !.matches = {<<f, found[f]>> : f \in new}]
        /\ UNCHANGED <<fileVars, evq, runVars, store, monVars, poke, bootVars, raced>>
  BY DEF PassMatches
<1> DEFINE new == {f \in pass.files : found[f] # NoSession}
           m == {<<f, found[f]>> : f \in new}
<1>2. pass' = IF new = {} THEN IdlePass ELSE [IdlePass EXCEPT !.step = "apply", !.matches = m]
  BY <1>1
<1>3. (m = {} <=> new = {}) /\ \A f, s : <<f, s>> \in m => f \in pass.files
  OBVIOUS
<1>4. throttle' = (new = {})
  BY <1>1
<1> HIDE DEF new, m
<1>5. /\ pass'.files = {} /\ pass'.given = {} /\ pass'.matches = IF new = {} THEN {} ELSE m
      /\ pass'.step = IF new = {} THEN "idle" ELSE "apply"
  BY <1>2 DEF IdlePass
<1>6. throttle' = (pass'.matches = {})
  BY <1>3, <1>4, <1>5
<1> QED BY <1>1, <1>3, <1>5, <1>6

(* And what giving one file away does to the pass.                         *)
LEMMA GivesToPass ==
  ASSUME MonitorTypeOK, NEW f \in Files, NEW s \in Sessions, PassGives(f, s)
  PROVE  /\ pass'.step = pass.step /\ pass'.files = pass.files /\ pass'.matches = pass.matches \ {<<f, s>>}
         /\ pass'.given = IF attr[f] = NoSession /\ s \in on THEN pass.given \cup {f} ELSE pass.given
<1> DEFINE gives == attr[f] = NoSession /\ s \in on
           m == pass.matches \ {<<f, s>>}
           g == pass.given \cup {h \in {f} : gives}
<1>1. pass' = [pass EXCEPT !.matches = m, !.given = g]
  BY DEF PassGives
<1>2. g = IF gives THEN pass.given \cup {f} ELSE pass.given
  OBVIOUS
<1> HIDE DEF m, g, gives
<1>3. pass'.step = pass.step /\ pass'.files = pass.files /\ pass'.matches = m /\ pass'.given = g
  BY <1>1 DEF MonitorTypeOK
<1> QED BY <1>2, <1>3 DEF m, gives

LEMMA BeginsPass ==
  ASSUME PassBegins
  PROVE  /\ pass.step = "idle" /\ pass'.files = cands' /\ pass'.matches = {} /\ pass'.given = {}
         /\ pass'.step = IF cands' = {} THEN "idle" ELSE "fetch"
<1> DEFINE files == {f \in cands : attr[f] = NoSession /\ on # {}}
<1>1. pass.step = "idle" /\ cands' = files
      /\ pass' = IF files = {} THEN IdlePass
             ELSE [IdlePass EXCEPT !.step = "fetch", !.files = files, !.snaps = on]
  BY DEF PassBegins
<1> HIDE DEF files
<1> QED BY <1>1 DEF IdlePass

(* Every file begins with its header, and only files that were written are *)
(* attributed, saved, sought or announced.                                 *)
FileBegins(f) ==
  /\ lines[f] # <<>> => lines[f][1] = "header"
  /\ mtime[f] <= writes /\ off[f] <= Len(lines[f])
  /\ \/ attr[f] # NoSession \/ saved[f] # NoSession \/ f \in cands \cup evq \cup pass.files
     \/ mtime[f] > 0 \/ \E s \in Sessions : <<f, s>> \in pass.matches
     => lines[f] # <<>>
FilesBegin == \A f \in Files : FileBegins(f)

LEMMA FilesBeginKept ==
  ASSUME MonitorTypeOK, FilesBegin, [MonitorNext]_monitorVars
  PROVE  FilesBegin'
<1> SUFFICES ASSUME NEW f \in Files PROVE FileBegins(f)'
  BY DEF FilesBegin
<1> DEFINE held == attr[f] # NoSession \/ saved[f] # NoSession \/ f \in cands \cup evq \cup pass.files
                   \/ mtime[f] > 0 \/ \E s \in Sessions : <<f, s>> \in pass.matches
<1>1. /\ lines[f] \in Seq(Kinds) /\ mtime[f] \in Nat /\ off[f] \in Nat /\ writes \in Nat
      /\ Len(lines[f]) \in Nat /\ attr[f] \in Sessions \cup {NoSession}
      /\ attr \in [Files -> Sessions \cup {NoSession}] /\ saved \in [Files -> Sessions \cup {NoSession}]
      /\ off \in [Files -> Nat]
  BY DEF MonitorTypeOK
<1>2. FileBegins(f)
  BY DEF FilesBegin
<1>3. ASSUME lines' = lines, mtime' = mtime, writes' = writes, off'[f] \in {off[f], Len(lines[f]), 0},
             held' => held
      PROVE FileBegins(f)'
  BY <1>1, <1>2, <1>3 DEF FileBegins
<1> HIDE DEF held
<1>4. ASSUME NEW g \in Files, HandleFileChange(g) PROVE FileBegins(f)'
  <2>1. off'[f] \in {off[f], Len(lines[f]), 0}
    BY <1>1, <1>4 DEF HandleFileChange, Process, bookVars
  <2>2. held' => held
    BY <1>1, <1>4 DEF HandleFileChange, held, fileVars
  <2> QED BY <1>3, <1>4, <2>1, <2>2 DEF HandleFileChange, fileVars
<1>5. ASSUME NEW g \in Files, NEW k \in Written, Write(g, k) PROVE FileBegins(f)'
  <2>1. CASE g = f
    <3>1. lines'[f] = Append(lines[f], k) /\ mtime'[f] = writes + 1 /\ writes' = writes + 1 /\ off' = off
      BY <1>5, <2>1 DEF Write, MonitorTypeOK
    <3>2. lines[f] = <<>> => k = "header"
      BY <1>5, <2>1 DEF Write, Follows
    <3>3. k \in Kinds
      BY FileMonitorAssumption
    <3>4. /\ Len(lines'[f]) = Len(lines[f]) + 1 /\ lines'[f] # <<>>
          /\ lines'[f][1] = IF lines[f] = <<>> THEN k ELSE lines[f][1]
      <4> DEFINE l == lines[f]
      <4>1. l \in Seq(Kinds) /\ lines'[f] = Append(l, k)
        BY <1>1, <3>1
      <4>2. l # <<>> => 1 \in 1..Len(l)
        BY <4>1
      <4>3. CASE l = <<>>
        BY <3>3, <4>1, <4>3
      <4>4. CASE l # <<>>
        <5> HIDE DEF l
        <5>1. Len(Append(l, k)) = Len(l) + 1 /\ Append(l, k) # <<>> /\ Append(l, k)[1] = l[1]
          BY <3>3, <4>1, <4>2, <4>4
        <5> QED BY <4>1, <4>4, <5>1 DEF l
      <4> QED BY <4>3, <4>4
    <3> QED BY <1>1, <1>2, <3>1, <3>2, <3>4 DEF FileBegins
  <2>2. CASE g # f
    <3>1. lines'[f] = lines[f] /\ mtime'[f] = mtime[f] /\ writes' = writes + 1 /\ off' = off
      BY <1>5, <2>2 DEF Write, MonitorTypeOK
    <3>2. /\ evq' = evq \/ evq' = evq \cup {g}
          /\ UNCHANGED <<attr, saved, cands, pass>>
      BY <1>5 DEF Write, loopVars
    <3>3. held' => held
      BY <2>2, <3>1, <3>2 DEF held
    <3>4. mtime[f] <= writes + 1
      BY <1>1, <1>2 DEF FileBegins
    <3> QED BY <1>2, <3>1, <3>3, <3>4 DEF FileBegins, held
  <2> QED BY <2>1, <2>2
<1>6. ASSUME NEW s \in Sessions, RunnerStarts(s) PROVE FileBegins(f)'
  BY <1>1, <1>3, <1>6 DEF RunnerStarts, held, fileVars, monVars, loopVars
<1>7. ASSUME NEW s \in Sessions, NotifyNewSession(s) PROVE FileBegins(f)'
  <2>1. f \in WrittenSince(s) => mtime[f] > 0
    BY <1>1 DEF WrittenSince, MonitorTypeOK
  <2> QED BY <1>1, <1>3, <1>7, <2>1 DEF NotifyNewSession, held, fileVars
<1>8. ASSUME NEW s \in Sessions, ExitEvent(s) PROVE FileBegins(f)'
  BY <1>1, <1>3, <1>8 DEF ExitEvent, held, fileVars, loopVars
<1>9. ASSUME NEW s \in Sessions, NotifySessionDied(s) PROVE FileBegins(f)'
  <2>1. /\ attr' = Without(attr, s) /\ (saved' = saved \/ saved' = Kept(attr', on'))
        /\ off' = [g \in Files |-> IF attr[g] = s THEN 0 ELSE off[g]]
        /\ UNCHANGED <<fileVars, evq, cands, loopVars>>
    BY <1>9 DEF NotifySessionDied
  <2>2. attr'[f] # NoSession => attr[f] # NoSession
    BY <2>1 DEF Without
  <2>3. Kept(attr', on')[f] # NoSession => attr'[f] # NoSession
    BY DEF Kept
  <2> QED BY <1>1, <1>3, <2>1, <2>2, <2>3 DEF held, fileVars, loopVars
<1>10. ASSUME TakesPoke PROVE FileBegins(f)'
  BY <1>1, <1>3, <1>10 DEF TakesPoke, held, fileVars, monVars
<1>11. ASSUME PassBegins PROVE FileBegins(f)'
  <2>1. cands' \subseteq cands /\ UNCHANGED <<fileVars, evq, attr, saved, off>>
    BY <1>11 DEF PassBegins
  <2> QED BY <1>1, <1>3, <1>11, <2>1, BeginsPass DEF held, fileVars
<1>12. ASSUME PassMatches PROVE FileBegins(f)'
  BY <1>1, <1>3, <1>12, MatchesFound DEF held, fileVars, monVars
<1>13. ASSUME PassEnds PROVE FileBegins(f)'
  <2>1. /\ saved' = Kept(attr, on) /\ pass' = IdlePass
        /\ UNCHANGED <<fileVars, evq, attr, off, cands>>
    BY <1>13 DEF PassEnds
  <2>2. Kept(attr, on)[f] # NoSession => attr[f] # NoSession
    BY DEF Kept
  <2> QED BY <1>1, <1>3, <2>1, <2>2 DEF held, fileVars, IdlePass
<1>14. ASSUME RestartDaemon PROVE FileBegins(f)'
  BY <1>1, <1>3, <1>14 DEF RestartDaemon, held, fileVars, IdlePass
<1>15. ASSUME ScanEnds PROVE FileBegins(f)'
  BY <1>1, <1>3, <1>15 DEF ScanEnds, held, fileVars, loopVars
<1>16. ASSUME NEW g \in Files, NEW s \in Sessions, PassGives(g, s) PROVE FileBegins(f)'
  <2>1. <<g, s>> \in pass.matches /\ cands' \subseteq cands /\ UNCHANGED <<fileVars, evq, saved>>
    BY <1>16 DEF PassGives
  <2>2. attr'[f] # attr[f] => f = g
    BY <1>1, <1>16 DEF PassGives
  <2>3. off'[f] \in {off[f], Len(lines[f]), 0}
    BY <1>1, <1>16 DEF PassGives, Process, bookVars
  <2>4. pass'.files = pass.files /\ pass'.matches \subseteq pass.matches
    BY <1>16, GivesToPass
  <2>5. held' => held
    BY <2>1, <2>2, <2>4 DEF held, fileVars
  <2> QED BY <1>3, <2>1, <2>3, <2>5 DEF fileVars
<1>17. CASE UNCHANGED monitorVars
  BY <1>1, <1>3, <1>17 DEF monitorVars, fileVars, monVars, loopVars, held
<1> QED
  BY <1>4, <1>5, <1>6, <1>7, <1>8, <1>9, <1>10, <1>11, <1>12, <1>13, <1>14, <1>15, <1>16, <1>17 DEF MonitorNext

(* The directory is watched for whoever is monitored, and the active file  *)
(* of a session is attributed to it.                                       *)
Watching ==
  /\ on # {} => dirWatched
  /\ \A s \in Sessions : active[s] # NoFile => s \in on /\ active[s] \in Files /\ attr[active[s]] = s

LEMMA WatchingKept ==
  ASSUME MonitorTypeOK, Watching, [MonitorNext]_monitorVars
  PROVE  Watching'
<1> DEFINE Own(s) == active[s] # NoFile => s \in on /\ active[s] \in Files /\ attr[active[s]] = s
<1>1. SUFFICES /\ on' # {} => dirWatched'
               /\ \A t \in Sessions : active'[t] # NoFile =>
                    t \in on' /\ active'[t] \in Files /\ attr'[active'[t]] = t
  BY DEF Watching
<1>2. /\ attr \in [Files -> Sessions \cup {NoSession}] /\ active \in [Sessions -> Files \cup {NoFile}]
      /\ on \in SUBSET Sessions
  BY DEF MonitorTypeOK
<1>3. (on # {} => dirWatched) /\ \A s \in Sessions : Own(s)
  BY DEF Watching
<1>4. ASSUME NEW g \in Files, HandleFileChange(g)
      PROVE  /\ on' # {} => dirWatched'
             /\ \A t \in Sessions : active'[t] # NoFile =>
                  t \in on' /\ active'[t] \in Files /\ attr'[active'[t]] = t
  <2>1. on' = on /\ dirWatched' = dirWatched
    BY <1>4 DEF HandleFileChange
  <2>2. CASE attr[g] \in on /\ Process(attr[g], g) /\ attr' = attr
    BY <1>2, <1>3, <2>1, <2>2 DEF Process
  <2>3. CASE attr[g] \notin on /\ attr' = [attr EXCEPT ![g] = NoSession] /\ active' = active
    BY <1>2, <1>3, <2>1, <2>3
  <2> QED BY <1>4, <2>2, <2>3 DEF HandleFileChange, bookVars
<1>5. ASSUME NEW g \in Files, NEW s \in Sessions, PassGives(g, s)
      PROVE  /\ on' # {} => dirWatched'
             /\ \A t \in Sessions : active'[t] # NoFile =>
                  t \in on' /\ active'[t] \in Files /\ attr'[active'[t]] = t
  <2>1. on' = on /\ dirWatched' = dirWatched
    BY <1>5 DEF PassGives
  <2>2. CASE attr[g] = NoSession /\ s \in on /\ attr' = [attr EXCEPT ![g] = s] /\ Process(s, g)
    <3>1. active' = [active EXCEPT ![s] = g]
      BY <2>2 DEF Process
    <3> QED BY <1>2, <1>3, <2>1, <2>2, <3>1, FileMonitorAssumption
  <2>3. CASE attr' = attr /\ active' = active
    BY <1>2, <1>3, <2>1, <2>3
  <2> QED BY <1>5, <2>2, <2>3 DEF PassGives, bookVars
<1>6. ASSUME NEW s \in Sessions, NotifySessionDied(s)
      PROVE  /\ on' # {} => dirWatched'
             /\ \A t \in Sessions : active'[t] # NoFile =>
                  t \in on' /\ active'[t] \in Files /\ attr'[active'[t]] = t
  <2>1. /\ on' = on \ {s} /\ active' = [active EXCEPT ![s] = NoFile] /\ attr' = Without(attr, s)
        /\ dirWatched' = DirNeeded(on')
    BY <1>6 DEF NotifySessionDied
  <2>2. \A f \in Files : attr[f] # s => attr'[f] = attr[f]
    BY <2>1 DEF Without
  <2> QED BY <1>2, <1>3, <2>1, <2>2 DEF DirNeeded
<1>7. ASSUME NEW s \in Sessions, NotifyNewSession(s)
      PROVE  /\ on' # {} => dirWatched'
             /\ \A t \in Sessions : active'[t] # NoFile =>
                  t \in on' /\ active'[t] \in Files /\ attr'[active'[t]] = t
  BY <1>2, <1>3, <1>7 DEF NotifyNewSession
<1>8. ASSUME RestartDaemon
      PROVE  /\ on' # {} => dirWatched'
             /\ \A t \in Sessions : active'[t] # NoFile =>
                  t \in on' /\ active'[t] \in Files /\ attr'[active'[t]] = t
  BY <1>8 DEF RestartDaemon
<1>9. ASSUME ScanEnds
      PROVE  /\ on' # {} => dirWatched'
             /\ \A t \in Sessions : active'[t] # NoFile =>
                  t \in on' /\ active'[t] \in Files /\ attr'[active'[t]] = t
  <2> DEFINE read == {s \in on : Newest(s) # {}}
             file(s) == CHOOSE f \in Newest(s) : TRUE
  <2>1. \A s \in read : file(s) \in Files /\ attr[file(s)] = s /\ s \in on
    BY DEF Newest
  <2>2. active' = [s \in Sessions |-> IF s \in read THEN file(s) ELSE active[s]]
    BY <1>9 DEF ScanEnds
  <2>3. on' = on /\ dirWatched' = dirWatched /\ attr' = attr
    BY <1>9 DEF ScanEnds
  <2> HIDE DEF read, file
  <2> QED BY <1>2, <1>3, <2>1, <2>2, <2>3
<1>10. ASSUME UNCHANGED <<on, dirWatched, active, attr>>
       PROVE  /\ on' # {} => dirWatched'
              /\ \A t \in Sessions : active'[t] # NoFile =>
                   t \in on' /\ active'[t] \in Files /\ attr'[active'[t]] = t
  BY <1>3, <1>10
<1>11. \/ UNCHANGED <<on, dirWatched, active, attr>> \/ RestartDaemon \/ ScanEnds
       \/ \E g \in Files : HandleFileChange(g) \/ \E s \in Sessions : PassGives(g, s)
       \/ \E s \in Sessions : NotifyNewSession(s) \/ NotifySessionDied(s)
  BY DEF MonitorNext, Write, RunnerStarts, ExitEvent, TakesPoke, PassBegins, PassMatches, PassEnds,
         monitorVars, monVars
<1> QED BY <1>4, <1>5, <1>6, <1>7, <1>8, <1>9, <1>10, <1>11

(* The table on disk is behind by the files of the pass alone, and a       *)
(* restart has kept what was not raced.                                    *)
FileSaved(f) ==
  /\ attr[f] # NoSession /\ f \notin raced \cup pass.given => saved[f] = attr[f]
  /\ restarts > 0 /\ was[f] # NoSession /\ f \notin raced => attr[f] = was[f]
GivenWhileApplied == pass.step # "apply" => pass.given = {} /\ pass.matches = {}
SavedKnown == GivenWhileApplied /\ \A f \in Files : FileSaved(f)

LEMMA GivenKept ==
  ASSUME MonitorTypeOK, GivenWhileApplied, [MonitorNext]_monitorVars
  PROVE  GivenWhileApplied'
<1>1. CASE PassBegins
  BY <1>1, BeginsPass DEF GivenWhileApplied
<1>2. CASE PassMatches
  BY <1>2, MatchesFound DEF GivenWhileApplied
<1>3. CASE pass' = IdlePass
  BY <1>3 DEF GivenWhileApplied, IdlePass
<1>4. ASSUME NEW g \in Files, NEW s \in Sessions, PassGives(g, s) PROVE GivenWhileApplied'
  <2>1. <<g, s>> \in pass.matches
    BY <1>4 DEF PassGives
  <2> QED BY <1>4, <2>1, GivesToPass DEF GivenWhileApplied
<1>5. CASE pass' = pass
  BY <1>5 DEF GivenWhileApplied
<1> QED
  BY <1>1, <1>2, <1>3, <1>4, <1>5
  DEF MonitorNext, HandleFileChange, Write, RunnerStarts, NotifyNewSession, ExitEvent, NotifySessionDied,
      TakesPoke, PassEnds, RestartDaemon, ScanEnds, monitorVars, loopVars

LEMMA SavedKnownKept ==
  ASSUME MonitorTypeOK, SavedKnown, [MonitorNext]_monitorVars
  PROVE  SavedKnown'
<1> SUFFICES ASSUME NEW f \in Files PROVE FileSaved(f)'
  BY GivenKept DEF SavedKnown
<1>1. /\ attr \in [Files -> Sessions \cup {NoSession}] /\ saved \in [Files -> Sessions \cup {NoSession}]
      /\ was \in [Files -> Sessions \cup {NoSession}]
  BY DEF MonitorTypeOK
<1>2. FileSaved(f)
  BY DEF SavedKnown
<1>3. ASSUME UNCHANGED <<attr, saved, restarts, was>>, raced \subseteq raced',
             pass'.given = pass.given
      PROVE FileSaved(f)'
  BY <1>2, <1>3 DEF FileSaved
<1>4. ASSUME NEW g \in Files, HandleFileChange(g) PROVE FileSaved(f)'
  <2>1. CASE attr' = attr /\ raced' = raced
    BY <1>3, <1>4, <2>1 DEF HandleFileChange, bootVars
  <2>2. CASE attr' = [attr EXCEPT ![g] = NoSession] /\ raced' = raced \cup {g}
    BY <1>1, <1>2, <1>4, <2>2 DEF HandleFileChange, bootVars, FileSaved
  <2> QED BY <1>4, <2>1, <2>2 DEF HandleFileChange
<1>5. ASSUME NEW s \in Sessions, NotifySessionDied(s) PROVE FileSaved(f)'
  <2>1. attr' = Without(attr, s) /\ was' = Without(was, s) /\ pass' = pass /\ restarts' = restarts
    BY <1>5 DEF NotifySessionDied, loopVars
  <2>2. /\ attr'[f] = (IF attr[f] = s THEN NoSession ELSE attr[f])
        /\ was'[f] = (IF was[f] = s THEN NoSession ELSE was[f])
    BY <2>1 DEF Without
  <2>3. CASE saved' = saved /\ raced' = raced /\ attr' = attr
    BY <1>2, <2>1, <2>2, <2>3 DEF FileSaved
  <2>4. CASE saved' = Kept(attr', on') /\ raced' = raced \cup LeftOut(attr', on')
    <3>1. saved'[f] = IF attr'[f] \in on' THEN attr'[f] ELSE NoSession
      BY <2>4 DEF Kept
    <3>2. attr'[f] \in Sessions \cup {NoSession}
      BY <1>1, <2>2
    <3>3. attr'[f] # NoSession /\ attr'[f] \notin on' => f \in raced'
      BY <2>4, <3>2 DEF LeftOut
    <3> QED BY <1>2, <2>1, <2>2, <2>4, <3>1, <3>3 DEF FileSaved
  <2> QED BY <1>5, <2>3, <2>4 DEF NotifySessionDied
<1>6. ASSUME PassBegins PROVE FileSaved(f)'
  <2>1. attr' = attr /\ saved' = saved /\ restarts' = restarts /\ was' = was /\ raced' = raced
    BY <1>6 DEF PassBegins, bootVars
  <2>2. pass.given = {} /\ pass'.given = {}
    BY <1>6, BeginsPass DEF SavedKnown, GivenWhileApplied
  <2> QED BY <1>3, <2>1, <2>2
<1>7. ASSUME PassMatches PROVE FileSaved(f)'
  <2>1. pass.given = {} /\ pass'.given = {}
    BY <1>7, MatchesFound DEF SavedKnown, GivenWhileApplied
  <2> QED BY <1>3, <1>7, <2>1, MatchesFound DEF monVars, bootVars
<1>8. ASSUME PassEnds PROVE FileSaved(f)'
  <2>1. /\ saved' = Kept(attr, on) /\ raced' = raced \cup LeftOut(attr, on) /\ pass' = IdlePass
        /\ attr' = attr /\ restarts' = restarts /\ was' = was
    BY <1>8 DEF PassEnds, bootVars
  <2>2. saved'[f] = IF attr[f] \in on THEN attr[f] ELSE NoSession
    BY <2>1 DEF Kept
  <2>3. attr[f] # NoSession /\ attr[f] \notin on => f \in raced'
    BY <1>1, <2>1 DEF LeftOut
  <2> QED BY <1>2, <2>1, <2>2, <2>3 DEF FileSaved
<1>9. ASSUME RestartDaemon PROVE FileSaved(f)'
  <2>1. /\ was' = attr /\ raced' = pass.given \cup {g \in raced : saved[g] # attr[g]}
        /\ attr' = saved /\ saved' = saved
    BY <1>9 DEF RestartDaemon
  <2> QED BY <1>2, <2>1 DEF FileSaved
<1>10. ASSUME NEW g \in Files, NEW s \in Sessions, PassGives(g, s) PROVE FileSaved(f)'
  <2>1. saved' = saved /\ restarts' = restarts /\ was' = was /\ raced' = raced
    BY <1>10 DEF PassGives, bootVars
  <2>2. CASE attr[g] = NoSession /\ s \in on
    <3>1. attr' = [attr EXCEPT ![g] = s] /\ pass'.given = pass.given \cup {g}
      BY <1>10, <2>2, GivesToPass DEF PassGives
    <3> QED BY <1>1, <1>2, <2>1, <2>2, <3>1 DEF FileSaved
  <2>3. CASE ~(attr[g] = NoSession /\ s \in on)
    <3>1. attr' = attr /\ pass'.given = pass.given
      BY <1>10, <2>3, GivesToPass DEF PassGives
    <3> QED BY <1>3, <2>1, <3>1
  <2> QED BY <2>2, <2>3
<1>11. ASSUME UNCHANGED <<attr, saved, restarts, was, raced, pass>> PROVE FileSaved(f)'
  BY <1>3, <1>11
<1>12. \/ UNCHANGED <<attr, saved, restarts, was, raced, pass>>
       \/ RestartDaemon \/ PassBegins \/ PassMatches \/ PassEnds
       \/ \E g \in Files : HandleFileChange(g) \/ \E s \in Sessions : PassGives(g, s)
       \/ \E s \in Sessions : NotifySessionDied(s)
  BY DEF MonitorNext, Write, RunnerStarts, NotifyNewSession, ExitEvent, TakesPoke, ScanEnds,
         monitorVars, monVars, loopVars, bootVars
<1> QED BY <1>4, <1>5, <1>6, <1>7, <1>8, <1>9, <1>10, <1>11, <1>12

Due == poke \/ throttle \/ pass.step # "idle"
FileNoticed(f) ==
  Owner[f] \in on /\ mtime[f] > started[Owner[f]] /\ f \notin evq \cup dropped =>
    attr[f] # NoSession \/ (f \in cands /\ Due)

LEMMA NoFileOverlookedKept ==
  ASSUME MonitorTypeOK, FilesBegin, Watching, NoFileOverlooked, [MonitorNext]_monitorVars
  PROVE  NoFileOverlooked'
<1> SUFFICES ASSUME NEW f \in Files PROVE FileNoticed(f)'
  BY DEF NoFileOverlooked, FileNoticed, Due
<1>1. /\ attr \in [Files -> Sessions \cup {NoSession}] /\ mtime \in [Files -> Nat]
      /\ started \in [Sessions -> Nat] /\ on \in SUBSET Sessions /\ writes \in Nat
      /\ Owner[f] \in Sessions /\ NoSession \notin Sessions
  BY FileMonitorAssumption DEF MonitorTypeOK
<1>2. FileNoticed(f) /\ mtime[f] <= writes
  BY DEF NoFileOverlooked, FileNoticed, Due, FilesBegin, FileBegins
<1>3. ASSUME on' \subseteq on, UNCHANGED <<mtime, started, evq, dropped, attr, cands>>, Due => Due'
      PROVE  FileNoticed(f)'
  BY <1>2, <1>3 DEF FileNoticed
<1>4. ASSUME NEW g \in Files, HandleFileChange(g) PROVE FileNoticed(f)'
  <2>1. evq' = evq \ {g} /\ UNCHANGED <<on, mtime, started, dropped, throttle, pass>>
    BY <1>4 DEF HandleFileChange, fileVars, runVars
  <2>2. CASE attr[g] \in on /\ UNCHANGED <<attr, cands, poke>>
    <3>1. f = g => attr[f] # NoSession
      BY <1>1, <2>2
    <3> QED BY <1>2, <2>1, <2>2, <3>1 DEF FileNoticed, Due
  <2>3. CASE attr' = [attr EXCEPT ![g] = NoSession] /\ cands' = cands \cup {g} /\ poke' = TRUE
    BY <1>1, <1>2, <2>1, <2>3 DEF FileNoticed, Due
  <2> QED BY <1>4, <2>2, <2>3 DEF HandleFileChange
<1>5. ASSUME NEW g \in Files, NEW k \in Written, Write(g, k) PROVE FileNoticed(f)'
  <2>1. /\ mtime' = [mtime EXCEPT ![g] = writes + 1] /\ dropped' = dropped \ {g}
        /\ evq' = (IF dirWatched THEN evq \cup {g} ELSE evq)
        /\ UNCHANGED <<on, started, attr, cands, poke, throttle, pass>>
    BY <1>5 DEF Write, runVars, loopVars
  <2>2. CASE on = {}
    BY <2>1, <2>2 DEF FileNoticed
  <2>3. CASE on # {}
    <3>1. evq' = evq \cup {g}
      BY <2>1, <2>3 DEF Watching
    <3>2. f # g => mtime'[f] = mtime[f]
      BY <1>1, <2>1
    <3>3. Due' = Due
      BY <2>1 DEF Due
    <3> QED BY <1>2, <2>1, <3>1, <3>2, <3>3 DEF FileNoticed
  <2> QED BY <2>2, <2>3
<1>6. ASSUME NEW s \in Sessions, RunnerStarts(s) PROVE FileNoticed(f)'
  <2>1. /\ started' = [started EXCEPT ![s] = writes]
        /\ UNCHANGED <<on, mtime, evq, dropped, attr, cands, poke, throttle, pass>>
    BY <1>6 DEF RunnerStarts, fileVars, monVars, loopVars
  <2>2. CASE Owner[f] = s
    <3>1. started'[Owner[f]] = writes /\ mtime'[f] <= writes
      BY <1>1, <1>2, <2>1, <2>2
    <3>2. ~(mtime'[f] > started'[Owner[f]])
      BY <1>1, <2>1, <3>1
    <3> QED BY <2>1, <3>2 DEF FileNoticed, FileMonitorAssumption
  <2>3. CASE Owner[f] # s
    <3>1. started'[Owner[f]] = started[Owner[f]]
      BY <1>1, <2>1, <2>3
    <3> QED BY <1>2, <2>1, <3>1 DEF FileNoticed, Due
  <2> QED BY <2>2, <2>3
<1>7. ASSUME NEW s \in Sessions, NotifyNewSession(s) PROVE FileNoticed(f)'
  <2>1. /\ on' = on \cup {s} /\ cands' = cands \cup WrittenSince(s) /\ poke' = TRUE
        /\ UNCHANGED <<mtime, started, evq, dropped, attr>>
    BY <1>7 DEF NotifyNewSession, fileVars, runVars
  <2>2. Owner[f] = s /\ mtime[f] > started[s] /\ attr[f] = NoSession => f \in WrittenSince(s)
    BY DEF WrittenSince
  <2> QED BY <1>2, <2>1, <2>2 DEF FileNoticed, Due
<1>8. ASSUME NEW s \in Sessions, NotifySessionDied(s) PROVE FileNoticed(f)'
  <2>1. /\ on' = on \ {s} /\ attr' = Without(attr, s) /\ dropped' = dropped \cup {g \in Files : attr[g] = s}
        /\ UNCHANGED <<mtime, started, evq, cands, poke, throttle, pass>>
    BY <1>8 DEF NotifySessionDied, fileVars, loopVars
  <2>2. attr'[f] = IF attr[f] = s THEN NoSession ELSE attr[f]
    BY <2>1 DEF Without
  <2> QED BY <1>2, <2>1, <2>2 DEF FileNoticed, Due
<1>9. ASSUME TakesPoke PROVE FileNoticed(f)'
  <2>1. Due'
    BY <1>9 DEF TakesPoke, Due
  <2> QED BY <1>2, <1>9, <2>1 DEF TakesPoke, FileNoticed, fileVars, runVars, monVars
<1>10. ASSUME PassBegins PROVE FileNoticed(f)'
  <2>1. /\ cands' = {h \in cands : attr[h] = NoSession /\ on # {}}
        /\ UNCHANGED <<on, mtime, started, evq, dropped, attr, poke>>
    BY <1>10 DEF PassBegins, fileVars, runVars
  <2>2. cands' # {} => Due'
    BY <1>10, BeginsPass DEF Due
  <2> QED BY <1>2, <2>1, <2>2 DEF FileNoticed
<1>11. ASSUME PassMatches PROVE FileNoticed(f)'
  <2>1. Due'
    BY <1>11, MatchesFound DEF Due
  <2> QED BY <1>3, <1>11, <2>1, MatchesFound DEF fileVars, runVars, monVars
<1>12. ASSUME PassEnds PROVE FileNoticed(f)'
  <2>1. throttle' = (cands # {}) /\ UNCHANGED <<on, mtime, started, evq, dropped, attr, cands>>
    BY <1>12 DEF PassEnds, fileVars, runVars
  <2>2. cands # {} => Due'
    BY <2>1 DEF Due
  <2> QED BY <1>2, <2>1, <2>2 DEF FileNoticed
<1>13. ASSUME RestartDaemon PROVE FileNoticed(f)'
  BY <1>13 DEF RestartDaemon, FileNoticed
<1>14. ASSUME NEW g \in Files, NEW s \in Sessions, PassGives(g, s) PROVE FileNoticed(f)'
  <2>1. /\ UNCHANGED <<on, mtime, started, evq, dropped, poke, throttle>>
        /\ cands' = cands \ {h \in {g} : attr'[h] # NoSession}
    BY <1>14 DEF PassGives, fileVars, runVars
  <2>2. Due' = Due
    BY <1>14, <2>1, GivesToPass DEF Due
  <2>3. attr[f] # NoSession => attr'[f] # NoSession
    BY <1>1, <1>14 DEF PassGives
  <2> QED BY <1>2, <2>1, <2>2, <2>3 DEF FileNoticed
<1>15. ASSUME UNCHANGED <<on, mtime, started, evq, dropped, attr, cands, poke, throttle, pass>>
       PROVE  FileNoticed(f)'
  BY <1>3, <1>15 DEF Due
<1>16. \/ UNCHANGED <<on, mtime, started, evq, dropped, attr, cands, poke, throttle, pass>>
       \/ TakesPoke \/ PassBegins \/ PassMatches \/ PassEnds \/ RestartDaemon
       \/ \E g \in Files : HandleFileChange(g) \/ (\E k \in Written : Write(g, k))
                           \/ (\E s \in Sessions : PassGives(g, s))
       \/ \E s \in Sessions : RunnerStarts(s) \/ NotifyNewSession(s) \/ NotifySessionDied(s)
  BY DEF MonitorNext, ExitEvent, ScanEnds, monitorVars, fileVars, runVars, monVars, loopVars
<1> QED
  BY <1>4, <1>5, <1>6, <1>7, <1>8, <1>9, <1>10, <1>11, <1>12, <1>13, <1>14, <1>15, <1>16

(* A session without a file has read none.                                 *)
SessionNew(s) ==
  /\ (\A f \in Files : attr[f] # s) => s \in readAll /\ s \in cleared
  /\ s \in readAll /\ s \in cleared => store[s].status = "idle"
NewReadsAll == \A s \in on : SessionNew(s)

LEMMA NewReadsAllKept ==
  ASSUME MonitorTypeOK, NewReadsAll, [MonitorNext]_monitorVars
  PROVE  NewReadsAll'
<1> SUFFICES ASSUME NEW s \in on' PROVE SessionNew(s)'
  BY DEF NewReadsAll
<1>1. /\ attr \in [Files -> Sessions \cup {NoSession}] /\ on \in SUBSET Sessions
      /\ store \in [Sessions -> Record] /\ NoSession \notin Sessions
  BY FileMonitorAssumption DEF MonitorTypeOK
<1>2. s \in on => SessionNew(s)
  BY DEF NewReadsAll
<1>3. ASSUME s \in on, \A f \in Files : attr[f] = s => attr'[f] = s,
             s \in readAll <=> s \in readAll', s \in cleared <=> s \in cleared',
             store'[s] = store[s]
      PROVE  SessionNew(s)'
  BY <1>2, <1>3 DEF SessionNew
<1>4. ASSUME NEW g \in Files, HandleFileChange(g) PROVE SessionNew(s)'
  <2>1. s \in on
    BY <1>4 DEF HandleFileChange
  <2>2. CASE attr[g] \in on /\ Process(attr[g], g) /\ attr' = attr
    <3>1. attr[g] = s => s \notin readAll'
      BY <2>2 DEF Process
    <3>2. attr[g] # s => store'[s] = store[s] /\ (s \in readAll <=> s \in readAll')
                         /\ (s \in cleared <=> s \in cleared')
      BY <1>1, <2>1, <2>2 DEF Process
    <3> QED BY <1>3, <2>1, <2>2, <3>1, <3>2 DEF SessionNew
  <2>3. CASE attr[g] \notin on /\ attr' = [attr EXCEPT ![g] = NoSession] /\ UNCHANGED bookVars
    BY <1>1, <1>3, <2>1, <2>3 DEF bookVars
  <2> QED BY <1>4, <2>2, <2>3 DEF HandleFileChange
<1>5. ASSUME NEW t \in Sessions, NotifyNewSession(t) PROVE SessionNew(s)'
  <2>1. /\ store' = [store EXCEPT ![t].live = TRUE, ![t].status = "idle"] /\ on' = on \cup {t}
        /\ readAll' = readAll \cup {t} /\ cleared' = cleared \cup {t} /\ attr' = attr
    BY <1>5 DEF NotifyNewSession
  <2>2. CASE s = t
    <3>1. store'[s].status = "idle"
      BY <1>1, <2>1, <2>2, StatusCleaned
    <3> QED BY <2>1, <2>2, <3>1 DEF SessionNew
  <2>3. CASE s # t
    BY <1>1, <1>3, <2>1, <2>3
  <2> QED BY <2>2, <2>3
<1>6. ASSUME NEW t \in Sessions, ExitEvent(t) PROVE SessionNew(s)'
  <2>1. /\ store' = [store EXCEPT ![t].live = FALSE, ![t].status = "idle"] /\ on' = on
        /\ readAll' = readAll /\ cleared' = cleared \cup {t} /\ attr' = attr
    BY <1>6 DEF ExitEvent
  <2>2. CASE s = t
    <3>1. store'[s].status = "idle"
      BY <1>1, <2>1, <2>2, StatusCleaned
    <3> QED BY <1>2, <2>1, <2>2, <3>1 DEF SessionNew
  <2>3. CASE s # t
    BY <1>1, <1>3, <2>1, <2>3
  <2> QED BY <2>2, <2>3
<1>7. ASSUME NEW t \in Sessions, NotifySessionDied(t) PROVE SessionNew(s)'
  <2>1. /\ store' = [store EXCEPT ![t].live = FALSE, ![t].status = "idle"] /\ on' = on \ {t}
        /\ readAll' = readAll \ {t} /\ cleared' = cleared /\ attr' = Without(attr, t)
    BY <1>7 DEF NotifySessionDied
  <2>2. s # t /\ s \in on
    BY <2>1
  <2>3. \A f \in Files : attr[f] = s => attr'[f] = s
    BY <2>1, <2>2 DEF Without
  <2> QED BY <1>1, <1>3, <2>1, <2>2, <2>3
<1>8. ASSUME ScanEnds PROVE SessionNew(s)'
  <2> DEFINE read == {t \in on : Newest(t) # {}}
             file(t) == CHOOSE f \in Newest(t) : TRUE
  <2>1. /\ store' = [t \in Sessions |-> IF t \in read THEN Reconciled(t, file(t)) ELSE store[t]]
        /\ cleared' = cleared \ read /\ UNCHANGED <<on, attr, readAll>>
    BY <1>8 DEF ScanEnds
  <2>2. \A t \in read : \E f \in Files : attr[f] = t
    BY DEF Newest
  <2> HIDE DEF read, file
  <2>3. s \in on /\ s \in Sessions
    BY <1>1, <2>1
  <2>4. CASE s \in read
    BY <2>1, <2>2, <2>4 DEF SessionNew
  <2>5. CASE s \notin read
    BY <1>3, <2>1, <2>3, <2>5
  <2> QED BY <2>4, <2>5
<1>9. ASSUME NEW g \in Files, NEW t \in Sessions, PassGives(g, t) PROVE SessionNew(s)'
  <2>1. s \in on
    BY <1>9 DEF PassGives
  <2>2. CASE attr[g] = NoSession /\ t \in on /\ attr' = [attr EXCEPT ![g] = t] /\ Process(t, g)
    <3>1. CASE s = t
      <4>1. attr'[g] = s /\ s \notin readAll'
        BY <1>1, <2>2, <3>1 DEF Process
      <4> QED BY <4>1 DEF SessionNew
    <3>2. CASE s # t
      <4>1. store'[s] = store[s] /\ (s \in readAll <=> s \in readAll') /\ (s \in cleared <=> s \in cleared')
        BY <1>1, <2>1, <2>2, <3>2 DEF Process
      <4>2. \A f \in Files : attr[f] = s => attr'[f] = s
        BY <1>1, <2>1, <2>2
      <4> QED BY <1>3, <2>1, <4>1, <4>2
    <3> QED BY <3>1, <3>2
  <2>3. CASE attr' = attr /\ UNCHANGED bookVars
    BY <1>3, <2>1, <2>3 DEF bookVars
  <2> QED BY <1>9, <2>2, <2>3 DEF PassGives
<1>10. ASSUME UNCHANGED <<on, attr, readAll, cleared, store>> PROVE SessionNew(s)'
  BY <1>3, <1>10
<1>11. ~RestartDaemon
  BY DEF RestartDaemon
<1>12. \/ UNCHANGED <<on, attr, readAll, cleared, store>> \/ ScanEnds
       \/ \E g \in Files : HandleFileChange(g) \/ (\E t \in Sessions : PassGives(g, t))
       \/ \E t \in Sessions : NotifyNewSession(t) \/ ExitEvent(t) \/ NotifySessionDied(t)
  BY <1>11 DEF MonitorNext, Write, RunnerStarts, TakesPoke, PassBegins, PassMatches, PassEnds,
               monitorVars, monVars
<1> QED BY <1>4, <1>5, <1>6, <1>7, <1>8, <1>9, <1>10, <1>12

LEMMA SubSeqAll ==
  ASSUME NEW l \in Seq(Kinds)
  PROVE  /\ SubSeq(l, 1, Len(l)) = l /\ SubSeq(l, 1, 0) = <<>> /\ Len(l) \in Nat
         /\ \A k \in Kinds, n \in 0..Len(l) : SubSeq(Append(l, k), 1, n) = SubSeq(l, 1, n)
OBVIOUS

(* A sole file has another of its session beside it nowhere.  The status   *)
(* of its session is what some part of the file tells, from some line on;  *)
(* from its first line on, unless it was cleared.                          *)
Sole(s, f) == attr[f] = s /\ \A g \in Files \ {f} : attr[g] # s

StatusRead(s, f) ==
  \E n \in 0..Len(lines[f]) : \E from \in 1..(n + 1) :
    /\ store[s].status = StatusAfter(SubSeq(lines[f], 1, n), from, n, "idle")
    /\ s \notin cleared =>
         /\ from = 1 /\ active[s] = f
         /\ s \in readAll \/ off[f] <= n
         /\ f \notin evq => n = Len(lines[f])

(* And its title is that of the file as it was.                            *)
TitleRead(s, f) ==
  active[s] = f =>
    \E n \in 0..Len(lines[f]) :
      /\ store[s].title = TitleOf(SubSeq(lines[f], 1, n)) /\ off[f] <= n
      /\ f \notin evq => n = Len(lines[f])

FilesRead == \A s \in on, f \in Files : Sole(s, f) => StatusRead(s, f) /\ TitleRead(s, f)

(* The title that a reading starts from is that of the whole file, or one  *)
(* of a part of it that the new lines follow.                              *)
LEMMA SyncedIs ==
  ASSUME MonitorTypeOK, NEW s \in Sessions, NEW f \in Files, FileBegins(f), lines[f] # <<>>, TitleRead(s, f)
  PROVE  \/ Synced(s, f) = TitleOf(lines[f])
         \/ /\ active[s] = f /\ Synced(s, f) = store[s].title
            /\ \E n \in 0..Len(lines[f]) :
                 /\ Synced(s, f) = TitleOf(SubSeq(lines[f], 1, n)) /\ ~Placeholder(Synced(s, f)) /\ off[f] <= n
                 /\ f \notin evq => n = Len(lines[f])
<1>1. Parses(lines[f])
  BY DEF Parses, FileBegins
<1> QED BY <1>1 DEF Synced, TitleRead

LEMMA StatusReadAfter ==
  ASSUME MonitorTypeOK, NEW s \in Sessions, NEW f \in Files, FileBegins(f), lines[f] # <<>>,
         Process(s, f), lines' = lines, evq' \subseteq evq,
         \/ s \in readAll /\ s \in cleared /\ store[s].status = "idle"
         \/ StatusRead(s, f)
  PROVE  StatusRead(s, f)'
<1> DEFINE ls == lines[f]
           hi == Len(ls)
           lo == FirstNew(s \in readAll, off[f])
           st == store[s].status
           Whole == StatusAfter(ls, lo, hi, st) = StatusAfter(ls, 1, hi, "idle")
<1>1. /\ ls \in Seq(Kinds) /\ hi \in Nat /\ off[f] \in Nat /\ off[f] <= hi
      /\ lo = IF s \in readAll THEN 1 ELSE off[f] + 1
  BY DEF MonitorTypeOK, FileBegins, FirstNew
<1>2. /\ store'[s].status = StatusAfter(ls, lo, hi, st)
      /\ active'[s] = f /\ off'[f] = hi /\ s \notin readAll'
      /\ s \in cleared' <=> s \in cleared /\ s \notin readAll
  BY DEF Process, MonitorTypeOK
<1>3. SubSeq(ls, 1, hi) = ls
  BY <1>1, SubSeqAll
<1> HIDE DEF lo, st
<1>4. ASSUME Whole PROVE StatusRead(s, f)'
  <2>1. /\ hi \in 0..Len(lines'[f]) /\ 1 \in 1..(hi + 1) /\ lines'[f] = ls
        /\ store'[s].status = StatusAfter(SubSeq(ls, 1, hi), 1, hi, "idle")
        /\ active'[s] = f /\ off'[f] <= hi
    <3>1. StatusAfter(SubSeq(ls, 1, hi), 1, hi, "idle") = StatusAfter(ls, 1, hi, "idle")
      BY <1>3, Zenon
    <3> QED BY <1>1, <1>2, <1>4, <3>1
  <2> HIDE DEF ls, hi
  <2> QED BY <2>1 DEF StatusRead, ls, hi
<1>5. CASE s \in readAll /\ s \in cleared /\ st = "idle"
  BY <1>1, <1>4, <1>5
<1>6. CASE StatusRead(s, f)
  <2>1. PICK n \in 0..Len(ls) : \E from \in 1..(n + 1) :
          /\ st = StatusAfter(SubSeq(ls, 1, n), from, n, "idle")
          /\ s \notin cleared => from = 1 /\ (s \in readAll \/ off[f] <= n)
    BY <1>6 DEF StatusRead, st
  <2>2. PICK from \in 1..(n + 1) :
          /\ st = StatusAfter(SubSeq(ls, 1, n), from, n, "idle")
          /\ s \notin cleared => from = 1 /\ (s \in readAll \/ off[f] <= n)
    BY <2>1
  <2>3. CASE s \in readAll \/ s \notin cleared
    <3>1. lo \in 1..(n + 1) /\ (lo = 1 \/ from = 1)
      BY <1>1, <2>2, <2>3
    <3>2. Whole
      BY <1>1, <2>2, <3>1, StatusReread
    <3> QED BY <1>4, <3>2
  <2>4. CASE s \notin readAll /\ s \in cleared
    <3> DEFINE telling == {i \in lo..hi : Tells(ls[i], ls)}
    <3>1. s \in cleared'
      BY <1>2, <2>4
    <3>2. CASE telling = {}
      <4>1. store'[s].status = st
        BY <1>2, <3>2 DEF StatusAfter
      <4>2. store'[s].status = StatusAfter(SubSeq(lines'[f], 1, n), from, n, "idle") /\ n \in 0..Len(lines'[f])
        BY <4>1, <2>2
      <4> HIDE DEF ls, hi
      <4> QED BY <3>1, <4>2 DEF StatusRead
    <3>3. CASE telling # {}
      <4>1. StatusAfter(ls, lo, hi, st) = StatusAfter(ls, lo, hi, "idle")
        BY <3>3 DEF StatusAfter
      <4>2. /\ store'[s].status = StatusAfter(SubSeq(lines'[f], 1, hi), lo, hi, "idle")
            /\ hi \in 0..Len(lines'[f]) /\ lo \in 1..(hi + 1)
        <5>1. StatusAfter(SubSeq(ls, 1, hi), lo, hi, "idle") = StatusAfter(ls, lo, hi, "idle")
          BY <1>3, Zenon
        <5> QED BY <1>1, <1>2, <4>1, <2>4, <5>1
      <4> HIDE DEF ls, hi
      <4> QED BY <3>1, <4>2 DEF StatusRead
    <3> QED BY <3>2, <3>3
  <2> QED BY <2>3, <2>4
<1> QED BY <1>5, <1>6 DEF st

LEMMA TitleReadAfter ==
  ASSUME MonitorTypeOK, NEW s \in Sessions, NEW f \in Files, FileBegins(f), lines[f] # <<>>,
         Process(s, f), lines' = lines, TitleRead(s, f)
  PROVE  TitleRead(s, f)'
<1> DEFINE ls == lines[f]
           hi == Len(ls)
           lo == FirstNew(s \in readAll, off[f])
           t == Synced(s, f)
<1>1. /\ ls \in Seq(Kinds) /\ hi \in Nat /\ off[f] \in Nat /\ off[f] <= hi
      /\ lo = IF s \in readAll THEN 1 ELSE off[f] + 1
  BY DEF MonitorTypeOK, FileBegins, FirstNew
<1>2. store'[s].title = TitleAfter(ls, lo, hi, t) /\ off'[f] = hi
  BY DEF Process, MonitorTypeOK
<1>3. SubSeq(ls, 1, hi) = ls
  BY <1>1, SubSeqAll
<1> HIDE DEF lo, t
<1>4. TitleAfter(ls, lo, hi, t) = TitleOf(ls)
  <2>1. CASE t = TitleOf(ls)
    <3>1. hi \in 0..Len(ls) /\ lo \in 1..(hi + 1)
      BY <1>1
    <3> QED BY <1>1, <2>1, <3>1, TitleReread
  <2>2. CASE \E n \in 0..Len(ls) : t = TitleOf(SubSeq(ls, 1, n)) /\ ~Placeholder(t) /\ off[f] <= n
    <3>1. PICK n \in 0..Len(ls) : t = TitleOf(SubSeq(ls, 1, n)) /\ ~Placeholder(t) /\ off[f] <= n
      BY <2>2
    <3>2. lo \in 1..(n + 1)
      BY <1>1, <3>1
    <3> QED BY <1>1, <3>1, <3>2, TitleReread
  <2> QED BY <2>1, <2>2, SyncedIs DEF t
<1>5. /\ hi \in 0..Len(lines'[f]) /\ lines'[f] = ls /\ off'[f] <= hi
      /\ store'[s].title = TitleOf(SubSeq(ls, 1, hi))
  <2>1. TitleOf(SubSeq(ls, 1, hi)) = TitleOf(ls)
    BY <1>3, Zenon
  <2> QED BY <1>1, <1>2, <1>4, <2>1
<1> HIDE DEF ls, hi
<1> QED BY <1>5 DEF TitleRead, ls, hi

(* What happens to others leaves a session its status and title.           *)
LEMMA ReadUnchanged ==
  ASSUME NEW s, NEW f, StatusRead(s, f), TitleRead(s, f), store'[s] = store[s], lines'[f] = lines[f],
         active'[s] = active[s], off'[f] = off[f], s \in cleared <=> s \in cleared',
         s \in readAll <=> s \in readAll', f \in evq <=> f \in evq'
  PROVE  StatusRead(s, f)' /\ TitleRead(s, f)'
<1>1. StatusRead(s, f)'
  BY DEF StatusRead
<1>2. TitleRead(s, f)'
  BY DEF TitleRead
<1> QED BY <1>1, <1>2

(* The status of a session that has just been cleared, and whose title is  *)
(* as it was.                                                              *)
LEMMA ReadCleared ==
  ASSUME MonitorTypeOK, NEW s \in Sessions, NEW f \in Files, TitleRead(s, f), store'[s].status = "idle",
         s \in cleared', store'[s].title = store[s].title, UNCHANGED <<lines, active, off, evq>>
  PROVE  StatusRead(s, f)' /\ TitleRead(s, f)'
<1>1. StatusRead(s, f)'
  <2>1. SubSeq(lines[f], 1, 0) = <<>> /\ Len(lines[f]) \in Nat
    BY SubSeqAll DEF MonitorTypeOK
  <2>2. StatusAfter(<<>>, 1, 0, "idle") = "idle"
    BY DEF StatusAfter
  <2>3. 0 \in 0..Len(lines'[f]) /\ 1 \in 1..(0 + 1)
        /\ store'[s].status = StatusAfter(SubSeq(lines'[f], 1, 0), 1, 0, "idle")
    <3>1. StatusAfter(SubSeq(lines[f], 1, 0), 1, 0, "idle") = "idle"
      BY <2>1, <2>2, Zenon
    <3> QED BY <2>1, <3>1
  <2> QED BY <2>3 DEF StatusRead
<1>2. TitleRead(s, f)'
  BY DEF TitleRead
<1> QED BY <1>1, <1>2

MonitorInv ==
  /\ MonitorTypeOK /\ FilesBegin /\ Watching /\ SavedKnown /\ NoFileOverlooked /\ NewReadsAll /\ FilesRead

LEMMA FilesReadKept ==
  ASSUME MonitorInv, [MonitorNext]_monitorVars
  PROVE  FilesRead'
<1> SUFFICES ASSUME NEW s \in on', NEW f \in Files, Sole(s, f)'
             PROVE  StatusRead(s, f)' /\ TitleRead(s, f)'
  BY DEF FilesRead
<1>1. /\ attr \in [Files -> Sessions \cup {NoSession}] /\ on \in SUBSET Sessions
      /\ store \in [Sessions -> Record] /\ NoSession \notin Sessions
      /\ active \in [Sessions -> Files \cup {NoFile}] /\ NoFile \notin Files
      /\ off \in [Files -> Nat] /\ lines \in [Files -> Seq(Kinds)]
  BY FileMonitorAssumption DEF MonitorInv, MonitorTypeOK, NoFile
<1>2. MonitorTypeOK /\ \A g \in Files : FileBegins(g)
  BY DEF MonitorInv, FilesBegin
<1>3. s \in on /\ Sole(s, f) => StatusRead(s, f) /\ TitleRead(s, f)
  BY DEF MonitorInv, FilesRead
<1>4. attr'[f] = s /\ \A g \in Files \ {f} : attr'[g] # s
  BY DEF Sole
<1>5. attr[f] # NoSession => lines[f] # <<>>
  BY <1>2 DEF FileBegins
<1>6. ASSUME NEW g \in Files, HandleFileChange(g) PROVE StatusRead(s, f)' /\ TitleRead(s, f)'
  <2>1. s \in on /\ evq' = evq \ {g} /\ lines' = lines
    BY <1>6 DEF HandleFileChange, fileVars
  <2>2. CASE attr[g] \in on /\ Process(attr[g], g) /\ attr' = attr
    <3>1. StatusRead(s, f) /\ TitleRead(s, f)
      BY <1>3, <1>4, <2>1, <2>2 DEF Sole
    <3>2. CASE g = f
      <4>1. Process(s, f) /\ lines[f] # <<>> /\ evq' \subseteq evq
        BY <1>1, <1>4, <1>5, <2>1, <2>2, <3>2
      <4> QED BY <1>1, <1>2, <2>1, <3>1, <4>1, StatusReadAfter, TitleReadAfter
    <3>3. CASE g # f
      <4>1. attr[g] # s
        BY <1>4, <2>2, <3>3
      <4>2. /\ store'[s] = store[s] /\ active'[s] = active[s] /\ off'[f] = off[f]
            /\ s \in cleared <=> s \in cleared'
            /\ s \in readAll <=> s \in readAll'
        BY <1>1, <2>1, <2>2, <3>3, <4>1 DEF Process
      <4> QED BY <2>1, <3>1, <3>3, <4>2, ReadUnchanged
    <3> QED BY <3>2, <3>3
  <2>3. CASE attr[g] \notin on /\ attr' = [attr EXCEPT ![g] = NoSession] /\ UNCHANGED bookVars
    <3>1. g # f /\ Sole(s, f)
      BY <1>1, <1>4, <2>1, <2>3 DEF Sole
    <3> QED BY <1>3, <2>1, <2>3, <3>1, ReadUnchanged DEF bookVars
  <2> QED BY <1>6, <2>2, <2>3 DEF HandleFileChange
<1>7. ASSUME NEW g \in Files, NEW k \in Written, Write(g, k) PROVE StatusRead(s, f)' /\ TitleRead(s, f)'
  <2>1. /\ lines' = [lines EXCEPT ![g] = Append(@, k)]
        /\ evq' = (IF dirWatched THEN evq \cup {g} ELSE evq)
        /\ UNCHANGED <<store, on, readAll, attr, active, off, cleared>>
    BY <1>7 DEF Write
  <2>2. StatusRead(s, f) /\ TitleRead(s, f)
    BY <1>3, <1>4, <2>1 DEF Sole
  <2>3. CASE g # f
    <3>1. lines'[f] = lines[f] /\ (f \in evq <=> f \in evq')
      BY <1>1, <2>1, <2>3
    <3> QED BY <2>1, <2>2, <3>1, ReadUnchanged
  <2>4. CASE g = f
    <3>1. f \in evq'
      BY <2>1, <2>4 DEF MonitorInv, Watching
    <3> DEFINE l == lines[f]
    <3>2. k \in Kinds /\ l \in Seq(Kinds) /\ lines'[f] = Append(l, k)
      BY <1>1, <2>1, <2>4, FileMonitorAssumption
    <3>3. /\ 0..Len(l) \subseteq 0..Len(lines'[f])
          /\ \A n \in 0..Len(l) : SubSeq(lines'[f], 1, n) = SubSeq(l, 1, n)
      BY <3>2, SubSeqAll
    <3>4. StatusRead(s, f)'
      <4>1. PICK n \in 0..Len(l) : \E from \in 1..(n + 1) :
              /\ store[s].status = StatusAfter(SubSeq(l, 1, n), from, n, "idle")
              /\ s \notin cleared => from = 1 /\ active[s] = f /\ (s \in readAll \/ off[f] <= n)
        BY <2>2 DEF StatusRead
      <4>2. PICK from \in 1..(n + 1) :
              /\ store[s].status = StatusAfter(SubSeq(l, 1, n), from, n, "idle")
              /\ s \notin cleared => from = 1 /\ active[s] = f /\ (s \in readAll \/ off[f] <= n)
        BY <4>1
      <4>3. n \in 0..Len(lines'[f]) /\ SubSeq(lines'[f], 1, n) = SubSeq(l, 1, n)
        BY <3>3
      <4> HIDE DEF l
      <4>4. StatusAfter(SubSeq(lines'[f], 1, n), from, n, "idle") = StatusAfter(SubSeq(l, 1, n), from, n, "idle")
        BY <4>3, Zenon
      <4> QED BY <2>1, <3>1, <4>2, <4>3, <4>4 DEF StatusRead
    <3>5. TitleRead(s, f)'
      <4>1. CASE active[s] # f
        BY <2>1, <4>1 DEF TitleRead
      <4>2. CASE active[s] = f
        <5>1. PICK n \in 0..Len(l) : store[s].title = TitleOf(SubSeq(l, 1, n)) /\ off[f] <= n
          BY <2>2, <4>2 DEF TitleRead
        <5>2. n \in 0..Len(lines'[f]) /\ SubSeq(lines'[f], 1, n) = SubSeq(l, 1, n)
          BY <3>3
        <5> HIDE DEF l
        <5>3. TitleOf(SubSeq(lines'[f], 1, n)) = TitleOf(SubSeq(l, 1, n))
          BY <5>2, Zenon
        <5> QED BY <2>1, <3>1, <5>1, <5>2, <5>3 DEF TitleRead
      <4> QED BY <4>1, <4>2
    <3> QED BY <3>4, <3>5
  <2> QED BY <2>3, <2>4
<1>8. ASSUME NEW t \in Sessions, NotifyNewSession(t) PROVE StatusRead(s, f)' /\ TitleRead(s, f)'
  <2>1. /\ store' = [store EXCEPT ![t].live = TRUE, ![t].status = "idle"] /\ on' = on \cup {t}
        /\ readAll' = readAll \cup {t} /\ cleared' = cleared \cup {t}
        /\ UNCHANGED <<lines, evq, attr, active, off>>
    BY <1>8 DEF NotifyNewSession, fileVars
  <2>2. CASE s = t
    <3>1. TitleRead(s, f)
      <4>1. CASE s \in on
        BY <1>3, <1>4, <2>1, <4>1 DEF Sole
      <4>2. CASE s \notin on
        <5>1. active[s] = NoFile
          BY <2>2, <4>2 DEF MonitorInv, Watching
        <5> QED BY <1>1, <5>1 DEF TitleRead
      <4> QED BY <4>1, <4>2
    <3>2. store'[s].status = "idle" /\ store'[s].title = store[s].title
      BY <1>1, <2>1, <2>2, StatusCleaned
    <3> QED BY <1>2, <2>1, <2>2, <3>1, <3>2, ReadCleared
  <2>3. CASE s # t
    <3>1. s \in on /\ Sole(s, f) /\ s \in Sessions
      BY <1>1, <1>4, <2>1, <2>3 DEF Sole
    <3>2. store'[s] = store[s]
      BY <1>1, <2>1, <2>3, <3>1, StatusCleaned
    <3>3. (s \in cleared <=> s \in cleared') /\ (s \in readAll <=> s \in readAll')
      BY <2>1, <2>3
    <3> QED BY <1>3, <2>1, <3>1, <3>2, <3>3, ReadUnchanged
  <2> QED BY <2>2, <2>3
<1>9. ASSUME NEW t \in Sessions, ExitEvent(t) PROVE StatusRead(s, f)' /\ TitleRead(s, f)'
  <2>1. /\ store' = [store EXCEPT ![t].live = FALSE, ![t].status = "idle"] /\ cleared' = cleared \cup {t}
        /\ UNCHANGED <<lines, evq, on, readAll, attr, active, off>>
    BY <1>9 DEF ExitEvent, fileVars
  <2>2. s \in on /\ Sole(s, f) /\ s \in Sessions
    BY <1>1, <1>4, <2>1 DEF Sole
  <2>3. CASE s = t
    <3>1. store'[s].status = "idle" /\ store'[s].title = store[s].title
      BY <1>1, <2>1, <2>3, StatusCleaned
    <3> QED BY <1>2, <1>3, <2>1, <2>2, <2>3, <3>1, ReadCleared
  <2>4. CASE s # t
    <3>1. store'[s] = store[s]
      BY <1>1, <2>1, <2>2, <2>4, StatusCleaned
    <3>2. (s \in cleared <=> s \in cleared') /\ (s \in readAll <=> s \in readAll')
      BY <2>1, <2>4
    <3> QED BY <1>3, <2>1, <2>2, <3>1, <3>2, ReadUnchanged
  <2> QED BY <2>3, <2>4
<1>10. ASSUME NEW t \in Sessions, NotifySessionDied(t) PROVE StatusRead(s, f)' /\ TitleRead(s, f)'
  <2>1. /\ store' = [store EXCEPT ![t].live = FALSE, ![t].status = "idle"] /\ cleared' = cleared
        /\ on' = on \ {t} /\ readAll' = readAll \ {t} /\ active' = [active EXCEPT ![t] = NoFile]
        /\ attr' = Without(attr, t) /\ off' = [g \in Files |-> IF attr[g] = t THEN 0 ELSE off[g]]
        /\ UNCHANGED <<lines, evq>>
    BY <1>10 DEF NotifySessionDied, fileVars
  <2>2. s \in on /\ s # t /\ s \in Sessions
    BY <1>1, <2>1
  <2>3. \A g \in Files : attr'[g] = IF attr[g] = t THEN NoSession ELSE attr[g]
    BY <2>1 DEF Without
  <2>4. Sole(s, f)
    BY <1>1, <1>4, <2>2, <2>3 DEF Sole
  <2>5. store'[s] = store[s]
    BY <1>1, <2>1, <2>2, StatusCleaned
  <2>6. active'[s] = active[s] /\ off'[f] = off[f] /\ (s \in readAll <=> s \in readAll')
    BY <1>1, <2>1, <2>2, <2>4 DEF Sole
  <2> QED BY <1>3, <2>1, <2>2, <2>4, <2>5, <2>6, ReadUnchanged
<1>11. ASSUME ScanEnds PROVE StatusRead(s, f)' /\ TitleRead(s, f)'
  <2> DEFINE read == {t \in on : Newest(t) # {}}
             file(t) == CHOOSE g \in Newest(t) : TRUE
  <2>1. /\ store' = [t \in Sessions |-> IF t \in read THEN Reconciled(t, file(t)) ELSE store[t]]
        /\ active' = [t \in Sessions |-> IF t \in read THEN file(t) ELSE active[t]]
        /\ cleared' = cleared \ read /\ UNCHANGED <<lines, evq, on, attr, readAll, off>>
    BY <1>11 DEF ScanEnds, fileVars
  <2>2. s \in on /\ Sole(s, f) /\ s \in Sessions /\ StatusRead(s, f) /\ TitleRead(s, f)
    BY <1>1, <1>3, <1>4, <2>1 DEF Sole
  <2>3. lines[f] # <<>>
    BY <1>1, <1>5, <2>2 DEF Sole
  <2>4. Newest(s) = {f}
    <3>1. \A g \in Files : attr[g] = s <=> g = f
      BY <2>2 DEF Sole
    <3>2. mtime[f] <= mtime[f]
      BY <1>2 DEF MonitorTypeOK
    <3> QED BY <2>3, <3>1, <3>2 DEF Newest
  <2>5. s \in read /\ file(s) = f
    BY <2>2, <2>4
  <2> HIDE DEF read, file
  <2>6. /\ store'[s].status = StatusAfter(lines[f], 1, Len(lines[f]), store[s].status)
        /\ store'[s].title = Synced(s, f) /\ active'[s] = f /\ s \notin cleared'
    BY <2>1, <2>2, <2>5 DEF Reconciled
  <2> DEFINE l == lines[f]
             hi == Len(l)
  <2>7. l \in Seq(Kinds) /\ hi \in Nat /\ SubSeq(l, 1, hi) = l /\ off[f] <= hi /\ off[f] \in Nat
    BY <1>1, <1>2, SubSeqAll DEF FileBegins
  <2>8. StatusRead(s, f)'
    <3>1. PICK n \in 0..Len(l) : \E from \in 1..(n + 1) :
            store[s].status = StatusAfter(SubSeq(l, 1, n), from, n, "idle")
      BY <2>2 DEF StatusRead
    <3>2. StatusAfter(l, 1, Len(l), store[s].status) = StatusAfter(l, 1, Len(l), "idle")
      <4>1. PICK from \in 1..(n + 1) : store[s].status = StatusAfter(SubSeq(l, 1, n), from, n, "idle")
        BY <3>1
      <4>2. 1 \in 1..(n + 1)
        OBVIOUS
      <4> QED BY <2>7, <4>1, <4>2, StatusReread
    <3>3. StatusAfter(SubSeq(l, 1, hi), 1, hi, "idle") = StatusAfter(l, 1, hi, "idle")
      BY <2>7, Zenon
    <3>4. /\ hi \in 0..Len(lines'[f]) /\ 1 \in 1..(hi + 1) /\ lines'[f] = l
          /\ store'[s].status = StatusAfter(SubSeq(l, 1, hi), 1, hi, "idle") /\ off'[f] <= hi
      BY <2>1, <2>6, <2>7, <3>2, <3>3
    <3> HIDE DEF l, hi
    <3> QED BY <2>6, <3>4 DEF StatusRead, l, hi
  <2>9. TitleRead(s, f)'
    <3>1. CASE Synced(s, f) = TitleOf(l)
      <4>1. TitleOf(SubSeq(l, 1, hi)) = TitleOf(l)
        BY <2>7, Zenon
      <4>2. /\ hi \in 0..Len(lines'[f]) /\ lines'[f] = l /\ off'[f] <= hi
            /\ store'[s].title = TitleOf(SubSeq(l, 1, hi))
        BY <2>1, <2>6, <2>7, <3>1, <4>1
      <4> HIDE DEF l, hi
      <4> QED BY <4>2 DEF TitleRead, l, hi
    <3>2. CASE active[s] = f /\ Synced(s, f) = store[s].title
      BY <2>1, <2>2, <2>6, <3>2 DEF TitleRead
    <3> QED BY <1>2, <2>2, <2>3, <3>1, <3>2, SyncedIs
  <2> QED BY <2>8, <2>9
<1>12. ASSUME NEW g \in Files, NEW t \in Sessions, PassGives(g, t)
       PROVE  StatusRead(s, f)' /\ TitleRead(s, f)'
  <2>1. s \in on /\ s \in Sessions /\ lines' = lines /\ evq' = evq /\ <<g, t>> \in pass.matches
    BY <1>1, <1>12 DEF PassGives, fileVars
  <2>2. CASE attr[g] = NoSession /\ t \in on /\ attr' = [attr EXCEPT ![g] = t] /\ Process(t, g)
    <3>1. CASE s = t
      <4>1. g = f
        BY <1>1, <1>4, <2>2, <3>1
      <4>2. \A h \in Files : attr[h] # s
        BY <1>1, <1>4, <2>1, <2>2, <4>1
      <4>3. s \in readAll /\ s \in cleared /\ store[s].status = "idle"
        BY <2>1, <4>2 DEF MonitorInv, NewReadsAll, SessionNew
      <4>4. active[s] # f
        BY <1>1, <2>1, <4>2 DEF MonitorInv, Watching
      <4>5. TitleRead(s, f)
        BY <4>4 DEF TitleRead
      <4>6. lines[f] # <<>>
        BY <1>2, <2>1, <3>1, <4>1 DEF FileBegins
      <4> QED BY <1>2, <2>1, <2>2, <3>1, <4>1, <4>3, <4>5, <4>6, StatusReadAfter, TitleReadAfter
    <3>2. CASE s # t
      <4>1. g # f /\ Sole(s, f)
        BY <1>1, <1>4, <2>1, <2>2, <3>2 DEF Sole
      <4>2. /\ store'[s] = store[s] /\ active'[s] = active[s] /\ off'[f] = off[f]
            /\ s \in cleared <=> s \in cleared'
            /\ s \in readAll <=> s \in readAll'
        BY <1>1, <2>1, <2>2, <3>2, <4>1 DEF Process
      <4> QED BY <1>3, <2>1, <4>1, <4>2, ReadUnchanged
    <3> QED BY <3>1, <3>2
  <2>3. CASE attr' = attr /\ UNCHANGED bookVars
    <3>1. Sole(s, f)
      BY <1>4, <2>3 DEF Sole
    <3> QED BY <1>3, <2>1, <2>3, <3>1, ReadUnchanged DEF bookVars
  <2> QED BY <1>12, <2>2, <2>3 DEF PassGives
<1>13. ASSUME UNCHANGED <<on, attr, readAll, cleared, store, active, off, lines, evq>>
       PROVE  StatusRead(s, f)' /\ TitleRead(s, f)'
  <2>1. Sole(s, f) /\ s \in on
    BY <1>4, <1>13 DEF Sole
  <2> QED BY <1>3, <1>13, <2>1, ReadUnchanged
<1>14. ~RestartDaemon
  BY DEF RestartDaemon
<1>15. \/ UNCHANGED <<on, attr, readAll, cleared, store, active, off, lines, evq>> \/ ScanEnds
       \/ \E g \in Files : HandleFileChange(g) \/ (\E k \in Written : Write(g, k))
                           \/ (\E t \in Sessions : PassGives(g, t))
       \/ \E t \in Sessions : NotifyNewSession(t) \/ ExitEvent(t) \/ NotifySessionDied(t)
  BY <1>14 DEF MonitorNext, RunnerStarts, TakesPoke, PassBegins, PassMatches, PassEnds,
               monitorVars, monVars, fileVars
<1> QED BY <1>6, <1>7, <1>8, <1>9, <1>10, <1>11, <1>12, <1>13, <1>15

LEMMA MonitorInitInv ==
  ASSUME MonitorInit
  PROVE  MonitorInv
<1>1. /\ \A f \in Files : /\ lines[f] = <<>> /\ mtime[f] = 0 /\ off[f] = 0 /\ attr[f] = NoSession
                          /\ saved[f] = NoSession /\ was[f] = NoSession
      /\ writes = 0 /\ cands = {} /\ evq = {} /\ pass = IdlePass /\ on = {}
      /\ \A s \in Sessions : active[s] = NoFile
  BY DEF MonitorInit
<1>2. FilesBegin
  BY <1>1 DEF FilesBegin, FileBegins, IdlePass
<1>3. SavedKnown
  BY <1>1 DEF SavedKnown, GivenWhileApplied, FileSaved, IdlePass
<1> QED
  BY <1>1, <1>2, <1>3, MonitorInitTypes
  DEF MonitorInv, Watching, NoFileOverlooked, NewReadsAll, FilesRead

LEMMA MonitorNextInv ==
  ASSUME MonitorInv, [MonitorNext]_monitorVars
  PROVE  MonitorInv'
BY MonitorNextTypes, FilesBeginKept, WatchingKept, SavedKnownKept, NoFileOverlookedKept, NewReadsAllKept,
   FilesReadKept DEF MonitorInv

LEMMA MonitorInvHolds == MonitorSpec => []MonitorInv
<1>1. MonitorInit => MonitorInv
  BY MonitorInitInv
<1>2. MonitorInv /\ [MonitorNext]_monitorVars => MonitorInv'
  BY MonitorNextInv
<1> QED BY <1>1, <1>2, PTL DEF MonitorSpec

(* A file written since its session was started is somebody's, or sought   *)
(* while a pass is due (NotifyNewSession, handleFileChange, Run).          *)
THEOREM FilesAreSought == MonitorSpec => []NoFileOverlooked
<1>1. MonitorInv => NoFileOverlooked
  BY DEF MonitorInv
<1> QED BY <1>1, MonitorInvHolds, PTL

(* What was attributed before a restart of the daemon is attributed to the *)
(* same session after it (saveAttributions, ApplyPersistedAttributions).   *)
THEOREM FilesSurviveRestarts == MonitorSpec => []RestartKeepsFiles
<1>1. MonitorInv => RestartKeepsFiles
  <2> SUFFICES ASSUME MonitorInv, NEW f \in Files, restarts > 0, was[f] \in on, f \notin raced
               PROVE  attr[f] = was[f]
    BY DEF RestartKeepsFiles
  <2>1. was[f] # NoSession
    BY FileMonitorAssumption DEF MonitorInv, MonitorTypeOK
  <2> QED BY <2>1 DEF MonitorInv, SavedKnown, FileSaved
<1> QED BY <1>1, MonitorInvHolds, PTL

(* A live session with one file shows the status and the title of the      *)
(* whole file, however its readings were divided (processAttributedFile,   *)
(* reconcileFileStatus, syncFileMetadata).                                 *)
THEOREM SessionsShowFiles == MonitorSpec => []ShowsItsFile
<1>1. MonitorInv => ShowsItsFile
  <2> SUFFICES ASSUME MonitorInv, NEW f \in Files, attr[f] \in on \ cleared, f \notin evq,
                      \A g \in Files \ {f} : attr[g] # attr[f]
               PROVE  /\ store[attr[f]].status = StatusAfter(lines[f], 1, Len(lines[f]), "idle")
                      /\ store[attr[f]].title = TitleOf(lines[f])
    BY DEF ShowsItsFile
  <2> DEFINE s == attr[f]
             l == lines[f]
  <2>1. StatusRead(s, f) /\ TitleRead(s, f)
    BY DEF MonitorInv, FilesRead, Sole
  <2>2. l \in Seq(Kinds) /\ SubSeq(l, 1, Len(l)) = l
    BY SubSeqAll DEF MonitorInv, MonitorTypeOK
  <2>3. store[s].status = StatusAfter(SubSeq(l, 1, Len(l)), 1, Len(l), "idle") /\ active[s] = f
    BY <2>1 DEF StatusRead
  <2>4. store[s].title = TitleOf(SubSeq(l, 1, Len(l)))
    BY <2>1, <2>3 DEF TitleRead
  <2>5. /\ StatusAfter(SubSeq(l, 1, Len(l)), 1, Len(l), "idle") = StatusAfter(l, 1, Len(l), "idle")
        /\ TitleOf(SubSeq(l, 1, Len(l))) = TitleOf(l)
    BY <2>2, Zenon
  <2> QED BY <2>3, <2>4, <2>5
<1> QED BY <1>1, MonitorInvHolds, PTL

(* Of more pairwise disjoint sets than a finite set has elements, one is   *)
(* empty, and there is a first such one.                                   *)
LEMMA FirstFree ==
  ASSUME NEW T, IsFiniteSet(T),
         NEW h \in [1..(Cardinality(T) + 1) -> SUBSET T],
         \A i, j \in 1..(Cardinality(T) + 1) : i # j => h[i] \cap h[j] = {}
  PROVE  \E i \in 1..(Cardinality(T) + 1) : h[i] = {} /\ \A j \in 1..(i - 1) : h[j] # {}
<1> DEFINE D == 1..(Cardinality(T) + 1)
           Empty == {i \in D : h[i] = {}}
<1>1. Cardinality(T) \in Nat
  BY FS_CardinalityType
<1>2. Empty # {}
  <2>1. SUFFICES ASSUME Empty = {} PROVE FALSE
    OBVIOUS
  <2> DEFINE f == [i \in D |-> CHOOSE x \in T : x \in h[i]]
  <2>2. \A i \in D : f[i] \in T /\ f[i] \in h[i]
    <3>1. \A i \in D : \E x \in T : x \in h[i]
      BY <2>1
    <3> QED BY <3>1
  <2>3. f \in [D -> T]
    BY <2>2
  <2>4. IsFiniteSet(D) /\ Cardinality(D) = Cardinality(T) + 1
    <3>1. /\ IsFiniteSet(D)
          /\ Cardinality(D) = IF 1 > Cardinality(T) + 1 THEN 0 ELSE (Cardinality(T) + 1) - 1 + 1
      BY <1>1, FS_Interval
    <3> QED BY <1>1, <3>1
  <2>5. Cardinality(T) < Cardinality(D)
    BY <1>1, <2>4
  <2> HIDE DEF f, D
  <2>6. \E x, y \in D : x # y /\ f[x] = f[y]
    BY <2>3, <2>4, <2>5, FS_PigeonHole
  <2> QED BY <2>2, <2>6 DEF D
<1>3. PICK i \in Empty : \A j \in Empty : i <= j
  <2>1. Empty \in SUBSET Nat
    BY <1>1
  <2> HIDE DEF Empty
  <2> QED BY <1>2, <2>1, LeastOf
<1>4. \A j \in 1..(i - 1) : j \in D /\ ~(i <= j)
  BY <1>1, <1>3
<1> QED BY <1>3, <1>4

-----------------------------------------------------------------------------
(* The index.  The two maps agree: each conversation has one slug, and no  *)
(* other of its kind has it.                                               *)

Slugs == Seq({BaseOf[c] : c \in Convs} \cup Nat)

Agree(keys, tools) ==
  /\ DOMAIN tools \subseteq Convs /\ \A c \in DOMAIN tools : tools[c] \in Slugs \ {NoSlug}
  /\ \A c \in DOMAIN tools : <<KindOf[c], tools[c]>> \in DOMAIN keys
  /\ \A c \in DOMAIN tools : keys[<<KindOf[c], tools[c]>>] = c
  /\ \A k \in DOMAIN keys : keys[k] \in DOMAIN tools /\ k = <<KindOf[keys[k]], tools[keys[k]]>>

IndexAgrees == Agree(byKey, byToolID)

LEMMA SuffixedIsSlug ==
  ASSUME NEW c \in Convs, NEW n \in Nat
  PROVE  Suffixed(BaseOf[c], n) \in Slugs \ {NoSlug}
<1>1. Suffixed(BaseOf[c], n) \in Slugs
  <2> DEFINE B == {BaseOf[d] : d \in Convs} \cup Nat
  <2>1. BaseOf[c] \in B /\ n \in B
    OBVIOUS
  <2> HIDE DEF B
  <2>2. <<BaseOf[c]>> \in Seq(B) /\ <<BaseOf[c], n>> \in Seq(B)
    BY <2>1
  <2> QED BY <2>2 DEF Suffixed, Slugs, B
<1>2. Len(Suffixed(BaseOf[c], n)) # 0 /\ Len(NoSlug) = 0
  BY DEF Suffixed, NoSlug
<1> QED BY <1>1, <1>2

LEMMA SuffixedDiffers ==
  ASSUME NEW b, NEW m \in Nat, NEW n \in Nat, m # n
  PROVE  Suffixed(b, m) # Suffixed(b, n)
<1>1. Len(<<b>>) = 1 /\ \A x : Len(<<b, x>>) = 2 /\ <<b, x>>[2] = x
  OBVIOUS
<1> QED BY <1>1 DEF Suffixed

LEMMA UniqueSlugIsFree ==
  ASSUME IndexAgrees, NEW c \in Convs \ DOMAIN byToolID
  PROVE  /\ UniqueSlug(Index, c) \in Slugs \ {NoSlug}
         /\ <<KindOf[c], UniqueSlug(Index, c)>> \notin DOMAIN byKey
<1> DEFINE N == Cardinality(Convs) + 1
           K(n) == <<KindOf[c], Suffixed(BaseOf[c], n)>>
           Free(n) == K(n) \notin DOMAIN Index.byKey \/ Index.byKey[K(n)] = c
           h == [n \in 1..N |-> {d \in Convs : K(n) \in DOMAIN byKey /\ byKey[K(n)] = d}]
<1>1. IsFiniteSet(Convs) /\ Cardinality(Convs) \in Nat
  BY ConversationIndexAssumption, FS_CardinalityType
<1>2. \A i, j \in 1..N : i # j => h[i] \cap h[j] = {}
  <2>1. SUFFICES ASSUME NEW i \in 1..N, NEW j \in 1..N, i # j, NEW d \in Convs,
                        K(i) \in DOMAIN byKey, byKey[K(i)] = d,
                        K(j) \in DOMAIN byKey, byKey[K(j)] = d
                 PROVE  FALSE
    OBVIOUS
  <2>2. K(i) = K(j)
    BY <2>1 DEF IndexAgrees, Agree
  <2>3. Suffixed(BaseOf[c], i) # Suffixed(BaseOf[c], j)
    BY <1>1, <2>1, SuffixedDiffers
  <2> QED BY <2>2, <2>3
<1>3. h \in [1..N -> SUBSET Convs]
  OBVIOUS
<1>4. PICK i \in 1..N : h[i] = {} /\ \A j \in 1..(i - 1) : h[j] # {}
  <2> HIDE DEF h
  <2> QED BY <1>1, <1>2, <1>3, FirstFree
<1>5. \A j \in 1..N : Free(j) <=> h[j] = {}
  <2>1. \A j \in 1..N : K(j) \in DOMAIN byKey => byKey[K(j)] \in DOMAIN byToolID
    BY DEF IndexAgrees, Agree
  <2>2. DOMAIN byToolID \subseteq Convs
    BY DEF IndexAgrees, Agree
  <2>3. Index.byKey = byKey
    BY DEF Index
  <2> QED BY <2>1, <2>2, <2>3
<1>6. Free(i) /\ \A j \in 1..(i - 1) : ~Free(j)
  <2>1. \A j \in 1..(i - 1) : j \in 1..N
    BY <1>1
  <2> QED BY <1>4, <1>5, <2>1
<1> DEFINE n == CHOOSE m \in 1..N : Free(m) /\ \A j \in 1..(m - 1) : ~Free(j)
<1>7. n \in 1..N /\ Free(n)
  <2> HIDE DEF Free, N
  <2> QED BY <1>6
<1>8. UniqueSlug(Index, c) = Suffixed(BaseOf[c], n)
  BY Zenon DEF UniqueSlug
<1>9. n \in Nat
  BY <1>1, <1>7
<1> HIDE DEF n
<1>10. K(n) \notin DOMAIN byKey
  BY <1>7 DEF IndexAgrees, Agree, Index
<1> QED BY <1>8, <1>9, <1>10, SuffixedIsSlug

(* A conversation that is read has a slug then; the others keep theirs.    *)
LEMMA UpsertAgrees ==
  ASSUME IndexAgrees, NEW c \in Convs
  PROVE  /\ Agree(Upsert(Index, c).byKey, Upsert(Index, c).byToolID)
         /\ DOMAIN Upsert(Index, c).byToolID = DOMAIN byToolID \cup {c}
<1>0. Index.byKey = byKey /\ Index.byToolID = byToolID
  BY DEF Index
<1>1. CASE c \in DOMAIN byToolID
  <2>1. /\ Upsert(Index, c).byKey = Put(byKey, <<KindOf[c], byToolID[c]>>, c)
        /\ Upsert(Index, c).byToolID = byToolID
    BY <1>1 DEF Upsert, Index
  <2> DEFINE k == <<KindOf[c], byToolID[c]>>
             K == Put(byKey, k, c)
  <2>2. DOMAIN K = DOMAIN byKey \cup {k} /\ K[k] = c
        /\ \A x \in DOMAIN byKey : x # k => K[x] = byKey[x]
    BY DEF Put
  <2>3. k \in DOMAIN byKey /\ byKey[k] = c
    BY <1>1 DEF IndexAgrees, Agree
  <2>4. DOMAIN K = DOMAIN byKey /\ \A x \in DOMAIN byKey : K[x] = byKey[x]
    BY <2>2, <2>3
  <2> HIDE DEF K, k
  <2>5. Agree(K, byToolID)
    BY <2>4 DEF IndexAgrees, Agree
  <2> QED BY <1>1, <2>1, <2>5 DEF K, k
<1>2. CASE c \notin DOMAIN byToolID
  <2> DEFINE s == UniqueSlug(Index, c)
             k == <<KindOf[c], s>>
             K == Put(byKey, k, c)
             T == Put(byToolID, c, s)
  <2>1. Upsert(Index, c).byKey = K /\ Upsert(Index, c).byToolID = T
    BY <1>0, <1>2 DEF Upsert
  <2>2. DOMAIN K = DOMAIN byKey \cup {k} /\ K[k] = c
        /\ \A x \in DOMAIN byKey : x # k => K[x] = byKey[x]
    BY DEF Put
  <2>3. DOMAIN T = DOMAIN byToolID \cup {c} /\ T[c] = s
        /\ \A d \in DOMAIN byToolID : T[d] = byToolID[d]
    BY <1>2 DEF Put
  <2>4. s \in Slugs \ {NoSlug} /\ k \notin DOMAIN byKey
    BY <1>2, UniqueSlugIsFree
  <2> HIDE DEF K, T, s
  <2>5. \A d \in DOMAIN byToolID : K[<<KindOf[d], byToolID[d]>>] = d
    BY <2>2, <2>4 DEF IndexAgrees, Agree
  <2>6. \A x \in DOMAIN byKey : /\ K[x] = byKey[x] /\ byKey[x] \in DOMAIN byToolID
                                /\ x = <<KindOf[byKey[x]], byToolID[byKey[x]]>>
    BY <2>2, <2>4 DEF IndexAgrees, Agree
  <2>7. Agree(K, T)
    <3>1. DOMAIN T \subseteq Convs /\ \A d \in DOMAIN T : T[d] \in Slugs \ {NoSlug}
      BY <2>3, <2>4 DEF IndexAgrees, Agree
    <3>2. \A d \in DOMAIN T : <<KindOf[d], T[d]>> \in DOMAIN K
      BY <2>2, <2>3 DEF IndexAgrees, Agree
    <3>3. \A d \in DOMAIN T : K[<<KindOf[d], T[d]>>] = d
      BY <2>2, <2>3, <2>5
    <3>4. \A x \in DOMAIN K : K[x] \in DOMAIN T /\ x = <<KindOf[K[x]], T[K[x]]>>
      BY <2>2, <2>3, <2>6
    <3> QED BY <3>1, <3>2, <3>3, <3>4 DEF Agree
  <2> QED BY <2>1, <2>3, <2>7
<1> QED BY <1>1, <1>2

LEMMA ScanFileAgrees ==
  ASSUME IndexAgrees, NEW c \in Convs
  PROVE  /\ Agree(ScanFile(Index, c).byKey, ScanFile(Index, c).byToolID)
         /\ DOMAIN ScanFile(Index, c).byToolID =
              IF disk[c] = "full" THEN DOMAIN byToolID \cup {c} ELSE DOMAIN byToolID
<1>1. Index.byKey = byKey /\ Index.byToolID = byToolID
  BY DEF Index
<1> QED BY <1>1, UpsertAgrees DEF ScanFile, IndexAgrees

LEMMA RemoveByPathAgrees ==
  ASSUME IndexAgrees, NEW c \in Convs
  PROVE  /\ Agree(RemoveByPath(Index, c).byKey, RemoveByPath(Index, c).byToolID)
         /\ DOMAIN RemoveByPath(Index, c).byToolID = DOMAIN byToolID \ {c}
<1> DEFINE K == Drop(byKey, {k \in DOMAIN byKey : byKey[k] = c})
           gone == {c} \cap {byKey[k] : k \in DOMAIN byKey}
           T == Drop(byToolID, gone)
<1>1. RemoveByPath(Index, c).byKey = K /\ RemoveByPath(Index, c).byToolID = T
  BY DEF RemoveByPath, Index
<1>2. DOMAIN K = {k \in DOMAIN byKey : byKey[k] # c} /\ \A k \in DOMAIN K : K[k] = byKey[k]
  BY DEF Drop
<1>3. DOMAIN T = DOMAIN byToolID \ gone /\ \A d \in DOMAIN T : T[d] = byToolID[d]
  BY DEF Drop
<1>4. c \in DOMAIN byToolID => c \in gone
  <2>1. c \in DOMAIN byToolID => <<KindOf[c], byToolID[c]>> \in DOMAIN byKey
                                 /\ byKey[<<KindOf[c], byToolID[c]>>] = c
    BY DEF IndexAgrees, Agree
  <2> QED BY <2>1
<1>5. DOMAIN T = DOMAIN byToolID \ {c}
  BY <1>3, <1>4
<1> HIDE DEF K, T, gone
<1>6. Agree(K, T)
  <2>1. DOMAIN T \subseteq Convs /\ \A d \in DOMAIN T : T[d] \in Slugs \ {NoSlug}
    BY <1>3, <1>5 DEF IndexAgrees, Agree
  <2>2. \A d \in DOMAIN T : byKey[<<KindOf[d], byToolID[d]>>] = d
                            /\ <<KindOf[d], byToolID[d]>> \in DOMAIN byKey
    BY <1>5 DEF IndexAgrees, Agree
  <2>3. \A d \in DOMAIN T : <<KindOf[d], T[d]>> \in DOMAIN K /\ K[<<KindOf[d], T[d]>>] = d
    BY <1>2, <1>3, <1>5, <2>2
  <2>4. \A x \in DOMAIN K : K[x] \in DOMAIN T /\ x = <<KindOf[K[x]], T[K[x]]>>
    BY <1>2, <1>3, <1>5 DEF IndexAgrees, Agree
  <2> QED BY <2>1, <2>3, <2>4 DEF Agree
<1> QED BY <1>1, <1>5, <1>6

-----------------------------------------------------------------------------
(* The index and the files.  Once the monitor has the index, each file     *)
(* that is not excepted is as the index has it, but for events and         *)
(* catch-ups that are still to come and will set it right; before, it is   *)
(* as the scan read it, and removals that are told of were undone only     *)
(* where another event tells so.                                           *)

FsEvents == ({"write", "remove"} \X Convs) \cup ({"dir"} \X Dirs)

IndexTypes ==
  /\ toScan \in Seq(Convs)
  /\ disk \in [Convs -> {"absent", "header", "full"}]
  /\ todo \subseteq Convs
  /\ wired \in BOOLEAN /\ roots \in BOOLEAN
  /\ fsq \in Seq(FsEvents)

FilesHaveDirs == \A c \in Convs : disk[c] # "absent" => DirOf[c] \in dirs

Announced(c, i) ==
  \E j \in DOMAIN fsq : j > i /\ fsq[j] \in {<<"write", c>>, <<"dir", DirOf[c]>>}

DirWatched(c, i) ==
  \/ DirOf[c] \in kernel \/ DirOf[c] \notin dirs
  \/ \E j \in DOMAIN fsq : j > i /\ fsq[j] = <<"dir", DirOf[c]>>

RemovalTold(c) ==
  \A i \in DOMAIN fsq :
    fsq[i] = <<"remove", c>> => (disk[c] # "absent" => Announced(c, i)) /\ DirWatched(c, i)

BeforeWired ==
  ~wired =>
    /\ todo = {}
    /\ ~roots => fsq = <<>> /\ kernel = {}
    /\ IsInjective(toScan) /\ \A i \in DOMAIN toScan : toScan[i] \notin DOMAIN byToolID
    /\ \A c \in Convs \ unseen : c \in DOMAIN byToolID <=> disk[c] = "full"
    /\ \A c \in Convs : RemovalTold(c)

NotRemoved(c) == \A i \in DOMAIN fsq : fsq[i] # <<"remove", c>>

ToBeRead(c) ==
  \E i \in DOMAIN fsq :
    /\ fsq[i] \in {<<"write", c>>, <<"dir", DirOf[c]>>}
    /\ \A j \in DOMAIN fsq : j > i => fsq[j] # <<"remove", c>>

Followed(c) ==
  IF disk[c] = "full" THEN (c \in DOMAIN byToolID \cup todo /\ NotRemoved(c)) \/ ToBeRead(c)
  ELSE c \notin DOMAIN byToolID \/ ~NotRemoved(c)

OnceWired == wired => toScan = <<>> /\ \A c \in Convs \ unseen : Followed(c)

Phases ==
  /\ phase \in {"start", "watching", "filled", "up"}
  /\ wired <=> phase # "start"
  /\ phase # "up" => DOMAIN leaving = {}

IndexInv == IndexTypes /\ IndexAgrees /\ FilesHaveDirs /\ BeforeWired /\ OnceWired /\ Phases

LEMMA Appended ==
  ASSUME NEW S, NEW q \in Seq(S), NEW e \in S
  PROVE  /\ Append(q, e) \in Seq(S)
         /\ DOMAIN Append(q, e) = DOMAIN q \cup {Len(q) + 1}
         /\ \A i \in DOMAIN q : Append(q, e)[i] = q[i] /\ i < Len(q) + 1
         /\ Append(q, e)[Len(q) + 1] = e
         /\ DOMAIN Append(q, e) \subseteq Nat
OBVIOUS

LEMMA Taken ==
  ASSUME NEW S, NEW q \in Seq(S), q # <<>>
  PROVE  /\ 1 \in DOMAIN q /\ Head(q) = q[1] /\ Head(q) \in S
         /\ Tail(q) \in Seq(S)
         /\ DOMAIN q \subseteq Nat \ {0}
         /\ \A i \in DOMAIN Tail(q) : i + 1 \in DOMAIN q /\ Tail(q)[i] = q[i + 1]
         /\ \A i \in DOMAIN q : i # 1 => i - 1 \in DOMAIN Tail(q) /\ Tail(q)[i - 1] = q[i]
OBVIOUS

(* What is told of later does not undo what is known.                      *)
LEMMA FollowedAppend ==
  ASSUME IndexTypes, NEW c \in Convs, Followed(c), NEW e \in FsEvents,
         fsq' = Append(fsq, e), e # <<"remove", c>>,
         c \in DOMAIN byToolID <=> c \in DOMAIN byToolID', c \in todo => c \in todo',
         disk'[c] = disk[c]
  PROVE  Followed(c)'
<1>1. /\ DOMAIN fsq' = DOMAIN fsq \cup {Len(fsq) + 1}
      /\ \A i \in DOMAIN fsq : fsq'[i] = fsq[i] /\ i < Len(fsq) + 1
      /\ fsq'[Len(fsq) + 1] = e
  BY Appended DEF IndexTypes
<1>2. NotRemoved(c) <=> NotRemoved(c)'
  BY <1>1 DEF NotRemoved
<1>3. ToBeRead(c) => ToBeRead(c)'
  BY <1>1 DEF ToBeRead
<1> QED BY <1>2, <1>3 DEF Followed

LEMMA RemovalAppend ==
  ASSUME IndexTypes, NEW c \in Convs, RemovalTold(c), NEW e \in FsEvents,
         fsq' = Append(fsq, e), e # <<"remove", c>>,
         kernel \subseteq kernel',
         \/ DirOf[c] \notin dirs' \/ DirOf[c] \in dirs \/ e = <<"dir", DirOf[c]>>,
         disk'[c] = "absent" \/ disk[c] # "absent" \/ e = <<"write", c>>
  PROVE  RemovalTold(c)'
<1>1. /\ DOMAIN fsq' = DOMAIN fsq \cup {Len(fsq) + 1}
      /\ \A i \in DOMAIN fsq : fsq'[i] = fsq[i] /\ i < Len(fsq) + 1
      /\ fsq'[Len(fsq) + 1] = e
  BY Appended DEF IndexTypes
<1>2. SUFFICES ASSUME NEW i \in DOMAIN fsq, fsq[i] = <<"remove", c>>
               PROVE  (disk'[c] # "absent" => Announced(c, i)') /\ DirWatched(c, i)'
  BY <1>1 DEF RemovalTold
<1>3. (disk[c] # "absent" => Announced(c, i)) /\ DirWatched(c, i)
  BY <1>2 DEF RemovalTold
<1>4. Announced(c, i) => Announced(c, i)'
  BY <1>1 DEF Announced
<1>5. e = <<"write", c>> => Announced(c, i)'
  BY <1>1 DEF Announced
<1>6. DirWatched(c, i)'
  BY <1>1, <1>3 DEF DirWatched
<1> QED BY <1>3, <1>4, <1>5, <1>6

(* The steps of the file system.                                           *)
LEMMA WriteKeepsIndex ==
  ASSUME IndexInv, NEW d \in Convs, WriteFile(d), UNCHANGED <<phase, leaving>>
  PROVE  IndexInv'
<1> USE DEF IndexInv
<1>1. PICK held \in {"header", "full"} :
        (disk[d] = "full" => held = "full") /\ Change(d, held, "write")
  BY DEF WriteFile
<1>2. disk' = [disk EXCEPT ![d] = held] /\ DirOf[d] \in dirs
  BY <1>1 DEF WriteFile, Change
<1>3. UNCHANGED <<byKey, byToolID, toScan, dirs, kernel, watched, roots, wired, users, todo>>
  BY <1>1 DEF Change, indexVars, watchVars
<1>4. disk'[d] = held /\ \A c \in Convs : c # d => disk'[c] = disk[c]
  BY <1>2 DEF IndexTypes
<1>5. <<"write", d>> \in FsEvents /\ \A c \in Convs : <<"write", d>> # <<"remove", c>>
  BY DEF FsEvents
<1>6. IndexAgrees' /\ FilesHaveDirs' /\ Phases'
  BY <1>2, <1>3, <1>4 DEF IndexAgrees, FilesHaveDirs, Phases
<1>7. CASE DirOf[d] \in kernel
  <2>1. fsq' = Append(fsq, <<"write", d>>) /\ unseen' = IF wired THEN unseen ELSE unseen \cup {d}
    BY <1>1, <1>7, Zenon DEF Change, Tell
  <2>2. IndexTypes'
    BY <1>2, <1>3, <1>5, <2>1, Appended DEF IndexTypes
  <2>3. BeforeWired'
    <3>1. \A c \in Convs : RemovalTold(c) => RemovalTold(c)'
      BY <1>3, <1>4, <1>5, <2>1, RemovalAppend
    <3> QED BY <1>3, <1>4, <1>7, <2>1, <3>1 DEF BeforeWired
  <2>4. ASSUME wired, NEW c \in Convs \ unseen, c # d PROVE Followed(c)'
    BY <1>3, <1>4, <1>5, <2>1, <2>4, FollowedAppend DEF OnceWired
  <2>5. ASSUME wired, d \notin unseen PROVE Followed(d)'
    <3>1. /\ DOMAIN fsq' = DOMAIN fsq \cup {Len(fsq) + 1}
          /\ \A i \in DOMAIN fsq : fsq'[i] = fsq[i] /\ i < Len(fsq) + 1
          /\ fsq'[Len(fsq) + 1] = <<"write", d>>
          /\ DOMAIN fsq' \subseteq Nat /\ Len(fsq) \in Nat
      BY <1>5, <2>1, Appended DEF IndexTypes
    <3>2. CASE held = "full"
      <4>1. \A j \in DOMAIN fsq' : ~(j > Len(fsq) + 1)
        BY <3>1
      <4>2. ToBeRead(d)'
        BY <3>1, <4>1 DEF ToBeRead
      <4> QED BY <1>4, <3>2, <4>2 DEF Followed
    <3>3. CASE held = "header"
      <4>1. disk[d] # "full" /\ disk'[d] # "full"
        BY <1>1, <1>4, <3>3
      <4>2. d \notin DOMAIN byToolID \/ ~NotRemoved(d)
        BY <2>5, <4>1 DEF OnceWired, Followed
      <4>3. ~NotRemoved(d) => ~NotRemoved(d)'
        BY <3>1 DEF NotRemoved
      <4> QED BY <1>3, <4>1, <4>2, <4>3 DEF Followed
    <3> QED BY <3>2, <3>3
  <2>6. OnceWired'
    BY <1>3, <2>1, <2>4, <2>5 DEF OnceWired
  <2> QED BY <1>6, <2>2, <2>3, <2>6
<1>8. CASE DirOf[d] \notin kernel
  <2>1. /\ fsq' = fsq
        /\ \/ unseen' = unseen \cup {d}
           \/ /\ unseen' = unseen /\ wired
              /\ \E i \in DOMAIN fsq : fsq[i] = <<"dir", DirOf[d]>>
              /\ \A i \in DOMAIN fsq : fsq[i] # <<"remove", d>>
    BY <1>1, <1>8, Zenon DEF Change
  <2>2. IndexTypes'
    BY <1>2, <1>3, <2>1 DEF IndexTypes
  <2>3. BeforeWired'
    <3>1. \A c \in Convs \ {d} : RemovalTold(c) => RemovalTold(c)'
      BY <1>3, <1>4, <2>1 DEF RemovalTold, Announced, DirWatched
    <3>2. RemovalTold(d) => RemovalTold(d)'
      BY <1>2, <1>3, <1>8, <2>1 DEF RemovalTold, Announced, DirWatched
    <3> QED BY <1>3, <1>4, <2>1, <3>1, <3>2 DEF BeforeWired
  <2>4. ASSUME wired, NEW c \in Convs \ unseen, c # d PROVE Followed(c)'
    BY <1>3, <1>4, <2>1, <2>4 DEF OnceWired, Followed, NotRemoved, ToBeRead
  <2>5. ASSUME wired, d \notin unseen' PROVE Followed(d)'
    <3>1. d \notin unseen /\ NotRemoved(d) /\ ToBeRead(d)
      BY <2>1, <2>5 DEF NotRemoved, ToBeRead
    <3>2. NotRemoved(d)' /\ ToBeRead(d)'
      BY <2>1, <3>1 DEF NotRemoved, ToBeRead
    <3>3. disk[d] # "full" => d \notin DOMAIN byToolID
      BY <2>5, <3>1 DEF OnceWired, Followed
    <3> QED BY <1>1, <1>3, <1>4, <3>2, <3>3 DEF Followed
  <2>6. OnceWired'
    BY <1>3, <2>1, <2>4, <2>5 DEF OnceWired
  <2> QED BY <1>6, <2>2, <2>3, <2>6
<1> QED BY <1>7, <1>8

LEMMA RemoveKeepsIndex ==
  ASSUME IndexInv, NEW d \in Convs, RemoveFile(d), UNCHANGED <<phase, leaving>>
  PROVE  IndexInv'
<1> USE DEF IndexInv
<1>1. Change(d, "absent", "remove")
  BY DEF RemoveFile
<1>2. disk' = [disk EXCEPT ![d] = "absent"]
  BY <1>1 DEF Change
<1>3. UNCHANGED <<byKey, byToolID, toScan, dirs, kernel, watched, roots, wired, users, todo>>
  BY <1>1 DEF Change, indexVars, watchVars
<1>4. disk'[d] = "absent" /\ \A c \in Convs : c # d => disk'[c] = disk[c]
  BY <1>2 DEF IndexTypes
<1>5. <<"remove", d>> \in FsEvents /\ \A c \in Convs : c # d => <<"remove", d>> # <<"remove", c>>
  BY DEF FsEvents
<1>6. IndexAgrees' /\ FilesHaveDirs' /\ Phases'
  BY <1>2, <1>3, <1>4 DEF IndexAgrees, FilesHaveDirs, Phases
<1>7. CASE DirOf[d] \in kernel
  <2>1. fsq' = Append(fsq, <<"remove", d>>) /\ unseen' = IF wired THEN unseen ELSE unseen \cup {d}
    BY <1>1, <1>7, Zenon DEF Change, Tell
  <2>2. IndexTypes'
    BY <1>2, <1>3, <1>5, <2>1, Appended DEF IndexTypes
  <2>3. BeforeWired'
    <3>1. \A c \in Convs \ {d} : RemovalTold(c) => RemovalTold(c)'
      BY <1>3, <1>4, <1>5, <2>1, RemovalAppend
    <3>2. RemovalTold(d)'
      BY <1>3, <1>4, <1>7 DEF RemovalTold, DirWatched
    <3> QED BY <1>3, <1>4, <1>7, <2>1, <3>1, <3>2 DEF BeforeWired
  <2>4. ASSUME wired, NEW c \in Convs \ unseen, c # d PROVE Followed(c)'
    BY <1>3, <1>4, <1>5, <2>1, <2>4, FollowedAppend DEF OnceWired
  <2>5. Followed(d)'
    <3>1. Len(fsq) + 1 \in DOMAIN fsq' /\ fsq'[Len(fsq) + 1] = <<"remove", d>>
      BY <1>5, <2>1, Appended DEF IndexTypes
    <3> QED BY <1>4, <3>1 DEF Followed, NotRemoved
  <2>6. OnceWired'
    BY <1>3, <2>1, <2>4, <2>5 DEF OnceWired
  <2> QED BY <1>6, <2>2, <2>3, <2>6
<1>8. CASE DirOf[d] \notin kernel
  <2>1. fsq' = fsq /\ unseen' = unseen \cup {d}
    BY <1>1, <1>8, Zenon DEF Change
  <2>2. IndexTypes'
    BY <1>2, <1>3, <2>1 DEF IndexTypes
  <2>3. BeforeWired'
    <3>1. \A c \in Convs : RemovalTold(c) => RemovalTold(c)'
      BY <1>3, <1>4, <2>1 DEF RemovalTold, Announced, DirWatched
    <3> QED BY <1>3, <1>4, <2>1, <3>1 DEF BeforeWired
  <2>4. ASSUME wired, NEW c \in Convs \ unseen, c # d PROVE Followed(c)'
    BY <1>3, <1>4, <2>1, <2>4 DEF OnceWired, Followed, NotRemoved, ToBeRead
  <2>5. OnceWired'
    BY <1>3, <2>1, <2>4 DEF OnceWired
  <2> QED BY <1>6, <2>2, <2>3, <2>5
<1> QED BY <1>7, <1>8

LEMMA MakeDirKeepsIndex ==
  ASSUME IndexInv, NEW d \in Dirs, MakeDir(d), UNCHANGED <<phase, leaving>>
  PROVE  IndexInv'
<1> USE DEF IndexInv
<1>1. UNCHANGED <<byKey, byToolID, toScan, disk, kernel, watched, roots, wired, users, todo, unseen>>
      /\ dirs' = dirs \cup {d}
  BY DEF MakeDir, indexVars, watchVars
<1>2. <<"dir", d>> \in FsEvents /\ \A c \in Convs : <<"dir", d>> # <<"remove", c>>
  BY DEF FsEvents
<1>3. IndexAgrees' /\ FilesHaveDirs' /\ Phases'
  BY <1>1 DEF IndexAgrees, FilesHaveDirs, Phases
<1>4. CASE roots
  <2>1. fsq' = Append(fsq, <<"dir", d>>)
    BY <1>4 DEF MakeDir, Tell
  <2>2. IndexTypes'
    BY <1>1, <1>2, <2>1, Appended DEF IndexTypes
  <2>3. \A c \in Convs : RemovalTold(c) => RemovalTold(c)'
    BY <1>1, <1>2, <2>1, RemovalAppend
  <2>4. BeforeWired'
    BY <1>1, <1>4, <2>3 DEF BeforeWired
  <2>5. \A c \in Convs : Followed(c) => Followed(c)'
    BY <1>1, <1>2, <2>1, FollowedAppend
  <2>6. OnceWired'
    BY <1>1, <2>5 DEF OnceWired
  <2> QED BY <1>3, <2>2, <2>4, <2>6
<1>5. CASE ~roots
  <2>1. fsq' = fsq
    BY <1>5 DEF MakeDir
  <2>2. IndexTypes'
    BY <1>1, <2>1 DEF IndexTypes
  <2>3. BeforeWired'
    BY <1>1, <1>5, <2>1 DEF BeforeWired, RemovalTold
  <2>4. OnceWired'
    BY <1>1, <2>1 DEF OnceWired, Followed, NotRemoved, ToBeRead
  <2> QED BY <1>3, <2>2, <2>3, <2>4
<1> QED BY <1>4, <1>5

LEMMA RemoveDirKeepsIndex ==
  ASSUME IndexInv, NEW d \in Dirs, RemoveDir(d), UNCHANGED <<phase, leaving>>
  PROVE  IndexInv'
<1> USE DEF IndexInv
<1>1. UNCHANGED <<byKey, byToolID, toScan, disk, watched, roots, wired, users, fsq, todo, unseen>>
      /\ dirs' = dirs \ {d} /\ kernel' = kernel \ {d}
      /\ \A c \in Convs : DirOf[c] = d => disk[c] = "absent"
  BY DEF RemoveDir, indexVars
<1>2. IndexTypes' /\ IndexAgrees' /\ FilesHaveDirs' /\ Phases'
  BY <1>1 DEF IndexTypes, IndexAgrees, FilesHaveDirs, Phases
<1>3. \A c \in Convs : RemovalTold(c) => RemovalTold(c)'
  BY <1>1 DEF RemovalTold, Announced, DirWatched
<1>4. BeforeWired'
  BY <1>1, <1>3 DEF BeforeWired
<1>5. OnceWired'
  BY <1>1 DEF OnceWired, Followed, NotRemoved, ToBeRead
<1> QED BY <1>2, <1>4, <1>5

(* The steps of the monitor.                                               *)
LEMMA NewDirKeepsIndex ==
  ASSUME IndexInv, HandleNewDir, UNCHANGED <<phase, leaving>>
  PROVE  IndexInv'
<1> USE DEF IndexInv
<1> DEFINE d == Head(fsq)[2]
<1>1. fsq # <<>> /\ Head(fsq)[1] = "dir" /\ fsq' = Tail(fsq) /\ todo = {}
  BY DEF HandleNewDir, Taking
<1>2. /\ UNCHANGED <<byKey, byToolID, toScan, disk, dirs, roots, wired, users, unseen>>
      /\ kernel \subseteq kernel'
  BY DEF HandleNewDir, AddWatch, indexVars
<1>3. \/ d \in dirs /\ todo' = {c \in Convs : wired /\ DirOf[c] = d /\ disk[c] # "absent"}
      \/ d \notin dirs /\ todo' = todo
  BY DEF HandleNewDir
<1>4. /\ 1 \in DOMAIN fsq /\ Head(fsq) = fsq[1]
      /\ fsq' \in Seq(FsEvents)
      /\ DOMAIN fsq \subseteq Nat \ {0}
      /\ \A i \in DOMAIN fsq' : i + 1 \in DOMAIN fsq /\ fsq'[i] = fsq[i + 1]
      /\ \A i \in DOMAIN fsq : i # 1 => i - 1 \in DOMAIN fsq' /\ fsq'[i - 1] = fsq[i]
  BY <1>1, Taken DEF IndexTypes
<1>5. DOMAIN fsq' \subseteq Nat \ {0}
  BY <1>4
<1>6. IndexTypes' /\ IndexAgrees' /\ FilesHaveDirs' /\ Phases'
  BY <1>1, <1>2, <1>3, <1>4 DEF IndexTypes, IndexAgrees, FilesHaveDirs, Phases
<1>7. ASSUME NEW c \in Convs, RemovalTold(c) PROVE RemovalTold(c)'
  <2>1. SUFFICES ASSUME NEW i \in DOMAIN fsq', fsq'[i] = <<"remove", c>>
                 PROVE  (disk'[c] # "absent" => Announced(c, i)') /\ DirWatched(c, i)'
    BY DEF RemovalTold
  <2>2. i + 1 \in DOMAIN fsq /\ fsq[i + 1] = <<"remove", c>>
    BY <1>4, <2>1
  <2>3. (disk[c] # "absent" => Announced(c, i + 1)) /\ DirWatched(c, i + 1)
    BY <1>7, <2>2 DEF RemovalTold
  <2>4. \A j \in DOMAIN fsq : j > i + 1 => j - 1 \in DOMAIN fsq' /\ j - 1 > i /\ fsq'[j - 1] = fsq[j]
    BY <1>4, <1>5
  <2>5. Announced(c, i + 1) => Announced(c, i)'
    BY <2>4 DEF Announced
  <2>6. DirWatched(c, i + 1) => DirWatched(c, i)'
    BY <1>2, <2>4 DEF DirWatched
  <2> QED BY <1>2, <2>3, <2>5, <2>6
<1>8. BeforeWired'
  BY <1>1, <1>2, <1>3, <1>7 DEF BeforeWired
<1>9. ASSUME wired, NEW c \in Convs, Followed(c) PROVE Followed(c)'
  <2>1. NotRemoved(c) => NotRemoved(c)'
    BY <1>4 DEF NotRemoved
  <2>2. ~NotRemoved(c) => ~NotRemoved(c)'
    <3>1. fsq[1] # <<"remove", c>>
      <4>1. fsq[1][1] = "dir" /\ <<"remove", c>>[1] = "remove"
        BY <1>1, <1>4
      <4> QED BY <4>1
    <3> QED BY <1>4, <3>1 DEF NotRemoved
  <2>3. CASE disk[c] # "full"
    BY <1>2, <1>9, <2>2, <2>3 DEF Followed
  <2>4. CASE disk[c] = "full"
    <3>1. CASE c \in DOMAIN byToolID \cup todo /\ NotRemoved(c)
      BY <1>1, <1>2, <2>1, <2>4, <3>1 DEF Followed
    <3>2. CASE ToBeRead(c)
      <4>1. PICK i \in DOMAIN fsq : /\ fsq[i] \in {<<"write", c>>, <<"dir", DirOf[c]>>}
                                    /\ \A j \in DOMAIN fsq : j > i => fsq[j] # <<"remove", c>>
        BY <3>2 DEF ToBeRead
      <4>2. CASE i = 1
        <5>1. d = DirOf[c]
          BY <1>1, <1>4, <4>1, <4>2
        <5>2. d \in dirs
          BY <2>4, <5>1 DEF FilesHaveDirs
        <5>3. c \in todo'
          BY <1>3, <1>9, <2>4, <5>1, <5>2
        <5>4. NotRemoved(c)'
          <6>1. \A j \in DOMAIN fsq' : j + 1 > 1
            BY <1>5
          <6> QED BY <1>4, <4>1, <4>2, <6>1 DEF NotRemoved
        <5> QED BY <1>2, <2>4, <5>3, <5>4 DEF Followed
      <4>3. CASE i # 1
        <5>1. i - 1 \in DOMAIN fsq' /\ fsq'[i - 1] = fsq[i]
          BY <1>4, <4>3
        <5>2. \A j \in DOMAIN fsq' : j > i - 1 => j + 1 > i
          BY <1>4, <1>5
        <5>3. ToBeRead(c)'
          BY <1>4, <4>1, <5>1, <5>2 DEF ToBeRead
        <5> QED BY <1>2, <2>4, <5>3 DEF Followed
      <4> QED BY <4>2, <4>3
    <3> QED BY <1>9, <2>4, <3>1, <3>2 DEF Followed
  <2> QED BY <2>3, <2>4
<1>10. OnceWired'
  BY <1>2, <1>9 DEF OnceWired
<1> QED BY <1>6, <1>8, <1>10

LEMMA CatchUpKeepsIndex ==
  ASSUME IndexInv, CatchUp, UNCHANGED <<phase, leaving>>
  PROVE  IndexInv'
<1> USE DEF IndexInv
<1>1. PICK c0 \in todo : SetIndex(ScanFile(Index, c0)) /\ Read(c0, "full") /\ todo' = todo \ {c0}
  BY DEF CatchUp
<1>2. UNCHANGED <<toScan, disk, dirs, kernel, watched, roots, wired, users, fsq>>
  BY DEF CatchUp, watchVars
<1>3. c0 \in Convs /\ wired
  BY <1>1 DEF IndexTypes, BeforeWired
<1>4. /\ IndexAgrees'
      /\ DOMAIN byToolID' = IF disk[c0] = "full" THEN DOMAIN byToolID \cup {c0} ELSE DOMAIN byToolID
  BY <1>1, <1>3, ScanFileAgrees DEF SetIndex, IndexAgrees
<1>5. IndexTypes' /\ FilesHaveDirs' /\ Phases' /\ BeforeWired'
  BY <1>1, <1>2, <1>3 DEF IndexTypes, FilesHaveDirs, Phases, BeforeWired
<1>6. \A c \in Convs : NotRemoved(c)' = NotRemoved(c) /\ ToBeRead(c)' = ToBeRead(c)
  BY <1>2 DEF NotRemoved, ToBeRead
<1>7. \A c \in Convs : Followed(c) => Followed(c)'
  BY <1>1, <1>2, <1>4, <1>6 DEF Followed
<1>8. ASSUME NEW c \in Convs \ unseen', c \in unseen PROVE Followed(c)'
  <2>1. c = c0 /\ disk[c0] = "full" /\ \A i \in DOMAIN fsq' : fsq'[i][2] # c0
    BY <1>1, <1>8 DEF Read
  <2>2. NotRemoved(c)'
    <3>1. <<"remove", c>>[2] = c
      OBVIOUS
    <3> QED BY <2>1, <3>1 DEF NotRemoved
  <2> QED BY <1>2, <1>4, <2>1, <2>2 DEF Followed
<1>9. OnceWired'
  BY <1>2, <1>3, <1>7, <1>8 DEF OnceWired
<1> QED BY <1>4, <1>5, <1>9

(* What is the same for the events about a file.                           *)
LEMMA TakenKeepsIndex ==
  ASSUME IndexInv, fsq # <<>>, fsq' = Tail(fsq), todo = {},
         NEW c0 \in Convs, Head(fsq) \in {<<"write", c0>>, <<"remove", c0>>},
         UNCHANGED <<toScan, disk, dirs, watchVars, todo, phase, leaving>>,
         IndexAgrees', ~wired => DOMAIN byToolID' = DOMAIN byToolID /\ unseen' = unseen
  PROVE  /\ IndexTypes' /\ FilesHaveDirs' /\ Phases' /\ BeforeWired'
         /\ \A c \in Convs : NotRemoved(c) => NotRemoved(c)'
         /\ \A c \in Convs : Head(fsq) # <<"remove", c>> => (~NotRemoved(c) => ~NotRemoved(c)')
         /\ \A c \in Convs : ToBeRead(c) =>
              ToBeRead(c)' \/ (Head(fsq) = <<"write", c>> /\ NotRemoved(c)')
<1> USE DEF IndexInv
<1>1. UNCHANGED <<kernel, watched, roots, wired, users>>
  BY DEF watchVars
<1>4. /\ 1 \in DOMAIN fsq /\ Head(fsq) = fsq[1]
      /\ fsq' \in Seq(FsEvents)
      /\ DOMAIN fsq \subseteq Nat \ {0}
      /\ \A i \in DOMAIN fsq' : i + 1 \in DOMAIN fsq /\ fsq'[i] = fsq[i + 1]
      /\ \A i \in DOMAIN fsq : i # 1 => i - 1 \in DOMAIN fsq' /\ fsq'[i - 1] = fsq[i]
  BY Taken DEF IndexTypes
<1>5. DOMAIN fsq' \subseteq Nat \ {0}
  BY <1>4
<1>6. IndexTypes' /\ FilesHaveDirs' /\ Phases'
  BY <1>1, <1>4 DEF IndexTypes, FilesHaveDirs, Phases
<1>7. ASSUME NEW c \in Convs, RemovalTold(c) PROVE RemovalTold(c)'
  <2>1. SUFFICES ASSUME NEW i \in DOMAIN fsq', fsq'[i] = <<"remove", c>>
                 PROVE  (disk'[c] # "absent" => Announced(c, i)') /\ DirWatched(c, i)'
    BY DEF RemovalTold
  <2>2. i + 1 \in DOMAIN fsq /\ fsq[i + 1] = <<"remove", c>>
    BY <1>4, <2>1
  <2>3. (disk[c] # "absent" => Announced(c, i + 1)) /\ DirWatched(c, i + 1)
    BY <1>7, <2>2 DEF RemovalTold
  <2>4. \A j \in DOMAIN fsq : j > i + 1 => j - 1 \in DOMAIN fsq' /\ j - 1 > i /\ fsq'[j - 1] = fsq[j]
    BY <1>4, <1>5
  <2>5. Announced(c, i + 1) => Announced(c, i)'
    BY <2>4 DEF Announced
  <2>6. DirWatched(c, i + 1) => DirWatched(c, i)'
    BY <1>1, <2>4 DEF DirWatched
  <2> QED BY <2>3, <2>5, <2>6
<1>8. BeforeWired'
  <2>1. SUFFICES ASSUME ~wired PROVE BeforeWired'
    BY <1>1 DEF BeforeWired
  <2>2. roots
    BY <2>1 DEF BeforeWired
  <2> QED BY <1>1, <1>7, <2>1, <2>2 DEF BeforeWired
<1>9. \A c \in Convs : NotRemoved(c) => NotRemoved(c)'
  BY <1>4 DEF NotRemoved
<1>10. \A c \in Convs : Head(fsq) # <<"remove", c>> => (~NotRemoved(c) => ~NotRemoved(c)')
  BY <1>4 DEF NotRemoved
<1>11. ASSUME NEW c \in Convs, ToBeRead(c)
       PROVE  ToBeRead(c)' \/ (Head(fsq) = <<"write", c>> /\ NotRemoved(c)')
  <2>1. PICK i \in DOMAIN fsq : /\ fsq[i] \in {<<"write", c>>, <<"dir", DirOf[c]>>}
                                /\ \A j \in DOMAIN fsq : j > i => fsq[j] # <<"remove", c>>
    BY <1>11 DEF ToBeRead
  <2>2. CASE i = 1
    <3>1. Head(fsq) = <<"write", c>>
      BY <1>4, <2>1, <2>2
    <3>2. \A j \in DOMAIN fsq' : j + 1 > 1
      BY <1>5
    <3>3. NotRemoved(c)'
      BY <1>4, <2>1, <2>2, <3>2 DEF NotRemoved
    <3> QED BY <3>1, <3>3
  <2>3. CASE i # 1
    <3>1. i - 1 \in DOMAIN fsq' /\ fsq'[i - 1] = fsq[i]
      BY <1>4, <2>3
    <3>2. \A j \in DOMAIN fsq' : j > i - 1 => j + 1 > i
      BY <1>4, <1>5
    <3>3. fsq'[i - 1] \in {<<"write", c>>, <<"dir", DirOf[c]>>}
      BY <2>1, <3>1
    <3>4. \A j \in DOMAIN fsq' : j > i - 1 => fsq'[j] # <<"remove", c>>
      BY <1>4, <2>1, <3>2
    <3>5. ToBeRead(c)'
      BY <3>1, <3>3, <3>4 DEF ToBeRead
    <3> QED BY <3>5
  <2> QED BY <2>2, <2>3
<1> QED BY <1>6, <1>8, <1>9, <1>10, <1>11

LEMMA HandleWriteKeepsIndex ==
  ASSUME IndexInv, HandleWrite, UNCHANGED <<phase, leaving>>
  PROVE  IndexInv'
<1> USE DEF IndexInv
<1> DEFINE c0 == Head(fsq)[2]
<1>1. fsq # <<>> /\ Head(fsq)[1] = "write" /\ fsq' = Tail(fsq) /\ todo = {}
  BY DEF HandleWrite, Taking
<1>2. UNCHANGED <<toScan, disk, dirs, watchVars, todo>>
  BY DEF HandleWrite
<1>3. c0 \in Convs /\ Head(fsq) = <<"write", c0>>
  <2>1. Head(fsq) \in FsEvents
    BY <1>1, Taken DEF IndexTypes
  <2> QED BY <1>1, <2>1 DEF FsEvents
<1>4. /\ IndexAgrees'
      /\ wired => DOMAIN byToolID' = IF disk[c0] = "full" THEN DOMAIN byToolID \cup {c0}
                                     ELSE DOMAIN byToolID
      /\ ~wired => DOMAIN byToolID' = DOMAIN byToolID /\ unseen' = unseen
  <2>1. CASE wired
    <3>1. SetIndex(ScanFile(Index, c0))
      BY <2>1 DEF HandleWrite
    <3> QED BY <1>3, <2>1, <3>1, ScanFileAgrees DEF SetIndex, IndexAgrees
  <2>2. CASE ~wired
    BY <2>2 DEF HandleWrite, IndexAgrees
  <2> QED BY <2>1, <2>2 DEF IndexTypes
<1> HIDE DEF c0
<1>5. /\ IndexTypes' /\ FilesHaveDirs' /\ Phases' /\ BeforeWired'
      /\ \A c \in Convs : NotRemoved(c) => NotRemoved(c)'
      /\ \A c \in Convs : Head(fsq) # <<"remove", c>> => (~NotRemoved(c) => ~NotRemoved(c)')
      /\ \A c \in Convs : ToBeRead(c) =>
           ToBeRead(c)' \/ (Head(fsq) = <<"write", c>> /\ NotRemoved(c)')
  BY <1>1, <1>2, <1>3, <1>4, TakenKeepsIndex
<1>6. ASSUME wired, NEW c \in Convs, Followed(c) PROVE Followed(c)'
  <2>1. Head(fsq) # <<"remove", c>>
    BY <1>3
  <2>2. CASE disk[c] # "full"
    BY <1>2, <1>4, <1>5, <1>6, <2>1, <2>2 DEF Followed
  <2>3. CASE disk[c] = "full"
    <3>1. CASE c \in DOMAIN byToolID \cup todo /\ NotRemoved(c)
      BY <1>2, <1>4, <1>5, <1>6, <2>3, <3>1 DEF Followed
    <3>2. CASE ToBeRead(c)
      <4>1. CASE ToBeRead(c)'
        BY <1>2, <2>3, <4>1 DEF Followed
      <4>2. CASE Head(fsq) = <<"write", c>> /\ NotRemoved(c)'
        <5>1. c = c0
          BY <1>3, <4>2
        <5> QED BY <1>2, <1>4, <1>6, <2>3, <4>2, <5>1 DEF Followed
      <4> QED BY <1>5, <3>2, <4>1, <4>2
    <3> QED BY <1>6, <2>3, <3>1, <3>2 DEF Followed
  <2> QED BY <2>2, <2>3
<1>7. ASSUME wired, NEW c \in Convs \ unseen', c \in unseen PROVE Followed(c)'
  <2>1. c = c0 /\ disk[c0] = "full" /\ \A i \in DOMAIN fsq' : fsq'[i][2] # c0
    BY <1>7 DEF HandleWrite, Read, c0
  <2>2. NotRemoved(c)'
    <3>1. <<"remove", c>>[2] = c
      OBVIOUS
    <3> QED BY <2>1, <3>1 DEF NotRemoved
  <2> QED BY <1>2, <1>4, <1>7, <2>1, <2>2 DEF Followed
<1>8. OnceWired'
  BY <1>2, <1>6, <1>7 DEF OnceWired, watchVars
<1> QED BY <1>4, <1>5, <1>8

LEMMA HandleRemoveKeepsIndex ==
  ASSUME IndexInv, HandleRemove, UNCHANGED <<phase, leaving>>
  PROVE  IndexInv'
<1> USE DEF IndexInv
<1> DEFINE c0 == Head(fsq)[2]
<1>1. fsq # <<>> /\ Head(fsq)[1] = "remove" /\ fsq' = Tail(fsq) /\ todo = {}
  BY DEF HandleRemove, Taking
<1>2. UNCHANGED <<toScan, disk, dirs, watchVars, todo>>
  BY DEF HandleRemove
<1>3. c0 \in Convs /\ Head(fsq) = <<"remove", c0>>
  <2>1. Head(fsq) \in FsEvents
    BY <1>1, Taken DEF IndexTypes
  <2> QED BY <1>1, <2>1 DEF FsEvents
<1>4. /\ IndexAgrees'
      /\ wired => DOMAIN byToolID' = DOMAIN byToolID \ {c0}
      /\ ~wired => DOMAIN byToolID' = DOMAIN byToolID /\ unseen' = unseen
  <2>1. CASE wired
    <3>1. SetIndex(RemoveByPath(Index, c0))
      BY <2>1 DEF HandleRemove
    <3> QED BY <1>3, <2>1, <3>1, RemoveByPathAgrees DEF SetIndex, IndexAgrees
  <2>2. CASE ~wired
    BY <2>2 DEF HandleRemove, IndexAgrees
  <2> QED BY <2>1, <2>2 DEF IndexTypes
<1> HIDE DEF c0
<1>5. /\ IndexTypes' /\ FilesHaveDirs' /\ Phases' /\ BeforeWired'
      /\ \A c \in Convs : NotRemoved(c) => NotRemoved(c)'
      /\ \A c \in Convs : Head(fsq) # <<"remove", c>> => (~NotRemoved(c) => ~NotRemoved(c)')
      /\ \A c \in Convs : ToBeRead(c) =>
           ToBeRead(c)' \/ (Head(fsq) = <<"write", c>> /\ NotRemoved(c)')
  BY <1>1, <1>2, <1>3, <1>4, TakenKeepsIndex
<1>6. ASSUME wired, NEW c \in Convs, Followed(c) PROVE Followed(c)'
  <2>1. Head(fsq) # <<"write", c>> /\ (Head(fsq) = <<"remove", c>> => c = c0)
    BY <1>3
  <2>2. CASE disk[c] # "full"
    <3>1. CASE c = c0
      BY <1>2, <1>4, <1>6, <2>2, <3>1 DEF Followed
    <3>2. CASE c # c0
      BY <1>2, <1>4, <1>5, <1>6, <2>1, <2>2, <3>2 DEF Followed
    <3> QED BY <3>1, <3>2
  <2>3. CASE disk[c] = "full"
    <3>1. CASE ToBeRead(c)
      BY <1>2, <1>5, <2>1, <2>3, <3>1 DEF Followed
    <3>2. CASE c \in DOMAIN byToolID \cup todo /\ NotRemoved(c)
      <4>1. c # c0
        <5>1. 1 \in DOMAIN fsq /\ fsq[1] = Head(fsq)
          BY <1>1, Taken DEF IndexTypes
        <5> QED BY <1>3, <3>2, <5>1 DEF NotRemoved
      <4> QED BY <1>2, <1>4, <1>5, <1>6, <2>3, <3>2, <4>1 DEF Followed
    <3> QED BY <1>6, <2>3, <3>1, <3>2 DEF Followed
  <2> QED BY <2>2, <2>3
<1>7. ASSUME wired, NEW c \in Convs \ unseen', c \in unseen PROVE Followed(c)'
  <2>1. c = c0 /\ disk[c0] = "absent"
    BY <1>7 DEF HandleRemove, Read, c0
  <2> QED BY <1>2, <1>4, <1>7, <2>1 DEF Followed
<1>8. OnceWired'
  BY <1>2, <1>6, <1>7 DEF OnceWired, watchVars
<1> QED BY <1>4, <1>5, <1>8

(* The start and the stop of jumpd, and the sessions that come and go.     *)
LEMMA ScanKeepsIndex ==
  ASSUME IndexInv, Scan, UNCHANGED <<phase, leaving>>
  PROVE  IndexInv'
<1> USE DEF IndexInv
<1> DEFINE c0 == Head(toScan)
<1>1. toScan # <<>> /\ toScan' = Tail(toScan) /\ unseen' = unseen \ {c0}
      /\ SetIndex(ScanFile(Index, c0))
  BY DEF Scan
<1>2. UNCHANGED <<disk, dirs, kernel, watched, roots, wired, users, fsq, todo>>
  BY DEF Scan, watchVars
<1>3. ~wired
  BY <1>1 DEF OnceWired, IndexTypes
<1>4. /\ 1 \in DOMAIN toScan /\ c0 = toScan[1] /\ c0 \in Convs
      /\ toScan' \in Seq(Convs)
      /\ DOMAIN toScan \subseteq Nat \ {0}
      /\ \A i \in DOMAIN toScan' : i + 1 \in DOMAIN toScan /\ toScan'[i] = toScan[i + 1]
  BY <1>1, Taken DEF IndexTypes
<1>5. /\ IndexAgrees'
      /\ DOMAIN byToolID' = IF disk[c0] = "full" THEN DOMAIN byToolID \cup {c0} ELSE DOMAIN byToolID
  BY <1>1, <1>4, ScanFileAgrees DEF SetIndex, IndexAgrees
<1>6. IndexTypes' /\ FilesHaveDirs' /\ Phases'
  BY <1>2, <1>4 DEF IndexTypes, FilesHaveDirs, Phases
<1> HIDE DEF c0
<1>7. \A i, j \in DOMAIN toScan : toScan[i] = toScan[j] => i = j
  BY <1>3 DEF BeforeWired, IsInjective
<1>8. DOMAIN toScan' \subseteq Nat \ {0}
  <2>1. Len(toScan') \in Nat /\ DOMAIN toScan' = 1..Len(toScan')
    BY <1>4
  <2> QED BY <2>1
<1>9. IsInjective(toScan')
  <2>1. ASSUME NEW i \in DOMAIN toScan', NEW j \in DOMAIN toScan', toScan'[i] = toScan'[j]
        PROVE  i = j
    <3>1. i + 1 = j + 1
      BY <1>4, <1>7, <2>1
    <3> QED BY <1>8, <3>1
  <2> QED BY <2>1 DEF IsInjective
<1>10. \A i \in DOMAIN toScan' : toScan'[i] \notin DOMAIN byToolID'
  <2>1. ASSUME NEW i \in DOMAIN toScan' PROVE toScan'[i] \notin DOMAIN byToolID'
    <3>1. i + 1 # 1
      BY <1>8
    <3>2. toScan[i + 1] # c0
      BY <1>4, <1>7, <3>1
    <3> QED BY <1>3, <1>4, <1>5, <3>2 DEF BeforeWired
  <2> QED BY <2>1
<1>11. \A c \in Convs \ unseen' : c \in DOMAIN byToolID' <=> disk'[c] = "full"
  BY <1>1, <1>2, <1>3, <1>4, <1>5 DEF BeforeWired
<1>12. \A c \in Convs : RemovalTold(c) => RemovalTold(c)'
  BY <1>2 DEF RemovalTold, Announced, DirWatched
<1>13. BeforeWired'
  BY <1>2, <1>3, <1>9, <1>10, <1>11, <1>12 DEF BeforeWired
<1>14. OnceWired'
  BY <1>2, <1>3 DEF OnceWired
<1> QED BY <1>5, <1>6, <1>13, <1>14

LEMMA WatchRootsKeepsIndex ==
  ASSUME IndexInv, WatchRoots, phase = "start", toScan = <<>>, phase' = "watching",
         UNCHANGED leaving
  PROVE  IndexInv'
<1> USE DEF IndexInv
<1>1. /\ roots' = TRUE /\ wired' = TRUE
      /\ UNCHANGED <<byKey, byToolID, toScan, disk, dirs, kernel, watched, users, fsq, todo, unseen>>
  BY DEF WatchRoots, indexVars
<1>2. ~wired
  BY DEF Phases
<1>3. IndexTypes' /\ IndexAgrees' /\ FilesHaveDirs' /\ Phases' /\ BeforeWired'
  BY <1>1 DEF IndexTypes, IndexAgrees, FilesHaveDirs, Phases, BeforeWired
<1>4. ASSUME NEW c \in Convs \ unseen PROVE Followed(c)'
  <2>1. c \in DOMAIN byToolID <=> disk[c] = "full"
    BY <1>2 DEF BeforeWired
  <2>2. CASE disk[c] # "full" \/ NotRemoved(c)
    BY <1>1, <2>1, <2>2 DEF Followed, NotRemoved
  <2>3. CASE disk[c] = "full" /\ ~NotRemoved(c)
    <3> DEFINE R == {i \in DOMAIN fsq : fsq[i] = <<"remove", c>>}
    <3>1. Len(fsq) \in Nat /\ DOMAIN fsq = 1..Len(fsq)
      BY DEF IndexTypes
    <3>2. R \in SUBSET (0..Len(fsq)) /\ R # {}
      BY <2>3, <3>1 DEF NotRemoved
    <3>3. PICK i \in R : \A j \in R : j <= i
      <4> HIDE DEF R
      <4> QED BY <3>1, <3>2, GreatestOf
    <3>4. Announced(c, i)
      BY <1>2, <2>3, <3>3 DEF BeforeWired, RemovalTold
    <3>5. PICK j \in DOMAIN fsq : j > i /\ fsq[j] \in {<<"write", c>>, <<"dir", DirOf[c]>>}
      BY <3>4 DEF Announced
    <3>6. \A k \in DOMAIN fsq : k > j => fsq[k] # <<"remove", c>>
      <4>1. ASSUME NEW k \in DOMAIN fsq, k > j, fsq[k] = <<"remove", c>> PROVE FALSE
        <5>1. k \in R /\ k <= i /\ k \in Nat /\ j \in Nat /\ i \in Nat
          BY <3>1, <3>3, <4>1
        <5> QED BY <3>5, <4>1, <5>1
      <4> QED BY <4>1
    <3>7. ToBeRead(c)
      BY <3>5, <3>6 DEF ToBeRead
    <3> QED BY <1>1, <2>3, <3>7 DEF Followed, ToBeRead
  <2> QED BY <2>2, <2>3
<1>5. OnceWired'
  BY <1>1, <1>4 DEF OnceWired
<1> QED BY <1>3, <1>5

LEMMA WatchForSessionKeepsIndex ==
  ASSUME IndexInv, NEW s, NEW d \in Dirs, WatchForSession(s, d), UNCHANGED <<phase, leaving>>
  PROVE  IndexInv'
<1> USE DEF IndexInv
<1>1. /\ roots' = TRUE /\ dirs' = dirs \cup {d} /\ kernel \subseteq kernel'
      /\ UNCHANGED <<byKey, byToolID, toScan, disk, wired, todo, unseen>>
  BY DEF WatchForSession, AddWatch, indexVars
<1>2. <<"dir", d>> \in FsEvents /\ \A c \in Convs : <<"dir", d>> # <<"remove", c>>
  BY DEF FsEvents
<1>3. IndexAgrees' /\ FilesHaveDirs' /\ Phases'
  BY <1>1 DEF IndexAgrees, FilesHaveDirs, Phases
<1>4. CASE d \notin dirs /\ roots
  <2>1. fsq' = Append(fsq, <<"dir", d>>)
    BY <1>4 DEF WatchForSession
  <2>2. IndexTypes'
    BY <1>1, <1>2, <2>1, Appended DEF IndexTypes
  <2>3. \A c \in Convs : RemovalTold(c) => RemovalTold(c)'
    BY <1>1, <1>2, <2>1, RemovalAppend
  <2>4. BeforeWired'
    BY <1>1, <2>3 DEF BeforeWired
  <2>5. \A c \in Convs : Followed(c) => Followed(c)'
    BY <1>1, <1>2, <2>1, FollowedAppend
  <2>6. OnceWired'
    BY <1>1, <2>5 DEF OnceWired
  <2> QED BY <1>3, <2>2, <2>4, <2>6
<1>5. CASE ~(d \notin dirs /\ roots)
  <2>1. fsq' = fsq
    BY <1>5 DEF WatchForSession
  <2>2. IndexTypes'
    BY <1>1, <2>1 DEF IndexTypes
  <2>3. BeforeWired'
    <3>1. CASE ~wired /\ ~roots
      BY <1>1, <2>1, <3>1 DEF BeforeWired, RemovalTold
    <3>2. CASE roots
      <4>1. dirs' = dirs
        BY <1>1, <1>5, <3>2
      <4>2. \A c \in Convs : RemovalTold(c) => RemovalTold(c)'
        BY <1>1, <2>1, <4>1 DEF RemovalTold, Announced, DirWatched
      <4> QED BY <1>1, <2>1, <4>2 DEF BeforeWired
    <3> QED BY <1>1, <3>1, <3>2 DEF BeforeWired
  <2>4. OnceWired'
    BY <1>1, <2>1 DEF OnceWired, Followed, NotRemoved, ToBeRead
  <2> QED BY <1>3, <2>2, <2>3, <2>4
<1> QED BY <1>4, <1>5

LEMMA SessionLeavesKeepsIndex ==
  ASSUME IndexInv, NEW s, NEW d, SessionLeaves(s, d), phase = "up", UNCHANGED phase
  PROVE  IndexInv'
<1> USE DEF IndexInv
<1>1. UNCHANGED <<byKey, byToolID, toScan, disk, dirs, roots, wired, fsq, todo, unseen>>
  BY DEF SessionLeaves, indexVars
<1>2. wired
  BY DEF Phases
<1>3. IndexTypes' /\ IndexAgrees' /\ FilesHaveDirs' /\ Phases' /\ BeforeWired'
  BY <1>1, <1>2 DEF IndexTypes, IndexAgrees, FilesHaveDirs, Phases, BeforeWired
<1>4. OnceWired'
  BY <1>1 DEF OnceWired, Followed, NotRemoved, ToBeRead
<1> QED BY <1>3, <1>4

LEMMA StopKeepsIndex ==
  ASSUME IndexInv, StopIndexing, phase' = "start", leaving' = <<>>
  PROVE  IndexInv'
<1> USE DEF IndexInv
<1>1. /\ byKey' = <<>> /\ byToolID' = <<>> /\ toScan' = Listing
      /\ kernel' = {} /\ roots' = FALSE /\ wired' = FALSE
      /\ fsq' = <<>> /\ todo' = {} /\ unseen' = Convs
      /\ UNCHANGED <<disk, dirs>>
  BY DEF StopIndexing
<1>2. DOMAIN <<>> = {} /\ <<>> \in Seq(FsEvents)
  OBVIOUS
<1>3. IndexTypes' /\ FilesHaveDirs'
  BY <1>1, <1>2, ConversationIndexAssumption DEF IndexTypes, FilesHaveDirs
<1>4. IndexAgrees' /\ Phases' /\ OnceWired'
  BY <1>1, <1>2 DEF IndexAgrees, Agree, Phases, OnceWired
<1>5. BeforeWired'
  BY <1>1, <1>2, ConversationIndexAssumption DEF BeforeWired, RemovalTold
<1> QED BY <1>3, <1>4, <1>5

LEMMA StutterKeepsIndex ==
  ASSUME IndexInv, UNCHANGED convVars,
         \/ UNCHANGED <<phase, leaving>>
         \/ phase = "up" /\ UNCHANGED phase
         \/ phase = "watching" /\ phase' = "filled" /\ UNCHANGED leaving
         \/ phase = "filled" /\ phase' = "up" /\ UNCHANGED leaving
  PROVE  IndexInv'
<1> USE DEF IndexInv
<1>1. UNCHANGED <<byKey, byToolID, toScan, disk, dirs, kernel, roots, wired, fsq, todo, unseen>>
  BY DEF convVars, indexVars, watchVars
<1>2. IndexTypes' /\ IndexAgrees' /\ FilesHaveDirs'
  BY <1>1 DEF IndexTypes, IndexAgrees, FilesHaveDirs
<1>3. Phases'
  BY <1>1 DEF Phases
<1>4. BeforeWired'
  BY <1>1 DEF BeforeWired, RemovalTold, Announced, DirWatched
<1>5. OnceWired'
  BY <1>1 DEF OnceWired, Followed, NotRemoved, ToBeRead
<1> QED BY <1>2, <1>3, <1>4, <1>5

LEMMA StepKeepsIndex ==
  ASSUME IndexInv, [Next]_vars
  PROVE  IndexInv'
<1> USE ConversationIndexAssumption, ProjectsAssumption
<1>1. CASE StartScans
  BY <1>1, ScanKeepsIndex DEF StartScans
<1>2. CASE StartWatches
  BY <1>2, WatchRootsKeepsIndex DEF StartWatches
<1>3. CASE Rehydrate
  BY <1>3, StutterKeepsIndex DEF Rehydrate
<1>4. CASE SubscribeAssigner
  BY <1>4, StutterKeepsIndex DEF SubscribeAssigner
<1>5. CASE CleanLists \/ CleanupSessions
  BY <1>5, StutterKeepsIndex DEF CleanLists, CleanupSessions
<1>6. ASSUME NEW s \in Sids,
             StartRunner(s) \/ Register(s) \/ PeerUpsert(s) \/ Attribute(s) \/ Exit(s)
      PROVE  IndexInv'
  <2>1. CASE Register(s)
    <3>1. DirOf[ConvOf[s]] \in Dirs
      OBVIOUS
    <3> QED BY <2>1, <3>1, WatchForSessionKeepsIndex DEF Register
  <2>2. CASE StartRunner(s) \/ PeerUpsert(s) \/ Attribute(s) \/ Exit(s)
    BY <2>2, StutterKeepsIndex DEF StartRunner, PeerUpsert, Attribute, Exit
  <2> QED BY <1>6, <2>1, <2>2
<1>7. ASSUME NEW id \in Sids \cup Convs,
             BeginsToLeave(id) \/ DismissSession(id) \/ RemoveSession(id)
      PROVE  IndexInv'
  <2>1. CASE BeginsToLeave(id)
    BY <2>1, StutterKeepsIndex DEF BeginsToLeave
  <2>2. id \in DOMAIN leaving => phase = "up"
    BY DEF IndexInv, Phases
  <2>3. CASE DismissSession(id)
    BY <2>2, <2>3, StutterKeepsIndex DEF DismissSession
  <2>4. CASE RemoveSession(id)
    BY <2>2, <2>4, StutterKeepsIndex, SessionLeavesKeepsIndex DEF RemoveSession
  <2> QED BY <1>7, <2>1, <2>3, <2>4
<1>8. CASE Assign
  BY <1>8, StutterKeepsIndex DEF Assign
<1>9. CASE (\E q \in Requests \cup Discovered(items) : AddProject(q)) \/ AddLists
           \/ AutoAssignAllAlive
  BY <1>9, StutterKeepsIndex DEF AddProject, AddLists, AutoAssignAllAlive
<1>10. CASE Fetch \/ PutProjects \/ PatchSessions
  BY <1>10, StutterKeepsIndex DEF Fetch, PutProjects, PatchSessions
<1>11. CASE Restart
  BY <1>11, StopKeepsIndex DEF Restart
<1>12. CASE Follow /\ UNCHANGED projVars
  <2>1. UNCHANGED <<phase, leaving>>
    BY <1>12 DEF projVars
  <2>2. CASE FileSystem
    BY <2>1, <2>2, WriteKeepsIndex, RemoveKeepsIndex, MakeDirKeepsIndex, RemoveDirKeepsIndex
    DEF FileSystem
  <2>3. CASE Monitor
    BY <2>1, <2>3, NewDirKeepsIndex, CatchUpKeepsIndex, HandleWriteKeepsIndex,
       HandleRemoveKeepsIndex DEF Monitor
  <2> QED BY <1>12, <2>2, <2>3 DEF Follow
<1>13. CASE UNCHANGED vars
  BY <1>13, StutterKeepsIndex DEF vars, projVars
<1> QED BY <1>1, <1>2, <1>3, <1>4, <1>5, <1>6, <1>7, <1>8, <1>9, <1>10, <1>11, <1>12, <1>13
        DEF Next

LEMMA InitIndex == Init => IndexInv
<1> SUFFICES ASSUME Init PROVE IndexInv
  OBVIOUS
<1> USE ConversationIndexAssumption DEF Init, IndexInit
<1>1. DOMAIN <<>> = {} /\ <<>> \in Seq(FsEvents)
  OBVIOUS
<1>2. IndexTypes
  BY <1>1 DEF IndexTypes
<1>3. FilesHaveDirs
  BY DEF FilesHaveDirs
<1>4. IndexAgrees /\ Phases /\ OnceWired
  BY <1>1 DEF IndexAgrees, Agree, Phases, OnceWired
<1>5. BeforeWired
  BY <1>1 DEF BeforeWired, RemovalTold
<1> QED BY <1>2, <1>3, <1>4, <1>5 DEF IndexInv

(* The index follows the files: when the monitor has handled what it was   *)
(* told (filemon.go), the index has exactly the conversations that can be  *)
(* resumed, each under a slug of its own, whatever files and directories   *)
(* come and go while jumpd starts, runs and stops, those changed where     *)
(* nothing was watched excepted.                                           *)
THEOREM IndexFollows == Spec => []IndexFollowsDisk
<1>1. IndexInv /\ [Next]_vars => IndexInv'
  BY StepKeepsIndex
<1>2. IndexInv => IndexFollowsDisk
  <2> SUFFICES ASSUME IndexInv, wired, fsq = <<>>, todo = {}
               PROVE  /\ \A c \in Convs \ unseen : c \in DOMAIN byToolID <=> disk[c] = "full"
                      /\ {<<KindOf[c], byToolID[c]>> : c \in DOMAIN byToolID} = DOMAIN byKey
                      /\ \A c \in DOMAIN byToolID : byKey[<<KindOf[c], byToolID[c]>>] = c
    BY DEF IndexFollowsDisk
  <2>1. DOMAIN fsq = {}
    OBVIOUS
  <2>2. \A c \in Convs \ unseen : c \in DOMAIN byToolID <=> disk[c] = "full"
    BY <2>1 DEF IndexInv, OnceWired, Followed, ToBeRead, NotRemoved
  <2>3. {<<KindOf[c], byToolID[c]>> : c \in DOMAIN byToolID} = DOMAIN byKey
    BY DEF IndexInv, IndexAgrees, Agree
  <2>4. \A c \in DOMAIN byToolID : byKey[<<KindOf[c], byToolID[c]>>] = c
    BY DEF IndexInv, IndexAgrees, Agree
  <2> QED BY <2>2, <2>3, <2>4
<1> QED BY InitIndex, <1>1, <1>2, PTL DEF Spec

-----------------------------------------------------------------------------
(* The keys of the projects.  First the sequences they are kept in: what   *)
(* an operation leaves in them, and that it doubles no key.                *)

OnceIn(s, k) == \A m, n \in DOMAIN s : s[m] = k /\ s[n] = k => m = n

LEMMA InToSet ==
  ASSUME NEW s, NEW k
  PROVE  k \in ToSet(s) <=> \E n \in DOMAIN s : s[n] = k
BY DEF ToSet

(* If the places of t are places of s, with the same keys, t has no more.  *)
LEMMA PlacesOnce ==
  ASSUME NEW s, NEW t, NEW f,
         \A n \in DOMAIN t : f[n] \in DOMAIN s /\ t[n] = s[f[n]],
         \A m, n \in DOMAIN t : f[m] = f[n] => m = n
  PROVE  ToSet(t) \subseteq ToSet(s) /\ \A k : OnceIn(s, k) => OnceIn(t, k)
<1>1. ToSet(t) \subseteq ToSet(s)
  BY InToSet
<1>2. ASSUME NEW k, OnceIn(s, k) PROVE OnceIn(t, k)
  BY <1>2 DEF OnceIn
<1> QED BY <1>1, <1>2

LEMMA AppendKeys ==
  ASSUME NEW S, NEW s \in Seq(S), NEW key \in S
  PROVE  /\ Append(s, key) \in Seq(S)
         /\ ToSet(Append(s, key)) = ToSet(s) \cup {key}
         /\ \A k : OnceIn(s, k) /\ ~(k = key /\ key \in ToSet(s)) => OnceIn(Append(s, key), k)
<1> DEFINE t == Append(s, key)
<1>1. /\ t \in Seq(S)
      /\ DOMAIN t = DOMAIN s \cup {Len(s) + 1}
      /\ \A i \in DOMAIN s : t[i] = s[i] /\ i < Len(s) + 1
      /\ t[Len(s) + 1] = key
  BY Appended
<1> HIDE DEF t
<1>2. ToSet(t) = ToSet(s) \cup {key}
  BY <1>1, InToSet
<1>3. ASSUME NEW k, OnceIn(s, k), ~(k = key /\ key \in ToSet(s)) PROVE OnceIn(t, k)
  BY <1>1, <1>3, InToSet DEF OnceIn
<1> QED BY <1>1, <1>2, <1>3 DEF t

LEMMA ReverseKeys ==
  ASSUME NEW S, NEW s \in Seq(S)
  PROVE  /\ Reverse(s) \in Seq(S) /\ Len(Reverse(s)) = Len(s)
         /\ \A n \in DOMAIN Reverse(s) : /\ Len(s) - n + 1 \in DOMAIN s
                                         /\ Reverse(s)[n] = s[Len(s) - n + 1]
         /\ ToSet(Reverse(s)) = ToSet(s)
         /\ \A k : OnceIn(s, k) => OnceIn(Reverse(s), k)
<1> DEFINE t == Reverse(s)
           f == [n \in DOMAIN t |-> Len(s) - n + 1]
<1>1. /\ DOMAIN s = 1..Len(s) /\ Len(s) \in Nat /\ DOMAIN t = 1..Len(s)
      /\ t \in Seq(S) /\ Len(t) = Len(s)
      /\ \A n \in DOMAIN t : Len(s) - n + 1 \in DOMAIN s /\ t[n] = s[Len(s) - n + 1]
  BY DEF Reverse
<1> HIDE DEF t
<1>2. /\ \A n \in DOMAIN t : f[n] \in DOMAIN s /\ t[n] = s[f[n]]
      /\ \A m, n \in DOMAIN t : f[m] = f[n] => m = n
  BY <1>1
<1> HIDE DEF f
<1>3. ToSet(t) \subseteq ToSet(s) /\ \A k : OnceIn(s, k) => OnceIn(t, k)
  BY <1>2, PlacesOnce
<1>4. ToSet(s) \subseteq ToSet(t)
  <2>1. ASSUME NEW n \in DOMAIN s PROVE s[n] \in ToSet(t)
    <3>1. Len(s) - n + 1 \in DOMAIN t /\ t[Len(s) - n + 1] = s[Len(s) - (Len(s) - n + 1) + 1]
      BY <1>1
    <3>2. Len(s) - (Len(s) - n + 1) + 1 = n
      BY <1>1
    <3> QED BY <3>1, <3>2, InToSet
  <2> QED BY <2>1, InToSet
<1> QED BY <1>1, <1>3, <1>4 DEF t

LEMMA RemoveAtKeys ==
  ASSUME NEW S, NEW s \in Seq(S), NEW i \in DOMAIN s
  PROVE  /\ RemoveAt(s, i) \in Seq(S) /\ Len(RemoveAt(s, i)) = Len(s) - 1
         /\ \A n \in DOMAIN RemoveAt(s, i) :
              /\ (IF n < i THEN n ELSE n + 1) \in DOMAIN s
              /\ RemoveAt(s, i)[n] = s[IF n < i THEN n ELSE n + 1]
         /\ ToSet(RemoveAt(s, i)) \subseteq ToSet(s)
         /\ ToSet(s) \ {s[i]} \subseteq ToSet(RemoveAt(s, i))
         /\ \A k : OnceIn(s, k) => OnceIn(RemoveAt(s, i), k)
<1> DEFINE t == RemoveAt(s, i)
           f == [n \in DOMAIN t |-> IF n < i THEN n ELSE n + 1]
           a == SubSeq(s, 1, i - 1)
           b == SubSeq(s, i + 1, Len(s))
<1>1. DOMAIN s = 1..Len(s) /\ Len(s) \in Nat /\ i \in 1..Len(s)
  OBVIOUS
<1>2. /\ a \in Seq(S) /\ Len(a) = i - 1 /\ \A n \in 1..(i - 1) : a[n] = s[n]
      /\ b \in Seq(S) /\ Len(b) = Len(s) - i /\ \A n \in 1..(Len(s) - i) : b[n] = s[i + n]
  BY <1>1
<1>3. t = a \o b
  BY DEF RemoveAt
<1> HIDE DEF a, b
<1>4. /\ t \in Seq(S) /\ Len(t) = Len(s) - 1 /\ DOMAIN t = 1..(Len(s) - 1)
      /\ \A n \in 1..(Len(s) - 1) : t[n] = IF n < i THEN a[n] ELSE b[n - (i - 1)]
  <2>1. /\ t \in Seq(S) /\ Len(t) = Len(a) + Len(b)
        /\ \A n \in 1..(Len(a) + Len(b)) : t[n] = IF n <= Len(a) THEN a[n] ELSE b[n - Len(a)]
    <3>1. /\ a \o b \in Seq(S) /\ Len(a \o b) = Len(a) + Len(b)
          /\ \A n \in 1..(Len(a) + Len(b)) :
               (a \o b)[n] = IF n <= Len(a) THEN a[n] ELSE b[n - Len(a)]
      BY <1>2, ConcatProperties
    <3> QED BY <1>3, <3>1
  <2>2. Len(a) + Len(b) = Len(s) - 1 /\ DOMAIN t = 1..Len(t)
    BY <1>1, <1>2, <2>1
  <2>3. \A n \in 1..(Len(s) - 1) : n <= Len(a) <=> n < i
    BY <1>1, <1>2
  <2> QED BY <1>2, <2>1, <2>2, <2>3
<1> HIDE DEF t
<1>5. \A n \in DOMAIN t : /\ (IF n < i THEN n ELSE n + 1) \in DOMAIN s
                          /\ t[n] = s[IF n < i THEN n ELSE n + 1]
  <2> TAKE n \in DOMAIN t
  <2>1. CASE n < i
    <3>1. n \in 1..(i - 1) /\ n \in 1..(Len(s) - 1) /\ n \in DOMAIN s
      BY <1>1, <1>4, <2>1
    <3>2. t[n] = a[n] /\ a[n] = s[n]
      BY <1>2, <1>4, <2>1, <3>1
    <3> QED BY <2>1, <3>1, <3>2
  <2>2. CASE ~(n < i)
    <3>1. n - (i - 1) \in 1..(Len(s) - i) /\ i + (n - (i - 1)) = n + 1
      BY <1>1, <1>4, <2>2
    <3>2. t[n] = b[n - (i - 1)] /\ b[n - (i - 1)] = s[n + 1]
      BY <1>2, <1>4, <2>2, <3>1
    <3> QED BY <1>1, <1>4, <2>2, <3>2
  <2> QED BY <2>1, <2>2
<1>6. /\ \A n \in DOMAIN t : f[n] \in DOMAIN s /\ t[n] = s[f[n]]
      /\ \A m, n \in DOMAIN t : f[m] = f[n] => m = n
  BY <1>1, <1>4, <1>5
<1> HIDE DEF f
<1>7. ToSet(t) \subseteq ToSet(s) /\ \A k : OnceIn(s, k) => OnceIn(t, k)
  BY <1>6, PlacesOnce
<1>8. ToSet(s) \ {s[i]} \subseteq ToSet(t)
  <2>1. ASSUME NEW n \in DOMAIN s, n # i PROVE s[n] \in ToSet(t)
    <3>1. CASE n < i
      <4>1. n \in DOMAIN t /\ t[n] = s[n]
        BY <1>1, <1>4, <1>5, <3>1
      <4> QED BY <4>1, InToSet
    <3>2. CASE n > i
      <4>1. n - 1 \in DOMAIN t /\ ~(n - 1 < i) /\ (n - 1) + 1 = n
        BY <1>1, <1>4, <3>2
      <4>2. t[n - 1] = s[n]
        BY <1>5, <4>1
      <4> QED BY <4>1, <4>2, InToSet
    <3> QED BY <1>1, <2>1, <3>1, <3>2
  <2> QED BY <2>1, InToSet
<1> QED BY <1>4, <1>5, <1>7, <1>8 DEF t

LEMMA SelectIs ==
  ASSUME NEW S, NEW s \in Seq(S), NEW key \in ToSet(s)
  PROVE  /\ SelectInSeq(s, LAMBDA v : v = key) \in DOMAIN s
         /\ s[SelectInSeq(s, LAMBDA v : v = key)] = key
<1> DEFINE I == {i \in 1..Len(s) : s[i] = key}
<1>1. I # {}
  BY InToSet
<1>2. SelectInSeq(s, LAMBDA v : v = key) = Min(I)
  BY <1>1, Zenon DEF SelectInSeq
<1>3. I \in SUBSET Nat
  OBVIOUS
<1>4. \E x \in I : \A y \in I : x <= y
  <2> HIDE DEF I
  <2> QED BY <1>1, <1>3, LeastOf
<1>5. Min(I) \in I
  BY <1>4 DEF Min
<1> QED BY <1>2, <1>5

LEMMA ReplaceKeys ==
  ASSUME NEW S, NEW s \in Seq(S), NEW i \in DOMAIN s, NEW key \in S, key \notin ToSet(s)
  PROVE  /\ ReplaceAt(s, i, key) \in Seq(S)
         /\ ToSet(ReplaceAt(s, i, key)) \subseteq ToSet(s) \cup {key}
         /\ (ToSet(s) \ {s[i]}) \cup {key} \subseteq ToSet(ReplaceAt(s, i, key))
         /\ \A k : OnceIn(s, k) => OnceIn(ReplaceAt(s, i, key), k)
<1> DEFINE t == ReplaceAt(s, i, key)
<1>1. /\ t \in Seq(S) /\ DOMAIN t = DOMAIN s /\ t[i] = key
      /\ \A n \in DOMAIN s : n # i => t[n] = s[n]
  BY DEF ReplaceAt
<1> HIDE DEF t
<1>2. ToSet(t) \subseteq ToSet(s) \cup {key} /\ (ToSet(s) \ {s[i]}) \cup {key} \subseteq ToSet(t)
  BY <1>1, InToSet
<1>3. ASSUME NEW k, OnceIn(s, k) PROVE OnceIn(t, k)
  <2>1. CASE k = key
    <3>1. \A n \in DOMAIN t : t[n] = key => n = i
      BY <1>1, InToSet
    <3> QED BY <2>1, <3>1 DEF OnceIn
  <2>2. CASE k # key
    BY <1>1, <1>3, <2>2 DEF OnceIn
  <2> QED BY <2>1, <2>2
<1> QED BY <1>1, <1>2, <1>3 DEF t

(* A loop of N rounds has a run: the recursive functions of the model,     *)
(* which are such loops, have values.                                      *)
IsLoop(V, v0, N, g) == v0 \in V /\ N \in Nat /\ g \in [Nat \X V -> V]

LEMMA LoopRuns ==
  ASSUME NEW V, NEW v0, NEW N, NEW g, IsLoop(V, v0, N, g)
  PROVE  \E r \in [0..N -> V] : r[0] = v0 /\ \A n \in 1..N : r[n] = g[<<n, r[n - 1]>>]
<1>0. v0 \in V /\ N \in Nat /\ g \in [Nat \X V -> V]
  BY DEF IsLoop
<1> USE <1>0
<1> DEFINE Run(m, r) == r[0] = v0 /\ \A n \in 1..m : r[n] = g[<<n, r[n - 1]>>]
           Bad == {m \in Nat : ~ \E r \in [0..m -> V] : Run(m, r)}
<1>1. SUFFICES ASSUME Bad # {} PROVE FALSE
  BY <1>0
<1>2. PICK m \in Bad : \A y \in Bad : m <= y
  <2>1. Bad \in SUBSET Nat
    OBVIOUS
  <2> HIDE DEF Bad
  <2> QED BY <1>1, <2>1, LeastOf
<1>3. m # 0
  <2>1. [n \in 0..0 |-> v0] \in [0..0 -> V] /\ Run(0, [n \in 0..0 |-> v0])
    OBVIOUS
  <2>2. \E r \in [0..0 -> V] : Run(0, r)
    BY <2>1, Zenon
  <2> QED BY <2>2
<1>4. PICK r \in [0..(m - 1) -> V] : Run(m - 1, r)
  <2>1. m \in Nat
    BY <1>2
  <2>2. m - 1 \in Nat /\ ~(m <= m - 1)
    BY <1>3, <2>1
  <2>3. m - 1 \notin Bad
    <3> HIDE DEF Bad
    <3> QED BY <1>2, <2>2
  <2> QED BY <2>2, <2>3
<1> DEFINE q == [n \in 0..m |-> IF n = m THEN g[<<m, r[m - 1]>>] ELSE r[n]]
<1>5. q \in [0..m -> V]
  <2>1. g[<<m, r[m - 1]>>] \in V
    BY <1>3
  <2>2. \A n \in 0..m : n # m => n \in 0..(m - 1)
    BY <1>3
  <2> QED BY <2>1, <2>2
<1>6. q[0] = v0
  BY <1>3, <1>4
<1>7. ASSUME NEW n \in 1..m PROVE q[n] = g[<<n, q[n - 1]>>]
  <2>1. n - 1 \in 0..m /\ n - 1 # m /\ q[n - 1] = r[n - 1]
    BY <1>2
  <2>2. CASE n = m
    <3>1. q[n] = g[<<m, r[m - 1]>>]
      BY <2>2
    <3> QED BY <2>1, <2>2, <3>1
  <2>3. CASE n # m
    <3>1. n \in 1..(m - 1) /\ q[n] = r[n]
      BY <1>2, <2>3
    <3>2. r[n] = g[<<n, r[n - 1]>>]
      BY <1>4, <3>1
    <3> QED BY <2>1, <3>1, <3>2
  <2> QED BY <2>2, <2>3
<1> HIDE DEF q
<1>8. Run(m, q)
  BY <1>6, <1>7
<1> QED BY <1>2, <1>5, <1>8

(* Such a function is one in the values the loop takes.                    *)
LEMMA LoopTyped ==
  ASSUME NEW V, NEW v0, NEW N, NEW g, NEW r, IsLoop(V, v0, N, g),
         r = [n \in 0..N |-> r[n]], r[0] = v0,
         \A n \in 1..N : r[n - 1] \in V => r[n] = g[<<n, r[n - 1]>>]
  PROVE  r \in [0..N -> V]
<1>0. v0 \in V /\ N \in Nat /\ g \in [Nat \X V -> V]
  BY DEF IsLoop
<1> USE <1>0
<1> DEFINE Bad == {n \in 0..N : r[n] \notin V}
<1>1. SUFFICES ASSUME Bad # {} PROVE FALSE
  <2>1. \A n \in 0..N : r[n] \in V
    BY <1>1
  <2> QED BY <2>1
<1>2. PICK m \in Bad : \A y \in Bad : m <= y
  <2>1. Bad \in SUBSET Nat
    OBVIOUS
  <2> HIDE DEF Bad
  <2> QED BY <1>1, <2>1, LeastOf
<1>3. m \in 1..N
  BY <1>2
<1>4. m - 1 \in 0..N /\ m - 1 \notin Bad
  BY <1>2, <1>3
<1>5. r[m - 1] \in V
  BY <1>4
<1>6. r[m] = g[<<m, r[m - 1]>>]
  BY <1>3, <1>5
<1>7. r[m] \in V
  BY <1>3, <1>5, <1>6
<1> QED BY <1>2, <1>7

(* The loop of CleanupSessions over the keys of a project.                 *)
FilterRun(S, s, those, r) ==
  /\ r \in [0..Len(s) -> Seq(S)]
  /\ Filtered(s, those) = r[Len(s)]
  /\ r[0] = <<>>
  /\ \A n \in 1..Len(s) : r[n] = IF s[n] \in those THEN Append(r[n - 1], s[n]) ELSE r[n - 1]

LEMMA FilteredUnfolds ==
  ASSUME NEW S, NEW s \in Seq(S), NEW those
  PROVE  \E r : FilterRun(S, s, those, r)
<1> DEFINE L == Len(s)
           Turn(n, t) == IF n \in 1..L /\ s[n] \in those THEN Append(t, s[n]) ELSE t
           g == [p \in Nat \X Seq(S) |-> Turn(p[1], p[2])]
           Loop(q) == [n \in 0..L |->
                         IF n = 0 THEN <<>>
                         ELSE IF s[n] \in those THEN Append(q[n - 1], s[n]) ELSE q[n - 1]]
           r == CHOOSE q : q = Loop(q)
<1>1. L \in Nat /\ <<>> \in Seq(S) /\ g \in [Nat \X Seq(S) -> Seq(S)]
  OBVIOUS
<1>2. \A n \in 1..L : \A t \in Seq(S) :
         g[<<n, t>>] = IF s[n] \in those THEN Append(t, s[n]) ELSE t
  OBVIOUS
<1> HIDE DEF g
<1>3. PICK q \in [0..L -> Seq(S)] : q[0] = <<>> /\ \A n \in 1..L : q[n] = g[<<n, q[n - 1]>>]
  <2> DEFINE V == Seq(S)
             v0 == <<>>
  <2>1. IsLoop(V, v0, L, g)
    BY <1>1 DEF IsLoop
  <2> HIDE DEF L, V, v0
  <2>2. \E q \in [0..L -> V] : q[0] = v0 /\ \A n \in 1..L : q[n] = g[<<n, q[n - 1]>>]
    BY <2>1, LoopRuns
  <2> QED BY <2>2 DEF V, v0
<1>4. q = Loop(q)
  <2>1. ASSUME NEW n \in 1..L
        PROVE  q[n] = IF s[n] \in those THEN Append(q[n - 1], s[n]) ELSE q[n - 1]
    <3>1. q[n - 1] \in Seq(S)
      BY <1>1
    <3> QED BY <1>2, <1>3, <3>1
  <2>2. \A n \in 0..L : q[n] = Loop(q)[n]
    <3>1. q[0] = <<>>
      BY <1>3
    <3> HIDE DEF L
    <3>2. \A n \in 0..L : n = 0 \/ n \in 1..L
      BY <1>1
    <3> QED BY <2>1, <3>1, <3>2
  <2>3. q = [n \in 0..L |-> q[n]]
    BY <1>3
  <2> QED BY <2>2, <2>3
<1>5. r = Loop(r)
  <2> HIDE DEF Loop
  <2> QED BY <1>4
<1>6. Filtered(s, those) = r[L]
  BY Zenon DEF Filtered
<1> HIDE DEF r
<1>7. /\ r = [n \in 0..L |-> r[n]] /\ r[0] = <<>>
      /\ \A n \in 1..L : r[n] = IF s[n] \in those THEN Append(r[n - 1], s[n]) ELSE r[n - 1]
  <2>1. \A n \in 0..L : r[n] = IF n = 0 THEN <<>>
                                ELSE IF s[n] \in those THEN Append(r[n - 1], s[n]) ELSE r[n - 1]
    BY <1>5
  <2>2. r = [n \in 0..L |-> r[n]]
    BY <1>5
  <2>3. 0 \in 0..L /\ \A n \in 1..L : n \in 0..L /\ n # 0
    BY <1>1
  <2> HIDE DEF L
  <2>4. r[0] = <<>>
    BY <2>1, <2>3
  <2> QED BY <2>1, <2>2, <2>3, <2>4
<1>8. r \in [0..L -> Seq(S)]
  <2>1. \A n \in 1..L : r[n - 1] \in Seq(S) => r[n] = g[<<n, r[n - 1]>>]
    BY <1>2, <1>7
  <2> DEFINE V == Seq(S)
             v0 == <<>>
  <2>2. /\ IsLoop(V, v0, L, g)
        /\ r = [n \in 0..L |-> r[n]] /\ r[0] = v0
        /\ \A n \in 1..L : r[n - 1] \in V => r[n] = g[<<n, r[n - 1]>>]
    BY <1>1, <1>7, <2>1 DEF IsLoop
  <2> HIDE DEF L, V, v0
  <2>3. r \in [0..L -> V]
    BY <2>2, LoopTyped
  <2> QED BY <2>3 DEF V
<1>9. FilterRun(S, s, those, r)
  BY <1>6, <1>7, <1>8 DEF FilterRun
<1> QED BY <1>9

(* What holds of no turn of a loop, and is kept by each, holds in the end. *)
LEMMA InTheEnd ==
  ASSUME NEW N \in Nat, NEW T, 0 \in T, \A n \in 1..N : n - 1 \in T => n \in T
  PROVE  \A n \in 0..N : n \in T
<1> DEFINE Bad == {n \in 0..N : n \notin T}
<1>1. SUFFICES ASSUME Bad # {} PROVE FALSE
  OBVIOUS
<1>2. PICK m \in Bad : \A y \in Bad : m <= y
  <2>1. Bad \in SUBSET Nat
    OBVIOUS
  <2> HIDE DEF Bad
  <2> QED BY <1>1, <2>1, LeastOf
<1>3. m \in 1..N /\ m - 1 \in 0..N /\ ~(m <= m - 1)
  BY <1>2
<1>4. m - 1 \notin Bad
  <2> HIDE DEF Bad
  <2> QED BY <1>2, <1>3
<1> QED BY <1>2, <1>3, <1>4

LEMMA FilteredKeys ==
  ASSUME NEW S, NEW s \in Seq(S), NEW those
  PROVE  /\ Filtered(s, those) \in Seq(S)
         /\ ToSet(Filtered(s, those)) = ToSet(s) \cap those
         /\ \A k : OnceIn(s, k) => OnceIn(Filtered(s, those), k)
<1>1. PICK r \in [0..Len(s) -> Seq(S)] :
        /\ Filtered(s, those) = r[Len(s)]
        /\ r[0] = <<>>
        /\ \A n \in 1..Len(s) :
             r[n] = IF s[n] \in those THEN Append(r[n - 1], s[n]) ELSE r[n - 1]
  <2>1. \E r : FilterRun(S, s, those, r)
    BY FilteredUnfolds, Zenon
  <2> QED BY <2>1 DEF FilterRun
<1> DEFINE L == Len(s)
           Before(n) == {s[m] : m \in 1..n} \cap those
<1>2. L \in Nat /\ DOMAIN s = 1..L
  OBVIOUS
<1> DEFINE T == {n \in 0..L : /\ ToSet(r[n]) = Before(n)
                              /\ \A k : OnceIn(s, k) => OnceIn(r[n], k)}
<1>3. 0 \in T
  <2>1. r[0] = <<>> /\ DOMAIN r[0] = {} /\ Before(0) = {}
    BY <1>1
  <2>2. ToSet(r[0]) = {}
    BY <2>1, InToSet
  <2>3. \A k : OnceIn(r[0], k)
    BY <2>1 DEF OnceIn
  <2>4. 0 \in 0..L
    BY <1>2
  <2> HIDE DEF Before, L
  <2> QED BY <2>1, <2>2, <2>3, <2>4
<1>4. ASSUME NEW n \in 1..L, n - 1 \in T PROVE n \in T
  <2>1. r[n - 1] \in Seq(S) /\ s[n] \in S /\ n \in 0..L /\ n \in DOMAIN s
    BY <1>2
  <2>2. Before(n) = Before(n - 1) \cup ({s[n]} \cap those)
    <3>1. 1..n = 1..(n - 1) \cup {n}
      OBVIOUS
    <3> QED BY <3>1
  <2>3. CASE s[n] \in those
    <3>1. r[n] = Append(r[n - 1], s[n])
      BY <1>1, <2>3
    <3>2. ToSet(r[n]) = ToSet(r[n - 1]) \cup {s[n]}
      BY <2>1, <3>1, AppendKeys
    <3>3. ASSUME NEW k, OnceIn(s, k) PROVE OnceIn(r[n], k)
      <4>1. OnceIn(r[n - 1], k)
        BY <1>4, <3>3
      <4>2. ~(k = s[n] /\ k \in ToSet(r[n - 1]))
        <5>1. ASSUME k = s[n], k \in ToSet(r[n - 1]) PROVE FALSE
          <6>1. PICK m \in 1..(n - 1) : s[m] = k
            BY <1>4, <5>1
          <6>2. m \in DOMAIN s /\ m # n
            BY <1>2
          <6> QED BY <2>1, <3>3, <5>1, <6>1, <6>2 DEF OnceIn
        <5> QED BY <5>1
      <4> QED BY <2>1, <3>1, <4>1, <4>2, AppendKeys
    <3>4. ToSet(r[n]) = Before(n)
      BY <1>4, <2>2, <2>3, <3>2
    <3> QED BY <2>1, <3>3, <3>4
  <2>4. CASE s[n] \notin those
    <3>1. r[n] = r[n - 1]
      BY <1>1, <2>4
    <3>2. Before(n) = Before(n - 1)
      BY <2>2, <2>4
    <3> HIDE DEF Before
    <3> QED BY <1>4, <2>1, <3>1, <3>2
  <2> QED BY <2>3, <2>4
<1>5. L \in T
  <2>1. L \in 0..L
    BY <1>2
  <2> HIDE DEF T, L
  <2>2. \A n \in 0..L : n \in T
    BY <1>2, <1>3, <1>4, InTheEnd
  <2> QED BY <2>1, <2>2
<1>6. Before(L) = ToSet(s) \cap those
  BY <1>2 DEF ToSet
<1> HIDE DEF Before
<1>7. r[L] \in Seq(S)
  BY <1>2
<1> QED BY <1>1, <1>5, <1>6, <1>7

-----------------------------------------------------------------------------
(* The projects with their keys.                                           *)

Ids == Sids \cup Convs
Keys == Ids \cup (Slugs \ {NoSlug})

IsProject(x) ==
  /\ x = [name |-> x.name, match |-> x.match, sessions |-> x.sessions]
  /\ x.sessions \in Seq(Keys)

IsItems(its) == (\E P : its \in Seq(P)) /\ \A i \in DOMAIN its : IsProject(its[i])

SameProjects(its, new) ==
  /\ DOMAIN new = DOMAIN its
  /\ \A i \in DOMAIN its : new[i].name = its[i].name /\ new[i].match = its[i].match

(* A key has one place in all projects.                                    *)
Once(its, k) ==
  /\ \A i \in DOMAIN its : OnceIn(its[i].sessions, k)
  /\ \A i, j \in DOMAIN its :
       k \in ToSet(its[i].sessions) /\ k \in ToSet(its[j].sessions) => i = j

LEMMA InKeys ==
  ASSUME NEW its, NEW k
  PROVE  k \in KeysIn(its) <=> \E i \in DOMAIN its : k \in ToSet(its[i].sessions)
BY DEF KeysIn

LEMMA ItemsDomain ==
  ASSUME NEW its, IsItems(its)
  PROVE  Len(its) \in Nat /\ DOMAIN its = 1..Len(its) /\ DOMAIN its \subseteq Nat
<1>1. PICK P : its \in Seq(P)
  BY DEF IsItems
<1> QED BY <1>1

(* The keys of one project are changed.                                    *)
GivesKeys(its, i, t, new) ==
  /\ IsItems(its) /\ i \in DOMAIN its /\ t \in Seq(Keys)
  /\ new = [its EXCEPT ![i].sessions = t]

LEMMA WithSessions ==
  ASSUME NEW its, NEW i, NEW t, NEW new, GivesKeys(its, i, t, new)
  PROVE  /\ IsItems(new) /\ SameProjects(its, new)
         /\ new[i].sessions = t
         /\ \A j \in DOMAIN its : j # i => new[j].sessions = its[j].sessions
         /\ \A k : k \in KeysIn(new) <=>
              k \in ToSet(t) \/ \E j \in DOMAIN its : j # i /\ k \in ToSet(its[j].sessions)
         /\ \A k : /\ Once(its, k)
                   /\ OnceIn(t, k)
                   /\ k \in ToSet(t) => k \in ToSet(its[i].sessions) \/ k \notin KeysIn(its)
                   => Once(new, k)
<1> USE DEF GivesKeys
<1>1. PICK P : its \in Seq(P)
  BY DEF IsItems
<1> DEFINE x == [its[i] EXCEPT !.sessions = t]
<1>2. new = [its EXCEPT ![i] = x]
  OBVIOUS
<1>3. IsProject(its[i])
  BY DEF IsItems
<1>4. x = [name |-> its[i].name, match |-> its[i].match, sessions |-> t]
  <2>1. \A a, b, c : [[name |-> a, match |-> b, sessions |-> c] EXCEPT !.sessions = t]
                     = [name |-> a, match |-> b, sessions |-> t]
    OBVIOUS
  <2>2. x = [[name |-> its[i].name, match |-> its[i].match, sessions |-> its[i].sessions]
               EXCEPT !.sessions = t]
    BY <1>3, Zenon DEF IsProject
  <2> HIDE DEF x
  <2> QED BY <2>1, <2>2, Zenon
<1>5. x.name = its[i].name /\ x.match = its[i].match /\ x.sessions = t
  BY <1>4
<1>6. IsProject(x)
  BY <1>4, <1>5 DEF IsProject
<1> HIDE DEF x
<1>7. /\ DOMAIN new = DOMAIN its /\ new[i] = x
      /\ \A j \in DOMAIN its : j # i => new[j] = its[j]
      /\ new \in Seq(P \cup {x})
  BY <1>1, <1>2
<1>8. IsItems(new)
  BY <1>6, <1>7 DEF IsItems
<1>9. SameProjects(its, new)
  BY <1>5, <1>7 DEF SameProjects
<1>10. new[i].sessions = t /\ \A j \in DOMAIN its : j # i => new[j].sessions = its[j].sessions
  BY <1>5, <1>7
<1>11. \A k : k \in KeysIn(new) <=>
              k \in ToSet(t) \/ \E j \in DOMAIN its : j # i /\ k \in ToSet(its[j].sessions)
  BY <1>7, <1>10, InKeys
<1>12. ASSUME NEW k, Once(its, k), OnceIn(t, k),
              k \in ToSet(t) => k \in ToSet(its[i].sessions) \/ k \notin KeysIn(its)
       PROVE  Once(new, k)
  <2>1. \A j \in DOMAIN new : OnceIn(new[j].sessions, k)
    BY <1>7, <1>10, <1>12 DEF Once
  <2>2. \A j \in DOMAIN its : k \in ToSet(its[j].sessions) => k \in KeysIn(its)
    BY InKeys
  <2>3. \A j, l \in DOMAIN its :
          k \in ToSet(its[j].sessions) /\ k \in ToSet(its[l].sessions) => j = l
    BY <1>12 DEF Once
  <2>4. ASSUME NEW j \in DOMAIN its, NEW l \in DOMAIN its,
               k \in ToSet(new[j].sessions), k \in ToSet(new[l].sessions)
        PROVE  j = l
    BY <1>10, <1>12, <2>2, <2>3, <2>4
  <2> QED BY <1>7, <2>1, <2>4 DEF Once
<1> QED BY <1>8, <1>9, <1>10, <1>11, <1>12

LEMMA MatchIs ==
  ASSUME NEW its, IsItems(its), NEW a
  PROVE  Match(its, a) \in {0} \cup DOMAIN its
<1> DEFINE Len0(i) == {0} \cup {Len(r.path) : r \in {r \in its[i].match : PathMatches(r, a)}}
           Longest(i) == CHOOSE n \in Len0(i) : \A m \in Len0(i) : m <= n
           ByPath == {i \in DOMAIN its : Longest(i) > 0
                                         /\ \A j \in DOMAIN its : Longest(j) <= Longest(i)}
           ByRemote == {i \in DOMAIN its : \E r \in its[i].match : RemoteMatches(r, a)}
           First(is) == IF is = {} THEN 0 ELSE CHOOSE i \in is : \A j \in is : i <= j
<1>1. Match(its, a) = IF ByPath # {} THEN First(ByPath) ELSE First(ByRemote)
  BY Zenon DEF Match
<1>2. ByPath \subseteq DOMAIN its /\ ByRemote \subseteq DOMAIN its
  OBVIOUS
<1> HIDE DEF ByPath, ByRemote
<1>3. \A is \in SUBSET (DOMAIN its) : First(is) \in {0} \cup is
  <2>1. DOMAIN its \subseteq Nat
    BY ItemsDomain
  <2>2. ASSUME NEW is \in SUBSET (DOMAIN its), is # {} PROVE \E i \in is : \A j \in is : i <= j
    BY <2>1, <2>2, LeastOf
  <2> QED BY <2>2
<1> HIDE DEF First
<1> QED BY <1>1, <1>2, <1>3

(* The rules of the projects decide, not their keys.                       *)
LEMMA MatchSame ==
  ASSUME NEW its, NEW new, SameProjects(its, new), NEW a
  PROVE  Match(new, a) = Match(its, a)
<1> DEFINE Len0(t, i) == {0} \cup {Len(r.path) : r \in {r \in t[i].match : PathMatches(r, a)}}
           Longest(t, i) == CHOOSE n \in Len0(t, i) : \A m \in Len0(t, i) : m <= n
           ByPath(t) == {i \in DOMAIN t : Longest(t, i) > 0
                                          /\ \A j \in DOMAIN t : Longest(t, j) <= Longest(t, i)}
           ByRemote(t) == {i \in DOMAIN t : \E r \in t[i].match : RemoteMatches(r, a)}
           First(is) == IF is = {} THEN 0 ELSE CHOOSE i \in is : \A j \in is : i <= j
<1>1. /\ Match(its, a) = IF ByPath(its) # {} THEN First(ByPath(its)) ELSE First(ByRemote(its))
      /\ Match(new, a) = IF ByPath(new) # {} THEN First(ByPath(new)) ELSE First(ByRemote(new))
  BY Zenon DEF Match
<1>2. DOMAIN new = DOMAIN its /\ \A i \in DOMAIN its : new[i].match = its[i].match
  BY DEF SameProjects
<1>3. \A i \in DOMAIN its : Len0(new, i) = Len0(its, i)
  BY <1>2
<1> HIDE DEF Len0
<1>4. \A i \in DOMAIN its : Longest(new, i) = Longest(its, i)
  BY <1>3
<1> HIDE DEF Longest
<1>5. ByPath(new) = ByPath(its) /\ ByRemote(new) = ByRemote(its)
  BY <1>2, <1>4
<1> HIDE DEF ByPath, ByRemote, First
<1> QED BY <1>1, <1>5

LEMMA SameTwice ==
  ASSUME NEW its, NEW mid, NEW new, SameProjects(its, mid), SameProjects(mid, new)
  PROVE  SameProjects(its, new)
BY DEF SameProjects

(* A key is added where it is not.                                         *)
LEMMA AddedSession ==
  ASSUME NEW its, IsItems(its), NEW i \in DOMAIN its, NEW key \in Keys, key \notin KeysIn(its)
  PROVE  /\ IsItems(AddSession(its, i, key)) /\ SameProjects(its, AddSession(its, i, key))
         /\ KeysIn(AddSession(its, i, key)) = KeysIn(its) \cup {key}
         /\ \A k : Once(its, k) => Once(AddSession(its, i, key), k)
<1> DEFINE s == its[i].sessions
           t == Append(s, key)
           new == [its EXCEPT ![i].sessions = t]
<1>1. s \in Seq(Keys)
  BY DEF IsItems, IsProject
<1>2. key \notin ToSet(s)
  BY InKeys
<1>3. AddSession(its, i, key) = new
  <2>1. ~Contains(s, key)
    BY <1>1, <1>2 DEF Contains, ToSet
  <2> QED BY <2>1, Zenon DEF AddSession
<1>4. /\ t \in Seq(Keys) /\ ToSet(t) = ToSet(s) \cup {key}
      /\ \A k : OnceIn(s, k) => OnceIn(t, k)
  <2> HIDE DEF s
  <2> QED BY <1>1, <1>2, AppendKeys
<1> HIDE DEF t, new
<1>5. /\ IsItems(new) /\ SameProjects(its, new)
      /\ \A k : k \in KeysIn(new) <=>
           k \in ToSet(t) \/ \E j \in DOMAIN its : j # i /\ k \in ToSet(its[j].sessions)
      /\ \A k : /\ Once(its, k)
                /\ OnceIn(t, k)
                /\ k \in ToSet(t) => k \in ToSet(its[i].sessions) \/ k \notin KeysIn(its)
                => Once(new, k)
  <2>1. GivesKeys(its, i, t, new)
    BY <1>4 DEF GivesKeys, new
  <2> HIDE DEF s
  <2> QED BY <2>1, WithSessions
<1>6. KeysIn(new) = KeysIn(its) \cup {key}
  <2>1. \A k : k \in KeysIn(new) <=> k \in KeysIn(its) \/ k = key
    BY <1>4, <1>5, InKeys
  <2> QED BY <2>1
<1>7. \A k : Once(its, k) => Once(new, k)
  BY <1>4, <1>5 DEF Once
<1> QED BY <1>3, <1>5, <1>6, <1>7

LEMMA RemovedKey ==
  ASSUME NEW its, IsItems(its), NEW key
  PROVE  /\ IsItems(RemoveKey(its, key)) /\ SameProjects(its, RemoveKey(its, key))
         /\ KeysIn(RemoveKey(its, key)) \subseteq KeysIn(its)
         /\ \A k : Once(its, k) => Once(RemoveKey(its, key), k)
<1> DEFINE i == Holder(its, key)
<1>1. CASE key \notin KeysIn(its)
  <2>1. RemoveKey(its, key) = its
    BY <1>1 DEF RemoveKey, Holder
  <2> QED BY <2>1 DEF SameProjects
<1>2. CASE key \in KeysIn(its)
  <2> DEFINE H(j) == Contains(its[j].sessions, key)
             s == its[i].sessions
             n == SelectInSeq(s, LAMBDA v : v = key)
             t == RemoveAt(s, n)
             new == [its EXCEPT ![i].sessions = t]
  <2>1. DOMAIN its \subseteq Nat /\ DOMAIN its = 1..Len(its) /\ Len(its) \in Nat
    BY ItemsDomain
  <2>2. \A j \in DOMAIN its : its[j].sessions \in Seq(Keys)
    BY DEF IsItems, IsProject
  <2>3. \A j \in DOMAIN its : H(j) <=> key \in ToSet(its[j].sessions)
    BY <2>2 DEF Contains, ToSet
  <2>4. i \in DOMAIN its /\ H(i)
    <3> DEFINE T == {j \in DOMAIN its : H(j)}
    <3>1. T # {} /\ T \in SUBSET Nat
      BY <1>2, <2>1, <2>3, InKeys
    <3>2. \E j \in T : \A l \in T : j <= l
      <4> HIDE DEF T
      <4> QED BY <3>1, LeastOf
    <3>3. \E j \in DOMAIN its : H(j) /\ \A l \in 1..(j - 1) : ~H(l)
      <4>1. PICK j \in T : \A l \in T : j <= l
        BY <3>2
      <4>2. \A l \in 1..(j - 1) : l \in DOMAIN its /\ ~(j <= l)
        BY <2>1, <4>1
      <4> QED BY <4>1, <4>2
    <3>4. i = CHOOSE j \in DOMAIN its : H(j) /\ \A l \in 1..(j - 1) : ~H(l)
      BY <1>2, Zenon DEF Holder
    <3> HIDE DEF i, H
    <3> QED BY <3>3, <3>4
  <2>5. i # 0
    BY <2>1, <2>4
  <2> HIDE DEF i
  <2>6. s \in Seq(Keys) /\ key \in ToSet(s)
    BY <2>2, <2>3, <2>4
  <2>7. n \in DOMAIN s /\ s[n] = key
    <3> HIDE DEF s
    <3> QED BY <2>6, SelectIs
  <2>8. RemoveFirst(s, key) = t
    <3>1. \E j \in 1..Len(s) : s[j] = key
      BY <2>6, <2>7
    <3> QED BY <3>1, Zenon DEF RemoveFirst
  <2>9. RemoveKey(its, key) = new
    <3>1. RemoveKey(its, key) = [its EXCEPT ![i].sessions = RemoveFirst(s, key)]
      BY <2>5, Zenon DEF RemoveKey, i
    <3> HIDE DEF t
    <3> QED BY <2>8, <3>1
  <2>10. t \in Seq(Keys) /\ ToSet(t) \subseteq ToSet(s) /\ \A k : OnceIn(s, k) => OnceIn(t, k)
    <3> HIDE DEF s, n
    <3> QED BY <2>6, <2>7, RemoveAtKeys
  <2> HIDE DEF t, new, n
  <2>11. /\ IsItems(new) /\ SameProjects(its, new)
         /\ \A k : k \in KeysIn(new) <=>
              k \in ToSet(t) \/ \E j \in DOMAIN its : j # i /\ k \in ToSet(its[j].sessions)
         /\ \A k : /\ Once(its, k)
                   /\ OnceIn(t, k)
                   /\ k \in ToSet(t) => k \in ToSet(its[i].sessions) \/ k \notin KeysIn(its)
                   => Once(new, k)
    <3>1. GivesKeys(its, i, t, new)
      BY <2>4, <2>10 DEF GivesKeys, new
    <3> HIDE DEF s
    <3> QED BY <3>1, WithSessions
  <2>12. KeysIn(new) \subseteq KeysIn(its)
    BY <2>4, <2>10, <2>11, InKeys
  <2>13. \A k : Once(its, k) => Once(new, k)
    BY <2>4, <2>10, <2>11 DEF Once
  <2> QED BY <2>9, <2>11, <2>12, <2>13
<1> QED BY <1>1, <1>2

LEMMA ReplacedKey ==
  ASSUME NEW its, IsItems(its), NEW old \in KeysIn(its), NEW key \in Keys, key \notin KeysIn(its)
  PROVE  /\ IsItems(ReplaceKey(its, old, key)) /\ SameProjects(its, ReplaceKey(its, old, key))
         /\ (KeysIn(its) \ {old}) \cup {key} \subseteq KeysIn(ReplaceKey(its, old, key))
         /\ \A k : Once(its, k) => Once(ReplaceKey(its, old, key), k)
<1> DEFINE i == Holder(its, old)
           H(j) == Contains(its[j].sessions, old)
           s == its[i].sessions
           n == SelectInSeq(s, LAMBDA v : v = old)
           t == ReplaceAt(s, n, key)
           new == [its EXCEPT ![i].sessions = t]
<1>1. DOMAIN its \subseteq Nat /\ DOMAIN its = 1..Len(its) /\ Len(its) \in Nat
  BY ItemsDomain
<1>2. \A j \in DOMAIN its : its[j].sessions \in Seq(Keys)
  BY DEF IsItems, IsProject
<1>3. \A j \in DOMAIN its : H(j) <=> old \in ToSet(its[j].sessions)
  BY <1>2 DEF Contains, ToSet
<1>4. i \in DOMAIN its /\ H(i)
  <2> DEFINE T == {j \in DOMAIN its : H(j)}
  <2>1. T # {} /\ T \in SUBSET Nat
    BY <1>1, <1>3, InKeys
  <2>2. \E j \in T : \A l \in T : j <= l
    <3> HIDE DEF T
    <3> QED BY <2>1, LeastOf
  <2>3. \E j \in DOMAIN its : H(j) /\ \A l \in 1..(j - 1) : ~H(l)
    <3>1. PICK j \in T : \A l \in T : j <= l
      BY <2>2
    <3>2. \A l \in 1..(j - 1) : l \in DOMAIN its /\ ~(j <= l)
      BY <1>1, <3>1
    <3> QED BY <3>1, <3>2
  <2>4. i = CHOOSE j \in DOMAIN its : H(j) /\ \A l \in 1..(j - 1) : ~H(l)
    BY Zenon DEF Holder
  <2> HIDE DEF i, H
  <2> QED BY <2>3, <2>4
<1> HIDE DEF i
<1>5. s \in Seq(Keys) /\ old \in ToSet(s) /\ key \notin ToSet(s)
  BY <1>2, <1>3, <1>4, InKeys
<1>6. n \in DOMAIN s /\ s[n] = old
  <2> HIDE DEF s
  <2> QED BY <1>5, SelectIs
<1>7. ReplaceKey(its, old, key) = new
  BY Zenon DEF ReplaceKey, i
<1>8. /\ t \in Seq(Keys) /\ ToSet(t) \subseteq ToSet(s) \cup {key}
      /\ (ToSet(s) \ {old}) \cup {key} \subseteq ToSet(t)
      /\ \A k : OnceIn(s, k) => OnceIn(t, k)
  <2> HIDE DEF s, n
  <2> QED BY <1>5, <1>6, ReplaceKeys
<1> HIDE DEF t, new, n
<1>9. /\ IsItems(new) /\ SameProjects(its, new)
      /\ \A k : k \in KeysIn(new) <=>
           k \in ToSet(t) \/ \E j \in DOMAIN its : j # i /\ k \in ToSet(its[j].sessions)
      /\ \A k : /\ Once(its, k)
                /\ OnceIn(t, k)
                /\ k \in ToSet(t) => k \in ToSet(its[i].sessions) \/ k \notin KeysIn(its)
                => Once(new, k)
  <2>1. GivesKeys(its, i, t, new)
    BY <1>4, <1>8 DEF GivesKeys, new
  <2> HIDE DEF s
  <2> QED BY <2>1, WithSessions
<1>10. (KeysIn(its) \ {old}) \cup {key} \subseteq KeysIn(new)
  BY <1>4, <1>8, <1>9, InKeys
<1>11. \A k : Once(its, k) => Once(new, k)
  BY <1>4, <1>8, <1>9 DEF Once
<1> QED BY <1>7, <1>9, <1>10, <1>11

LEMMA KeyIsKey ==
  ASSUME NEW id \in Ids, NEW slug \in Slugs
  PROVE  Key(id, slug) \in Keys
BY DEF Key, Keys

(* What an operation makes of the projects has their rules, and doubles no *)
(* key.                                                                    *)
Keeps(its, new) ==
  IsItems(new) /\ SameProjects(its, new) /\ \A k : Once(its, k) => Once(new, k)

LEMMA KeepsSelf ==
  ASSUME NEW its, IsItems(its)
  PROVE  Keeps(its, its)
BY DEF Keeps, SameProjects

LEMMA KeepsTwice ==
  ASSUME NEW its, NEW mid, NEW new, Keeps(its, mid), Keeps(mid, new)
  PROVE  Keeps(its, new)
BY SameTwice DEF Keeps

LEMMA AssignedByRule ==
  ASSUME NEW its, IsItems(its), NEW id \in Ids, NEW slug \in Slugs
  PROVE  /\ Keeps(its, AssignByRule(its, id, slug))
         /\ KeysIn(its) \subseteq KeysIn(AssignByRule(its, id, slug))
         /\ id \in Sids /\ Match(its, At[id]) # 0 =>
              Key(id, slug) \in KeysIn(AssignByRule(its, id, slug))
<1> DEFINE i == IF id \in Sids THEN Match(its, At[id]) ELSE 0
           new == AssignByRule(its, id, slug)
<1>1. new = IF Key(id, slug) \in KeysIn(its) \/ i = 0 THEN its ELSE AddSession(its, i, Key(id, slug))
  BY Zenon DEF AssignByRule
<1>2. Key(id, slug) \in Keys /\ i \in {0} \cup DOMAIN its
  BY KeyIsKey, MatchIs
<1>3. id \in Sids /\ Match(its, At[id]) # 0 => i # 0
  OBVIOUS
<1> HIDE DEF i, new
<1>4. CASE Key(id, slug) \in KeysIn(its) \/ i = 0
  BY <1>1, <1>3, <1>4, KeepsSelf DEF new
<1>5. CASE Key(id, slug) \notin KeysIn(its) /\ i # 0
  <2>1. new = AddSession(its, i, Key(id, slug)) /\ i \in DOMAIN its
    BY <1>1, <1>2, <1>5
  <2>2. /\ IsItems(new) /\ SameProjects(its, new)
        /\ KeysIn(new) = KeysIn(its) \cup {Key(id, slug)}
        /\ \A k : Once(its, k) => Once(new, k)
    BY <1>2, <1>5, <2>1, AddedSession
  <2> QED BY <2>2 DEF Keeps, new
<1> QED BY <1>4, <1>5

LEMMA AutoAssigned ==
  ASSUME NEW its, IsItems(its), NEW id \in Ids, NEW slug \in Slugs
  PROVE  /\ Keeps(its, AutoAssign(its, id, slug))
         /\ KeysIn(its) \ {id} \subseteq KeysIn(AutoAssign(its, id, slug))
         /\ Key(id, slug) = id => KeysIn(its) \subseteq KeysIn(AutoAssign(its, id, slug))
         /\ id \in Sids /\ Match(its, At[id]) # 0 =>
              Key(id, slug) \in KeysIn(AutoAssign(its, id, slug))
<1> DEFINE new == AutoAssign(its, id, slug)
<1>1. CASE slug # NoSlug /\ slug \notin KeysIn(its) /\ id \in KeysIn(its)
  <2>1. new = ReplaceKey(its, id, slug)
    BY <1>1, Zenon DEF AutoAssign
  <2>2. Key(id, slug) = slug /\ slug \in Keys
    BY <1>1, KeyIsKey DEF Key
  <2>3. /\ IsItems(new) /\ SameProjects(its, new)
        /\ (KeysIn(its) \ {id}) \cup {slug} \subseteq KeysIn(new)
        /\ \A k : Once(its, k) => Once(new, k)
    BY <1>1, <2>1, <2>2, ReplacedKey
  <2> HIDE DEF new
  <2> QED BY <1>1, <2>2, <2>3 DEF Keeps, new
<1>2. CASE ~(slug # NoSlug /\ slug \notin KeysIn(its) /\ id \in KeysIn(its))
  <2>1. new = AssignByRule(its, id, slug)
    BY <1>2, Zenon DEF AutoAssign
  <2> HIDE DEF new
  <2> QED BY <2>1, AssignedByRule DEF new
<1> QED BY <1>1, <1>2

LEMMA Dismissed ==
  ASSUME NEW its, IsItems(its), NEW id, NEW slug
  PROVE  /\ Keeps(its, DismissKey(its, id, slug))
         /\ KeysIn(DismissKey(its, id, slug)) \subseteq KeysIn(its)
BY RemovedKey DEF DismissKey, Keeps

Cleaned(its, those) == [i \in DOMAIN its |-> [its[i] EXCEPT !.sessions = Filtered(@, those)]]

LEMMA CleanedKeys ==
  ASSUME NEW its, IsItems(its), NEW those
  PROVE  /\ Keeps(its, Cleaned(its, those))
         /\ KeysIn(Cleaned(its, those)) = KeysIn(its) \cap those
<1> DEFINE new == Cleaned(its, those)
           F(i) == Filtered(its[i].sessions, those)
<1>1. \A i \in DOMAIN its : IsProject(its[i]) /\ its[i].sessions \in Seq(Keys)
  BY DEF IsItems, IsProject
<1>2. \A i \in DOMAIN its :
        /\ F(i) \in Seq(Keys) /\ ToSet(F(i)) = ToSet(its[i].sessions) \cap those
        /\ \A k : OnceIn(its[i].sessions, k) => OnceIn(F(i), k)
  <2> DEFINE S == Keys
  <2>1. \A i \in DOMAIN its : its[i].sessions \in Seq(S)
    BY <1>1
  <2> HIDE DEF S
  <2>2. \A s \in Seq(S) :
          /\ Filtered(s, those) \in Seq(S)
          /\ ToSet(Filtered(s, those)) = ToSet(s) \cap those
          /\ \A k : OnceIn(s, k) => OnceIn(Filtered(s, those), k)
    BY FilteredKeys
  <2> QED BY <2>1, <2>2 DEF S
<1>3. DOMAIN new = DOMAIN its
  BY DEF Cleaned
<1>4. ASSUME NEW i \in DOMAIN its
      PROVE  new[i] = [name |-> its[i].name, match |-> its[i].match, sessions |-> F(i)]
  <2>1. new[i] = [its[i] EXCEPT !.sessions = F(i)]
    BY DEF Cleaned
  <2> DEFINE t == F(i)
             x == [its[i] EXCEPT !.sessions = t]
  <2>2. new[i] = x
    BY <2>1
  <2> HIDE DEF t
  <2>3. \A a, b, c : [[name |-> a, match |-> b, sessions |-> c] EXCEPT !.sessions = t]
                     = [name |-> a, match |-> b, sessions |-> t]
    OBVIOUS
  <2>4. x = [[name |-> its[i].name, match |-> its[i].match, sessions |-> its[i].sessions]
               EXCEPT !.sessions = t]
    BY <1>1, Zenon DEF IsProject
  <2> HIDE DEF x
  <2>5. x = [name |-> its[i].name, match |-> its[i].match, sessions |-> t]
    BY <2>3, <2>4, Zenon
  <2> QED BY <2>2, <2>5 DEF t
<1> HIDE DEF new, F
<1>5. \A i \in DOMAIN its : /\ new[i].name = its[i].name /\ new[i].match = its[i].match
                            /\ new[i].sessions = F(i)
  <2> TAKE i \in DOMAIN its
  <2> DEFINE x == [name |-> its[i].name, match |-> its[i].match, sessions |-> F(i)]
  <2>1. x.name = its[i].name /\ x.match = its[i].match /\ x.sessions = F(i)
    OBVIOUS
  <2>2. new[i] = x
    BY <1>4
  <2> HIDE DEF x
  <2> QED BY <2>1, <2>2
<1>6. IsItems(new)
  <2>1. \A i \in DOMAIN new : IsProject(new[i])
    BY <1>2, <1>3, <1>4, <1>5 DEF IsProject
  <2>2. new \in Seq({new[i] : i \in DOMAIN new})
    <3>1. Len(its) \in Nat /\ DOMAIN new = 1..Len(its) /\ new = [i \in 1..Len(its) |-> new[i]]
      BY <1>3, ItemsDomain DEF new, Cleaned
    <3> QED BY <3>1
  <2> QED BY <2>1, <2>2 DEF IsItems
<1>7. SameProjects(its, new)
  BY <1>3, <1>5 DEF SameProjects
<1>8. \A k : Once(its, k) => Once(new, k)
  BY <1>2, <1>3, <1>5 DEF Once
<1>9. KeysIn(new) = KeysIn(its) \cap those
  <2>1. \A k : k \in KeysIn(new) <=> k \in KeysIn(its) /\ k \in those
    BY <1>2, <1>3, <1>5, InKeys
  <2> QED BY <2>1
<1> QED BY <1>6, <1>7, <1>8, <1>9 DEF Keeps, new

(* The loop of AutoAssignAllAlive over the sessions it has listed.         *)
LEMMA AssignedAll ==
  ASSUME NEW its, IsItems(its), NEW order \in Seq(Ids), NEW slugs,
         \A n \in DOMAIN order : slugs[order[n]] \in Slugs
  PROVE  /\ Keeps(its, AssignAll(its, order, slugs))
         /\ KeysIn(its) \subseteq KeysIn(AssignAll(its, order, slugs))
         /\ \A n \in DOMAIN order :
              order[n] \in Sids /\ Match(its, At[order[n]]) # 0 =>
                Key(order[n], slugs[order[n]]) \in KeysIn(AssignAll(its, order, slugs))
<1> DEFINE L == Len(order)
           P == [name: {its[i].name : i \in DOMAIN its},
                 match: {its[i].match : i \in DOMAIN its}, sessions: Seq(Keys)]
           V == {t \in [DOMAIN its -> P] : IsItems(t) /\ SameProjects(its, t)}
           One(t, n) == AssignByRule(t, order[n], slugs[order[n]])
           Turn(n, t) == IF n \in 1..L THEN One(t, n) ELSE t
           g == [p \in Nat \X V |-> Turn(p[1], p[2])]
           Loop(q) == [n \in 0..L |-> IF n = 0 THEN its ELSE One(q[n - 1], n)]
           r == CHOOSE q : q = Loop(q)
<1>1. L \in Nat /\ DOMAIN order = 1..L
  OBVIOUS
<1>2. ASSUME NEW t, IsItems(t), SameProjects(its, t) PROVE t \in V
  <2>1. DOMAIN t = DOMAIN its /\ \A i \in DOMAIN its : IsProject(t[i])
    BY <1>2 DEF IsItems, SameProjects
  <2>2. ASSUME NEW i \in DOMAIN its PROVE t[i] \in P
    <3>1. /\ t[i] = [name |-> t[i].name, match |-> t[i].match, sessions |-> t[i].sessions]
          /\ t[i].sessions \in Seq(Keys)
      BY <2>1 DEF IsProject
    <3>2. t[i].name = its[i].name /\ t[i].match = its[i].match
      BY <1>2 DEF SameProjects
    <3> DEFINE a == t[i].name
               b == t[i].match
               c == t[i].sessions
    <3>3. [name |-> a, match |-> b, sessions |-> c] \in P
      BY <3>1, <3>2
    <3> HIDE DEF P
    <3> QED BY <3>1, <3>3, Zenon
  <2>3. t \in [DOMAIN its -> P]
    <3>1. t = [i \in DOMAIN its |-> t[i]]
      <4>1. PICK Q : t \in Seq(Q)
        BY <1>2 DEF IsItems
      <4> QED BY <2>1, <4>1
    <3> HIDE DEF P
    <3> QED BY <2>2, <3>1
  <2> HIDE DEF P
  <2> QED BY <1>2, <2>3
<1>3. \A t \in V : IsItems(t) /\ SameProjects(its, t)
  OBVIOUS
<1>4. its \in V
  <2> HIDE DEF V
  <2> QED BY <1>2 DEF SameProjects
<1>5. ASSUME NEW n \in 1..L, NEW t \in V
      PROVE  /\ Keeps(t, One(t, n)) /\ One(t, n) \in V
             /\ KeysIn(t) \subseteq KeysIn(One(t, n))
             /\ order[n] \in Sids /\ Match(its, At[order[n]]) # 0 =>
                  Key(order[n], slugs[order[n]]) \in KeysIn(One(t, n))
  <2>1. order[n] \in Ids /\ slugs[order[n]] \in Slugs
    BY <1>1
  <2>2. IsItems(t) /\ SameProjects(its, t)
    OBVIOUS
  <2> HIDE DEF V
  <2>3. /\ Keeps(t, One(t, n)) /\ KeysIn(t) \subseteq KeysIn(One(t, n))
        /\ order[n] \in Sids /\ Match(t, At[order[n]]) # 0 =>
             Key(order[n], slugs[order[n]]) \in KeysIn(One(t, n))
    BY <2>1, <2>2, AssignedByRule
  <2>4. Match(t, At[order[n]]) = Match(its, At[order[n]])
    BY <2>2, MatchSame
  <2> HIDE DEF One
  <2>5. One(t, n) \in V
    BY <1>2, <2>2, <2>3, SameTwice DEF Keeps
  <2> QED BY <2>3, <2>4, <2>5
<1> HIDE DEF V, P
<1>6. \A n \in 1..L : \A t \in V : g[<<n, t>>] = One(t, n)
  <2> HIDE DEF One
  <2> QED BY <1>1
<1>7. g \in [Nat \X V -> V]
  <2>1. \A p \in Nat \X V : Turn(p[1], p[2]) \in V
    <3> HIDE DEF One
    <3>1. \A n \in Nat : \A t \in V : Turn(n, t) \in V
      BY <1>5
    <3> HIDE DEF Turn
    <3> QED BY <3>1
  <2> HIDE DEF Turn
  <2> QED BY <2>1
<1> HIDE DEF g
<1>8. IsLoop(V, its, L, g)
  BY <1>1, <1>4, <1>7 DEF IsLoop
<1>9. PICK q \in [0..L -> V] : q[0] = its /\ \A n \in 1..L : q[n] = g[<<n, q[n - 1]>>]
  <2> HIDE DEF L
  <2> QED BY <1>8, LoopRuns
<1>10. q = Loop(q)
  <2>1. \A n \in 1..L : q[n] = One(q[n - 1], n)
    <3> HIDE DEF One
    <3>1. \A n \in 1..L : q[n - 1] \in V
      BY <1>1
    <3> QED BY <1>6, <1>9, <3>1
  <2> HIDE DEF One, L
  <2>2. \A n \in 0..L : q[n] = Loop(q)[n]
    <3>1. \A n \in 0..L : n = 0 \/ n \in 1..L
      BY <1>1
    <3> QED BY <1>9, <2>1, <3>1
  <2>3. q = [n \in 0..L |-> q[n]]
    BY <1>9
  <2> QED BY <2>2, <2>3
<1>11. r = Loop(r)
  <2> HIDE DEF Loop
  <2> QED BY <1>10
<1>12. AssignAll(its, order, slugs) = r[L]
  BY Zenon DEF AssignAll
<1> HIDE DEF r
<1>13. /\ r = [n \in 0..L |-> r[n]] /\ r[0] = its
       /\ \A n \in 1..L : r[n] = One(r[n - 1], n)
  <2> HIDE DEF One, L
  <2>1. \A n \in 0..L : r[n] = IF n = 0 THEN its ELSE One(r[n - 1], n)
    BY <1>11
  <2>2. r = [n \in 0..L |-> r[n]]
    BY <1>11
  <2>3. 0 \in 0..L /\ \A n \in 1..L : n \in 0..L /\ n # 0
    BY <1>1
  <2> QED BY <2>1, <2>2, <2>3
<1> HIDE DEF One, L
<1>14. r \in [0..L -> V]
  <2>1. \A n \in 1..L : r[n - 1] \in V => r[n] = g[<<n, r[n - 1]>>]
    BY <1>6, <1>13
  <2> QED BY <1>8, <1>13, <2>1, LoopTyped
<1> DEFINE T == {n \in 0..L :
                   /\ Keeps(its, r[n]) /\ KeysIn(its) \subseteq KeysIn(r[n])
                   /\ \A m \in 1..n : order[m] \in Sids /\ Match(its, At[order[m]]) # 0 =>
                        Key(order[m], slugs[order[m]]) \in KeysIn(r[n])}
<1>15. 0 \in T
  BY <1>1, <1>13, KeepsSelf
<1>16. ASSUME NEW n \in 1..L, n - 1 \in T PROVE n \in T
  <2>1. r[n - 1] \in V /\ r[n] = One(r[n - 1], n) /\ n \in 0..L
    <3>1. n - 1 \in 0..L /\ n \in 0..L
      BY <1>1
    <3>2. r[n - 1] \in V
      BY <1>14, <3>1
    <3>3. r[n] = One(r[n - 1], n)
      BY <1>13
    <3> QED BY <3>1, <3>2, <3>3
  <2>2. Keeps(its, r[n - 1]) /\ KeysIn(its) \subseteq KeysIn(r[n - 1])
    BY <1>16
  <2>3. /\ Keeps(r[n - 1], r[n]) /\ KeysIn(r[n - 1]) \subseteq KeysIn(r[n])
        /\ order[n] \in Sids /\ Match(its, At[order[n]]) # 0 =>
             Key(order[n], slugs[order[n]]) \in KeysIn(r[n])
    BY <1>5, <2>1
  <2>4. Keeps(its, r[n])
    BY <2>2, <2>3, KeepsTwice
  <2>5. \A m \in 1..n : m = n \/ m \in 1..(n - 1)
    BY <1>1
  <2>6. \A m \in 1..n : order[m] \in Sids /\ Match(its, At[order[m]]) # 0 =>
          Key(order[m], slugs[order[m]]) \in KeysIn(r[n])
    BY <1>16, <2>3, <2>5
  <2> QED BY <2>1, <2>2, <2>3, <2>4, <2>6
<1>17. L \in T
  <2>1. L \in 0..L
    BY <1>1
  <2> HIDE DEF T
  <2>2. \A n \in 0..L : n \in T
    BY <1>1, <1>15, <1>16, InTheEnd
  <2> QED BY <2>1, <2>2
<1> QED BY <1>1, <1>12, <1>17

(* The lists that clients write, and the new projects.                     *)
LEMMA ReversedItems ==
  ASSUME NEW its, IsItems(its)
  PROVE  /\ IsItems(Reverse(its))
         /\ \A k : Once(its, k) => Once(Reverse(its), k)
<1>1. PICK P : its \in Seq(P)
  BY DEF IsItems
<1> DEFINE t == Reverse(its)
           f == [n \in DOMAIN t |-> Len(its) - n + 1]
<1>2. /\ t \in Seq(P) /\ Len(t) = Len(its)
      /\ \A n \in DOMAIN t : Len(its) - n + 1 \in DOMAIN its /\ t[n] = its[Len(its) - n + 1]
  BY <1>1, ReverseKeys
<1>3. \A n \in DOMAIN t : f[n] \in DOMAIN its /\ t[n] = its[f[n]]
  BY <1>2
<1>4. \A m, n \in DOMAIN t : f[m] = f[n] => m = n
  BY <1>1, <1>2
<1> HIDE DEF t, f
<1>5. IsItems(t)
  BY <1>2, <1>3 DEF IsItems
<1>6. \A k : Once(its, k) => Once(t, k)
  BY <1>3, <1>4 DEF Once
<1> QED BY <1>5, <1>6 DEF t

LEMMA ItemsWithout ==
  ASSUME NEW its, IsItems(its), NEW i \in DOMAIN its
  PROVE  /\ IsItems(RemoveAt(its, i))
         /\ \A k : Once(its, k) => Once(RemoveAt(its, i), k)
<1>1. PICK P : its \in Seq(P)
  BY DEF IsItems
<1> DEFINE t == RemoveAt(its, i)
           f == [n \in DOMAIN t |-> IF n < i THEN n ELSE n + 1]
<1>2. /\ t \in Seq(P)
      /\ \A n \in DOMAIN t : /\ (IF n < i THEN n ELSE n + 1) \in DOMAIN its
                             /\ t[n] = its[IF n < i THEN n ELSE n + 1]
  BY <1>1, RemoveAtKeys
<1>3. \A n \in DOMAIN t : f[n] \in DOMAIN its /\ t[n] = its[f[n]]
  BY <1>2
<1>4. \A m, n \in DOMAIN t : f[m] = f[n] => m = n
  <2>1. DOMAIN t \subseteq Nat /\ i \in Nat
    BY <1>1, <1>2
  <2> HIDE DEF t
  <2> QED BY <2>1
<1> HIDE DEF t, f
<1>5. IsItems(t)
  BY <1>2, <1>3 DEF IsItems
<1>6. \A k : Once(its, k) => Once(t, k)
  BY <1>3, <1>4 DEF Once
<1> QED BY <1>5, <1>6 DEF t

LEMMA AppendedProject ==
  ASSUME NEW its, IsItems(its), NEW name, NEW match
  PROVE  LET new == Append(its, [name |-> name, match |-> match, sessions |-> <<>>])
         IN  /\ IsItems(new) /\ KeysIn(new) = KeysIn(its)
             /\ \A k : Once(its, k) => Once(new, k)
<1>1. PICK P : its \in Seq(P)
  BY DEF IsItems
<1> DEFINE x == [name |-> name, match |-> match, sessions |-> <<>>]
           new == Append(its, x)
           S == P \cup {x}
<1>2. its \in Seq(S) /\ x \in S
  BY <1>1
<1>3. x.name = name /\ x.match = match /\ x.sessions = <<>>
      /\ x = [name |-> x.name, match |-> x.match, sessions |-> x.sessions]
  OBVIOUS
<1> HIDE DEF x, S
<1>4. /\ new \in Seq(S)
      /\ DOMAIN new = DOMAIN its \cup {Len(its) + 1}
      /\ \A i \in DOMAIN its : new[i] = its[i] /\ i < Len(its) + 1
      /\ new[Len(its) + 1] = x
  BY <1>2, Appended
<1> HIDE DEF new
<1>5. IsProject(x)
  BY <1>3 DEF IsProject
<1>6. IsItems(new)
  BY <1>4, <1>5 DEF IsItems
<1>7. ToSet(x.sessions) = {} /\ \A k : OnceIn(x.sessions, k)
  BY <1>3 DEF ToSet, OnceIn
<1>8. KeysIn(new) = KeysIn(its)
  <2>1. \A k : k \in KeysIn(new) <=> k \in KeysIn(its)
    BY <1>4, <1>7, InKeys
  <2> QED BY <2>1
<1>9. \A k : Once(its, k) => Once(new, k)
  BY <1>4, <1>7 DEF Once
<1> QED BY <1>6, <1>8, <1>9 DEF new, x

-----------------------------------------------------------------------------
(* What the state of the projects is made of.                              *)

StoreRecord == [alive: BOOLEAN, slug: Slugs]
Upsert1 == [id: Sids, slug: Slugs]

StoreTypes ==
  /\ Stored \subseteq Ids /\ \A o \in Stored : sess[o] \in StoreRecord
  /\ \A o \in Stored : sess[o].alive => o \in Sids
  /\ \A o \in Stored : Host(o) # Local => sess[o].slug = NoSlug
  /\ runs \subseteq {s \in Sids : Host(s) = Local}
QueueTypes ==
  /\ queue \in Seq(Upsert1)
  /\ DOMAIN infos \subseteq Ids /\ \A o \in DOMAIN infos : infos[o] \in Slugs
LeavingTypes ==
  \A o \in DOMAIN leaving : o \in Ids /\ leaving[o].slug \in Slugs
ListTypes == StoreTypes /\ QueueTypes /\ LeavingTypes /\ IsItems(items) /\ IsItems(view)


LEMMA DropIs ==
  ASSUME NEW f, NEW keys
  PROVE  /\ DOMAIN Drop(f, keys) = DOMAIN f \ keys
         /\ \A x \in DOMAIN f \ keys : Drop(f, keys)[x] = f[x]
BY DEF Drop

LEMMA NoSlugIs == NoSlug \in Slugs /\ NoSlug \notin Keys /\ Ids \cap Slugs = {}
<1>1. Ids \cap Slugs = {}
  BY ProjectsAssumption DEF Ids, Slugs
<1>2. NoSlug \in Slugs
  BY DEF NoSlug, Slugs
<1> QED BY <1>1, <1>2 DEF Keys

LEMMA EmptyItems == IsItems(<<>>) /\ KeysIn(<<>>) = {} /\ \A k : Once(<<>>, k)
<1>1. <<>> \in Seq({}) /\ DOMAIN <<>> = {}
  OBVIOUS
<1>2. IsItems(<<>>)
  BY <1>1 DEF IsItems
<1>3. \A k : k \notin KeysIn(<<>>) /\ Once(<<>>, k)
  BY <1>1, InKeys DEF Once
<1> QED BY <1>2, <1>3

LEMMA NumberedDiffers ==
  ASSUME NEW slug \in Slugs, NEW m \in Nat, NEW n \in Nat, m # n
  PROVE  (IF m = 1 THEN slug ELSE Append(slug, m)) # (IF n = 1 THEN slug ELSE Append(slug, n))
<1> DEFINE B == {BaseOf[c] : c \in Convs} \cup Nat
<1>1. slug \in Seq(B) /\ m \in B /\ n \in B
  BY DEF Slugs
<1> HIDE DEF B
<1>2. \A x \in B : Append(slug, x)[Len(slug) + 1] = x /\ Len(Append(slug, x)) = Len(slug) + 1
  BY <1>1
<1>3. \A x, y \in B : x # y => Append(slug, x) # Append(slug, y)
  BY <1>2
<1>4. \A x \in B : Append(slug, x) # slug
  <2>1. Len(slug) + 1 # Len(slug)
    BY <1>1
  <2> QED BY <1>2, <2>1
<1> QED BY <1>1, <1>3, <1>4, Zenon

(* The number that a slug takes is found: there are more of them than      *)
(* sessions that could have it.                                            *)
LEMMA FreeSlugIs ==
  ASSUME StoreTypes, NEW id, NEW slug \in Slugs
  PROVE  /\ FreeSlug(id, slug) \in Slugs
         /\ slug = NoSlug => FreeSlug(id, slug) = NoSlug
         /\ \/ FreeSlug(id, slug) = slug
            \/ \E o \in Stored \ ({id} \cup Evicted(id, slug)) : sess[o].slug = slug
<1> DEFINE Numbered(n) == IF n = 1 THEN slug ELSE Append(slug, n)
           Others(n) == Namesakes(id, Numbered(n)) \ Evicted(id, slug)
           Free(n) == Others(n) = {}
           N == Cardinality(Stored) + 1
           n0 == CHOOSE i \in 1..N : Free(i) /\ \A j \in 1..(i - 1) : ~Free(j)
           h == [n \in 1..N |-> Others(n)]
<1>1. IsFiniteSet(Stored) /\ Cardinality(Stored) \in Nat
  <2>1. IsFiniteSet(Ids)
    BY FS_Union, ConversationIndexAssumption, ProjectsAssumption DEF Ids
  <2>2. IsFiniteSet(Stored)
    BY <2>1, FS_Subset DEF StoreTypes
  <2> QED BY <2>2, FS_CardinalityType
<1>2. FreeSlug(id, slug) = IF slug = NoSlug THEN slug ELSE Numbered(n0)
  BY Zenon DEF FreeSlug
<1>3. \A n : Others(n) \subseteq Stored \ ({id} \cup Evicted(id, slug))
             /\ \A o \in Others(n) : sess[o].slug = Numbered(n)
  BY DEF Namesakes
<1>4. \A i, j \in 1..N : i # j => h[i] \cap h[j] = {}
  <2>1. \A i, j \in 1..N : i # j => Numbered(i) # Numbered(j)
    BY <1>1, NumberedDiffers
  <2> HIDE DEF Numbered, Others, N
  <2>2. \A i, j \in 1..N : i # j => Others(i) \cap Others(j) = {}
    BY <1>3, <2>1
  <2> QED BY <2>2
<1>5. h \in [1..N -> SUBSET Stored]
  <2> HIDE DEF Others, N, Numbered
  <2> QED BY <1>3
<1>6. \E i \in 1..N : h[i] = {} /\ \A j \in 1..(i - 1) : h[j] # {}
  <2> DEFINE T == Stored
  <2>1. /\ IsFiniteSet(T) /\ h \in [1..(Cardinality(T) + 1) -> SUBSET T]
        /\ \A i, j \in 1..(Cardinality(T) + 1) : i # j => h[i] \cap h[j] = {}
    BY <1>1, <1>4, <1>5
  <2> HIDE DEF h, T
  <2>2. \E i \in 1..(Cardinality(T) + 1) : h[i] = {} /\ \A j \in 1..(i - 1) : h[j] # {}
    BY <2>1, FirstFree
  <2> QED BY <2>2 DEF T
<1>7. \E i \in 1..N : Free(i) /\ \A j \in 1..(i - 1) : ~Free(j)
  <2>1. PICK i \in 1..N : h[i] = {} /\ \A j \in 1..(i - 1) : h[j] # {}
    BY <1>6
  <2>2. \A j \in 1..(i - 1) : j \in 1..N
    BY <1>1
  <2> HIDE DEF Others, N
  <2> QED BY <2>1, <2>2
<1> HIDE DEF Free
<1>8. n0 \in 1..N /\ Free(n0) /\ \A j \in 1..(n0 - 1) : ~Free(j)
  <2> HIDE DEF N
  <2> QED BY <1>7
<1> HIDE DEF n0
<1>9. n0 \in Nat /\ n0 >= 1
  BY <1>1, <1>8
<1>10. Numbered(n0) \in Slugs
  <2> DEFINE B == {BaseOf[c] : c \in Convs} \cup Nat
  <2>1. slug \in Seq(B) /\ n0 \in B
    BY <1>9 DEF Slugs
  <2> HIDE DEF B
  <2>2. Append(slug, n0) \in Seq(B)
    BY <2>1
  <2> QED BY <2>2 DEF Slugs, B
<1>11. n0 # 1 => \E o \in Stored \ ({id} \cup Evicted(id, slug)) : sess[o].slug = slug
  <2>1. SUFFICES ASSUME n0 # 1 PROVE \E o \in Others(1) : TRUE
    <3>1. Numbered(1) = slug
      OBVIOUS
    <3> HIDE DEF Others, Numbered
    <3> QED BY <1>3, <3>1
  <2>2. 1 \in 1..(n0 - 1)
    BY <1>9, <2>1
  <2>3. ~Free(1)
    BY <1>8, <2>2
  <2> HIDE DEF Others
  <2> QED BY <2>3 DEF Free
<1>12. n0 = 1 => Numbered(n0) = slug
  OBVIOUS
<1> HIDE DEF Numbered
<1> QED BY <1>2, <1>10, <1>11, <1>12

(* What a write of a live session does to the store.                       *)
Upserted(id, slug, final, out) ==
  /\ out \subseteq Stored \ {id}
  /\ \A o \in out : ~sess[o].alive /\ sess[o].slug = slug
  /\ final \in Slugs /\ (slug = NoSlug => final = NoSlug)
  /\ final = slug \/ \E o \in Stored \ ({id} \cup out) : sess[o].slug = slug
  /\ DOMAIN sess' = (Stored \ out) \cup {id}
  /\ sess'[id] = [alive |-> TRUE, slug |-> final]
  /\ \A o \in Stored \ out : o # id => sess'[o] = sess[o]
  /\ kept' = kept \ out
  /\ \/ /\ phase = "up"
        /\ queue' = Append(queue, [id |-> id, slug |-> final])
        /\ excused' = excused \ {id}
     \/ queue' = queue /\ excused' = excused \cup {id}

LEMMA UpsertIs ==
  ASSUME StoreTypes, NEW id, NEW slug \in Slugs, UpsertLive(id, slug)
  PROVE  \E final, out : Upserted(id, slug, final, out)
<1> DEFINE final == FreeSlug(id, slug)
           out == Evicted(id, slug)
<1>1. out \subseteq Stored \ {id} /\ \A o \in out : ~sess[o].alive /\ sess[o].slug = slug
  BY DEF Evicted, Namesakes
<1>2. /\ final \in Slugs /\ (slug = NoSlug => final = NoSlug)
      /\ final = slug \/ \E o \in Stored \ ({id} \cup out) : sess[o].slug = slug
  BY FreeSlugIs
<1>3. /\ sess' = Put(Drop(sess, out), id, [alive |-> TRUE, slug |-> final])
      /\ kept' = kept \ out
      /\ \/ /\ phase = "up"
            /\ queue' = Append(queue, [id |-> id, slug |-> final])
            /\ excused' = excused \ {id}
         \/ queue' = queue /\ excused' = excused \cup {id}
  BY Zenon DEF UpsertLive
<1> HIDE DEF final, out
<1>4. /\ DOMAIN sess' = (Stored \ out) \cup {id}
      /\ sess'[id] = [alive |-> TRUE, slug |-> final]
      /\ \A o \in Stored \ out : o # id => sess'[o] = sess[o]
  <2> DEFINE f == Drop(sess, out)
             v == [alive |-> TRUE, slug |-> final]
             g == Put(f, id, v)
  <2>1. DOMAIN f = Stored \ out /\ \A o \in Stored \ out : f[o] = sess[o]
    BY DropIs DEF Stored
  <2>2. sess' = g
    BY <1>3
  <2> HIDE DEF f, v
  <2>3. DOMAIN g = DOMAIN f \cup {id} /\ g[id] = v /\ \A x \in DOMAIN f : x # id => g[x] = f[x]
    BY DEF Put
  <2> HIDE DEF g
  <2>4. DOMAIN sess' = DOMAIN g /\ sess'[id] = g[id] /\ \A x \in DOMAIN f : sess'[x] = g[x]
    BY <2>2
  <2> QED BY <2>1, <2>3, <2>4 DEF v
<1>5. Upserted(id, slug, final, out)
  BY <1>1, <1>2, <1>3, <1>4 DEF Upserted
<1> QED BY <1>5

LEMMA UpsertTypes ==
  ASSUME StoreTypes, QueueTypes, NEW id \in Sids, NEW slug, NEW final, NEW out,
         Upserted(id, slug, final, out), Host(id) # Local => slug = NoSlug
  PROVE  /\ Stored' \subseteq Ids /\ \A o \in Stored' : sess'[o] \in StoreRecord
         /\ \A o \in Stored' : sess'[o].alive => o \in Sids
         /\ \A o \in Stored' : Host(o) # Local => sess'[o].slug = NoSlug
         /\ queue' \in Seq(Upsert1)
<1> DEFINE new == [alive |-> TRUE, slug |-> final]
           e == [id |-> id, slug |-> final]
<1>1. new \in StoreRecord /\ new.slug = final /\ e \in Upsert1 /\ final \in Slugs
  BY DEF Upserted, StoreRecord, Upsert1
<1> HIDE DEF new, e
<1>2. /\ Stored' = (Stored \ out) \cup {id}
      /\ sess'[id] = new /\ \A o \in Stored \ out : o # id => sess'[o] = sess[o]
      /\ queue' = Append(queue, e) \/ queue' = queue
  BY DEF Upserted, Stored, new, e
<1>3. Stored' \subseteq Ids /\ \A o \in Stored' : sess'[o] \in StoreRecord
  BY <1>1, <1>2 DEF StoreTypes, Ids
<1>4. \A o \in Stored' : sess'[o].alive => o \in Sids
  BY <1>2 DEF StoreTypes
<1>5. \A o \in Stored' : Host(o) # Local => sess'[o].slug = NoSlug
  <2>1. Host(id) # Local => final = NoSlug
    BY DEF Upserted
  <2> QED BY <1>1, <1>2, <2>1 DEF StoreTypes
<1>6. queue' \in Seq(Upsert1)
  <2> DEFINE S == Upsert1
  <2>1. queue \in Seq(S) /\ e \in S
    BY <1>1 DEF QueueTypes
  <2> HIDE DEF S
  <2>2. Append(queue, e) \in Seq(S)
    BY <2>1, Appended
  <2> QED BY <1>2, <2>1, <2>2 DEF S
<1> QED BY <1>3, <1>4, <1>5, <1>6

(* A session is dead from now on.                                          *)
Dies(id) ==
  /\ DOMAIN sess' = Stored
  /\ \A o \in Stored : /\ sess'[o].slug = sess[o].slug /\ sess'[o] \in StoreRecord
                       /\ sess'[o].alive => sess[o].alive /\ o # id

LEMMA DeathIs ==
  ASSUME StoreTypes, NEW id,
         sess' = IF id \in Stored THEN [sess EXCEPT ![id].alive = FALSE] ELSE sess
  PROVE  Dies(id)
<1>1. CASE id \notin Stored
  BY <1>1 DEF Dies, StoreTypes, Stored
<1>2. CASE id \in Stored
  <2> DEFINE x == [sess[id] EXCEPT !.alive = FALSE]
  <2>1. sess' = [sess EXCEPT ![id] = x]
    BY <1>2
  <2>2. x \in StoreRecord /\ x.slug = sess[id].slug /\ x.alive = FALSE
    BY <1>2 DEF StoreTypes, StoreRecord
  <2> HIDE DEF x
  <2>3. /\ DOMAIN sess' = Stored /\ sess'[id] = x
        /\ \A o \in Stored : o # id => sess'[o] = sess[o]
    BY <1>2, <2>1 DEF Stored
  <2> QED BY <2>2, <2>3 DEF Dies, StoreTypes
<1> QED BY <1>1, <1>2

LEMMA DeathTypes ==
  ASSUME StoreTypes, NEW id, Dies(id)
  PROVE  /\ Stored' \subseteq Ids /\ \A o \in Stored' : sess'[o] \in StoreRecord
         /\ \A o \in Stored' : sess'[o].alive => o \in Sids
         /\ \A o \in Stored' : Host(o) # Local => sess'[o].slug = NoSlug
BY DEF Dies, StoreTypes, Stored

-----------------------------------------------------------------------------
(* The lists: no key has two places unless a client wrote it back.         *)

AllOnce == \A k : k \notin meddled => Once(items, k) /\ Once(view, k)
ListInv == ListTypes /\ AllOnce

LEMMA ListsSame ==
  ASSUME ListInv, UNCHANGED <<items, view, meddled>>
  PROVE  IsItems(items)' /\ IsItems(view)' /\ AllOnce'
BY DEF ListInv, ListTypes, AllOnce

LEMMA ListsKept ==
  ASSUME ListInv, Keeps(items, items'), UNCHANGED <<view, meddled>>
  PROVE  IsItems(items)' /\ IsItems(view)' /\ AllOnce'
BY DEF ListInv, ListTypes, AllOnce, Keeps

LEMMA StoreSame ==
  ASSUME ListInv, UNCHANGED storeVars
  PROVE  StoreTypes'
BY DEF ListInv, ListTypes, StoreTypes, storeVars, Stored

LEMMA QueueSame ==
  ASSUME ListInv, UNCHANGED <<queue, infos>>
  PROVE  QueueTypes'
BY DEF ListInv, ListTypes, QueueTypes

LEMMA LeavingSame ==
  ASSUME ListInv, UNCHANGED leaving
  PROVE  LeavingTypes'
BY DEF ListInv, ListTypes, LeavingTypes

LEMMA StutterKeepsLists ==
  ASSUME ListInv, UNCHANGED <<storeVars, infos, leaving, items, view, meddled>>
  PROVE  ListInv'
<1>1. UNCHANGED queue
  BY DEF storeVars
<1> QED BY <1>1, ListsSame, StoreSame, QueueSame, LeavingSame DEF ListInv, ListTypes

(* The start.                                                              *)
LEMMA EntriesAre ==
  ASSUME NEW its, IsItems(its), NEW e \in Entries(its)
  PROVE  /\ e[1] \in DOMAIN its /\ e[2] \in DOMAIN its[e[1]].sessions
         /\ its[e[1]].sessions[e[2]] \in KeysIn(its)
         /\ its[e[1]].sessions[e[2]] \in Keys
<1>1. e[1] \in DOMAIN its /\ e[2] \in DOMAIN its[e[1]].sessions
  BY DEF Entries
<1>2. its[e[1]].sessions \in Seq(Keys)
  BY <1>1 DEF IsItems, IsProject
<1> QED BY <1>1, <1>2, InKeys, InToSet

LEMMA KeyHasEntry ==
  ASSUME NEW its, IsItems(its), NEW k \in KeysIn(its)
  PROVE  \E e \in Entries(its) : its[e[1]].sessions[e[2]] = k
<1>1. PICK i \in DOMAIN its : k \in ToSet(its[i].sessions)
  BY InKeys
<1>2. PICK n \in DOMAIN its[i].sessions : its[i].sessions[n] = k
  BY <1>1, InToSet
<1>3. <<i, n>> \in Entries(its)
  BY DEF Entries
<1> QED BY <1>2, <1>3

LEMMA BySlugIs ==
  ASSUME IndexInv, NEW slug, NEW c \in BySlug(slug)
  PROVE  c \in Convs /\ c \in DOMAIN byToolID /\ byToolID[c] = slug
         /\ slug \in Slugs \ {NoSlug}
BY DEF IndexInv, IndexAgrees, Agree, BySlug

(* What rehydrateProjects makes of the entries.                            *)
Restores(new) ==
  /\ new \cap Stored = {} /\ new \subseteq DOMAIN byToolID
  /\ DOMAIN sess' = Stored \cup new
  /\ \A c \in new : sess'[c] = [alive |-> FALSE, slug |-> byToolID[c]]
  /\ \A o \in Stored : sess'[o] = sess[o]
  /\ \A e \in Entries(items) :
       LET c == BySlug(items[e[1]].sessions[e[2]])
       IN  c = {} \/ \E d \in c : d \in new \cup Stored \/ HasLocalSlug(KindOf[d], byToolID[d])

LEMMA RehydrateIs ==
  ASSUME IndexInv, ListInv, Rehydrate
  PROVE  \E new : Restores(new)
<1> DEFINE Lookup(e) == BySlug(items[e[1]].sessions[e[2]])
           found == {e \in Entries(items) : Lookup(e) # {}}
<1>1. PICK info \in {f \in [found -> Convs] : \A e \in found : f[e] \in Lookup(e)} :
        LET new == {c \in {info[e] : e \in found} : Missing(c)}
        IN  sess' = [id \in Stored \cup new |->
                       IF id \in new THEN [alive |-> FALSE, slug |-> byToolID[id]]
                       ELSE sess[id]]
  BY Zenon DEF Rehydrate
<1> DEFINE new == {c \in {info[e] : e \in found} : Missing(c)}
<1>2. sess' = [id \in Stored \cup new |->
                 IF id \in new THEN [alive |-> FALSE, slug |-> byToolID[id]] ELSE sess[id]]
  BY <1>1
<1>3. \A e \in found : info[e] \in Lookup(e)
  BY <1>1
<1>4. \A e \in found : info[e] \in DOMAIN byToolID
  BY <1>3, BySlugIs
<1>5. new \cap Stored = {} /\ new \subseteq DOMAIN byToolID
  BY <1>4 DEF Missing
<1>6. \A e \in found : info[e] \in new \/ info[e] \in Stored
                       \/ HasLocalSlug(KindOf[info[e]], byToolID[info[e]])
  BY DEF Missing
<1>7. \A e \in Entries(items) : Lookup(e) = {} \/ e \in found
  OBVIOUS
<1> HIDE DEF new, found, Lookup
<1>8. /\ DOMAIN sess' = Stored \cup new
      /\ \A c \in new : sess'[c] = [alive |-> FALSE, slug |-> byToolID[c]]
      /\ \A o \in Stored : sess'[o] = sess[o]
  BY <1>2, <1>5
<1>9. \A e \in Entries(items) :
        Lookup(e) = {} \/ \E d \in Lookup(e) : d \in new \cup Stored
                                               \/ HasLocalSlug(KindOf[d], byToolID[d])
  BY <1>3, <1>6, <1>7
<1>10. Restores(new)
  BY <1>5, <1>8, <1>9 DEF Restores, Lookup
<1> QED BY <1>10

LEMMA RehydrateKeepsLists ==
  ASSUME IndexInv, ListInv, Rehydrate
  PROVE  ListInv'
<1>1. PICK new : Restores(new)
  BY RehydrateIs
<1>2. new \subseteq Convs /\ \A c \in new : byToolID[c] \in Slugs
  BY <1>1 DEF Restores, IndexInv, IndexAgrees, Agree
<1>3. StoreTypes'
  <2>1. Stored' = Stored \cup new
    BY <1>1 DEF Restores, Stored
  <2>2. ASSUME NEW c \in new
        PROVE  sess'[c] \in StoreRecord /\ sess'[c].alive = FALSE /\ (Host(c) = Local)
    <3>1. sess'[c] = [alive |-> FALSE, slug |-> byToolID[c]]
      BY <1>1 DEF Restores
    <3>2. Host(c) = Local
      BY <1>2, ProjectsAssumption DEF Host, Local
    <3> QED BY <1>2, <3>1, <3>2 DEF StoreRecord
  <2>3. \A o \in Stored : sess'[o] = sess[o]
    BY <1>1 DEF Restores
  <2>4. runs' = runs
    BY DEF Rehydrate
  <2> QED BY <1>2, <2>1, <2>2, <2>3, <2>4 DEF ListInv, ListTypes, StoreTypes, Ids
<1>4. UNCHANGED <<queue, infos, leaving, view, meddled>> /\ items' = SeedIfEmpty
  BY DEF Rehydrate, addVars
<1>5. QueueTypes' /\ LeavingTypes'
  BY <1>4, QueueSame, LeavingSame
<1>6. CASE items # <<>>
  <2>1. items' = items
    BY <1>4, <1>6 DEF SeedIfEmpty
  <2> QED BY <1>3, <1>4, <1>5, <2>1, ListsSame DEF ListInv, ListTypes
<1>7. CASE items = <<>>
  <2>1. items' = <<Seed>>
    BY <1>4, <1>7 DEF SeedIfEmpty
  <2>2. IsItems(<<Seed>>) /\ \A k : Once(<<Seed>>, k)
    <3> DEFINE s == <<Seed>>
    <3>1. s \in Seq({Seed}) /\ DOMAIN s = {1} /\ s[1] = Seed
      OBVIOUS
    <3>2. Seed.sessions = <<>> /\ IsProject(Seed)
      <4> DEFINE x == [name |-> Seed.name, match |-> Seed.match, sessions |-> <<>>]
      <4>1. Seed = x
        BY ProjectsAssumption
      <4>2. x.sessions = <<>>
        OBVIOUS
      <4> HIDE DEF x
      <4>3. Seed.sessions = <<>>
        BY <4>1, <4>2, Zenon
      <4>4. Seed = [name |-> Seed.name, match |-> Seed.match, sessions |-> Seed.sessions]
        BY <4>1, <4>3, Zenon DEF x
      <4>5. <<>> \in Seq(Keys)
        OBVIOUS
      <4> QED BY <4>3, <4>4, <4>5 DEF IsProject
    <3>3. ToSet(Seed.sessions) = {} /\ \A k : OnceIn(Seed.sessions, k)
      BY <3>2 DEF ToSet, OnceIn
    <3> HIDE DEF s
    <3>4. IsItems(s) /\ \A k : Once(s, k)
      BY <3>1, <3>2, <3>3 DEF IsItems, Once
    <3> QED BY <3>4 DEF s
  <2>3. IsItems(items)' /\ IsItems(view)' /\ AllOnce'
    BY <1>4, <2>1, <2>2 DEF ListInv, ListTypes, AllOnce
  <2> QED BY <1>3, <1>5, <2>3 DEF ListInv, ListTypes
<1> QED BY <1>6, <1>7

(* The sessions.                                                           *)
LEMMA UpsertKeepsLists ==
  ASSUME ListInv, NEW id \in Sids, NEW slug \in Slugs, UpsertLive(id, slug),
         Host(id) # Local => slug = NoSlug, UNCHANGED <<runs, infos, leaving, items, view, meddled>>
  PROVE  ListInv'
<1>1. StoreTypes /\ QueueTypes
  BY DEF ListInv, ListTypes
<1>2. PICK final, out : Upserted(id, slug, final, out)
  BY <1>1, UpsertIs
<1>3. StoreTypes' /\ queue' \in Seq(Upsert1)
  BY <1>1, <1>2, UpsertTypes DEF StoreTypes
<1>4. QueueTypes'
  BY <1>1, <1>3 DEF QueueTypes
<1> QED BY <1>3, <1>4, LeavingSame, ListsSame DEF ListInv, ListTypes

LEMMA DeathKeepsLists ==
  ASSUME ListInv, NEW id, Dies(id), runs' \subseteq runs,
         UNCHANGED <<queue, infos, items, view, meddled>>, LeavingTypes'
  PROVE  ListInv'
<1>1. StoreTypes'
  BY DeathTypes DEF ListInv, ListTypes, StoreTypes
<1> QED BY <1>1, QueueSame, ListsSame DEF ListInv, ListTypes

LEMMA SessionsKeepLists ==
  ASSUME ListInv, NEW s \in Sids,
         StartRunner(s) \/ Register(s) \/ PeerUpsert(s) \/ Attribute(s) \/ Exit(s)
  PROVE  ListInv'
<1>1. CASE StartRunner(s)
  <2>1. StoreTypes'
    BY <1>1 DEF StartRunner, ListInv, ListTypes, StoreTypes, Stored
  <2>2. UNCHANGED <<queue, infos, leaving, items, view, meddled>>
    BY <1>1 DEF StartRunner, addVars
  <2> QED BY <2>1, <2>2, QueueSame, LeavingSame, ListsSame DEF ListInv, ListTypes
<1>2. CASE Register(s)
  <2> DEFINE slug == IF s \in Stored THEN sess[s].slug ELSE NoSlug
  <2>1. slug \in Slugs
    BY NoSlugIs DEF ListInv, ListTypes, StoreTypes, StoreRecord
  <2>2. Host(s) = Local
    BY <1>2 DEF Register, ListInv, ListTypes, StoreTypes
  <2>3. UpsertLive(s, slug) /\ UNCHANGED <<runs, infos, leaving, items, view, meddled>>
    BY <1>2 DEF Register, addVars
  <2> HIDE DEF slug
  <2> QED BY <2>1, <2>2, <2>3, UpsertKeepsLists
<1>3. CASE PeerUpsert(s)
  <2>1. UpsertLive(s, NoSlug) /\ UNCHANGED <<runs, infos, leaving, items, view, meddled>>
    BY <1>3 DEF PeerUpsert, addVars
  <2> QED BY <2>1, NoSlugIs, UpsertKeepsLists
<1>4. CASE Attribute(s)
  <2> DEFINE slug == <<BaseOf[ConvOf[s]]>>
  <2>1. slug \in Slugs
    <3> DEFINE B == {BaseOf[c] : c \in Convs} \cup Nat
    <3>1. BaseOf[ConvOf[s]] \in B
      BY ProjectsAssumption
    <3> HIDE DEF B
    <3>2. slug \in Seq(B)
      BY <3>1
    <3> QED BY <3>2 DEF Slugs, B
  <2>2. Host(s) = Local
    BY <1>4 DEF Attribute, ListInv, ListTypes, StoreTypes
  <2>3. UpsertLive(s, slug) /\ UNCHANGED <<runs, infos, leaving, items, view, meddled>>
    BY <1>4 DEF Attribute, addVars
  <2> HIDE DEF slug
  <2> QED BY <2>1, <2>2, <2>3, UpsertKeepsLists
<1>5. CASE Exit(s)
  <2>1. /\ sess' = IF s \in Stored THEN [sess EXCEPT ![s].alive = FALSE] ELSE sess
        /\ runs' \subseteq runs /\ UNCHANGED <<queue, infos, leaving, items, view, meddled>>
    BY <1>5 DEF Exit, addVars
  <2>2. Dies(s)
    BY <2>1, DeathIs DEF ListInv, ListTypes
  <2> QED BY <2>1, <2>2, LeavingSame, DeathKeepsLists
<1> QED BY <1>1, <1>2, <1>3, <1>4, <1>5

LEMMA BeginsIs ==
  ASSUME StoreTypes, NEW id, BeginsToLeave(id)
  PROVE  Dies(id)
<1>1. sess' = IF id \in Stored THEN [sess EXCEPT ![id].alive = FALSE] ELSE sess
  BY DEF BeginsToLeave
<1> QED BY <1>1, DeathIs

(* What the removal of a record leaves.                                    *)
LEMMA RemovalIs ==
  ASSUME NEW id, RemoveSession(id)
  PROVE  /\ Stored' = Stored \ {id} /\ \A o \in Stored' : sess'[o] = sess[o]
         /\ DOMAIN leaving' = DOMAIN leaving \ {id}
         /\ \A o \in DOMAIN leaving' : leaving'[o] = leaving[o]
         /\ UNCHANGED <<phase, runs, queue, items, view, adding, infos, clean, known, excused,
                        meddled>>
         /\ kept' = kept \ ({id} \cup {sess[o].slug : o \in Stored \cap {id}})
<1>1. sess' = Drop(sess, {id}) /\ leaving' = Drop(leaving, {id})
  BY DEF RemoveSession
<1>2. /\ DOMAIN sess' = DOMAIN sess \ {id} /\ \A o \in DOMAIN sess' : sess'[o] = sess[o]
      /\ DOMAIN leaving' = DOMAIN leaving \ {id}
      /\ \A o \in DOMAIN leaving' : leaving'[o] = leaving[o]
  BY <1>1 DEF Drop
<1>3. /\ UNCHANGED <<phase, runs, queue, items, view, adding, infos, clean, known, excused,
                     meddled>>
      /\ kept' = kept \ ({id} \cup {sess[o].slug : o \in Stored \cap {id}})
  BY DEF RemoveSession, addVars, cleanVars
<1> QED BY <1>2, <1>3 DEF Stored

LEMMA LeaversKeepLists ==
  ASSUME ListInv, NEW id \in Ids, BeginsToLeave(id) \/ DismissSession(id) \/ RemoveSession(id)
  PROVE  ListInv'
<1>1. CASE BeginsToLeave(id)
  <2>1. Dies(id)
    BY <1>1, BeginsIs DEF ListInv, ListTypes
  <2>2. runs' \subseteq runs /\ UNCHANGED <<queue, infos, items, view, meddled>>
    BY <1>1 DEF BeginsToLeave, addVars
  <2>3. LeavingTypes'
    <3> DEFINE x == [step |-> "key", slug |-> sess[id].slug]
    <3>1. leaving' = Put(leaving, id, x) /\ id \in Stored
      BY <1>1 DEF BeginsToLeave
    <3>2. x.slug \in Slugs
      BY <3>1 DEF ListInv, ListTypes, StoreTypes, StoreRecord
    <3> HIDE DEF x
    <3>3. DOMAIN leaving' = DOMAIN leaving \cup {id} /\ leaving'[id] = x
          /\ \A o \in DOMAIN leaving : o # id => leaving'[o] = leaving[o]
      BY <3>1 DEF Put
    <3> QED BY <3>2, <3>3 DEF ListInv, ListTypes, LeavingTypes
  <2> QED BY <2>1, <2>2, <2>3, DeathKeepsLists
<1>2. CASE DismissSession(id)
  <2>1. items' = DismissKey(items, id, leaving[id].slug)
    BY <1>2 DEF DismissSession, Save
  <2>2. UNCHANGED <<storeVars, queue, infos, view, meddled>>
    BY <1>2 DEF DismissSession, storeVars, addVars
  <2>3. Keeps(items, items')
    BY <2>1, Dismissed DEF ListInv, ListTypes
  <2>4. LeavingTypes'
    <3> DEFINE x == [leaving[id] EXCEPT !.step = "record"]
    <3>1. leaving' = [leaving EXCEPT ![id] = x] /\ id \in DOMAIN leaving
      BY <1>2 DEF DismissSession
    <3>2. x.slug = leaving[id].slug
      OBVIOUS
    <3> HIDE DEF x
    <3>3. DOMAIN leaving' = DOMAIN leaving
          /\ \A o \in DOMAIN leaving : leaving'[o].slug = leaving[o].slug
      BY <3>1, <3>2
    <3> QED BY <3>3 DEF ListInv, ListTypes, LeavingTypes
  <2> QED BY <2>2, <2>3, <2>4, StoreSame, QueueSame, ListsKept DEF ListInv, ListTypes
<1>3. CASE RemoveSession(id)
  <2>1. /\ Stored' = Stored \ {id} /\ \A o \in Stored' : sess'[o] = sess[o]
        /\ DOMAIN leaving' = DOMAIN leaving \ {id}
        /\ \A o \in DOMAIN leaving' : leaving'[o] = leaving[o]
        /\ UNCHANGED <<runs, queue, infos, items, view, meddled>>
    BY <1>3, RemovalIs
  <2>2. StoreTypes'
    BY <2>1 DEF ListInv, ListTypes, StoreTypes
  <2>3. LeavingTypes'
    BY <2>1 DEF ListInv, ListTypes, LeavingTypes
  <2> QED BY <2>1, <2>2, <2>3, QueueSame, ListsSame DEF ListInv, ListTypes
<1> QED BY <1>1, <1>2, <1>3

(* The keys.                                                               *)
LEMMA AssignIs ==
  ASSUME ListInv, Assign
  PROVE  /\ queue \in Seq(Upsert1) /\ queue # <<>> /\ queue' = Tail(queue)
         /\ Head(queue).id \in Sids /\ Head(queue).slug \in Slugs
         /\ items' = AutoAssign(items, Head(queue).id, Head(queue).slug)
         /\ kept' = kept \cap KeysIn(items')
         /\ UNCHANGED <<phase, sess, runs, adding, infos, leaving, view, clean, known, excused,
                        meddled>>
<1>1. queue \in Seq(Upsert1) /\ queue # <<>>
  BY DEF Assign, ListInv, ListTypes, QueueTypes
<1>2. Head(queue) \in Upsert1
  <2> DEFINE S == Upsert1
  <2>1. queue \in Seq(S)
    BY <1>1
  <2> HIDE DEF S
  <2>2. Head(queue) \in S
    BY <1>1, <2>1
  <2> QED BY <2>2 DEF S
<1>3. Head(queue).id \in Sids /\ Head(queue).slug \in Slugs
  BY <1>2 DEF Upsert1
<1> QED BY <1>1, <1>3 DEF Assign, Save, addVars, cleanVars

LEMMA AssignKeepsLists ==
  ASSUME ListInv, Assign
  PROVE  ListInv'
<1>1. /\ queue \in Seq(Upsert1) /\ queue # <<>> /\ queue' = Tail(queue)
      /\ Head(queue).id \in Ids /\ Head(queue).slug \in Slugs
      /\ items' = AutoAssign(items, Head(queue).id, Head(queue).slug)
      /\ UNCHANGED <<sess, runs, infos, leaving, view, meddled>>
  BY AssignIs DEF Ids
<1>2. Keeps(items, items')
  BY <1>1, AutoAssigned DEF ListInv, ListTypes
<1>3. queue' \in Seq(Upsert1)
  <2> DEFINE S == Upsert1
  <2>1. queue \in Seq(S)
    BY <1>1
  <2> HIDE DEF S
  <2>2. queue' \in Seq(S)
    BY <1>1, <2>1
  <2> QED BY <2>2 DEF S
<1>4. StoreTypes' /\ QueueTypes'
  BY <1>1, <1>3 DEF ListInv, ListTypes, StoreTypes, QueueTypes, Stored
<1> QED BY <1>1, <1>2, <1>4, LeavingSame, ListsKept DEF ListInv, ListTypes

(* The pass takes every session that was listed.                           *)
LEMMA AssignPassIs ==
  ASSUME ListInv, AutoAssignAllAlive
  PROVE  \E order \in Seq(Ids) :
           /\ \A n \in DOMAIN order : infos[order[n]] \in Slugs
           /\ \A o \in DOMAIN infos : \E n \in DOMAIN order : order[n] = o
           /\ items' = AssignAll(items, order, infos) /\ kept' = kept \cap KeysIn(items')
<1>1. PICK order \in [1..Cardinality(DOMAIN infos) -> DOMAIN infos] :
        /\ ToSet(order) = DOMAIN infos
        /\ Save(AssignAll(items, order, infos))
  BY DEF AutoAssignAllAlive
<1>2. DOMAIN infos \subseteq Ids /\ \A o \in DOMAIN infos : infos[o] \in Slugs
  BY DEF ListInv, ListTypes, QueueTypes
<1>3. Cardinality(DOMAIN infos) \in Nat
  <2>1. IsFiniteSet(Ids)
    BY FS_Union, ConversationIndexAssumption, ProjectsAssumption DEF Ids
  <2>2. IsFiniteSet(DOMAIN infos)
    BY <1>2, <2>1, FS_Subset
  <2> QED BY <2>2, FS_CardinalityType
<1>4. order \in Seq(Ids)
  BY <1>2, <1>3
<1>5. \A n \in DOMAIN order : infos[order[n]] \in Slugs
  BY <1>2
<1>6. \A o \in DOMAIN infos : \E n \in DOMAIN order : order[n] = o
  BY <1>1, InToSet
<1>7. items' = AssignAll(items, order, infos) /\ kept' = kept \cap KeysIn(items')
  BY <1>1 DEF Save
<1> QED BY <1>4, <1>5, <1>6, <1>7

LEMMA AddsKeepLists ==
  ASSUME ListInv, NEW q, AddProject(q) \/ AddLists \/ AutoAssignAllAlive
  PROVE  ListInv'
<1>1. CASE AddProject(q)
  <2> DEFINE new == Append(items, [name |-> Unique(q.name, items), match |-> q.match,
                                   sessions |-> <<>>])
  <2>1. items' = new /\ UNCHANGED <<storeVars, queue, infos, leaving, view, meddled>>
    BY <1>1 DEF AddProject, Save, storeVars
  <2>2. IsItems(new) /\ \A k : Once(items, k) => Once(new, k)
    <3> DEFINE name == Unique(q.name, items)
               match == q.match
    <3> HIDE DEF name, match
    <3>1. LET its == Append(items, [name |-> name, match |-> match, sessions |-> <<>>])
          IN  IsItems(its) /\ KeysIn(its) = KeysIn(items) /\ \A k : Once(items, k) => Once(its, k)
      BY AppendedProject DEF ListInv, ListTypes
    <3> QED BY <3>1, Zenon DEF name, match
  <2> HIDE DEF new
  <2>3. IsItems(items)' /\ IsItems(view)' /\ AllOnce'
    BY <2>1, <2>2 DEF ListInv, ListTypes, AllOnce
  <2> QED BY <2>1, <2>3, StoreSame, QueueSame, LeavingSame DEF ListInv, ListTypes
<1>2. CASE AddLists
  <2>1. infos' = [id \in {o \in Stored : sess[o].alive} |-> sess[id].slug]
        /\ UNCHANGED <<storeVars, queue, leaving, items, view, meddled>>
    BY <1>2 DEF AddLists, storeVars
  <2>2. QueueTypes'
    BY <2>1 DEF ListInv, ListTypes, StoreTypes, QueueTypes, StoreRecord
  <2> QED BY <2>1, <2>2, StoreSame, LeavingSame, ListsSame DEF ListInv, ListTypes
<1>3. CASE AutoAssignAllAlive
  <2>1. infos' = <<>> /\ UNCHANGED <<storeVars, queue, leaving, view, meddled>>
    BY <1>3 DEF AutoAssignAllAlive, storeVars
  <2>2. QueueTypes'
    <3>1. DOMAIN infos' = {}
      BY <2>1
    <3> QED BY <2>1, <3>1 DEF ListInv, ListTypes, QueueTypes
  <2>3. PICK order \in Seq(Ids) : /\ \A n \in DOMAIN order : infos[order[n]] \in Slugs
                                  /\ items' = AssignAll(items, order, infos)
    BY <1>3, AssignPassIs
  <2>4. Keeps(items, items')
    BY <2>3, AssignedAll DEF ListInv, ListTypes
  <2> QED BY <2>1, <2>2, <2>4, StoreSame, LeavingSame, ListsKept DEF ListInv, ListTypes
<1> QED BY <1>1, <1>2, <1>3

LEMMA PatchIs ==
  ASSUME ListInv, PatchSessions
  PROVE  \E i \in DOMAIN view, j \in DOMAIN items :
           LET keys == Reverse(view[i].sessions)
           IN  /\ GivesKeys(items, j, keys, items')
               /\ \A k : OnceIn(view[i].sessions, k) => OnceIn(keys, k)
               /\ kept' = kept \cap KeysIn(items')
               /\ excused' = excused \cup Unlisted(items')
               /\ meddled' = meddled \cup (ToSet(keys) \ ToSet(items[j].sessions))
<1>1. PICK i \in DOMAIN view, j \in DOMAIN items :
        LET keys == Reverse(view[i].sessions)
            its == [items EXCEPT ![j].sessions = keys]
        IN  /\ Save(its)
            /\ excused' = excused \cup Unlisted(its)
            /\ meddled' = meddled \cup (ToSet(keys) \ ToSet(items[j].sessions))
  BY Zenon DEF PatchSessions
<1> DEFINE keys == Reverse(view[i].sessions)
           its == [items EXCEPT ![j].sessions = keys]
<1>2. view[i].sessions \in Seq(Keys)
  BY DEF ListInv, ListTypes, IsItems, IsProject
<1>3. keys \in Seq(Keys) /\ \A k : OnceIn(view[i].sessions, k) => OnceIn(keys, k)
  BY <1>2, ReverseKeys
<1>4. /\ Save(its) /\ excused' = excused \cup Unlisted(its)
      /\ meddled' = meddled \cup (ToSet(keys) \ ToSet(items[j].sessions))
  BY <1>1
<1>5. items' = its /\ kept' = kept \cap KeysIn(its)
  BY <1>4 DEF Save
<1> HIDE DEF keys
<1>6. GivesKeys(items, j, keys, items')
  BY <1>3, <1>5 DEF GivesKeys, ListInv, ListTypes
<1>7. kept' = kept \cap KeysIn(items') /\ excused' = excused \cup Unlisted(items')
  BY <1>4, <1>5, Zenon
<1>8. /\ GivesKeys(items, j, keys, items')
      /\ \A k : OnceIn(view[i].sessions, k) => OnceIn(keys, k)
      /\ kept' = kept \cap KeysIn(items')
      /\ excused' = excused \cup Unlisted(items')
      /\ meddled' = meddled \cup (ToSet(keys) \ ToSet(items[j].sessions))
  BY <1>3, <1>4, <1>6, <1>7, Zenon
<1> QED BY <1>8, Zenon DEF keys

LEMMA ClientsKeepLists ==
  ASSUME ListInv, Fetch \/ PutProjects \/ PatchSessions
  PROVE  ListInv'
<1>1. UNCHANGED <<storeVars, queue, infos, leaving>>
  BY DEF Fetch, PutProjects, PatchSessions, storeVars, addVars
<1>2. StoreTypes' /\ QueueTypes' /\ LeavingTypes'
  BY <1>1, StoreSame, QueueSame, LeavingSame
<1>3. CASE Fetch
  <2>1. view' = items /\ items' = items /\ meddled' = meddled
    BY <1>3 DEF Fetch
  <2>2. IsItems(items)' /\ IsItems(view)' /\ AllOnce'
    BY <2>1 DEF ListInv, ListTypes, AllOnce
  <2> QED BY <1>2, <2>2 DEF ListInv, ListTypes
<1>4. CASE PutProjects
  <2>1. view' = <<>> /\ meddled' = meddled
    BY <1>4 DEF PutProjects
  <2>2. \E its \in {Reverse(view)} \cup {RemoveAt(view, i) : i \in DOMAIN view} : items' = its
    BY <1>4 DEF PutProjects, Save
  <2>3. IsItems(items') /\ \A k : Once(view, k) => Once(items', k)
    <3>1. CASE items' = Reverse(view)
      BY <3>1, ReversedItems DEF ListInv, ListTypes
    <3>2. CASE \E i \in DOMAIN view : items' = RemoveAt(view, i)
      BY <3>2, ItemsWithout DEF ListInv, ListTypes
    <3> QED BY <2>2, <3>1, <3>2
  <2>4. IsItems(items)' /\ IsItems(view)' /\ AllOnce'
    BY <2>1, <2>3, EmptyItems DEF ListInv, ListTypes, AllOnce
  <2> QED BY <1>2, <2>4 DEF ListInv, ListTypes
<1>5. CASE PatchSessions
  <2>1. view' = <<>>
    BY <1>5 DEF PatchSessions
  <2>2. PICK i \in DOMAIN view, j \in DOMAIN items :
          LET keys == Reverse(view[i].sessions)
          IN  /\ GivesKeys(items, j, keys, items')
              /\ \A k : OnceIn(view[i].sessions, k) => OnceIn(keys, k)
              /\ meddled' = meddled \cup (ToSet(keys) \ ToSet(items[j].sessions))
    BY <1>5, PatchIs
  <2> DEFINE keys == Reverse(view[i].sessions)
  <2>3. /\ GivesKeys(items, j, keys, items')
        /\ \A k : OnceIn(view[i].sessions, k) => OnceIn(keys, k)
        /\ meddled' = meddled \cup (ToSet(keys) \ ToSet(items[j].sessions))
    BY <2>2, Zenon
  <2> HIDE DEF keys
  <2>4. /\ IsItems(items')
        /\ \A k : /\ Once(items, k)
                  /\ OnceIn(keys, k)
                  /\ k \in ToSet(keys) => k \in ToSet(items[j].sessions) \/ k \notin KeysIn(items)
                  => Once(items', k)
    BY <2>3, WithSessions
  <2>5. ASSUME NEW k, k \notin meddled' PROVE Once(items', k)
    <3>1. k \notin meddled /\ (k \in ToSet(keys) => k \in ToSet(items[j].sessions))
      BY <2>3, <2>5
    <3>2. Once(items, k) /\ OnceIn(view[i].sessions, k)
      BY <3>1 DEF ListInv, AllOnce, Once
    <3> QED BY <2>3, <2>4, <3>1, <3>2
  <2>6. IsItems(items)' /\ IsItems(view)' /\ AllOnce'
    BY <2>1, <2>4, <2>5, EmptyItems DEF AllOnce
  <2> QED BY <1>2, <2>6 DEF ListInv, ListTypes
<1> QED BY <1>3, <1>4, <1>5

LEMMA CleaningKeepsLists ==
  ASSUME ListInv, CleanLists \/ CleanupSessions
  PROVE  ListInv'
<1>1. UNCHANGED <<storeVars, queue, infos, leaving, view, meddled>>
  BY DEF CleanLists, CleanupSessions, storeVars, addVars
<1>2. StoreTypes' /\ QueueTypes' /\ LeavingTypes'
  BY <1>1, StoreSame, QueueSame, LeavingSame
<1>3. CASE CleanLists
  BY <1>1, <1>2, <1>3, ListsSame DEF CleanLists, ListInv, ListTypes
<1>4. CASE CleanupSessions
  <2>1. items' = Cleaned(items, known)
    BY <1>4 DEF CleanupSessions, Cleaned
  <2>2. Keeps(items, items')
    BY <2>1, CleanedKeys DEF ListInv, ListTypes
  <2> QED BY <1>1, <1>2, <2>2, ListsKept DEF ListInv, ListTypes
<1> QED BY <1>3, <1>4

LEMMA RestartKeepsLists ==
  ASSUME ListInv, Restart
  PROVE  ListInv'
<1>1. /\ sess' = [id \in {o \in Stored : Host(o) = Local} |-> [sess[id] EXCEPT !.alive = FALSE]]
      /\ queue' = <<>> /\ infos' = <<>> /\ leaving' = <<>>
      /\ UNCHANGED <<runs, items, view, meddled>>
  BY DEF Restart
<1>2. \A x \in StoreRecord : [x EXCEPT !.alive = FALSE] \in StoreRecord
                        /\ ~[x EXCEPT !.alive = FALSE].alive
  BY DEF StoreRecord
<1>3. StoreTypes'
  <2>1. \A o \in Stored' : o \in Stored /\ Host(o) = Local /\ sess'[o] = [sess[o] EXCEPT !.alive = FALSE]
    BY <1>1 DEF Stored
  <2>2. Stored \subseteq Ids /\ \A o \in Stored : sess[o] \in StoreRecord
    BY DEF ListInv, ListTypes, StoreTypes
  <2>3. \A o \in Stored' : sess'[o] \in StoreRecord /\ ~sess'[o].alive
    BY <1>2, <2>1, <2>2
  <2>4. runs' \subseteq {s \in Sids : Host(s) = Local}
    BY <1>1 DEF ListInv, ListTypes, StoreTypes
  <2> QED BY <2>1, <2>2, <2>3, <2>4 DEF StoreTypes
<1>4. DOMAIN <<>> = {} /\ <<>> \in Seq(Upsert1)
  OBVIOUS
<1>5. QueueTypes' /\ LeavingTypes'
  BY <1>1, <1>4 DEF QueueTypes, LeavingTypes
<1> QED BY <1>1, <1>3, <1>5, ListsSame DEF ListInv, ListTypes

LEMMA StepKeepsLists ==
  ASSUME IndexInv, ListInv, [Next]_vars
  PROVE  ListInv'
<1>1. CASE StartScans \/ StartWatches \/ SubscribeAssigner
  BY <1>1, StutterKeepsLists DEF StartScans, StartWatches, SubscribeAssigner, addVars
<1>2. CASE Rehydrate
  BY <1>2, RehydrateKeepsLists
<1>3. CASE CleanLists \/ CleanupSessions
  BY <1>3, CleaningKeepsLists
<1>4. CASE \E s \in Sids :
             StartRunner(s) \/ Register(s) \/ PeerUpsert(s) \/ Attribute(s) \/ Exit(s)
  BY <1>4, SessionsKeepLists
<1>5. CASE \E id \in Sids \cup Convs : BeginsToLeave(id) \/ DismissSession(id) \/ RemoveSession(id)
  BY <1>5, LeaversKeepLists DEF Ids
<1>6. CASE Assign
  BY <1>6, AssignKeepsLists
<1>7. CASE (\E q \in Requests \cup Discovered(items) : AddProject(q)) \/ AddLists
           \/ AutoAssignAllAlive
  BY <1>7, AddsKeepLists
<1>8. CASE Fetch \/ PutProjects \/ PatchSessions
  BY <1>8, ClientsKeepLists
<1>9. CASE Restart
  BY <1>9, RestartKeepsLists
<1>10. CASE UNCHANGED projVars
  BY <1>10, StutterKeepsLists DEF projVars, addVars
<1> QED BY <1>1, <1>2, <1>3, <1>4, <1>5, <1>6, <1>7, <1>8, <1>9, <1>10 DEF Next, vars

LEMMA InitLists == Init => ListInv
<1> SUFFICES ASSUME Init PROVE ListInv
  OBVIOUS
<1>1. DOMAIN <<>> = {} /\ <<>> \in Seq(Upsert1)
  OBVIOUS
<1>2. StoreTypes /\ QueueTypes /\ LeavingTypes
  BY <1>1 DEF Init, StoreTypes, QueueTypes, LeavingTypes, Stored
<1> QED BY <1>2, EmptyItems DEF Init, ListInv, ListTypes, AllOnce

(* No key of a session is in two places of the projects, and in none       *)
(* twice (internal/projects), whether events, the pass after a project is  *)
(* added, dismissals, clean-ups or clients have put it there, unless a     *)
(* client wrote it back where it no longer was.                            *)
THEOREM OneEntryEach == Spec => []OneEntry
<1>1. IndexInv /\ ListInv /\ [Next]_vars => IndexInv' /\ ListInv'
  BY StepKeepsIndex, StepKeepsLists
<1>2. ListInv => OneEntry
  <2> SUFFICES ASSUME ListInv, NEW k \in Listed \ meddled
               PROVE  /\ \A i, j \in DOMAIN items :
                           Contains(items[i].sessions, k) /\ Contains(items[j].sessions, k) => i = j
                      /\ \A i \in DOMAIN items :
                           Cardinality({n \in DOMAIN items[i].sessions :
                                          items[i].sessions[n] = k}) <= 1
    BY DEF OneEntry
  <2>1. Once(items, k)
    BY DEF ListInv, AllOnce
  <2>2. \A i \in DOMAIN items : items[i].sessions \in Seq(Keys)
    BY DEF ListInv, ListTypes, IsItems, IsProject
  <2>3. \A i \in DOMAIN items : Contains(items[i].sessions, k) => k \in ToSet(items[i].sessions)
    BY <2>2 DEF Contains, ToSet
  <2>4. \A i, j \in DOMAIN items :
          Contains(items[i].sessions, k) /\ Contains(items[j].sessions, k) => i = j
    BY <2>1, <2>3 DEF Once
  <2>5. ASSUME NEW i \in DOMAIN items
        PROVE  Cardinality({n \in DOMAIN items[i].sessions : items[i].sessions[n] = k}) <= 1
    <3> DEFINE T == {n \in DOMAIN items[i].sessions : items[i].sessions[n] = k}
    <3>1. \A m, n \in T : m = n
      BY <2>1 DEF Once, OnceIn
    <3> HIDE DEF T
    <3>2. Cardinality(T) <= 1
      <4>1. CASE T = {}
        BY <4>1, FS_EmptySet
      <4>2. CASE T # {}
        <5>1. PICK n : T = {n}
          BY <3>1, <4>2
        <5> QED BY <5>1, FS_Singleton
      <4> QED BY <4>1, <4>2
    <3> QED BY <3>2 DEF T
  <2> QED BY <2>4, <2>5
<1> QED BY InitIndex, InitLists, <1>1, <1>2, PTL DEF Spec

-----------------------------------------------------------------------------
(* What a restart keeps: what the store restored or the index knew is in   *)
(* the store when the clean-up lists its keys, and among them afterwards.  *)

KeptInv ==
  /\ kept \subseteq Listed
  /\ phase \in {"start", "watching"} => kept = {}
  /\ phase # "up" => clean = "wait"
  /\ clean = "wait" => \A k \in kept : Resolves(k)
  /\ clean = "listed" => kept \subseteq known

LEMMA KeptShrinks ==
  ASSUME KeptInv, kept' \subseteq kept, kept' \subseteq KeysIn(items'),
         UNCHANGED <<phase, sess, clean, known>>
  PROVE  KeptInv'
<1>1. kept' \subseteq Listed'
  BY DEF Listed
<1>2. \A k : Resolves(k) => Resolves(k)'
  BY DEF Resolves, Stored
<1> QED BY <1>1, <1>2 DEF KeptInv

LEMMA KeptSame ==
  ASSUME KeptInv, UNCHANGED <<phase, sess, clean, known, items, kept>>
  PROVE  KeptInv'
BY KeptShrinks DEF KeptInv, Listed

(* Records that change or go, but for the keys given up, resolve them yet. *)
LEMMA KeptResolved ==
  ASSUME KeptInv, kept' \subseteq kept, UNCHANGED <<phase, items, clean, known>>,
         \A k \in kept' : Resolves(k) => Resolves(k)'
  PROVE  KeptInv'
BY DEF KeptInv, Listed

LEMMA RehydrateKeepsKept ==
  ASSUME IndexInv, ListInv, KeptInv, Rehydrate
  PROVE  KeptInv'
<1>1. PICK new : Restores(new)
  BY RehydrateIs
<1>2. kept' = KeptKeys /\ items' = SeedIfEmpty /\ phase = "watching" /\ phase' = "filled"
      /\ UNCHANGED <<clean, known>>
  BY DEF Rehydrate, cleanVars
<1>3. Listed \subseteq Listed'
  <2>1. CASE items = <<>>
    BY <2>1, EmptyItems DEF Listed
  <2>2. CASE items # <<>>
    BY <1>2, <2>2 DEF Listed, SeedIfEmpty
  <2> QED BY <2>1, <2>2
<1>4. \A k : Resolves(k) => Resolves(k)'
  BY <1>1 DEF Restores, Resolves, Stored
<1>5. ASSUME NEW k \in Listed, BySlug(k) # {}, BySlug(k) \cap Stored = {} PROVE Resolves(k)'
  <2>1. PICK e \in Entries(items) : items[e[1]].sessions[e[2]] = k
    BY KeyHasEntry DEF Listed, ListInv, ListTypes
  <2>2. PICK d \in BySlug(k) : d \in new \cup Stored \/ HasLocalSlug(KindOf[d], byToolID[d])
    <3>1. LET c == BySlug(items[e[1]].sessions[e[2]])
          IN  c = {} \/ \E d \in c : d \in new \cup Stored \/ HasLocalSlug(KindOf[d], byToolID[d])
      BY <1>1, Zenon DEF Restores
    <3> QED BY <1>5, <2>1, <3>1, Zenon
  <2>3. byToolID[d] = k
    BY BySlugIs
  <2>4. CASE d \in new
    BY <1>1, <2>3, <2>4 DEF Restores, Resolves, Stored
  <2>5. CASE HasLocalSlug(KindOf[d], byToolID[d])
    <3>1. Resolves(k)
      BY <2>3, <2>5 DEF HasLocalSlug, Resolves
    <3> QED BY <1>4, <3>1
  <2> QED BY <1>5, <2>2, <2>4, <2>5
<1>6. \A k \in kept' : k \in Listed /\ Resolves(k)'
  BY <1>2, <1>4, <1>5 DEF KeptKeys
<1>7. clean' = "wait"
  BY <1>2 DEF KeptInv
<1> QED BY <1>2, <1>3, <1>6, <1>7 DEF KeptInv

LEMMA UpsertKeepsKept ==
  ASSUME ListInv, KeptInv, NEW id, NEW slug, NEW final, NEW out,
         Upserted(id, slug, final, out),
         id \in Stored => sess[id].slug \in {NoSlug, slug},
         UNCHANGED <<phase, items, clean, known>>
  PROVE  KeptInv'
<1>1. kept' = kept \ out
  BY DEF Upserted
<1>2. ASSUME NEW k \in kept', Resolves(k) PROVE Resolves(k)'
  <2>1. k # NoSlug
    <3>1. k \in Keys
      <4>1. k \in KeysIn(items)
        BY <1>1 DEF KeptInv, Listed
      <4>2. PICK i \in DOMAIN items : k \in ToSet(items[i].sessions)
        BY <4>1, InKeys
      <4>3. items[i].sessions \in Seq(Keys)
        BY DEF ListInv, ListTypes, IsItems, IsProject
      <4> QED BY <4>2, <4>3, InToSet
    <3> QED BY <3>1, NoSlugIs
  <2>2. ASSUME NEW o \in Stored \ ({id} \cup out), sess[o].slug = k PROVE Resolves(k)'
    <3>1. o \in Stored' /\ sess'[o].slug = k
      BY <2>2 DEF Upserted, Stored
    <3> QED BY <3>1 DEF Resolves
  <2>3. slug = k => Resolves(k)'
    <3>1. id \in Stored' /\ sess'[id].slug = final
      BY DEF Upserted, Stored
    <3>2. final = slug \/ \E o \in Stored \ ({id} \cup out) : sess[o].slug = slug
      BY DEF Upserted
    <3>3. final = k => Resolves(k)'
      BY <3>1 DEF Resolves
    <3> QED BY <2>2, <3>2, <3>3
  <2>4. CASE k \in Stored
    <3>1. k \in Stored'
      BY <1>1, <2>4 DEF Upserted, Stored
    <3> QED BY <3>1 DEF Resolves
  <2>5. CASE \E o \in Stored : sess[o].slug = k
    <3>1. PICK o \in Stored : sess[o].slug = k
      BY <2>5
    <3>2. o \in out => slug = k
      BY <3>1 DEF Upserted
    <3>3. o = id => slug = k
      BY <2>1, <3>1
    <3> QED BY <2>2, <2>3, <3>1, <3>2, <3>3
  <2> QED BY <1>2, <2>4, <2>5 DEF Resolves
<1> QED BY <1>1, <1>2, KeptResolved

LEMMA DeathKeepsKept ==
  ASSUME KeptInv, NEW id, Dies(id), UNCHANGED <<phase, items, clean, known, kept>>
  PROVE  KeptInv'
<1>1. \A k : Resolves(k) => Resolves(k)'
  BY DEF Dies, Resolves, Stored
<1> QED BY <1>1, KeptResolved

LEMMA SessionsKeepKept ==
  ASSUME ListInv, KeptInv, NEW s \in Sids,
         StartRunner(s) \/ Register(s) \/ PeerUpsert(s) \/ Attribute(s) \/ Exit(s)
  PROVE  KeptInv'
<1>1. CASE StartRunner(s)
  BY <1>1, KeptSame DEF StartRunner, cleanVars
<1>2. StoreTypes
  BY DEF ListInv, ListTypes
<1>3. CASE Register(s)
  <2> DEFINE slug == IF s \in Stored THEN sess[s].slug ELSE NoSlug
  <2>1. slug \in Slugs
    BY <1>2, NoSlugIs DEF StoreTypes, StoreRecord
  <2>2. UpsertLive(s, slug) /\ UNCHANGED <<phase, items, clean, known>>
    BY <1>3 DEF Register, cleanVars
  <2>3. s \in Stored => sess[s].slug \in {NoSlug, slug}
    OBVIOUS
  <2> HIDE DEF slug
  <2>4. PICK final, out : Upserted(s, slug, final, out)
    BY <1>2, <2>1, <2>2, UpsertIs
  <2> QED BY <2>2, <2>3, <2>4, UpsertKeepsKept
<1>4. CASE PeerUpsert(s)
  <2>1. UpsertLive(s, NoSlug) /\ UNCHANGED <<phase, items, clean, known>> /\ Host(s) # Local
    BY <1>4 DEF PeerUpsert, cleanVars
  <2>2. s \in Stored => sess[s].slug \in {NoSlug, NoSlug}
    BY <1>2, <2>1 DEF StoreTypes
  <2>3. PICK final, out : Upserted(s, NoSlug, final, out)
    BY <1>2, <2>1, NoSlugIs, UpsertIs
  <2> QED BY <2>1, <2>2, <2>3, UpsertKeepsKept
<1>5. CASE Attribute(s)
  <2> DEFINE slug == <<BaseOf[ConvOf[s]]>>
  <2>1. slug \in Slugs
    <3> DEFINE B == {BaseOf[c] : c \in Convs} \cup Nat
    <3>1. BaseOf[ConvOf[s]] \in B
      BY ProjectsAssumption
    <3> HIDE DEF B
    <3>2. slug \in Seq(B)
      BY <3>1
    <3> QED BY <3>2 DEF Slugs, B
  <2>2. UpsertLive(s, slug) /\ UNCHANGED <<phase, items, clean, known>> /\ sess[s].slug = NoSlug
    BY <1>5 DEF Attribute, cleanVars
  <2> HIDE DEF slug
  <2>3. PICK final, out : Upserted(s, slug, final, out)
    BY <1>2, <2>1, <2>2, UpsertIs
  <2> QED BY <2>2, <2>3, UpsertKeepsKept
<1>6. CASE Exit(s)
  <2>1. /\ sess' = IF s \in Stored THEN [sess EXCEPT ![s].alive = FALSE] ELSE sess
        /\ UNCHANGED <<phase, items, clean, known, kept>>
    BY <1>6 DEF Exit, cleanVars
  <2>2. Dies(s)
    BY <1>2, <2>1, DeathIs
  <2> QED BY <2>1, <2>2, DeathKeepsKept
<1> QED BY <1>1, <1>3, <1>4, <1>5, <1>6

LEMMA LeaversKeepKept ==
  ASSUME ListInv, KeptInv, NEW id,
         BeginsToLeave(id) \/ DismissSession(id) \/ RemoveSession(id)
  PROVE  KeptInv'
<1>1. CASE BeginsToLeave(id)
  <2>1. Dies(id)
    BY <1>1, BeginsIs DEF ListInv, ListTypes
  <2> QED BY <1>1, <2>1, DeathKeepsKept DEF BeginsToLeave, cleanVars
<1>2. CASE DismissSession(id)
  <2>1. kept' = kept \cap KeysIn(items') /\ UNCHANGED <<phase, sess, clean, known>>
    BY <1>2 DEF DismissSession, Save, cleanVars, storeVars
  <2> QED BY <2>1, KeptShrinks
<1>3. CASE RemoveSession(id)
  <2>1. /\ Stored' = Stored \ {id} /\ \A o \in Stored' : sess'[o] = sess[o]
        /\ UNCHANGED <<phase, items, clean, known>>
        /\ kept' = kept \ ({id} \cup {sess[o].slug : o \in Stored \cap {id}})
    BY <1>3, RemovalIs
  <2>2. \A k \in kept' : Resolves(k) => Resolves(k)'
    BY <2>1 DEF Resolves
  <2> QED BY <2>1, <2>2, KeptResolved
<1> QED BY <1>1, <1>2, <1>3

LEMMA CleaningKeepsKept ==
  ASSUME ListInv, KeptInv, CleanLists \/ CleanupSessions
  PROVE  KeptInv'
<1>1. CASE CleanLists
  <2>1. /\ clean = "wait" /\ clean' = "listed" /\ UNCHANGED <<phase, items, kept>> /\ phase = "up"
        /\ known' = Stored \cup {sess[o].slug : o \in Stored}
    BY <1>1 DEF CleanLists
  <2>2. kept' \subseteq known'
    BY <2>1 DEF KeptInv, Resolves
  <2> QED BY <2>1, <2>2 DEF KeptInv, Listed
<1>2. CASE CleanupSessions
  <2>1. /\ clean = "listed" /\ clean' = "done" /\ UNCHANGED <<phase, kept>>
        /\ items' = Cleaned(items, known)
    BY <1>2 DEF CleanupSessions, Cleaned
  <2>2. KeysIn(items') = KeysIn(items) \cap known
    BY <2>1, CleanedKeys DEF ListInv, ListTypes
  <2> QED BY <2>1, <2>2 DEF KeptInv, Listed
<1> QED BY <1>1, <1>2

LEMMA StepKeepsKept ==
  ASSUME IndexInv, ListInv, KeptInv, [Next]_vars
  PROVE  KeptInv'
<1>1. CASE StartScans
  BY <1>1, KeptSame DEF StartScans, storeVars, cleanVars
<1>2. CASE StartWatches \/ SubscribeAssigner
  <2>1. /\ UNCHANGED <<sess, items, clean, known, kept>>
        /\ phase # "up" /\ (phase = "start" \/ phase' = "up")
    BY <1>2 DEF StartWatches, SubscribeAssigner, storeVars, cleanVars
  <2> QED BY <2>1 DEF KeptInv, Listed, Resolves, Stored
<1>3. CASE Rehydrate
  BY <1>3, RehydrateKeepsKept
<1>4. CASE CleanLists \/ CleanupSessions
  BY <1>4, CleaningKeepsKept
<1>5. CASE \E s \in Sids :
             StartRunner(s) \/ Register(s) \/ PeerUpsert(s) \/ Attribute(s) \/ Exit(s)
  BY <1>5, SessionsKeepKept
<1>6. CASE \E id \in Sids \cup Convs : BeginsToLeave(id) \/ DismissSession(id) \/ RemoveSession(id)
  BY <1>6, LeaversKeepKept
<1>7. CASE Assign \/ (\E q \in Requests \cup Discovered(items) : AddProject(q))
           \/ AutoAssignAllAlive \/ PutProjects \/ PatchSessions
  <2>1. kept' = kept \cap KeysIn(items') /\ UNCHANGED <<phase, sess, clean, known>>
    BY <1>7 DEF Assign, AddProject, AutoAssignAllAlive, PutProjects, PatchSessions, Save,
       storeVars, cleanVars
  <2> QED BY <2>1, KeptShrinks
<1>8. CASE AddLists \/ Fetch
  BY <1>8, KeptSame DEF AddLists, Fetch, storeVars, cleanVars
<1>9. CASE Restart
  BY <1>9 DEF Restart, KeptInv
<1>10. CASE UNCHANGED projVars
  BY <1>10, KeptSame DEF projVars, storeVars, cleanVars
<1> QED BY <1>1, <1>2, <1>3, <1>4, <1>5, <1>6, <1>7, <1>8, <1>9, <1>10 DEF Next, vars

(* The clean-up after a start of jumpd (main.go, rehydrate.go) spares      *)
(* every key of projects.json that the store restored or the index knew    *)
(* and that nobody has removed since, whatever sessions, clients and files *)
(* do between the start and the clean-up.                                  *)
THEOREM RestartSparesKeys == Spec => []RestartKeepsKeys
<1>1. Init => KeptInv
  BY DEF Init, KeptInv
<1>2. IndexInv /\ ListInv /\ KeptInv /\ [Next]_vars => IndexInv' /\ ListInv' /\ KeptInv'
  BY StepKeepsIndex, StepKeepsLists, StepKeepsKept
<1>3. KeptInv => RestartKeepsKeys
  BY DEF KeptInv, RestartKeepsKeys
<1> QED BY InitIndex, InitLists, <1>1, <1>2, <1>3, PTL DEF Spec

-----------------------------------------------------------------------------
(* Live sessions are listed: each that is not is still to be assigned,     *)
(* from the queue with the slug it has now, or by the pass.                *)

Live == {s \in Stored \ excused : sess[s].alive}
LatestOf(s, n) == queue[n].id = s /\ \A m \in DOMAIN queue : m > n => queue[m].id # s
QueueCurrent(s) == \A n \in DOMAIN queue : LatestOf(s, n) => queue[n].slug = sess[s].slug
Queued(s) == \E n \in DOMAIN queue : queue[n].id = s
InPass(s) == adding = "listed" /\ s \in DOMAIN infos /\ infos[s] = sess[s].slug
IsListed(s) == KeyOf(s) \in Listed \/ Match(items, At[s]) = 0
Accounted(s) == adding = "added" \/ Queued(s) \/ InPass(s) \/ IsListed(s)

LiveInv ==
  /\ phase # "up" => DOMAIN queue = {} /\ adding = "no" /\ Live = {}
  /\ \A s \in Live : QueueCurrent(s)
  /\ \A s \in Live : Accounted(s)

(* Live sessions are as they were, or dead.                                *)
LEMMA FewerLive ==
  ASSUME LiveInv, UNCHANGED <<phase, queue, items, adding, infos>>,
         \A o \in Live' : o \in Live /\ sess'[o].slug = sess[o].slug
  PROVE  LiveInv'
<1>1. ASSUME NEW s \in Live' PROVE QueueCurrent(s)' /\ Accounted(s)'
  <2>1. QueueCurrent(s) /\ Accounted(s)
    BY DEF LiveInv
  <2>2. QueueCurrent(s)'
    BY <2>1 DEF QueueCurrent, LatestOf
  <2>3. Accounted(s)'
    BY <2>1 DEF Accounted, Queued, InPass, IsListed, KeyOf, Listed
  <2> QED BY <2>2, <2>3
<1>2. Live' \subseteq Live
  OBVIOUS
<1> QED BY <1>1, <1>2 DEF LiveInv

LEMMA LiveSame ==
  ASSUME LiveInv, UNCHANGED <<phase, sess, queue, items, adding, infos>>, excused \subseteq excused'
  PROVE  LiveInv'
<1>1. \A o \in Live' : o \in Live /\ sess'[o].slug = sess[o].slug
  BY DEF Live, Stored
<1> QED BY <1>1, FewerLive

LEMMA NoneLive ==
  ASSUME Live' = {}, phase' # "up" => DOMAIN queue' = {} /\ adding' = "no"
  PROVE  LiveInv'
BY DEF LiveInv

(* The lists change, and the keys of live sessions stay.                   *)
LEMMA LiveStayListed ==
  ASSUME LiveInv, UNCHANGED <<phase, sess, queue, adding, infos>>, excused \subseteq excused',
         SameProjects(items, items'),
         \A s \in Live' : KeyOf(s) \in Listed => KeyOf(s) \in KeysIn(items')
  PROVE  LiveInv'
<1>1. Live' \subseteq Live
  BY DEF Live, Stored
<1>2. ASSUME NEW s \in Live' PROVE QueueCurrent(s)'
  <2>1. QueueCurrent(s)
    BY <1>1 DEF LiveInv
  <2> QED BY <2>1 DEF QueueCurrent, LatestOf
<1>3. ASSUME NEW s \in Live', IsListed(s) PROVE IsListed(s)'
  <2>1. KeyOf(s)' = KeyOf(s) /\ Listed' = KeysIn(items')
    BY DEF KeyOf, Listed
  <2>2. Match(items', At[s]) = Match(items, At[s])
    BY MatchSame
  <2> QED BY <1>3, <2>1, <2>2 DEF IsListed
<1>4. ASSUME NEW s \in Live' PROVE Accounted(s)'
  <2>1. Accounted(s)
    BY <1>1 DEF LiveInv
  <2>2. CASE IsListed(s)
    BY <1>3, <2>2 DEF Accounted
  <2>3. CASE adding = "added" \/ Queued(s) \/ InPass(s)
    BY <2>3 DEF Accounted, Queued, InPass
  <2> QED BY <2>1, <2>2, <2>3 DEF Accounted
<1> QED BY <1>1, <1>2, <1>4 DEF LiveInv

LEMMA UpsertKeepsLive ==
  ASSUME ListInv, LiveInv, NEW id \in Sids, NEW slug, NEW final, NEW out,
         Upserted(id, slug, final, out), UNCHANGED <<phase, items, adding, infos>>
  PROVE  LiveInv'
<1> DEFINE e == [id |-> id, slug |-> final]
<1>1. /\ DOMAIN sess' = (Stored \ out) \cup {id}
      /\ sess'[id].slug = final /\ \A o \in Stored \ out : o # id => sess'[o] = sess[o]
      /\ \/ phase = "up" /\ queue' = Append(queue, e) /\ excused' = excused \ {id}
         \/ queue' = queue /\ excused' = excused \cup {id}
  BY DEF Upserted
<1>2. \A s \in Live' : s # id => s \in Live /\ sess'[s] = sess[s]
  BY <1>1 DEF Live, Stored
<1>3. CASE queue' = queue /\ excused' = excused \cup {id}
  <2>1. \A s \in Live' : s # id
    BY <1>3 DEF Live
  <2> QED BY <1>2, <1>3, <2>1, FewerLive
<1>4. CASE phase = "up" /\ queue' = Append(queue, e) /\ excused' = excused \ {id}
  <2>1. e \in Upsert1 /\ e.id = id /\ e.slug = final
    BY DEF Upsert1, Upserted
  <2> HIDE DEF e
  <2>2. /\ DOMAIN queue' = DOMAIN queue \cup {Len(queue) + 1}
        /\ \A n \in DOMAIN queue : queue'[n] = queue[n] /\ n < Len(queue) + 1
        /\ queue'[Len(queue) + 1] = e
        /\ DOMAIN queue' \subseteq Nat /\ Len(queue) \in Nat
    <3> DEFINE S == Upsert1
    <3>1. queue \in Seq(S) /\ e \in S
      BY <2>1 DEF ListInv, ListTypes, QueueTypes
    <3> HIDE DEF S
    <3>2. /\ DOMAIN Append(queue, e) = DOMAIN queue \cup {Len(queue) + 1}
          /\ \A n \in DOMAIN queue : Append(queue, e)[n] = queue[n] /\ n < Len(queue) + 1
          /\ Append(queue, e)[Len(queue) + 1] = e
          /\ DOMAIN Append(queue, e) \subseteq Nat
      BY <3>1, Appended
    <3>3. Len(queue) \in Nat
      BY <3>1
    <3> QED BY <1>4, <3>2, <3>3
  <2>3. QueueCurrent(id)' /\ Queued(id)'
    <3>1. \A n \in DOMAIN queue' : LatestOf(id, n)' => n = Len(queue) + 1
      BY <2>1, <2>2 DEF LatestOf
    <3> QED BY <1>1, <2>1, <2>2, <3>1 DEF QueueCurrent, Queued
  <2>4. ASSUME NEW s \in Live', s # id
        PROVE  QueueCurrent(s)' /\ Accounted(s)'
    <3>1. s \in Live /\ sess'[s] = sess[s]
      BY <1>2, <2>4
    <3>2. \A n \in DOMAIN queue' : LatestOf(s, n)' => n \in DOMAIN queue /\ LatestOf(s, n)
      BY <2>1, <2>2, <2>4 DEF LatestOf
    <3>3. QueueCurrent(s)'
      BY <2>2, <3>1, <3>2 DEF LiveInv, QueueCurrent
    <3>4. Accounted(s)
      BY <3>1 DEF LiveInv
    <3>5. Accounted(s)'
      BY <2>2, <3>1, <3>4 DEF Accounted, Queued, InPass, IsListed, KeyOf, Listed
    <3> QED BY <3>3, <3>5
  <2>5. phase' = "up"
    BY <1>4
  <2>6. Accounted(id)'
    BY <2>3 DEF Accounted
  <2> QED BY <2>3, <2>4, <2>5, <2>6 DEF LiveInv
<1> QED BY <1>1, <1>3, <1>4

LEMMA DeathKeepsLive ==
  ASSUME LiveInv, NEW id, Dies(id), UNCHANGED <<phase, queue, items, adding, infos, excused>>
  PROVE  LiveInv'
<1>1. \A o \in Live' : o \in Live /\ sess'[o].slug = sess[o].slug
  BY DEF Live, Dies, Stored
<1> QED BY <1>1, FewerLive

LEMMA SessionsKeepLive ==
  ASSUME ListInv, LiveInv, NEW s \in Sids,
         StartRunner(s) \/ Register(s) \/ PeerUpsert(s) \/ Attribute(s) \/ Exit(s)
  PROVE  LiveInv'
<1>1. CASE StartRunner(s)
  BY <1>1, LiveSame DEF StartRunner, addVars
<1>2. StoreTypes
  BY DEF ListInv, ListTypes
<1>3. CASE Register(s) \/ PeerUpsert(s) \/ Attribute(s)
  <2>1. PICK slug \in Slugs : UpsertLive(s, slug)
    <3>1. CASE Register(s)
      <4> DEFINE slug == IF s \in Stored THEN sess[s].slug ELSE NoSlug
      <4>1. slug \in Slugs
        BY <1>2, NoSlugIs DEF StoreTypes, StoreRecord
      <4>2. UpsertLive(s, slug)
        BY <3>1 DEF Register
      <4> HIDE DEF slug
      <4> QED BY <4>1, <4>2
    <3>2. CASE PeerUpsert(s)
      BY <3>2, NoSlugIs DEF PeerUpsert
    <3>3. CASE Attribute(s)
      <4> DEFINE slug == <<BaseOf[ConvOf[s]]>>
                 B == {BaseOf[c] : c \in Convs} \cup Nat
      <4>1. BaseOf[ConvOf[s]] \in B
        BY ProjectsAssumption
      <4> HIDE DEF B
      <4>2. slug \in Seq(B)
        BY <4>1
      <4>3. slug \in Slugs
        BY <4>2 DEF Slugs, B
      <4>4. UpsertLive(s, slug)
        BY <3>3 DEF Attribute
      <4> HIDE DEF slug
      <4> QED BY <4>3, <4>4
    <3> QED BY <1>3, <3>1, <3>2, <3>3
  <2>2. PICK final, out : Upserted(s, slug, final, out)
    BY <1>2, <2>1, UpsertIs
  <2>3. UNCHANGED <<phase, items, adding, infos>>
    BY <1>3 DEF Register, PeerUpsert, Attribute, addVars
  <2> QED BY <2>2, <2>3, UpsertKeepsLive
<1>4. CASE Exit(s)
  <2>1. /\ sess' = IF s \in Stored THEN [sess EXCEPT ![s].alive = FALSE] ELSE sess
        /\ UNCHANGED <<phase, queue, items, adding, infos, excused>>
    BY <1>4 DEF Exit, addVars
  <2>2. Dies(s)
    BY <1>2, <2>1, DeathIs
  <2> QED BY <2>1, <2>2, DeathKeepsLive
<1> QED BY <1>1, <1>3, <1>4

LEMMA LeaversKeepLive ==
  ASSUME ListInv, LiveInv, NEW id,
         BeginsToLeave(id) \/ DismissSession(id) \/ RemoveSession(id)
  PROVE  LiveInv'
<1>1. CASE BeginsToLeave(id)
  <2>1. Dies(id)
    BY <1>1, BeginsIs DEF ListInv, ListTypes
  <2> QED BY <1>1, <2>1, DeathKeepsLive DEF BeginsToLeave, addVars
<1>2. CASE DismissSession(id)
  <2>1. /\ items' = DismissKey(items, id, leaving[id].slug)
        /\ excused' = excused \cup Unlisted(DismissKey(items, id, leaving[id].slug))
        /\ UNCHANGED <<phase, sess, queue, adding, infos>>
    BY <1>2, Zenon DEF DismissSession, Save, storeVars, addVars
  <2>2. SameProjects(items, items')
    BY <2>1, Dismissed DEF ListInv, ListTypes, Keeps
  <2>3. excused' = excused \cup Unlisted(items')
    BY <2>1, Zenon
  <2>4. \A s \in Live' : KeyOf(s) \in Listed => KeyOf(s) \in KeysIn(items')
    BY <2>1, <2>3 DEF Live, Unlisted, Stored
  <2> QED BY <2>1, <2>2, <2>3, <2>4, LiveStayListed
<1>3. CASE RemoveSession(id)
  <2>1. /\ Stored' = Stored \ {id} /\ \A o \in Stored' : sess'[o] = sess[o]
        /\ UNCHANGED <<phase, queue, items, adding, infos, excused>>
    BY <1>3, RemovalIs
  <2>2. \A o \in Live' : o \in Live /\ sess'[o].slug = sess[o].slug
    BY <2>1 DEF Live
  <2> QED BY <2>1, <2>2, FewerLive
<1> QED BY <1>1, <1>2, <1>3

LEMMA AssignKeepsLive ==
  ASSUME ListInv, LiveInv, Assign
  PROVE  LiveInv'
<1> DEFINE id == Head(queue).id
           slug == Head(queue).slug
<1>1. /\ id \in Sids /\ id \in Ids /\ slug \in Slugs
      /\ items' = AutoAssign(items, id, slug)
      /\ UNCHANGED <<phase, sess, adding, infos, excused>>
  BY AssignIs DEF Ids
<1>2. /\ 1 \in DOMAIN queue /\ queue[1].id = id /\ queue[1].slug = slug
      /\ DOMAIN queue \subseteq Nat \ {0}
      /\ \A n \in DOMAIN queue' : n + 1 \in DOMAIN queue /\ queue'[n] = queue[n + 1]
      /\ \A n \in DOMAIN queue : n # 1 => n - 1 \in DOMAIN queue' /\ queue'[n - 1] = queue[n]
      /\ DOMAIN queue' \subseteq Nat
  <2> DEFINE S == Upsert1
  <2>1. queue \in Seq(S) /\ queue # <<>> /\ queue' = Tail(queue)
    BY AssignIs
  <2> HIDE DEF S
  <2>2. /\ 1 \in DOMAIN queue /\ Head(queue) = queue[1]
        /\ DOMAIN queue \subseteq Nat \ {0} /\ Tail(queue) \in Seq(S)
        /\ \A n \in DOMAIN Tail(queue) : n + 1 \in DOMAIN queue /\ Tail(queue)[n] = queue[n + 1]
        /\ \A n \in DOMAIN queue : n # 1 => /\ n - 1 \in DOMAIN Tail(queue)
                                            /\ Tail(queue)[n - 1] = queue[n]
    BY <2>1, Taken
  <2>3. DOMAIN queue' \subseteq Nat
    BY <2>1, <2>2
  <2> QED BY <2>1, <2>2, <2>3
<1> HIDE DEF id, slug
<1>3. /\ Keeps(items, items')
      /\ KeysIn(items) \ {id} \subseteq KeysIn(items')
      /\ Match(items, At[id]) # 0 => Key(id, slug) \in KeysIn(items')
  BY <1>1, AutoAssigned DEF ListInv, ListTypes
<1>4. Live' = Live /\ \A s : KeyOf(s)' = KeyOf(s)
  BY <1>1 DEF Live, Stored, KeyOf
<1>5. ASSUME NEW s \in Live PROVE QueueCurrent(s)'
  <2>1. ASSUME NEW n \in DOMAIN queue', LatestOf(s, n)' PROVE LatestOf(s, n + 1)
    BY <1>2, <2>1 DEF LatestOf
  <2>2. QueueCurrent(s)
    BY DEF LiveInv
  <2> QED BY <1>1, <1>2, <2>1, <2>2 DEF QueueCurrent
<1>6. ASSUME NEW s \in Live PROVE Accounted(s)'
  <2>1. Accounted(s) /\ QueueCurrent(s)
    BY DEF LiveInv
  <2>2. CASE \E n \in DOMAIN queue : n # 1 /\ queue[n].id = s
    <3>1. Queued(s)'
      BY <1>2, <2>2 DEF Queued
    <3> QED BY <3>1 DEF Accounted
  <2>3. Match(items', At[s]) = Match(items, At[s])
    BY <1>3, MatchSame DEF Keeps
  <2>4. CASE id = s /\ \A n \in DOMAIN queue : n # 1 => queue[n].id # s
    <3>1. LatestOf(s, 1)
      BY <1>2, <2>4 DEF LatestOf
    <3>2. slug = sess[s].slug
      BY <1>2, <2>1, <3>1 DEF QueueCurrent
    <3>3. IsListed(s)'
      BY <1>3, <1>4, <2>3, <2>4, <3>2 DEF IsListed, KeyOf, Listed
    <3> QED BY <3>3 DEF Accounted
  <2>5. CASE id # s /\ \A n \in DOMAIN queue : n # 1 => queue[n].id # s
    <3>1. ~Queued(s)
      BY <1>2, <2>5 DEF Queued
    <3>2. CASE adding = "added" \/ InPass(s)
      BY <1>1, <3>2 DEF Accounted, InPass
    <3>3. CASE IsListed(s)
      <4>1. KeyOf(s) # id
        <5>1. sess[s].slug \in Slugs
          BY DEF Live, ListInv, ListTypes, StoreTypes, StoreRecord
        <5> QED BY <1>1, <2>5, <5>1, NoSlugIs DEF KeyOf, Key
      <4>2. IsListed(s)'
        BY <1>3, <1>4, <2>3, <3>3, <4>1 DEF IsListed, Listed
      <4> QED BY <4>2 DEF Accounted
    <3> QED BY <2>1, <3>1, <3>2, <3>3 DEF Accounted
  <2> QED BY <2>2, <2>4, <2>5
<1>7. phase' = phase /\ adding' = adding /\ (DOMAIN queue = {} => DOMAIN queue' = {})
  BY <1>1, <1>2
<1> QED BY <1>4, <1>5, <1>6, <1>7 DEF LiveInv

LEMMA AddsKeepLive ==
  ASSUME ListInv, LiveInv, NEW q, AddProject(q) \/ AddLists \/ AutoAssignAllAlive
  PROVE  LiveInv'
<1>1. UNCHANGED <<sess, queue, excused>> /\ phase' = phase
  BY DEF AddProject, AddLists, AutoAssignAllAlive, storeVars
<1>2. Live' = Live
  BY <1>1 DEF Live, Stored
<1>3. \A s \in Live : QueueCurrent(s)'
  <2>1. \A s \in Live : QueueCurrent(s)
    BY DEF LiveInv
  <2> QED BY <1>1, <2>1 DEF QueueCurrent, LatestOf
<1>4. phase = "up"
  BY DEF AddProject, AddLists, AutoAssignAllAlive, LiveInv
<1>5. CASE AddProject(q)
  <2>1. \A s \in Live : Accounted(s)'
    BY <1>5 DEF AddProject, Accounted
  <2> QED BY <1>1, <1>2, <1>3, <1>4, <2>1 DEF LiveInv
<1>6. CASE AddLists
  <2>1. \A s \in Live : InPass(s)'
    BY <1>1, <1>6 DEF AddLists, InPass, Live
  <2>2. \A s \in Live : Accounted(s)'
    BY <2>1 DEF Accounted
  <2> QED BY <1>1, <1>2, <1>3, <1>4, <2>2 DEF LiveInv
<1>7. CASE AutoAssignAllAlive
  <2>1. PICK order \in Seq(Ids) : /\ \A n \in DOMAIN order : infos[order[n]] \in Slugs
                                  /\ \A o \in DOMAIN infos : \E n \in DOMAIN order : order[n] = o
                                  /\ items' = AssignAll(items, order, infos)
    BY <1>7, AssignPassIs
  <2>2. /\ Keeps(items, items') /\ KeysIn(items) \subseteq KeysIn(items')
        /\ \A n \in DOMAIN order :
             order[n] \in Sids /\ Match(items, At[order[n]]) # 0 =>
               Key(order[n], infos[order[n]]) \in KeysIn(items')
    BY <2>1, AssignedAll DEF ListInv, ListTypes
  <2>3. ASSUME NEW s \in Live PROVE Accounted(s)'
    <3>1. Accounted(s) /\ adding # "added"
      BY <1>7 DEF LiveInv, AutoAssignAllAlive
    <3>2. Match(items', At[s]) = Match(items, At[s]) /\ KeyOf(s)' = KeyOf(s)
      BY <1>1, <2>2, MatchSame DEF Keeps, KeyOf
    <3>3. CASE Queued(s)
      BY <1>1, <3>3 DEF Accounted, Queued
    <3>4. CASE InPass(s)
      <4>1. s \in Sids
        BY DEF Live, ListInv, ListTypes, StoreTypes
      <4>2. s \in DOMAIN infos /\ infos[s] = sess[s].slug
        BY <3>4 DEF InPass
      <4>3. PICK n \in DOMAIN order : order[n] = s
        BY <2>1, <4>2
      <4>4. Match(items, At[s]) # 0 => KeyOf(s) \in KeysIn(items')
        BY <2>2, <4>1, <4>2, <4>3 DEF KeyOf
      <4> QED BY <3>2, <4>4 DEF Accounted, IsListed, Listed
    <3>5. CASE IsListed(s)
      BY <2>2, <3>2, <3>5 DEF Accounted, IsListed, Listed
    <3> QED BY <3>1, <3>3, <3>4, <3>5 DEF Accounted
  <2> QED BY <1>1, <1>2, <1>3, <1>4, <2>3 DEF LiveInv
<1> QED BY <1>5, <1>6, <1>7

LEMMA ClientsKeepLive ==
  ASSUME ListInv, LiveInv, Fetch \/ PutProjects \/ PatchSessions
  PROVE  LiveInv'
<1>1. CASE Fetch
  BY <1>1, LiveSame DEF Fetch, storeVars, addVars
<1>2. CASE PutProjects
  <2>1. PICK its \in {Reverse(view)} \cup {RemoveAt(view, i) : i \in DOMAIN view} :
          /\ Save(its)
          /\ excused' = excused \cup {o \in Stored : sess[o].alive /\ KeyOf(o) \notin KeysIn(its)}
    BY <1>2, Zenon DEF PutProjects
  <2>2. items' = its
    BY <2>1 DEF Save
  <2>3. UNCHANGED <<phase, sess, queue, adding, infos>>
    BY <1>2 DEF PutProjects, storeVars, addVars
  <2>4. phase = "up"
    BY <1>2 DEF PutProjects
  <2>5. ASSUME NEW s \in Live' PROVE QueueCurrent(s)' /\ Accounted(s)'
    <3>1. s \in Live /\ KeyOf(s) \in KeysIn(items')
      BY <2>1, <2>2, <2>3 DEF Live, Stored
    <3>2. IsListed(s)'
      BY <2>3, <3>1 DEF IsListed, Listed, KeyOf
    <3>3. QueueCurrent(s)
      BY <3>1 DEF LiveInv
    <3>4. QueueCurrent(s)'
      BY <2>3, <3>3 DEF QueueCurrent, LatestOf
    <3> QED BY <3>2, <3>4 DEF Accounted
  <2> QED BY <2>3, <2>4, <2>5 DEF LiveInv
<1>3. CASE PatchSessions
  <2>1. PICK i \in DOMAIN view, j \in DOMAIN items :
          LET keys == Reverse(view[i].sessions)
          IN  GivesKeys(items, j, keys, items') /\ excused' = excused \cup Unlisted(items')
    BY <1>3, PatchIs
  <2> DEFINE keys == Reverse(view[i].sessions)
  <2>2. GivesKeys(items, j, keys, items') /\ excused' = excused \cup Unlisted(items')
    BY <2>1, Zenon
  <2> HIDE DEF keys
  <2>3. SameProjects(items, items')
    BY <2>2, WithSessions
  <2>4. UNCHANGED <<phase, sess, queue, adding, infos>>
    BY <1>3 DEF PatchSessions, storeVars, addVars
  <2>5. \A s \in Live' : KeyOf(s) \in Listed => KeyOf(s) \in KeysIn(items')
    BY <2>2, <2>4 DEF Live, Unlisted, Stored
  <2> QED BY <2>2, <2>3, <2>4, <2>5, LiveStayListed
<1> QED BY <1>1, <1>2, <1>3

LEMMA CleaningKeepsLive ==
  ASSUME ListInv, LiveInv, CleanLists \/ CleanupSessions
  PROVE  LiveInv'
<1>1. CASE CleanLists
  BY <1>1, LiveSame DEF CleanLists, storeVars, addVars
<1>2. CASE CleanupSessions
  <2>1. items' = Cleaned(items, known)
    BY <1>2 DEF CleanupSessions, Cleaned
  <2>2. SameProjects(items, items')
    BY <2>1, CleanedKeys DEF ListInv, ListTypes, Keeps
  <2>3. excused' = excused \cup Unlisted(items')
    BY <1>2, Zenon DEF CleanupSessions
  <2>4. UNCHANGED <<phase, sess, queue, adding, infos>>
    BY <1>2 DEF CleanupSessions, storeVars, addVars
  <2>5. \A s \in Live' : KeyOf(s) \in Listed => KeyOf(s) \in KeysIn(items')
    BY <2>3, <2>4 DEF Live, Unlisted, Stored
  <2> QED BY <2>2, <2>3, <2>4, <2>5, LiveStayListed
<1> QED BY <1>1, <1>2

LEMMA StartKeepsLive ==
  ASSUME IndexInv, ListInv, LiveInv, StartWatches \/ Rehydrate \/ SubscribeAssigner \/ Restart
  PROVE  LiveInv'
<1>1. CASE StartWatches \/ SubscribeAssigner
  <2>1. phase # "up" /\ UNCHANGED <<sess, queue, adding, excused>>
    BY <1>1 DEF StartWatches, SubscribeAssigner, storeVars, addVars
  <2>2. Live' = {}
    BY <2>1 DEF LiveInv, Live, Stored
  <2> QED BY <2>1, <2>2, NoneLive DEF LiveInv
<1>2. CASE Rehydrate
  <2>1. phase # "up" /\ UNCHANGED <<queue, adding, excused>>
    BY <1>2 DEF Rehydrate, addVars
  <2>2. PICK new : Restores(new)
    BY <1>2, RehydrateIs
  <2>3. Live' \subseteq Live
    BY <2>1, <2>2 DEF Restores, Live, Stored
  <2> QED BY <2>1, <2>3, NoneLive DEF LiveInv
<1>3. CASE Restart
  <2>1. /\ sess' = [id \in {o \in Stored : Host(o) = Local} |-> [sess[id] EXCEPT !.alive = FALSE]]
        /\ queue' = <<>> /\ adding' = "no"
    BY <1>3 DEF Restart
  <2>2. \A x \in StoreRecord : ~[x EXCEPT !.alive = FALSE].alive
    BY DEF StoreRecord
  <2>3. \A o \in Stored' : o \in Stored /\ sess'[o] = [sess[o] EXCEPT !.alive = FALSE]
    BY <2>1 DEF Stored
  <2>4. \A o \in Stored : sess[o] \in StoreRecord
    BY DEF ListInv, ListTypes, StoreTypes
  <2>5. Live' = {}
    BY <2>2, <2>3, <2>4 DEF Live
  <2>6. DOMAIN queue' = {}
    BY <2>1
  <2> QED BY <2>1, <2>5, <2>6, NoneLive
<1> QED BY <1>1, <1>2, <1>3

LEMMA StepKeepsLive ==
  ASSUME IndexInv, ListInv, LiveInv, [Next]_vars
  PROVE  LiveInv'
<1>1. CASE StartScans
  BY <1>1, LiveSame DEF StartScans, storeVars, addVars
<1>2. CASE StartWatches \/ Rehydrate \/ SubscribeAssigner \/ Restart
  BY <1>2, StartKeepsLive
<1>3. CASE CleanLists \/ CleanupSessions
  BY <1>3, CleaningKeepsLive
<1>4. CASE \E s \in Sids :
             StartRunner(s) \/ Register(s) \/ PeerUpsert(s) \/ Attribute(s) \/ Exit(s)
  BY <1>4, SessionsKeepLive
<1>5. CASE \E id \in Sids \cup Convs : BeginsToLeave(id) \/ DismissSession(id) \/ RemoveSession(id)
  BY <1>5, LeaversKeepLive
<1>6. CASE Assign
  BY <1>6, AssignKeepsLive
<1>7. CASE (\E q \in Requests \cup Discovered(items) : AddProject(q)) \/ AddLists
           \/ AutoAssignAllAlive
  BY <1>7, AddsKeepLive
<1>8. CASE Fetch \/ PutProjects \/ PatchSessions
  BY <1>8, ClientsKeepLive
<1>9. CASE UNCHANGED projVars
  BY <1>9, LiveSame DEF projVars, storeVars, addVars
<1> QED BY <1>1, <1>2, <1>3, <1>4, <1>5, <1>6, <1>7, <1>8, <1>9 DEF Next, vars

(* A live session that a project's rules match is listed once the          *)
(* assigner has taken what was told and no project is being added,         *)
(* whichever of the two is older, unless its upsert was lost or its key    *)
(* was taken from it (internal/projects/manager.go, AutoAssignSession and  *)
(* AutoAssignAllAlive).                                                    *)
THEOREM LiveAreListed == Spec => []LiveIsListed
<1>1. Init => LiveInv
  <2> SUFFICES ASSUME Init PROVE LiveInv
    OBVIOUS
  <2>1. DOMAIN <<>> = {}
    OBVIOUS
  <2> QED BY <2>1 DEF Init, LiveInv, Live, Stored
<1>2. IndexInv /\ ListInv /\ LiveInv /\ [Next]_vars => IndexInv' /\ ListInv' /\ LiveInv'
  BY StepKeepsIndex, StepKeepsLists, StepKeepsLive
<1>3. LiveInv => LiveIsListed
  <2> SUFFICES ASSUME LiveInv, queue = <<>>, adding = "no",
                      NEW s \in (Stored \cap Sids) \ excused,
                      sess[s].alive, Match(items, At[s]) # 0
               PROVE  KeyOf(s) \in Listed
    BY DEF LiveIsListed
  <2>1. DOMAIN queue = {}
    OBVIOUS
  <2>2. s \in Live
    BY DEF Live
  <2>3. Accounted(s)
    BY <2>2 DEF LiveInv
  <2> QED BY <2>1, <2>3 DEF Accounted, Queued, InPass, IsListed
<1> QED BY InitIndex, InitLists, <1>1, <1>2, <1>3, PTL DEF Spec
=============================================================================
