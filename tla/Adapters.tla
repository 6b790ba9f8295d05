------------------------------ MODULE Adapters ------------------------------
(***************************************************************************)
(* What the adapters of the coding agents make of a conversation file      *)
(* (packages/adapter/adapters: pi, claude, codex).  A file is a sequence   *)
(* of lines, of which only the kind matters:                               *)
(*   "header"   the session record with id and cwd (pi, codex)             *)
(*   "name"     a name given by the user                                   *)
(*   "user"     a prompt                                                   *)
(*   "tool"     an answer that calls a tool                                *)
(*   "text"     an answer that ends the turn, codex's task_complete        *)
(*   "aborted"  the turn cancelled by the user                             *)
(*   "error"    an answer that failed                                      *)
(*   "other"    a line that changes nothing                                *)
(***************************************************************************)
EXTENDS Naturals, Sequences, FiniteSets

CONSTANTS
  Agent,     \* "pi", "claude", "codex"
  MaxRetries \* piMaxRetries: error lines until pi gives up

ASSUME AdaptersAssumption == Agent \in {"pi", "claude", "codex"} /\ MaxRetries \in Nat \ {0}

Kinds == {"header", "name", "user", "tool", "text", "aborted", "error", "other"}
NoSession == "none"

(* ParseNewLines: the state a line of this kind reports.                   *)
WorkingLines == [pi |-> {"user", "tool"}, claude |-> {"user", "tool"}, codex |-> {"user"}]
IdleLines    == [pi |-> {"text", "aborted"}, claude |-> {"text"}, codex |-> {"text", "aborted"}]
NamedBy      == [pi |-> {"name"}, claude |-> {"name"}, codex |-> {}]
Messages     == [pi |-> {"user", "tool", "text", "aborted", "error"},
                 claude |-> {"user", "tool", "text", "error"}, codex |-> {"user", "text"}]

(* countTrailingErrors: other lines are skipped, another message ends it.  *)
TrailingErrors(lines) ==
  LET after == {i \in DOMAIN lines : lines[i] \in Messages.pi \ {"error"}} IN
  Cardinality({i \in DOMAIN lines : lines[i] = "error" /\ \A j \in after : j < i})

(* The file is read again at each error line: what counts is its end now.  *)
GaveUp(lines) == Agent = "pi" /\ TrailingErrors(lines) >= MaxRetries

Tells(k, lines) ==
  \/ k \in WorkingLines[Agent] \cup IdleLines[Agent]
  \/ k = "error" /\ GaveUp(lines)

Told(k) == IF k = "error" THEN "error" ELSE IF k \in WorkingLines[Agent] THEN "working" ELSE "idle"

LastOf(S) == CHOOSE i \in S : \A j \in S : j <= i
FirstOf(S) == CHOOSE i \in S : \A j \in S : i <= j

(* The status after lines lo..hi of a file that was st before; an empty    *)
(* status counts as idle.                                                  *)
StatusAfter(lines, lo, hi, st) ==
  LET telling == {i \in lo..hi : Tells(lines[i], lines)} IN
  IF telling = {} THEN st ELSE Told(lines[LastOf(telling)])

(* A finished turn marks the session unread.                               *)
Unreads(lines, lo, hi) == \E i \in lo..hi : lines[i] = "text"

(* ParseSessionFile.                                                       *)
Parses(lines) ==
  lines # <<>> /\ (Agent \in {"pi", "codex"} => lines[1] = "header")

(* The title: the name, else the first prompt, else a placeholder.         *)
TitleOf(lines) ==
  LET names == {i \in DOMAIN lines : lines[i] \in NamedBy[Agent]}
      users == {i \in DOMAIN lines : lines[i] = "user"} IN
  IF names # {} THEN <<"name", LastOf(names)>>
  ELSE IF users # {} THEN <<"user", FirstOf(users)>> ELSE <<"new", 0>>

TitleAfter(lines, lo, hi, t) ==
  LET names == {i \in lo..hi : lines[i] \in NamedBy[Agent]} IN
  IF names = {} THEN t ELSE <<"name", LastOf(names)>>

MessageCount(lines) == Cardinality({i \in DOMAIN lines : lines[i] \in Messages[Agent]})
CanResume(lines) == Parses(lines) /\ MessageCount(lines) > 0

(* AttributeFile: cs are the candidates, cwd and delta (how far apart the  *)
(* file and the session began, 9 for over five minutes) are about the file *)
(* and each; similar is the one whose screen shows the file's end, if any. *)
(* pi asks the screens first, and at last for the only one of this cwd.    *)
ByMetadata(cs, sameCwd, delta) ==
  LET near == {s \in cs : s \in sameCwd /\ delta[s] < 9} IN
  {s \in near : \A t \in near : delta[s] <= delta[t]}

(* attributeByRecentUniqueCwd, of a file written in the last minutes.      *)
ByOnlyCwd(cs, sameCwd) == {s \in cs : cs \cap sameCwd = {s}}

Attributes(cs, sameCwd, delta, similar, s) ==
  IF Agent = "pi" /\ similar # NoSession THEN s = similar
  ELSE IF ByMetadata(cs, sameCwd, delta) # {} THEN s \in ByMetadata(cs, sameCwd, delta)
  ELSE IF Agent = "pi" /\ ByOnlyCwd(cs, sameCwd) # {} THEN s \in ByOnlyCwd(cs, sameCwd)
  ELSE s = NoSession
=============================================================================
