\* Three ids that compete for slugs; one writer and a subscriber.
SPECIFICATION MCSpec
CONSTANTS
  a = a
  b = b
  c = c
  shell = shell
  codex = codex
  local = local
  hub = hub
  fix = fix
  w1 = w1
  s1 = s1
  Absent = Absent
  Ids = {a, b, c}
  Kinds = {shell, codex}
  Peers = {local, hub}
  Bases = {fix}
  Sizes = {0}
  Inputs <- MCSlugInputs
  Actors = {w1}
  Subs = {s1}
  ListFirst = {}
  BufCap = 2
INVARIANTS SlugIdentity NoSendOnClosed MirrorAgrees
PROPERTIES LiveNotEvicted
