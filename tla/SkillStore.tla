----------------------------- MODULE SkillStore -----------------------------
(***************************************************************************)
(* One skill package in the browser (crates/rust-agent/src/skills/store.rs *)
(* over files.rs): its files, the bodies of its versions, and four kinds   *)
(* of records in the key-value store, which no transaction spans.  A       *)
(* change holds the mutation lock of the origin and is a sequence of       *)
(* writes, each of which may fail; create and update undo what they wrote. *)
(* Readers take no lock, and refresh the index as they go.                 *)
(* What a SKILL.md says is a member of Bodies; its description, platforms  *)
(* and checksum are functions of it.  Reads at the start of a change that  *)
(* fail end it before it has written anything, and are left out.           *)
(***************************************************************************)
EXTENDS Integers, Sequences, FiniteSets

CONSTANTS
    Bodies,         \* contents of SKILL.md
    Tabs,           \* pages of the origin
    Retained,       \* max_retained, the versions that pruning keeps
    MaxVersion,     \* bound of the model: v1.0 is version 1
    MaxSkillFaults  \* bound of the model: failed writes and closed tabs

Absent == "absent"
Versions == 1 .. MaxVersion

ASSUME SkillAssumption ==
    /\ Absent \notin Bodies
    /\ Retained \in Nat \ {0} /\ MaxVersion \in Nat \ {0} /\ MaxSkillFaults \in Nat

VARIABLES
    pkg,        \* the stores, as one record
    change,     \* the change that holds the lock
    reader,     \* each tab's read in progress
    discovery,  \* each tab's cached index
    system,     \* history: install_system_package succeeded
    tidy,       \* history: no write of an undo failed, no change was cut off
    skillFaults \* history: failed writes and closed tabs so far

skillVars == <<pkg, change, reader, discovery, system, tidy, skillFaults>>

\* Index, metadata and head carry what they were derived from.
Meta(c, t) == [of |-> c, trust |-> t]
HeadOf(v, c, t) == [active |-> v, of |-> c, trust |-> t]
NoMeta == Meta(Absent, Absent)
NoHead == HeadOf(0, Absent, Absent)

NoPackage ==
    [md |-> Absent, res |-> FALSE, index |-> Absent, meta |-> NoMeta, head |-> NoHead,
     body |-> [v \in Versions |-> Absent], rec |-> [v \in Versions |-> Absent]]

NoChange == [kind |-> "none", tab |-> Absent, todo |-> <<>>, undoing |-> FALSE,
             clean |-> TRUE, before |-> NoPackage]
NoRead == [at |-> "idle", saw |-> Absent]

SkillTypeOK ==
    /\ pkg.md \in Bodies \cup {Absent} /\ pkg.res \in BOOLEAN /\ pkg.index \in Bodies \cup {Absent}
    /\ pkg.body \in [Versions -> Bodies \cup {Absent}]
    /\ pkg.rec \in [Versions -> {"active", "deprecated", Absent}]
    /\ discovery \in [Tabs -> Bodies \cup {Absent}]
    /\ skillFaults \in 0 .. MaxSkillFaults

-----------------------------------------------------------------------------
(* Writes.  A write names the part it changes, its new value, and what     *)
(* happens when it fails: nothing, the end of the change, or an undo.      *)

Put(part, val, fail) == [part |-> part, ver |-> 0, val |-> val, fail |-> fail]
PutVersion(part, v, val, fail) == [part |-> part, ver |-> v, val |-> val, fail |-> fail]

AfterWrite(s, w) ==
    LET Is(part, old) == IF w.part = part THEN w.val ELSE old
        Version(part, f) == IF w.part = part THEN [f EXCEPT ![w.ver] = w.val] ELSE f
    IN  [md |-> IF w.part = "package" THEN Absent ELSE Is("md", s.md),
         res |-> IF w.part = "package" THEN FALSE ELSE Is("res", s.res),
         index |-> IF w.part = "refresh" THEN w.val ELSE Is("index", s.index),
         meta |-> Is("meta", s.meta), head |-> Is("head", s.head),
         body |-> IF w.part = "bodies" THEN NoPackage.body ELSE Version("body", s.body),
         rec |-> IF w.part = "records" THEN NoPackage.rec ELSE Version("rec", s.rec)]

\* What a removal that fails may have removed already.
Partly(s, w) ==
    CASE w.part = "package" -> {s, [s EXCEPT !.md = Absent], [s EXCEPT !.res = FALSE]}
      [] w.part \in {"bodies", "records"} ->
            LET f == IF w.part = "bodies" THEN "body" ELSE "rec"
            IN  {[s EXCEPT ![f] = [v \in Versions |-> IF v \in gone THEN Absent ELSE s[f][v]]] :
                    gone \in SUBSET Versions}
      [] OTHER -> {s}

\* refresh_registered_index asks the store only where its cache differs.
CanFail(w, t) == w.part # "cache" /\ (w.part = "refresh" => discovery[t] # w.val)

create_version(v, c, fail) ==
    <<PutVersion("body", v, c, fail), PutVersion("rec", v, "active", fail)>>

\* summary: the index once more, and the tab's cache.
Summary(c, fail) == <<Put("refresh", c, fail), Put("cache", c, fail)>>

\* registered_index: best effort.
RegisteredIndex(c) == <<Put("index", c, "ignore"), Put("cache", c, "ignore")>>

create_skill_unlocked(c, fail) ==
    <<Put("md", c, fail)>> \o create_version(1, c, fail)
    \o <<Put("meta", Meta(c, "trusted"), fail), Put("head", HeadOf(1, c, "trusted"), fail),
         Put("index", c, fail)>>
    \o Summary(c, fail)

\* What a creation leaves.
Created(c) ==
    [md |-> c, res |-> FALSE, index |-> c, meta |-> Meta(c, "trusted"),
     head |-> HeadOf(1, c, "trusted"), body |-> [NoPackage.body EXCEPT ![1] = c],
     rec |-> [NoPackage.rec EXCEPT ![1] = "active"]]

\* There is no package, or one that was created on an earlier visit.
SkillInit ==
    /\ \/ pkg = NoPackage
       \/ \E c \in Bodies : pkg = Created(c)
    /\ change = NoChange
    /\ reader = [t \in Tabs |-> NoRead] /\ discovery = [t \in Tabs |-> Absent]
    /\ system = FALSE /\ tidy = TRUE /\ skillFaults = 0

\* Leftovers of an earlier attempt go first, SKILL.md is written last of the
\* files; create_skill_unlocked looks for an index once more, and it and the
\* import each discard what failed.
import_package_unlocked(c) ==
    <<Put("package", Absent, "stop"), Put("res", TRUE, "discard"), Put("check", Absent, "discard")>>
    \o create_skill_unlocked(c, "discard_twice")

\* Mutant: the head keeps the trust of an imported package.
PromotionOfMeta(c) == <<Put("meta", Meta(c, "system"), "discard")>>

\* The promotion of an imported package, in both places that hold its trust.
Promotion(c) ==
    <<Put("meta", Meta(c, "system"), "discard"), Put("head", HeadOf(1, c, "system"), "discard")>>

update_skill_locked(c) ==
    LET h == pkg.head
        old == h.active
        next == old + 1
        f == "restore"
    IN  RegisteredIndex(pkg.md)
        \o create_version(next, c, f)
        \o (IF pkg.rec[old] = Absent THEN <<>> ELSE <<PutVersion("rec", old, "deprecated", f)>>)
        \o <<Put("md", c, f), Put("index", c, f), Put("cache", c, f),
             Put("meta", Meta(c, h.trust), f), Put("head", HeadOf(next, c, h.trust), f)>>
        \o Summary(c, f)

delete_skill ==
    <<Put("package", Absent, "stop"), Put("bodies", Absent, "stop"), Put("index", Absent, "stop"),
      Put("meta", NoMeta, "stop"), Put("head", NoHead, "stop"), Put("records", Absent, "stop"),
      Put("cache", Absent, "stop")>>

\* The same stores as a deletion, the cache before and after.
clear_all_skills ==
    <<Put("package", Absent, "stop"), Put("cache", Absent, "stop"), Put("bodies", Absent, "stop"),
      Put("index", Absent, "stop"), Put("meta", NoMeta, "stop"), Put("head", NoHead, "stop"),
      Put("records", Absent, "stop"), Put("cache", Absent, "stop")>>

\* The versions beyond the newest that are kept.
Prunable ==
    {v \in Versions : pkg.rec[v] # Absent
                      /\ Cardinality({u \in Versions : u > v /\ pkg.rec[u] # Absent}) >= Retained}

\* Of each, its body and its record.
prune(order) ==
    RegisteredIndex(pkg.md)
    \o [k \in 1 .. 2 * Len(order) |->
           LET v == order[(k + 1) \div 2]
           IN  PutVersion(IF k % 2 = 1 THEN "body" ELSE "rec", v, Absent, "stop")]

discard_uncommitted_package ==
    <<Put("package", Absent, "ignore"), Put("bodies", Absent, "ignore"),
      Put("index", Absent, "ignore"), Put("meta", NoMeta, "ignore"),
      Put("head", NoHead, "ignore"), Put("records", Absent, "ignore"),
      Put("cache", Absent, "ignore")>>

\* Mutant: the version before stays deprecated.
restore_without_version(b) ==
    <<Put("md", b.md, "ignore"), PutVersion("body", b.head.active + 1, Absent, "ignore"),
      PutVersion("rec", b.head.active + 1, Absent, "ignore"),
      Put("index", b.index, "ignore"), Put("cache", b.index, "ignore"),
      Put("meta", b.meta, "ignore"), Put("head", b.head, "ignore")>>

\* restore_version_state for the version before and the one being made, and
\* the records as they were read (the index after its refresh).
restore_failed_update(b) ==
    LET old == b.head.active
        g == "ignore"
    IN  <<Put("md", b.md, g),
          PutVersion("body", old, b.body[old], g), PutVersion("rec", old, b.rec[old], g),
          PutVersion("body", old + 1, b.body[old + 1], g), PutVersion("rec", old + 1, b.rec[old + 1], g),
          Put("index", b.index, g), Put("cache", b.index, g),
          Put("meta", b.meta, g), Put("head", b.head, g)>>

UndoOf(w) ==
    CASE w.fail = "discard" -> discard_uncommitted_package
      [] w.fail = "discard_twice" -> discard_uncommitted_package \o discard_uncommitted_package
      [] w.fail = "restore" -> restore_failed_update(change.before)
      [] OTHER -> <<>>

-----------------------------------------------------------------------------
(* Changes. *)

BeginChange(t, kind, writes) ==
    /\ change = NoChange
    /\ change' = [NoChange EXCEPT !.kind = kind, !.tab = t, !.todo = writes, !.before = pkg]
    /\ UNCHANGED <<pkg, reader, discovery, system, tidy, skillFaults>>

\* "skill already exists" where there is an index or a SKILL.md.
NameFree == pkg.index = Absent /\ pkg.md = Absent

CreateSkill(t) ==
    NameFree /\ \E c \in Bodies : BeginChange(t, "create", create_skill_unlocked(c, "discard"))

ImportPackage(t) ==
    NameFree /\ \E c \in Bodies : BeginChange(t, "import", import_package_unlocked(c))

InstallSystemPackage(t) ==
    NameFree /\ \E c \in Bodies : BeginChange(t, "install", import_package_unlocked(c) \o Promotion(c))

Updatable == pkg.md # Absent /\ pkg.head # NoHead /\ pkg.head.active < MaxVersion

UpdateSkill(t) == Updatable /\ \E c \in Bodies : BeginChange(t, "update", update_skill_locked(c))

RollbackSkill(t) ==
    /\ Updatable
    /\ \E v \in Versions :
         /\ pkg.body[v] # Absent
         /\ BeginChange(t, "update", RegisteredIndex(pkg.md) \o update_skill_locked(pkg.body[v]))

IsSystem == pkg.meta.trust = "system"

DeleteSkill(t) == ~IsSystem /\ BeginChange(t, "delete", delete_skill)

\* A package is protected where its directory is still there.
ClearAllSkills(t) ==
    /\ ~(IsSystem /\ (pkg.md # Absent \/ pkg.res))
    /\ BeginChange(t, "delete", clear_all_skills)

\* Newest first.
Prune(t) ==
    /\ pkg.md # Absent /\ Prunable # {}
    /\ \E order \in [1 .. Cardinality(Prunable) -> Prunable] :
         /\ \A i, j \in DOMAIN order : i < j => order[i] > order[j]
         /\ BeginChange(t, "prune", prune(order))

Cached(w) == IF w.part = "cache" THEN [discovery EXCEPT ![change.tab] = w.val] ELSE discovery

\* What the rest of the change is once a write is behind it.  The index that
\* an update restores is read after its refresh.
Rest(w) ==
    LET m == [change EXCEPT !.todo = Tail(@)]
    IN  IF w.part = "index" /\ w.fail = "ignore" /\ ~m.undoing
        THEN [m EXCEPT !.before.index = pkg'.index]
        ELSE m

Finish(m) == IF m.todo = <<>> THEN NoChange ELSE m

WriteOk ==
    /\ change # NoChange
    /\ LET w == Head(change.todo)
       IN  /\ w.part = "check" => pkg.index = Absent
           /\ pkg' = IF CanFail(w, change.tab) THEN AfterWrite(pkg, w) ELSE pkg
           /\ discovery' = Cached(w)
           /\ change' = Finish(Rest(w))
    /\ system' = (system \/ (change' = NoChange /\ change.kind = "install" /\ ~change.undoing))
    /\ UNCHANGED <<reader, tidy, skillFaults>>

\* A reader has put an index back meanwhile: "skill already exists".
CheckFails ==
    /\ change # NoChange /\ pkg.index # Absent
    /\ LET w == Head(change.todo)
       IN  /\ w.part = "check"
           /\ change' = [change EXCEPT !.todo = UndoOf(w), !.undoing = TRUE]
    /\ UNCHANGED <<pkg, reader, discovery, system, tidy, skillFaults>>

\* A failed write of an undo is skipped; any other stops the change, and the
\* undo begins.
WriteFails ==
    /\ change # NoChange /\ skillFaults < MaxSkillFaults
    /\ skillFaults' = skillFaults + 1
    /\ LET w == Head(change.todo)
           u == UndoOf(w)
       IN  /\ CanFail(w, change.tab)
           /\ pkg' \in Partly(pkg, w)
           /\ change' = IF w.fail = "ignore"
                        THEN Finish([Rest(w) EXCEPT !.clean = @ /\ ~change.undoing])
                        ELSE Finish([change EXCEPT !.todo = u, !.undoing = TRUE])
           /\ tidy' = (tidy /\ IF w.fail = "ignore" THEN ~change.undoing ELSE w.fail # "stop")
    /\ UNCHANGED <<reader, discovery, system>>

\* The tab is closed; the browser gives its lock back.
CloseTab(t) ==
    /\ skillFaults < MaxSkillFaults
    /\ skillFaults' = skillFaults + 1
    /\ change' = IF change.tab = t THEN NoChange ELSE change
    /\ tidy' = (tidy /\ change.tab # t)
    /\ reader' = [reader EXCEPT ![t] = NoRead]
    /\ discovery' = [discovery EXCEPT ![t] = Absent]
    /\ UNCHANGED <<pkg, system>>

-----------------------------------------------------------------------------
(* Readers, at any time. *)

ReadRaw(t) ==
    /\ reader[t] = NoRead /\ pkg.md # Absent
    /\ \E why \in {"list", "load", "put_file"} :
         reader' = [reader EXCEPT ![t] = [at |-> why, saw |-> pkg.md]]
    /\ UNCHANGED <<pkg, change, discovery, system, tidy, skillFaults>>

\* A listing that finds no directory drops the package from the cache.
ListNothing(t) ==
    /\ reader[t] = NoRead /\ pkg.md = Absent /\ ~pkg.res
    /\ discovery' = [discovery EXCEPT ![t] = Absent]
    /\ UNCHANGED <<pkg, change, reader, system, tidy, skillFaults>>

\* registered_index writes always, refresh_registered_index where the cache
\* differs; a listing does not mind a failure.
RefreshIndex(t) ==
    LET r == reader[t]
        quiet == r.at # "list" /\ discovery[t] = r.saw
    IN  /\ r.at \in {"list", "load", "put_file"}
        /\ \/ /\ pkg' = IF quiet THEN pkg ELSE [pkg EXCEPT !.index = r.saw]
              /\ discovery' = [discovery EXCEPT ![t] = r.saw]
              /\ reader' = [reader EXCEPT ![t] = IF r.at = "put_file" THEN [@ EXCEPT !.at = "write"] ELSE NoRead]
              /\ UNCHANGED skillFaults
           \/ /\ ~quiet /\ skillFaults < MaxSkillFaults
              /\ skillFaults' = skillFaults + 1
              /\ discovery' = IF r.at = "list" THEN [discovery EXCEPT ![t] = r.saw] ELSE discovery
              /\ reader' = [reader EXCEPT ![t] = NoRead]
              /\ UNCHANGED pkg
        /\ UNCHANGED <<change, system, tidy>>

\* put_file writes its resource after load_raw, without the lock.
PutFile(t) ==
    /\ reader[t].at = "write"
    /\ pkg' = [pkg EXCEPT !.res = TRUE]
    /\ reader' = [reader EXCEPT ![t] = NoRead]
    /\ UNCHANGED <<change, discovery, system, tidy, skillFaults>>

ChangeStep(t) ==
    \/ CreateSkill(t) \/ ImportPackage(t) \/ InstallSystemPackage(t) \/ UpdateSkill(t)
    \/ RollbackSkill(t) \/ DeleteSkill(t) \/ ClearAllSkills(t) \/ Prune(t)

ReadStep(t) == ReadRaw(t) \/ ListNothing(t) \/ RefreshIndex(t) \/ PutFile(t)

SkillNext ==
    \/ \E t \in Tabs : ChangeStep(t) \/ ReadStep(t) \/ CloseTab(t)
    \/ WriteOk \/ CheckFails \/ WriteFails

SkillSpec == SkillInit /\ [][SkillNext]_skillVars

-----------------------------------------------------------------------------
(* Properties. *)

\* The parts of a package that the readers leave alone.
Core(s) == <<s.md, s.body, s.rec, s.meta, s.head>>

\* With no change under way, SKILL.md is the body of the active version, whose
\* record alone is active, and metadata and head describe it; or there is
\* nothing of the package.  One failed write of a creation or an update does
\* not change that, whatever readers do meanwhile.
VersionsAgree ==
    tidy /\ change = NoChange =>
        IF pkg.md = Absent
        THEN Core(pkg) = Core(NoPackage)
        ELSE LET h == pkg.head
             IN  /\ h.of = pkg.md /\ pkg.meta = Meta(pkg.md, h.trust)
                 /\ pkg.body[h.active] = pkg.md
                 /\ {v \in Versions : pkg.rec[v] = "active"} = {h.active}

\* An installed built-in package is never removed, by deletions, by clearing,
\* or by what updates, their undoing, failures and closed tabs leave behind:
\* its SKILL.md is there and its metadata still protect it.
SystemStays == system => pkg.md # Absent /\ IsSystem

SkillPackageHolds == VersionsAgree /\ SystemStays

\* A creation that failed leaves nothing, and an update that failed leaves the
\* package as it was, unless a write of the undo itself failed.
UndoRestores ==
    change.undoing /\ change.clean /\ change' = NoChange /\ skillFaults' = skillFaults =>
        Core(pkg') = IF change.kind = "update" THEN Core(change.before) ELSE Core(NoPackage)

FailedChangeUndone == [][UndoRestores]_skillVars

=============================================================================
