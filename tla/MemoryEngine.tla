---------------------------- MODULE MemoryEngine ----------------------------
(***************************************************************************)
(* MemoryEngine (crates/rust-agent/src/memory/engine.rs): an entry is a    *)
(* row, an embedding, a signature that finds it by its text, and a node of *)
(* the resident vector index.  They are separate stores, so a write is a   *)
(* sequence of calls, each of which may fail; the engine then undoes what  *)
(* it did, as well as it can.  The engine's lock lets one operation run at *)
(* a time, but the process may end between any two calls.                  *)
(*                                                                         *)
(* A text is its signature within the deduplication domain; a vector and   *)
(* the row it belongs to carry the number of the write.                    *)
(***************************************************************************)
EXTENDS Naturals, FiniteSets, Sequences

CONSTANTS
    ChunkIds,     \* deterministic ids of document chunks
    Contents,     \* texts, up to the signature
    Domains,      \* deduplication domains
    MaxEntries,   \* capacity of a namespace
    MaxWrites,    \* bound of the model: operations
    MaxMishaps    \* bound of the model: calls that fail, and crashes

VARIABLES
    entry,        \* entry[i] : the row, [text, domain, ver], ver = 0 when absent
    emb,          \* emb[i] : the vector's write number, 0 when absent
    node,         \* node[i] : the same of the resident index
    sig,          \* sig[d][x] : the id the signature maps to
    todo,         \* the calls still to make
    undo,         \* undo[k] : what to do when the k-th call fails
    mode,         \* "idle", "doing" or "undoing"
    writes,       \* operations so far
    mishaps,      \* failed calls and crashes so far
    before,       \* history: the stores when the operation began
    result,       \* history: how it ended
    torn,         \* history: ids a failed forget or a crash left incomplete
    blurred       \* history: ids a best-effort call failed on

engineVars == <<entry, emb, node, sig, todo, undo, mode, writes, mishaps, before,
                result, torn, blurred>>
stores == <<entry, emb, node, sig>>

NoId == 0
NoText == "none"
EntryIds == 1..MaxWrites   \* the n-th write's entry, if it makes one
Ids == EntryIds \cup ChunkIds
NoRow == [text |-> NoText, domain |-> NoText, ver |-> 0]

ASSUME EngineAssumption ==
    /\ EntryIds \cap ChunkIds = {} /\ NoId \notin Ids /\ NoText \notin Contents \cup Domains
    /\ MaxEntries \in Nat \ {0} /\ MaxWrites \in Nat /\ MaxMishaps \in Nat

Present(i) == i \in Ids /\ entry[i].ver > 0
Namespace(i) == IF i \in EntryIds THEN EntryIds ELSE ChunkIds
Full(ns) == Cardinality({i \in ns : Present(i)}) >= MaxEntries

\* A call: which store, which id, what it writes there.  A failure of a call
\* that must succeed ends the sequence it is in.
Must(store, i, val) == [store |-> store, id |-> i, val |-> val, must |-> TRUE]
Try(store, i, val) == [Must(store, i, val) EXCEPT !.must = FALSE]
Sig(r) == <<r.domain, r.text>>

EngineInit ==
    /\ entry = [i \in Ids |-> NoRow] /\ emb = [i \in Ids |-> 0] /\ node = [i \in Ids |-> 0]
    /\ sig = [d \in Domains |-> [x \in Contents |-> NoId]]
    /\ todo = <<>> /\ undo = <<>> /\ mode = "idle" /\ writes = 0 /\ mishaps = 0
    /\ before = <<entry, emb, node, sig>> /\ result = "ok" /\ torn = {} /\ blurred = {}

-----------------------------------------------------------------------------
(* The sequences of calls. *)

\* forget: the index first, then the embedding, then the signature if it maps
\* to this entry, and the row last, so that a failure can be retried.
ForgetCalls(i) ==
    <<Must("node", i, 0), Must("emb", i, 0)>>
    \o (IF Present(i) /\ i \in EntryIds /\ sig[entry[i].domain][entry[i].text] = i
        THEN <<Must("sig", i, [key |-> Sig(entry[i]), to |-> NoId])>>
        ELSE <<>>)
    \o <<Must("row", i, NoRow)>>

\* Mutant: the evicted entry comes back without its signature.
RestoreUnsigned(i) ==
    <<Must("row", i, entry[i])>>
    \o (IF emb[i] = 0 THEN <<>>
        ELSE <<Must("emb", i, emb[i]), Try("node", i, emb[i])>>)

\* restore_evicted: the row, its signature if the slot is free, the vector.
RestoreEvicted(i) ==
    <<Must("row", i, entry[i]), Try("slot", i, [key |-> Sig(entry[i]), to |-> i])>>
    \o (IF emb[i] = 0 THEN <<>>
        ELSE <<Must("emb", i, emb[i]), Try("node", i, emb[i])>>)

\* The new entry's calls, and what each of them undoes when it fails.
CreateCalls(i, r) ==
    <<Must("row", i, r), Must("emb", i, r.ver),
      Must("sig", i, [key |-> Sig(r), to |-> i]), Must("node", i, r.ver)>>

CreateUndo(i, r, restore) ==
    LET unsig == Try("sig", i, [key |-> Sig(r), to |-> NoId]) IN
    <<restore,
      <<Try("row", i, NoRow)>> \o restore,
      <<Try("emb", i, 0), Try("row", i, NoRow)>> \o restore,
      <<Try("node", i, 0), unsig, Try("emb", i, 0), Try("row", i, NoRow)>> \o restore>>

\* The dedupe target's refresh and a chunk's overwrite: row, embedding, index.
ReplaceCalls(i, r) == <<Must("row", i, r), Must("emb", i, r.ver), Must("node", i, r.ver)>>

ReplaceUndo(i) ==
    <<<<>>,
      <<Try("row", i, entry[i])>>,
      <<Try("row", i, entry[i])>>
      \o (IF emb[i] > 0 THEN <<Try("emb", i, emb[i]), Try("node", i, emb[i])>>
          ELSE <<Try("emb", i, 0), Try("node", i, 0)>>)>>

-----------------------------------------------------------------------------
(* Operations begin.  A read that fails ends them before any call. *)

Begin(calls, undos) ==
    /\ mode = "idle" /\ writes < MaxWrites
    /\ writes' = writes + 1 /\ mode' = "doing"
    /\ todo' = calls /\ undo' = undos
    /\ before' = <<entry, emb, node, sig>> /\ result' = "ok"
    /\ UNCHANGED <<stores, mishaps, torn, blurred>>

NoUndo(n) == [k \in 1..n |-> <<>>]

\* remember_in_domain: refresh the entry the signature finds; otherwise make a
\* new one, after evicting the entry of the domain worth least if the
\* namespace is full (which one that is, is left open), or refuse.
Target(d, x) == sig[d][x]

Refresh(d, x) ==
    LET i == Target(d, x)
        r == [text |-> x, domain |-> d, ver |-> writes + 1] IN
    /\ Present(i)
    /\ Begin(ReplaceCalls(i, r), ReplaceUndo(i))

Create(d, x) ==
    LET i == writes + 1
        r == [text |-> x, domain |-> d, ver |-> i] IN
    /\ ~Present(Target(d, x))
    /\ \/ /\ ~Full(EntryIds)
          /\ Begin(CreateCalls(i, r), CreateUndo(i, r, <<>>))
       \/ /\ Full(EntryIds)
          /\ \E e \in EntryIds :
               /\ Present(e) /\ entry[e].domain = d
               /\ LET out == ForgetCalls(e) IN
                  Begin(out \o CreateCalls(i, r),
                        NoUndo(Len(out)) \o CreateUndo(i, r, RestoreEvicted(e)))

\* insert_with_id: a chunk is replaced, or added while there is room.
insert_with_id(i) ==
    /\ i \in ChunkIds
    /\ Present(i) \/ ~Full(ChunkIds)
    /\ Begin(ReplaceCalls(i, [NoRow EXCEPT !.ver = writes + 1]), ReplaceUndo(i))

forget(i) == Present(i) /\ Begin(ForgetCalls(i), NoUndo(Len(ForgetCalls(i))))

-----------------------------------------------------------------------------
(* A call succeeds or fails. *)

Apply(c) ==
    /\ entry' = IF c.store = "row" THEN [entry EXCEPT ![c.id] = c.val] ELSE entry
    /\ emb' = IF c.store = "emb" THEN [emb EXCEPT ![c.id] = c.val] ELSE emb
    /\ node' = IF c.store = "node" THEN [node EXCEPT ![c.id] = c.val] ELSE node
    /\ sig' = IF \/ c.store = "sig"
                 \/ c.store = "slot" /\ sig[c.val.key[1]][c.val.key[2]] = NoId
              THEN [sig EXCEPT ![c.val.key[1]][c.val.key[2]] = c.val.to] ELSE sig

Mishap == mishaps < MaxMishaps /\ mishaps' = mishaps + 1

\* The index may report an error after it has taken the node in.
FailedApply(c) ==
    \/ c.store = "node" /\ c.val > 0 /\ Apply(c)
    \/ UNCHANGED stores

CallWorks ==
    /\ mode # "idle" /\ todo # <<>>
    /\ Apply(Head(todo)) /\ todo' = Tail(todo)
    /\ undo' = IF mode = "doing" THEN Tail(undo) ELSE undo
    /\ UNCHANGED <<mode, writes, mishaps, before, result, torn, blurred>>

Removes(c) == CASE c.store = "row" -> c.val = NoRow
                [] c.store = "sig" -> c.val.to = NoId
                [] OTHER -> c.val = 0

\* A forget that fails, alone or as an eviction, leaves the row for a retry.
CallFails ==
    LET c == Head(todo) IN
    /\ mode = "doing" /\ todo # <<>> /\ Mishap
    /\ FailedApply(c)
    /\ mode' = "undoing" /\ todo' = Head(undo) /\ undo' = <<>> /\ result' = "error"
    /\ torn' = IF Removes(c) THEN torn \cup {c.id} ELSE torn
    /\ UNCHANGED <<writes, before, blurred>>

UndoFails ==
    LET c == Head(todo) IN
    /\ mode = "undoing" /\ todo # <<>> /\ Mishap
    /\ FailedApply(c)
    /\ todo' = IF c.must THEN <<>> ELSE Tail(todo)
    /\ blurred' = blurred \cup {c.id}
    /\ UNCHANGED <<undo, mode, writes, before, result, torn>>

OperationEnds ==
    /\ mode # "idle" /\ todo = <<>> /\ mode' = "idle" /\ undo' = <<>>
    /\ UNCHANGED <<stores, todo, writes, mishaps, before, result, torn, blurred>>

\* The process ends; the index is rebuilt from the embeddings when next used.
Restart ==
    /\ Mishap
    /\ mode' = "idle" /\ todo' = <<>> /\ undo' = <<>>
    /\ node' = emb
    /\ torn' = IF mode = "idle" THEN torn
               ELSE torn \cup {todo[k].id : k \in 1..Len(todo)}
    /\ result' = "ok"
    /\ UNCHANGED <<entry, emb, sig, writes, before, blurred>>

EngineNext ==
    \/ \E d \in Domains, x \in Contents : Refresh(d, x) \/ Create(d, x)
    \/ \E i \in Ids : insert_with_id(i) \/ forget(i)
    \/ CallWorks \/ CallFails \/ UndoFails \/ OperationEnds \/ Restart

EngineSpec == EngineInit /\ [][EngineNext]_engineVars

-----------------------------------------------------------------------------
EngineTypeOK ==
    /\ entry \in [Ids -> [text : Contents \cup {NoText}, domain : Domains \cup {NoText},
                        ver : 0..MaxWrites]]
    /\ emb \in [Ids -> 0..MaxWrites] /\ node \in [Ids -> 0..MaxWrites]
    /\ sig \in [Domains -> [Contents -> EntryIds \cup {NoId}]]
    /\ mode \in {"idle", "doing", "undoing"}
    /\ writes \in 0..MaxWrites /\ mishaps \in 0..MaxMishaps
    /\ torn \subseteq Ids /\ blurred \subseteq Ids

Sound(i) == i \notin torn \cup blurred

\* However calls fail and whenever the process ends: an embedding, and a
\* signature, never outlives its row, so nothing unreachable takes up space and
\* a text that is kept is found again; an entry whose operations ran to their
\* end is complete in all four stores; and a write that failed leaves the
\* stores as it found them, the entry it evicted included.
EngineHolds ==
    /\ \A i \in EntryIds \ blurred : emb[i] > 0 => Present(i)
    /\ \A d \in Domains, x \in Contents : LET i == sig[d][x] IN
         i # NoId /\ i \notin blurred => Present(i) /\ Sig(entry[i]) = <<d, x>>
    /\ mode = "idle" => \A i \in Ids : Sound(i) =>
         /\ emb[i] = entry[i].ver /\ node[i] = entry[i].ver
         /\ Present(i) /\ i \in EntryIds => sig[entry[i].domain][entry[i].text] = i
    /\ mode = "idle" /\ result = "error" /\ torn \cup blurred = {} =>
         before = <<entry, emb, node, sig>>
=============================================================================
